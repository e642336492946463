------------------------- MODULE QueueAndShopProofs -------------------------
(***************************************************************************)
(* The claims of the execution queue for every number of entries, drains,  *)
(* loops and operations, whatever the priorities and limits; and what the  *)
(* rollback of an execution restores in the shop, for every plan, whatever *)
(* its steps captured, its requests met and the merchant did meanwhile.    *)
(***************************************************************************)
EXTENDS ExecutionQueue, ShopWrites, SequenceTheorems, WellFoundedInduction, TLAPS

LEMMA LeastNatural ==
    ASSUME NEW T \in SUBSET Nat, T # {}
    PROVE  \E least \in T : \A other \in T : least <= other
  <1>1. \A x, y \in Nat : <<x, y>> \in OpToRel(<, Nat) <=> x < y
    BY DEF OpToRel
  <1>2. PICK Less : IsWellFoundedOn(Less, Nat) /\ \A x, y \in Nat : <<x, y>> \in Less <=> x < y
    BY <1>1, NatLessThanWellFounded, Zenon
  <1>3. \E x \in T : \A y \in T : ~ (<<y, x>> \in Less)
    <2>1. T \subseteq Nat
      OBVIOUS
    <2>2. IsWellFoundedOn(Less, Nat)
      BY <1>2
    <2>3. T # {}
      OBVIOUS
    <2>4. \A R, S, U : IsWellFoundedOn(R, S) /\ U \subseteq S /\ U # {} =>
                          \E x \in U : \A y \in U : ~ (<<y, x>> \in R)
      BY WFMin, Zenon
    <2>. QED  BY <2>1, <2>2, <2>3, <2>4, Zenon
  <1>4. \A x, y \in T : ~ (<<y, x>> \in Less) => x <= y
    <2>1. SUFFICES ASSUME NEW x \in T, NEW y \in T, ~ (<<y, x>> \in Less) PROVE x <= y
      OBVIOUS
    <2>2. x \in Nat /\ y \in Nat
      OBVIOUS
    <2>3. ~ (y < x)
      BY <1>2, <2>1, <2>2
    <2>. QED  BY <2>2, <2>3
  <1>. QED  BY <1>3, <1>4

\* What is claimed is there to be claimed: of the entries of the least priority
\* the oldest one is the best.
LEMMA BestIsClaimable ==
    ASSUME QueueTypeOK, Claimable # {}
    PROVE  Best \in Claimable
  <1>1. \A e \in Claimable : e \in Entries /\ e \in Nat /\ entry[e] \in EntryRec /\ entry[e].priority \in Nat
    BY QueueAssumption DEF Claimable, WithStatus, Has, QueueTypeOK, EntryRec
  <1>. DEFINE offered == {entry[e].priority : e \in Claimable}
  <1>2. PICK least \in offered : \A other \in offered : least <= other
    <2>1. offered \in SUBSET Nat /\ offered # {}
      BY <1>1
    <2>. HIDE DEF offered
    <2>. QED  BY <2>1, LeastNatural
  <1>. DEFINE first == {e \in Claimable : entry[e].priority = least}
  <1>3. PICK oldest \in first : \A other \in first : oldest <= other
    <2>1. first \in SUBSET Nat /\ first # {}
      BY <1>1, <1>2
    <2>. HIDE DEF first
    <2>. QED  BY <2>1, LeastNatural
  <1>4. \A other \in Claimable : \/ entry[oldest].priority < entry[other].priority
                                 \/ entry[oldest].priority = entry[other].priority /\ oldest <= other
    <2>1. SUFFICES ASSUME NEW other \in Claimable, entry[other].priority # least
                   PROVE  least < entry[other].priority
      BY <1>1, <1>2, <1>3
    <2>2. least <= entry[other].priority
      BY <1>2
    <2>. QED  BY <1>1, <1>2, <2>1, <2>2
  <1>. QED  BY <1>3, <1>4 DEF Best

-----------------------------------------------------------------------------
(* The strengthening *)

\* An entry that waits to be tried again may be: both limits allow it.
MayTry(r) == r.attempts = 0 \/ (r.attempts < r.maxAttempts /\ r.attempts < PolicyMax)

Working(d, e) == drain[d].pc = "work" /\ drain[d].on = e

\* The calls of an entry that waits are its attempts; the one in progress is not
\* counted as an attempt yet.
Counted ==
    /\ \A e \in Entries : Has(e) /\ entry[e].status = "QUEUED" => calls[e] = entry[e].attempts /\ MayTry(entry[e])
    /\ \A d \in Drains, e \in Entries : Working(d, e) /\ Has(e) => calls[e] = entry[e].attempts + 1 /\ MayTry(entry[e])

\* Who works on an entry was given an id that is not given again; the entry is
\* claimed, or the store has forgotten it.
Held ==
    /\ \A e \in Entries \ enqueued : ~Has(e) /\ calls[e] = 0
    /\ \A d \in Drains : drain[d].pc = "work" => drain[d].on \in enqueued
    /\ \A d \in Drains, e \in Entries : Working(d, e) /\ Has(e) => entry[e].status = "CLAIMED"

QueueInv == QueueTypeOK /\ Counted /\ Held /\ OneWorkerEach /\ AttemptsWithinLimits

LEMMA EntryFields ==
    ASSUME QueueTypeOK, NEW e \in Entries
    PROVE  Has(e) <=> entry[e] \in EntryRec
  BY QueueAssumption DEF QueueTypeOK, Has

\* A drain that does not begin to work disturbs nothing, and those that may put
\* entries back in its stead are looked at below.
LEMMA DrainTypes ==
    ASSUME QueueTypeOK, NEW d \in Drains, NEW kind \in {"none", "background", "waiter"},
           NEW p \in {"check", "pump", "backoff", "sleep"}
    PROVE  /\ drain[d] \in DrainRec
           /\ [drain EXCEPT ![d] = [Idle EXCEPT !.kind = kind, !.pc = p]] \in [Drains -> DrainRec]
           /\ [drain EXCEPT ![d] = [@ EXCEPT !.pc = p]] \in [Drains -> DrainRec]
           /\ NextLoop(d) \in [Drains -> DrainRec]
           /\ [drain EXCEPT ![d] = Idle] \in [Drains -> DrainRec]
  <1>1. drain[d] \in DrainRec /\ Idle \in DrainRec /\ drain \in [Drains -> DrainRec]
    BY DEF QueueTypeOK, DrainRec, Idle
  <1>2. [Idle EXCEPT !.kind = kind, !.pc = p] \in DrainRec
    BY <1>1 DEF DrainRec
  <1>3. [drain[d] EXCEPT !.pc = p] \in DrainRec
    BY <1>1 DEF DrainRec
  <1>4. NextLoop(d) \in [Drains -> DrainRec]
    BY <1>1 DEF NextLoop, DrainRec
  <1>. QED  BY <1>1, <1>2, <1>3, <1>4

\* A step of one drain to somewhere it does not work from, beside which nothing
\* but the pool's state changes.
LEMMA QuietDrain ==
    ASSUME QueueInv, NEW d \in Drains, drain' \in [Drains -> DrainRec],
           \A other \in Drains \ {d} : drain'[other] = drain[other],
           drain'[d].pc # "work",
           poolRunning' \in BOOLEAN, queueOps' \in Nat,
           UNCHANGED <<entry, enqueued, cancelledInFlight, calls>>
    PROVE  QueueInv'
  <1>1. QueueTypeOK'
    BY DEF QueueInv, QueueTypeOK
  <1>2. \A other \in Drains, e \in Entries : Working(other, e)' => Working(other, e)
    BY DEF Working
  <1>3. Counted' /\ Held'
    BY <1>2 DEF QueueInv, Counted, Held, Has, Working
  <1>4. OneWorkerEach' /\ AttemptsWithinLimits'
    BY DEF QueueInv, OneWorkerEach, AttemptsWithinLimits, WithStatus, Has
  <1>. QED  BY <1>1, <1>3, <1>4 DEF QueueInv

\* A step that changes one entry nobody works on.
LEMMA IdleEntryChanges ==
    ASSUME QueueInv, NEW e \in Entries, NEW r \in EntryRec,
           entry' = [entry EXCEPT ![e] = r],
           \A d \in Drains : ~Working(d, e),
           enqueued' = enqueued \cup {e},
           cancelledInFlight' \subseteq Entries, queueOps' \in Nat,
           UNCHANGED <<poolRunning, drain>>,
           calls' \in [Entries -> Nat], \A other \in Entries \ {e} : calls'[other] = calls[other],
           r.status = "QUEUED" => calls'[e] = r.attempts /\ MayTry(r),
           calls'[e] <= PolicyMax \/ calls'[e] <= 1,
           calls'[e] <= r.maxAttempts \/ calls'[e] <= 1
    PROVE  QueueInv'
  <1>1. entry'[e] = r /\ \A other \in Entries \ {e} : entry'[other] = entry[other]
    BY DEF QueueInv, QueueTypeOK
  <1>2. QueueTypeOK'
    BY DEF QueueInv, QueueTypeOK
  <1>3. \A other \in Entries \ {e} : Has(other)' <=> Has(other)
    BY <1>1 DEF Has
  <1>4. \A d \in Drains, other \in Entries : Working(d, other)' => Working(d, other) /\ other # e
    BY DEF Working
  <1>5. Counted'
    BY <1>1, <1>3, <1>4 DEF QueueInv, Counted
  <1>6. Held'
    BY <1>1, <1>3, <1>4 DEF QueueInv, Held
  <1>7. AttemptsWithinLimits'
    BY <1>1, <1>3 DEF QueueInv, AttemptsWithinLimits, WithStatus
  <1>8. OneWorkerEach'
    BY DEF QueueInv, OneWorkerEach
  <1>. QED  BY <1>2, <1>5, <1>6, <1>7, <1>8 DEF QueueInv

\* The worker's call of e returns: the drain goes on, and e is settled, left as
\* it is, or put back with its attempt counted.
LEMMA WorkEnds ==
    ASSUME QueueInv, NEW d \in Drains, drain[d].pc = "work",
           NEW e \in Entries, e = drain[d].on,
           drain' \in [Drains -> DrainRec],
           \A other \in Drains \ {d} : drain'[other] = drain[other],
           drain'[d].pc # "work",
           entry' \in [Entries -> EntryRec \cup {NoEntry}],
           \A other \in Entries \ {e} : entry'[other] = entry[other],
           Has(e)' <=> Has(e),
           Has(e) => /\ entry'[e].maxAttempts = entry[e].maxAttempts
                     /\ entry'[e].status = "QUEUED" =>
                           entry'[e].attempts = entry[e].attempts + 1 /\ MayTry(entry'[e]),
           cancelledInFlight' \subseteq Entries,
           UNCHANGED <<enqueued, poolRunning, calls, queueOps>>
    PROVE  QueueInv'
  <1>1. QueueTypeOK'
    BY DEF QueueInv, QueueTypeOK
  <1>2. Working(d, e)
    BY DEF Working
  <1>3. \A other \in Drains, x \in Entries : Working(other, x)' => Working(other, x) /\ x # e
    BY <1>2 DEF QueueInv, OneWorkerEach, Working
  <1>4. \A x \in Entries \ {e} : entry'[x] = entry[x] /\ (Has(x)' <=> Has(x)) /\ calls'[x] = calls[x]
    BY DEF Has
  <1>5. Counted'
    <2>1. \A x \in Entries : Has(x)' /\ entry'[x].status = "QUEUED" =>
                                calls'[x] = entry'[x].attempts /\ MayTry(entry'[x])
      <3>1. SUFFICES ASSUME NEW x \in Entries, Has(x)', entry'[x].status = "QUEUED"
                     PROVE  calls'[x] = entry'[x].attempts /\ MayTry(entry'[x])
        OBVIOUS
      <3>2. CASE x = e
        BY <1>2, <3>1, <3>2 DEF QueueInv, Counted
      <3>3. CASE x # e
        BY <1>4, <3>1, <3>3 DEF QueueInv, Counted
      <3>. QED  BY <3>2, <3>3
    <2>2. \A other \in Drains, x \in Entries :
             Working(other, x)' /\ Has(x)' => calls'[x] = entry'[x].attempts + 1 /\ MayTry(entry'[x])
      BY <1>3, <1>4 DEF QueueInv, Counted
    <2>. QED  BY <2>1, <2>2 DEF Counted, MayTry
  <1>6. Held'
    BY <1>3, <1>4 DEF QueueInv, Held
  <1>7. AttemptsWithinLimits'
    <2>1. \A x \in Entries : Has(x)' =>
             Has(x) /\ calls'[x] = calls[x] /\ entry'[x].maxAttempts = entry[x].maxAttempts
      BY <1>4
    <2>2. \A x \in WithStatus(EntryStatuses)' : x \in Entries /\ Has(x)'
      BY DEF WithStatus
    <2>3. \A x \in Entries : Has(x) => x \in WithStatus(EntryStatuses)
      BY EntryFields DEF QueueInv, WithStatus, EntryRec
    <2>. QED  BY <2>1, <2>2, <2>3 DEF QueueInv, AttemptsWithinLimits
  <1>8. OneWorkerEach'
    BY DEF QueueInv, OneWorkerEach
  <1>. QED  BY <1>1, <1>5, <1>6, <1>7, <1>8 DEF QueueInv

-----------------------------------------------------------------------------
(* One lemma per action *)

LEMMA InitHolds == QueueInit => QueueInv
  <1>1. Idle \in DrainRec
    BY DEF Idle, DrainRec
  <1>2. SUFFICES ASSUME QueueInit PROVE QueueInv
    OBVIOUS
  <1>3. /\ \A e \in Entries : ~Has(e) /\ calls[e] = 0
        /\ \A d \in Drains : drain[d].pc = "check"
    BY <1>2 DEF QueueInit, Has, Idle
  <1>4. QueueTypeOK
    BY <1>1, <1>2 DEF QueueInit, QueueTypeOK
  <1>5. Counted /\ Held /\ OneWorkerEach /\ AttemptsWithinLimits
    BY <1>3 DEF Counted, Held, Working, OneWorkerEach, AttemptsWithinLimits, WithStatus
  <1>. QED  BY <1>4, <1>5 DEF QueueInv

LEMMA EnqueueKeeps ==
    ASSUME QueueInv, NEW e \in Entries, Enqueue(e)
    PROVE  QueueInv'
  <1>. DEFINE r == [status |-> "QUEUED", priority |-> QueueInput[e].priority,
                    maxAttempts |-> QueueInput[e].maxAttempts, attempts |-> 0,
                    delayed |-> QueueInput[e].delayed]
  <1>1. r \in EntryRec /\ r.status = "QUEUED" /\ r.attempts = 0
    BY QueueAssumption DEF EntryRec, EntryStatuses, Settled
  <1>2. entry' = [entry EXCEPT ![e] = r]
    BY DEF Enqueue
  <1>. HIDE DEF r
  <1>3. calls[e] = 0 /\ \A d \in Drains : ~Working(d, e)
    BY DEF Enqueue, QueueInv, Held, Working
  <1>4. MayTry(r)
    BY <1>1 DEF MayTry
  <1>5. /\ enqueued' = enqueued \cup {e} /\ cancelledInFlight' \subseteq Entries /\ queueOps' \in Nat
        /\ UNCHANGED <<poolRunning, drain>> /\ calls' \in [Entries -> Nat]
        /\ calls'[e] = 0 /\ \A other \in Entries \ {e} : calls'[other] = calls[other]
    BY <1>3 DEF Enqueue, QueueInv, QueueTypeOK
  <1>6. calls'[e] <= 1
    BY <1>5
  <1>. QED  BY <1>1, <1>2, <1>3, <1>4, <1>5, <1>6, IdleEntryChanges

\* What waits, is dead or is settled is in nobody's hands.
LEMMA NobodyWorks ==
    ASSUME QueueInv, NEW e \in Entries, Has(e), entry[e].status # "CLAIMED"
    PROVE  (\A d \in Drains : ~Working(d, e)) /\ e \in enqueued /\ entry[e] \in EntryRec
  BY EntryFields DEF QueueInv, Held

LEMMA CancelKeeps ==
    ASSUME QueueInv, NEW e \in Entries, CancelEntry(e)
    PROVE  QueueInv'
  <1>1. Has(e) /\ entry[e] \in EntryRec /\ e \in WithStatus(EntryStatuses)
    BY EntryFields DEF CancelEntry, ActiveWork, WithStatus, QueueInv, EntryStatuses
  <1>2. queueOps' \in Nat
    BY DEF CancelEntry, CountedOp, QueueInv, QueueTypeOK
  <1>3. CASE entry[e].status = "CLAIMED"
    BY <1>2, <1>3 DEF CancelEntry, QueueInv, QueueTypeOK, Counted, Held, OneWorkerEach, AttemptsWithinLimits,
                      WithStatus, Has, Working
  <1>4. CASE entry[e].status # "CLAIMED"
    <2>. DEFINE r == [entry[e] EXCEPT !.status = "CANCELLED"]
    <2>1. r \in EntryRec /\ r.status = "CANCELLED" /\ r.maxAttempts = entry[e].maxAttempts
      BY <1>1 DEF EntryRec, EntryStatuses, Settled
    <2>2. entry' = [entry EXCEPT ![e] = r]
      BY <1>4 DEF CancelEntry
    <2>. HIDE DEF r
    <2>3. /\ calls[e] <= PolicyMax \/ calls[e] <= 1
          /\ calls[e] <= r.maxAttempts \/ calls[e] <= 1
      BY <1>1, <2>1 DEF QueueInv, AttemptsWithinLimits
    <2>4. (\A d \in Drains : ~Working(d, e)) /\ e \in enqueued
      BY <1>1, <1>4, NobodyWorks
    <2>5. /\ enqueued' = enqueued \cup {e} /\ cancelledInFlight' \subseteq Entries
          /\ UNCHANGED <<poolRunning, drain>> /\ calls' \in [Entries -> Nat]
          /\ \A other \in Entries : calls'[other] = calls[other]
      BY <1>4, <2>4 DEF CancelEntry, QueueInv, QueueTypeOK
    <2>6. /\ calls'[e] <= PolicyMax \/ calls'[e] <= 1
          /\ calls'[e] <= r.maxAttempts \/ calls'[e] <= 1
      BY <2>3, <2>5
    <2>7. r.status = "QUEUED" => calls'[e] = r.attempts /\ MayTry(r)
      BY <2>1
    <2>. QED  BY <1>2, <2>1, <2>2, <2>4, <2>5, <2>6, <2>7, IdleEntryChanges
  <1>. QED  BY <1>3, <1>4

LEMMA RequeueKeeps ==
    ASSUME QueueInv, NEW e \in Entries, NEW priority \in Priorities, RequeueDead(e, priority)
    PROVE  QueueInv'
  <1>1. Has(e) /\ entry[e] \in EntryRec /\ entry[e].status = "DEAD"
    BY EntryFields DEF RequeueDead, WithStatus, QueueInv
  <1>. DEFINE r == [entry[e] EXCEPT !.status = "QUEUED", !.attempts = 0,
                                    !.priority = priority, !.delayed = FALSE]
  <1>2. r \in EntryRec /\ r.status = "QUEUED" /\ r.attempts = 0
    BY <1>1, QueueAssumption DEF EntryRec, EntryStatuses, Settled
  <1>3. entry' = [entry EXCEPT ![e] = r]
    BY DEF RequeueDead
  <1>. HIDE DEF r
  <1>4. queueOps' \in Nat /\ calls' \in [Entries -> Nat] /\ calls'[e] = 0
        /\ \A other \in Entries \ {e} : calls'[other] = calls[other]
    BY DEF RequeueDead, CountedOp, QueueInv, QueueTypeOK
  <1>5. MayTry(r)
    BY <1>2 DEF MayTry
  <1>6. (\A d \in Drains : ~Working(d, e)) /\ e \in enqueued
    BY <1>1, NobodyWorks
  <1>7. /\ enqueued' = enqueued \cup {e} /\ cancelledInFlight' \subseteq Entries
        /\ UNCHANGED <<poolRunning, drain>> /\ calls'[e] <= 1
    BY <1>4, <1>6 DEF RequeueDead, QueueInv, QueueTypeOK
  <1>. QED  BY <1>2, <1>3, <1>4, <1>5, <1>6, <1>7, IdleEntryChanges

LEMMA AvailableKeeps ==
    ASSUME QueueInv, NEW e \in Entries, BecomeAvailable(e)
    PROVE  QueueInv'
  <1>1. entry[e] \in EntryRec
    BY EntryFields DEF BecomeAvailable, QueueInv
  <1>. DEFINE r == [entry[e] EXCEPT !.delayed = FALSE]
  <1>2. /\ r \in EntryRec /\ r.status = entry[e].status
        /\ r.attempts = entry[e].attempts /\ r.maxAttempts = entry[e].maxAttempts
    BY <1>1 DEF EntryRec
  <1>3. entry' = [entry EXCEPT ![e] = r]
    BY DEF BecomeAvailable
  <1>. HIDE DEF r
  <1>4. entry'[e] = r /\ \A other \in Entries \ {e} : entry'[other] = entry[other]
    BY <1>3 DEF QueueInv, QueueTypeOK
  <1>5. \A other \in Entries : Has(other)' <=> Has(other)
    BY <1>1, <1>2, <1>4, QueueAssumption DEF Has, BecomeAvailable
  <1>6. \A other \in Entries : Has(other) =>
           /\ entry'[other].status = entry[other].status
           /\ entry'[other].attempts = entry[other].attempts
           /\ entry'[other].maxAttempts = entry[other].maxAttempts
    BY <1>2, <1>4
  <1>7. QueueTypeOK'
    BY <1>2, <1>3 DEF BecomeAvailable, QueueInv, QueueTypeOK
  <1>8. \A d \in Drains, other \in Entries : Working(d, other)' <=> Working(d, other)
    BY DEF BecomeAvailable, Working
  <1>9. Counted'
    BY <1>5, <1>6, <1>8 DEF BecomeAvailable, QueueInv, Counted, MayTry
  <1>10. Held'
    BY <1>5, <1>6, <1>8 DEF BecomeAvailable, QueueInv, Held
  <1>11. OneWorkerEach' /\ AttemptsWithinLimits'
    BY <1>5, <1>6 DEF BecomeAvailable, QueueInv, OneWorkerEach, AttemptsWithinLimits, WithStatus
  <1>. QED  BY <1>7, <1>9, <1>10, <1>11 DEF QueueInv

\* Who still works on what purge forgets works on nothing the store knows.
LEMMA PurgeKeeps == ASSUME QueueInv, Purge PROVE QueueInv'
  <1>1. \A e \in Entries : entry'[e] = NoEntry
    BY DEF Purge
  <1>2. QueueTypeOK'
    BY DEF Purge, CountedOp, QueueInv, QueueTypeOK
  <1>. QED  BY <1>1, <1>2 DEF Purge, QueueInv, Counted, Held, OneWorkerEach, AttemptsWithinLimits, WithStatus, Has

LEMMA ClaimKeeps == ASSUME QueueInv, NEW d \in Drains, Claim(d) PROVE QueueInv'
  <1>. DEFINE e == Best
  <1>1. e \in Entries /\ Has(e) /\ entry[e] \in EntryRec /\ entry[e].status = "QUEUED"
    BY BestIsClaimable, EntryFields DEF Claim, Claimable, WithStatus, QueueInv
  <1>2. calls[e] = entry[e].attempts /\ MayTry(entry[e]) /\ e \in enqueued /\ \A other \in Drains : ~Working(other, e)
    BY <1>1, NobodyWorks DEF QueueInv, Counted
  <1>. DEFINE r == [entry[e] EXCEPT !.status = "CLAIMED"]
              w == [drain[d] EXCEPT !.pc = "work", !.on = e]
  <1>3. /\ r \in EntryRec /\ r.status = "CLAIMED"
        /\ r.attempts = entry[e].attempts /\ r.maxAttempts = entry[e].maxAttempts
    BY <1>1 DEF EntryRec, EntryStatuses
  <1>4. w \in DrainRec /\ w.pc = "work" /\ w.on = e
    BY <1>1 DEF QueueInv, QueueTypeOK, DrainRec
  <1>5. /\ entry' = [entry EXCEPT ![e] = r]
        /\ calls' = [calls EXCEPT ![e] = calls[e] + 1]
        /\ drain' = [drain EXCEPT ![d] = w]
        /\ UNCHANGED <<enqueued, cancelledInFlight, poolRunning, queueOps>>
    BY DEF Claim
  <1>. HIDE DEF e, r, w
  <1>6. QueueTypeOK'
    BY <1>1, <1>3, <1>4, <1>5 DEF QueueInv, QueueTypeOK
  <1>7. /\ entry'[e] = r /\ calls'[e] = calls[e] + 1 /\ drain'[d] = w
        /\ \A other \in Entries \ {e} : entry'[other] = entry[other] /\ calls'[other] = calls[other]
        /\ \A other \in Drains \ {d} : drain'[other] = drain[other]
    BY <1>1, <1>5 DEF QueueInv, QueueTypeOK
  <1>8. \A other \in Entries : Has(other)' <=> Has(other)
    BY <1>1, <1>3, <1>7, QueueAssumption DEF Has
  <1>9. \A other \in Drains, x \in Entries :
           Working(other, x)' => (other = d /\ x = e) \/ (Working(other, x) /\ x # e)
    BY <1>2, <1>4, <1>7 DEF Working
  <1>10. MayTry(r) /\ calls'[e] = r.attempts + 1
    BY <1>2, <1>3, <1>7 DEF MayTry
  <1>11. Counted'
    BY <1>3, <1>7, <1>8, <1>9, <1>10 DEF QueueInv, Counted
  <1>12. Held'
    BY <1>2, <1>3, <1>4, <1>5, <1>7, <1>8, <1>9 DEF QueueInv, Held
  <1>13. OneWorkerEach'
    <2>1. \A other \in Drains \ {d} : drain[other].pc = "work" => drain[other].on # e
      BY <1>2 DEF Working
    <2>. QED  BY <1>4, <1>7, <2>1 DEF QueueInv, OneWorkerEach
  <1>14. AttemptsWithinLimits'
    <2>1. r.attempts \in Nat /\ r.maxAttempts \in Nat /\ PolicyMax \in Nat
      BY <1>3, QueueAssumption DEF EntryRec
    <2>2. /\ calls'[e] <= PolicyMax \/ calls'[e] <= 1
          /\ calls'[e] <= r.maxAttempts \/ calls'[e] <= 1
      BY <1>10, <2>1 DEF MayTry
    <2>3. \A x \in Entries \ {e} : x \in WithStatus(EntryStatuses)' => x \in WithStatus(EntryStatuses)
      BY <1>7, <1>8 DEF WithStatus
    <2>4. WithStatus(EntryStatuses)' \subseteq Entries
      BY DEF WithStatus
    <2>. QED  BY <1>7, <2>2, <2>3, <2>4 DEF QueueInv, AttemptsWithinLimits
  <1>. QED  BY <1>6, <1>11, <1>12, <1>13, <1>14 DEF QueueInv

\* What the two returns of a worker's call have in common.
LEMMA AtWork ==
    ASSUME QueueInv, NEW d \in Drains, drain[d].pc = "work"
    PROVE  /\ drain[d].on \in Entries
           /\ Has(drain[d].on) => /\ entry[drain[d].on] \in EntryRec
                                  /\ entry[drain[d].on].status = "CLAIMED"
           /\ NextLoop(d) \in [Drains -> DrainRec] /\ NextLoop(d)[d].pc = "pump"
           /\ \A other \in Drains \ {d} : NextLoop(d)[other] = drain[other]
  <1>1. drain[d].on \in Entries
    BY DEF QueueInv, Held, QueueTypeOK
  <1>2. Working(d, drain[d].on)
    BY DEF Working
  <1>3. NextLoop(d) \in [Drains -> DrainRec]
    BY DrainTypes DEF QueueInv
  <1>4. drain \in [Drains -> DrainRec]
    BY DEF QueueInv, QueueTypeOK
  <1>5. NextLoop(d)[d].pc = "pump" /\ \A other \in Drains \ {d} : NextLoop(d)[other] = drain[other]
    BY <1>4 DEF NextLoop
  <1>. QED  BY <1>1, <1>2, <1>3, <1>5, EntryFields DEF QueueInv, Held

LEMMA SucceedKeeps == ASSUME QueueInv, NEW d \in Drains, WorkSucceeds(d) PROVE QueueInv'
  <1>1. drain[d].pc = "work" /\ drain' = NextLoop(d) /\ UNCHANGED <<enqueued, poolRunning, calls, queueOps>>
    BY DEF WorkSucceeds
  <1>2. PICK e \in Entries : e = drain[d].on
    BY <1>1, AtWork
  <1>3. /\ e \in Entries /\ (Has(e) => entry[e] \in EntryRec)
        /\ NextLoop(d) \in [Drains -> DrainRec] /\ NextLoop(d)[d].pc = "pump"
        /\ \A other \in Drains \ {d} : NextLoop(d)[other] = drain[other]
    BY <1>1, <1>2, AtWork
  <1>4. \/ entry' = entry
        \/ Has(e) /\ entry' = [entry EXCEPT ![e] = [entry[e] EXCEPT !.status = "SUCCEEDED"]]
    BY <1>2 DEF WorkSucceeds, CompleteEntry
  <1>5. cancelledInFlight' \subseteq Entries
    BY DEF WorkSucceeds, CompleteEntry, QueueInv, QueueTypeOK
  <1>6. CASE entry' = entry
    <2>1. Has(e)' <=> Has(e)
      BY <1>6 DEF Has
    <2>2. Has(e) => entry'[e].maxAttempts = entry[e].maxAttempts /\ entry'[e].status # "QUEUED"
      BY <1>1, <1>2, <1>6, AtWork
    <2>3. /\ entry' \in [Entries -> EntryRec \cup {NoEntry}]
          /\ \A other \in Entries \ {e} : entry'[other] = entry[other]
      BY <1>6 DEF QueueInv, QueueTypeOK
    <2>4. drain' \in [Drains -> DrainRec] /\ drain'[d].pc # "work"
          /\ \A other \in Drains \ {d} : drain'[other] = drain[other]
      BY <1>1, <1>3
    <2>. QED  BY <1>1, <1>2, <1>5, <2>1, <2>2, <2>3, <2>4, WorkEnds
  <1>7. CASE Has(e) /\ entry' = [entry EXCEPT ![e] = [entry[e] EXCEPT !.status = "SUCCEEDED"]]
    <2>. DEFINE r == [entry[e] EXCEPT !.status = "SUCCEEDED"]
    <2>1. r \in EntryRec /\ r.status # "QUEUED" /\ r.maxAttempts = entry[e].maxAttempts
      BY <1>7, <1>3 DEF EntryRec, EntryStatuses, Settled
    <2>2. entry' = [entry EXCEPT ![e] = r]
      BY <1>7
    <2>. HIDE DEF r
    <2>4. /\ entry' \in [Entries -> EntryRec \cup {NoEntry}] /\ entry'[e] = r
          /\ \A other \in Entries \ {e} : entry'[other] = entry[other]
      BY <2>1, <2>2 DEF QueueInv, QueueTypeOK
    <2>5. Has(e)' <=> Has(e)
      BY <1>7, <2>1, <2>4, QueueAssumption DEF Has
    <2>6. drain' \in [Drains -> DrainRec] /\ drain'[d].pc # "work"
          /\ \A other \in Drains \ {d} : drain'[other] = drain[other]
      BY <1>1, <1>3
    <2>. QED  BY <1>1, <1>2, <1>5, <2>1, <2>4, <2>5, <2>6, WorkEnds
  <1>. QED  BY <1>4, <1>6, <1>7

\* What the store does to an entry whose work failed.
LEMMA FailedEntry ==
    ASSUME QueueInv, NEW e \in Entries, Has(e) => entry[e] \in EntryRec,
           NEW attempts \in HeldAttempts(e),
           \/ Exhausted(attempts + 1) /\ DeadEntry(e)
           \/ ~Exhausted(attempts + 1) /\ FailEntry(e)
    PROVE  /\ entry' \in [Entries -> EntryRec \cup {NoEntry}]
           /\ \A other \in Entries \ {e} : entry'[other] = entry[other]
           /\ Has(e)' <=> Has(e)
           /\ Has(e) => /\ entry'[e].maxAttempts = entry[e].maxAttempts
                        /\ entry'[e].status = "QUEUED" =>
                              entry'[e].attempts = entry[e].attempts + 1 /\ MayTry(entry'[e])
           /\ cancelledInFlight' \subseteq Entries
  <1>1. cancelledInFlight' \subseteq Entries
    BY DEF DeadEntry, FailEntry, QueueInv, QueueTypeOK
  <1>2. CASE ~Has(e)
    <2>1. entry' = entry
      BY <1>2 DEF DeadEntry, FailEntry
    <2>. QED  BY <1>1, <1>2, <2>1 DEF QueueInv, QueueTypeOK, Has
  <1>3. CASE Has(e)
    <2>. DEFINE was == entry[e]
                dead == [was EXCEPT !.status = "DEAD"]
                counted == [was EXCEPT !.status = "DEAD", !.attempts = was.attempts + 1]
                again == [was EXCEPT !.status = "QUEUED", !.delayed = TRUE,
                                     !.attempts = was.attempts + 1]
    <2>1. was \in EntryRec /\ attempts = was.attempts
      BY <1>3 DEF HeldAttempts
    <2>2. was.attempts \in Nat /\ was.maxAttempts \in Nat /\ PolicyMax \in Nat
      BY <2>1, QueueAssumption DEF EntryRec
    <2>3. \/ entry' = [entry EXCEPT ![e] = dead]
          \/ entry' = [entry EXCEPT ![e] = counted]
          \/ /\ entry' = [entry EXCEPT ![e] = again]
             /\ ~ (was.attempts + 1 >= was.maxAttempts) /\ ~ (was.attempts + 1 >= PolicyMax)
      <3>1. CASE Exhausted(attempts + 1) /\ DeadEntry(e)
        BY <1>3, <3>1 DEF DeadEntry
      <3>2. CASE ~Exhausted(attempts + 1) /\ FailEntry(e) /\ was.attempts + 1 >= was.maxAttempts
        <4>1. entry' = [entry EXCEPT ![e].status = "DEAD", ![e].attempts = @ + 1]
          BY <1>3, <3>2 DEF FailEntry
        <4>2. entry \in [Entries -> EntryRec \cup {NoEntry}]
          BY DEF QueueInv, QueueTypeOK
        <4>. QED  BY <2>1, <4>1, <4>2
      <3>3. CASE ~Exhausted(attempts + 1) /\ FailEntry(e) /\ ~ (was.attempts + 1 >= was.maxAttempts)
        BY <1>3, <2>1, <3>3 DEF FailEntry, Exhausted
      <3>. QED  BY <3>1, <3>2, <3>3
    <2>4. /\ dead \in EntryRec /\ dead.status = "DEAD" /\ dead.maxAttempts = was.maxAttempts
          /\ counted \in EntryRec /\ counted.status = "DEAD" /\ counted.maxAttempts = was.maxAttempts
          /\ again \in EntryRec /\ again.maxAttempts = was.maxAttempts
          /\ again.attempts = was.attempts + 1
      <3>. HIDE DEF was
      <3>1. dead \in EntryRec /\ dead.status = "DEAD" /\ dead.maxAttempts = was.maxAttempts
        BY <2>1 DEF EntryRec, EntryStatuses, Settled
      <3>2. was.attempts + 1 \in Nat
        BY <2>2
      <3>3. counted \in EntryRec /\ counted.status = "DEAD" /\ counted.maxAttempts = was.maxAttempts
        BY <2>1, <3>2 DEF EntryRec, EntryStatuses, Settled
      <3>4. /\ again \in EntryRec /\ again.maxAttempts = was.maxAttempts
            /\ again.attempts = was.attempts + 1
        BY <2>1, <3>2 DEF EntryRec, EntryStatuses, Settled
      <3>. QED  BY <3>1, <3>3, <3>4
    <2>5. was = entry[e]
      OBVIOUS
    <2>. HIDE DEF was, dead, counted, again
    <2>6. PICK r \in {dead, counted, again} :
             /\ entry' = [entry EXCEPT ![e] = r]
             /\ r.status = "QUEUED" => was.attempts + 1 < was.maxAttempts /\ was.attempts + 1 < PolicyMax
             /\ r.status = "QUEUED" => r = again
      <3>1. CASE entry' = [entry EXCEPT ![e] = dead]
        BY <2>4, <3>1
      <3>2. CASE entry' = [entry EXCEPT ![e] = counted]
        BY <2>4, <3>2
      <3>3. CASE /\ entry' = [entry EXCEPT ![e] = again]
                 /\ ~ (was.attempts + 1 >= was.maxAttempts) /\ ~ (was.attempts + 1 >= PolicyMax)
        BY <2>2, <3>3
      <3>. QED  BY <2>3, <3>1, <3>2, <3>3
    <2>7. r \in EntryRec /\ r.maxAttempts = was.maxAttempts
      BY <2>4, <2>6
    <2>8. r.status = "QUEUED" => r.attempts = was.attempts + 1 /\ MayTry(r)
      BY <2>2, <2>4, <2>6 DEF MayTry
    <2>9. /\ entry' \in [Entries -> EntryRec \cup {NoEntry}] /\ entry'[e] = r
          /\ \A other \in Entries \ {e} : entry'[other] = entry[other]
      BY <2>6, <2>7 DEF QueueInv, QueueTypeOK
    <2>10. Has(e)'
      BY <2>7, <2>9, QueueAssumption DEF Has
    <2>. QED  BY <1>1, <1>3, <2>5, <2>7, <2>8, <2>9, <2>10
  <1>. QED  BY <1>2, <1>3

LEMMA FailKeeps == ASSUME QueueInv, NEW d \in Drains, WorkFails(d) PROVE QueueInv'
  <1>1. drain[d].pc = "work" /\ UNCHANGED <<enqueued, poolRunning, calls, queueOps>>
    BY DEF WorkFails
  <1>2. PICK e \in Entries : e = drain[d].on
    BY <1>1, AtWork
  <1>3. /\ e \in Entries /\ (Has(e) => entry[e] \in EntryRec)
        /\ NextLoop(d) \in [Drains -> DrainRec] /\ NextLoop(d)[d].pc = "pump"
        /\ \A other \in Drains \ {d} : NextLoop(d)[other] = drain[other]
    BY <1>1, <1>2, AtWork
  <1>4. PICK attempts \in HeldAttempts(e) :
           \/ Exhausted(attempts + 1) /\ DeadEntry(e) /\ drain' = NextLoop(d)
           \/ ~Exhausted(attempts + 1) /\ FailEntry(e) /\ drain' = [drain EXCEPT ![d].pc = "backoff"]
    BY <1>2 DEF WorkFails
  <1>5. drain' \in [Drains -> DrainRec] /\ drain'[d].pc # "work"
        /\ \A other \in Drains \ {d} : drain'[other] = drain[other]
    <2>1. CASE drain' = NextLoop(d)
      BY <1>3, <2>1
    <2>2. CASE drain' = [drain EXCEPT ![d].pc = "backoff"]
      BY <2>2 DEF QueueInv, QueueTypeOK, DrainRec
    <2>. QED  BY <1>4, <2>1, <2>2
  <1>6. \/ Exhausted(attempts + 1) /\ DeadEntry(e)
        \/ ~Exhausted(attempts + 1) /\ FailEntry(e)
    BY <1>4
  <1>7. /\ entry' \in [Entries -> EntryRec \cup {NoEntry}]
        /\ \A other \in Entries \ {e} : entry'[other] = entry[other]
        /\ Has(e)' <=> Has(e)
        /\ Has(e) => /\ entry'[e].maxAttempts = entry[e].maxAttempts
                     /\ entry'[e].status = "QUEUED" =>
                           entry'[e].attempts = entry[e].attempts + 1 /\ MayTry(entry'[e])
        /\ cancelledInFlight' \subseteq Entries
    BY <1>3, <1>6, FailedEntry
  <1>. QED  BY <1>1, <1>2, <1>5, <1>7, WorkEnds

\* The steps of the pool that touch no entry.
LEMMA PoolKeeps ==
    ASSUME QueueInv, NEW d \in Drains,
           StartPool(d) \/ WaitForIdle(d) \/ CheckLoop(d) \/ PumpEnds(d) \/ WakeUp(d)
    PROVE  QueueInv'
  <1>1. /\ poolRunning' \in BOOLEAN /\ queueOps' \in Nat
        /\ UNCHANGED <<entry, enqueued, cancelledInFlight, calls>>
    BY DEF StartPool, WaitForIdle, CheckLoop, PumpEnds, WakeUp, QueueInv, QueueTypeOK
  <1>2. drain[d] \in DrainRec /\ Idle \in DrainRec /\ drain \in [Drains -> DrainRec] /\ Idle.pc = "check"
    BY DEF QueueInv, QueueTypeOK, DrainRec, Idle
  <1>3. \/ \E r \in DrainRec : drain' = [drain EXCEPT ![d] = r] /\ r.pc # "work"
        \/ drain' = NextLoop(d)
    <2>1. CASE StartPool(d)
      <3>. DEFINE r == [Idle EXCEPT !.kind = "background"]
      <3>1. r \in DrainRec /\ r.pc # "work"
        BY <1>2 DEF DrainRec
      <3>. QED  BY <2>1, <3>1 DEF StartPool
    <2>2. CASE WaitForIdle(d)
      <3>. DEFINE r == [Idle EXCEPT !.kind = "waiter"]
      <3>1. r \in DrainRec /\ r.pc # "work"
        BY <1>2 DEF DrainRec
      <3>. QED  BY <2>2, <3>1 DEF WaitForIdle
    <2>3. CASE CheckLoop(d)
      <3>. DEFINE r == [drain[d] EXCEPT !.pc = "pump"]
      <3>1. r \in DrainRec /\ r.pc # "work"
        BY <1>2 DEF DrainRec
      <3>2. drain' = [drain EXCEPT ![d] = r] \/ drain' = [drain EXCEPT ![d] = Idle]
        BY <2>3 DEF CheckLoop
      <3>. QED  BY <1>2, <3>1, <3>2
    <2>4. CASE PumpEnds(d)
      <3>1. PICK p \in {"check", "sleep"} :
               drain' = [drain EXCEPT ![d] = [Idle EXCEPT !.kind = drain[d].kind, !.pc = p]]
        BY <2>4 DEF PumpEnds
      <3>. DEFINE r == [Idle EXCEPT !.kind = drain[d].kind, !.pc = p]
      <3>2. r \in DrainRec /\ r.pc # "work"
        BY <1>2 DEF DrainRec
      <3>. QED  BY <3>1, <3>2
    <2>5. CASE WakeUp(d)
      <3>. DEFINE r == [drain[d] EXCEPT !.pc = "check"]
      <3>1. r \in DrainRec /\ r.pc # "work"
        BY <1>2 DEF DrainRec
      <3>2. drain' = NextLoop(d) \/ drain' = [drain EXCEPT ![d] = r]
        BY <2>5 DEF WakeUp
      <3>. QED  BY <3>1, <3>2
    <2>. QED  BY <2>1, <2>2, <2>3, <2>4, <2>5
  <1>4. /\ drain' \in [Drains -> DrainRec] /\ drain'[d].pc # "work"
        /\ \A other \in Drains \ {d} : drain'[other] = drain[other]
    <2>1. CASE drain' = NextLoop(d)
      <3>1. NextLoop(d) \in [Drains -> DrainRec]
        BY DrainTypes DEF QueueInv
      <3>2. NextLoop(d)[d].pc = "pump" /\ \A other \in Drains \ {d} : NextLoop(d)[other] = drain[other]
        BY <1>2 DEF NextLoop
      <3>. QED  BY <2>1, <3>1, <3>2
    <2>2. CASE \E r \in DrainRec : drain' = [drain EXCEPT ![d] = r] /\ r.pc # "work"
      BY <1>2, <2>2
    <2>. QED  BY <1>3, <2>1, <2>2
  <1>. QED  BY <1>1, <1>4, QuietDrain

LEMMA StopKeeps == ASSUME QueueInv, StopPool PROVE QueueInv'
  <1>1. QueueTypeOK'
    <2>1. poolRunning' \in BOOLEAN
      BY DEF StopPool
    <2>2. queueOps' \in Nat
      BY DEF StopPool, CountedOp, QueueInv, QueueTypeOK
    <2>. QED  BY <2>1, <2>2 DEF StopPool, QueueInv, QueueTypeOK
  <1>2. Counted' /\ Held'
    BY DEF StopPool, QueueInv, Counted, Held, Has, Working, MayTry
  <1>3. OneWorkerEach' /\ AttemptsWithinLimits'
    BY DEF StopPool, QueueInv, OneWorkerEach, AttemptsWithinLimits, WithStatus, Has
  <1>. QED  BY <1>1, <1>2, <1>3 DEF QueueInv

LEMMA StepKeeps == ASSUME QueueInv, [QueueNext]_queueVars PROVE QueueInv'
  <1>1. CASE QueueNext
    <2>1. ASSUME NEW e \in Entries, Enqueue(e) \/ CancelEntry(e) \/ BecomeAvailable(e) PROVE QueueInv'
      BY <2>1, EnqueueKeeps, CancelKeeps, AvailableKeeps
    <2>2. ASSUME NEW e \in Entries, NEW priority \in Priorities, RequeueDead(e, priority) PROVE QueueInv'
      BY <2>2, RequeueKeeps
    <2>3. CASE Purge \/ StopPool
      BY <2>3, PurgeKeeps, StopKeeps
    <2>4. ASSUME NEW d \in Drains, StartPool(d) \/ WaitForIdle(d) \/ Drain(d) PROVE QueueInv'
      BY <2>4, ClaimKeeps, SucceedKeeps, FailKeeps, PoolKeeps DEF Drain
    <2>. QED  BY <1>1, <2>1, <2>2, <2>3, <2>4 DEF QueueNext
  <1>2. CASE UNCHANGED queueVars
    BY <1>2 DEF queueVars, QueueInv, QueueTypeOK, Counted, Held, OneWorkerEach, AttemptsWithinLimits,
                WithStatus, Has, Working
  <1>. QED  BY <1>1, <1>2

-----------------------------------------------------------------------------
(* The queue's claims hold *)

THEOREM QueueIsSound == QueueSpec => []QueueInv
  <1>1. QueueInv /\ [QueueNext]_queueVars => QueueInv'
    BY StepKeeps
  <1>. QED  BY <1>1, InitHolds, PTL DEF QueueSpec

\* However many drains pump the pool at once, and whatever is cancelled, purged,
\* requeued or stopped meanwhile, no entry is in two workers' hands, and none is
\* tried more often than its own limit and the policy's allow (queue-store.ts:
\* claim, fail, dead and requeueDead; retry-policy.ts: isExhausted).
THEOREM ClaimsHold == QueueSpec => []ClaimsAreKept
  <1>1. QueueInv => ClaimsAreKept
    BY DEF QueueInv, ClaimsAreKept
  <1>. QED  BY <1>1, QueueIsSound, PTL

-----------------------------------------------------------------------------
(* What an execution restores *)

\* x is a field of a resource, <<resource, field>>.
Shown(x) == shop[x[1]][x[2]]
Sent(i, x) == plan[i].resource = x[1] /\ x[2] \in FieldsOf(i)

\* v is what x holds when, of all steps, those in done have set their fields.
IsLatest(x, v, done) ==
    \/ v = Initial /\ \A i \in done : ~ Sent(i, x)
    \/ v \in done /\ Sent(v, x) /\ \A i \in done : Sent(i, x) => i <= v

\* No merchant edited x and each step that may have set it is still to be
\* restored, or was, with a value for x.
Clean(x) ==
    /\ x \in Resources \X Fields /\ x \notin edited
    /\ \A i \in StepsOf : Sent(i, x) =>
          /\ outcome[i] \notin {"failed", "stuck"}
          /\ outcome[i] = "restored" => x[2] \in DOMAIN before[i]

ShopShapes ==
    /\ plan \in ShopPlans
    /\ DOMAIN shop = Resources /\ \A r \in Resources : DOMAIN shop[r] = Fields
    /\ DOMAIN write = {"pc", "at", "sends", "state"}
    /\ write.pc \in {"read", "publish", "send", "undo", "restore", "over"}
    /\ write.at \in StepsOf
    /\ DOMAIN outcome = StepsOf /\ DOMAIN before = StepsOf

\* Steps are published in order and restored in the opposite one.
OrderOfSteps ==
    /\ write.pc \in {"read", "publish", "send"} =>
          \A i \in StepsOf : outcome[i] = IF i < write.at THEN "published" ELSE "pending"
    /\ write.pc \in {"undo", "restore"} =>
          \A j \in Published : \A i \in StepsOf : i < j => i \in Published
    /\ write.pc = "restore" =>
          write.at \in Published /\ before[write.at] # NoSnapshot /\ \A i \in Published : i <= write.at

\* A clean field holds what the last published step that writes it has set, but
\* while a request for it is on its way.
FieldsHold ==
    \A x \in Resources \X Fields :
        Clean(x) /\ (write.pc \in {"send", "restore"} => ~ Sent(write.at, x)) => IsLatest(x, Shown(x), Published)

\* What was read of a clean field is what the steps before had made of it.
CapturesHold ==
    \A x \in Resources \X Fields : Clean(x) =>
        /\ /\ write.pc \in {"publish", "send"} /\ write.state # NoSnapshot
           /\ x[1] = Step.resource /\ x[2] \in DOMAIN write.state
           => IsLatest(x, write.state[x[2]], 1 .. write.at - 1)
        /\ \A i \in StepsOf :
              before[i] # NoSnapshot /\ x[1] = plan[i].resource /\ x[2] \in DOMAIN before[i]
              => IsLatest(x, before[i][x[2]], 1 .. i - 1)

\* The merchant's edits stay in the fields no step writes.
EditsHold == \A x \in edited : x \in Resources \X Fields /\ (x \notin Writable => Shown(x) = Merchant)

RestoreInv == ShopShapes /\ OrderOfSteps /\ FieldsHold /\ CapturesHold /\ EditsHold

LEMMA PlanShape ==
    ASSUME plan \in ShopPlans
    PROVE  /\ Len(plan) \in Nat \ {0} /\ StepsOf = 1 .. Len(plan)
           /\ \A i \in StepsOf : plan[i].resource \in Resources
<1>1. plan \in Seq(ShopStep) /\ plan # <<>>
    BY ShopAssumption
<1>2. \A i \in DOMAIN plan : plan[i] \in ShopStep
    BY <1>1
<1>3. Len(plan) \in Nat /\ DOMAIN plan = 1 .. Len(plan)
    BY <1>1
<1>4. Len(plan) # 0
    BY <1>1, EmptySeq
<1> QED
    BY <1>2, <1>3, <1>4 DEF StepsOf, ShopStep

LEMMA RestoreInit == ShopInit => RestoreInv
<1> SUFFICES ASSUME ShopInit PROVE RestoreInv
    OBVIOUS
<1>1. ShopShapes
    BY PlanShape DEF ShopInit, ShopShapes
<1>2. Published = {} /\ OrderOfSteps
    BY PlanShape DEF ShopInit, OrderOfSteps, Published
<1>3. FieldsHold
    BY <1>2 DEF ShopInit, FieldsHold, IsLatest, Shown
<1>4. CapturesHold /\ EditsHold
    BY PlanShape DEF ShopInit, CapturesHold, EditsHold
<1> QED
    BY <1>1, <1>2, <1>3, <1>4 DEF RestoreInv

LEMMA RestoreImplies == RestoreInv => RestoredMeansBefore
<1> SUFFICES ASSUME RestoreInv, write.pc = "over",
                    \A i \in StepsOf : outcome[i] \in {"restored", "failed", "pending"},
                    NEW x \in (Resources \X Fields) \ NotUndone
             PROVE  /\ x \notin edited => shop[x[1]][x[2]] = Initial
                    /\ x \in edited \ Writable => shop[x[1]][x[2]] = Merchant
    BY DEF RestoredMeansBefore
<1>1. Published = {}
    BY DEF Published
<1>2. ASSUME x \notin edited
      PROVE  Shown(x) = Initial
    <2>1. Clean(x)
        BY <1>2 DEF Clean, NotUndone, Sent
    <2> QED
        BY <1>1, <2>1 DEF RestoreInv, FieldsHold, IsLatest
<1> QED
    BY <1>2 DEF RestoreInv, EditsHold, Shown

LEMMA FieldValues ==
    ASSUME RestoreInv, Sending, Applied, NEW x \in Resources \X Fields
    PROVE  /\ shop'[x[1]][x[2]] = IF x[1] = Step.resource /\ x[2] \in DOMAIN Input
                                  THEN Input[x[2]] ELSE Shown(x)
           /\ DOMAIN shop' = Resources /\ \A r \in Resources : DOMAIN shop'[r] = Fields
    BY PlanShape DEF RestoreInv, ShopShapes, Applied, Sets, Step, Shown

LEMMA UnsentStays ==
    ASSUME RestoreInv, Sending, Applied \/ UNCHANGED shop,
           NEW x \in Resources \X Fields, ~ Sent(write.at, x)
    PROVE  shop'[x[1]][x[2]] = Shown(x)
<1>1. DOMAIN Input \subseteq FieldsOf(write.at)
    BY DEF Input, RestoreInput
<1> QED
    BY <1>1, FieldValues DEF Shown, Sent, Step

LEMMA RequestShapes ==
    ASSUME RestoreInv, Sending, Applied \/ UNCHANGED shop
    PROVE  DOMAIN shop' = Resources /\ \A r \in Resources : DOMAIN shop'[r] = Fields
<1>1. CASE UNCHANGED shop
    BY <1>1 DEF RestoreInv, ShopShapes
<1>2. CASE Applied
    BY <1>2, PlanShape DEF RestoreInv, ShopShapes, Applied, Sets, Step
<1> QED
    BY <1>1, <1>2

\* A step's last outcomes stay, and so does what was captured for it.
OutcomesLast ==
    /\ plan' = plan /\ edited \subseteq edited'
    /\ \A i \in StepsOf :
          /\ outcome[i] \in {"failed", "stuck", "restored"} => outcome'[i] = outcome[i]
          /\ outcome[i] = "restored" => before'[i] = before[i]

LEMMA CleanBefore ==
    ASSUME OutcomesLast, NEW x, Clean(x)'
    PROVE  Clean(x)
    BY DEF OutcomesLast, Clean, Sent, FieldsOf, StepsOf

\* The latest value is that of the other steps when a step that does not set the
\* field is left out or taken in, and that of the step when it does.
LEMMA LatestWithout ==
    ASSUME NEW x, NEW v, NEW done, NEW i, ~ Sent(i, x)
    PROVE  /\ IsLatest(x, v, done) <=> IsLatest(x, v, done \ {i})
           /\ IsLatest(x, v, done) <=> IsLatest(x, v, done \cup {i})
    BY DEF IsLatest

LEMMA LastOfInterval ==
    ASSUME NEW n \in Nat, n # 0
    PROVE  (1 .. n) \ {n} = 1 .. n - 1 /\ (1 .. n - 1) \ {n} = 1 .. n - 1
    OBVIOUS

LEMMA LatestIsLast ==
    ASSUME NEW n \in Nat, NEW x, Sent(n, x), n # 0
    PROVE  IsLatest(x, n, 1 .. n)
    BY DEF IsLatest

LEMMA GreatestPublished ==
    ASSUME RestoreInv, Published # {}
    PROVE  NextToRestore \in Published /\ \A j \in Published : j <= NextToRestore
<1> DEFINE Bounds == {n \in Nat : \A j \in Published : j <= n}
<1>1. Published \subseteq 1 .. Len(plan) /\ Len(plan) \in Nat
    BY PlanShape DEF RestoreInv, ShopShapes, Published
<1>2. Len(plan) \in Bounds
    BY <1>1
<1>3. PICK n \in Bounds : \A m \in Bounds : n <= m
    BY <1>2, LeastNatural
<1>4. n \in Published
    <2> SUFFICES ASSUME n \notin Published PROVE FALSE
        OBVIOUS
    <2>1. PICK j \in Published : TRUE
        OBVIOUS
    <2>2. j \in Nat /\ 1 <= j /\ j <= n /\ n \in Nat
        BY <1>1, <2>1
    <2>3. n - 1 \in Nat
        BY <2>2
    <2>4. ASSUME NEW k \in Published
          PROVE  k <= n - 1
        BY <1>1, <1>3, <2>2
    <2>5. n - 1 \in Bounds
        BY <2>3, <2>4
    <2> QED
        BY <1>3, <2>2, <2>5
<1>5. \A j \in Published : j <= n
    BY <1>3
<1> QED
    BY <1>4, <1>5 DEF NextToRestore

\* While steps are published, those published are the ones before.
LEMMA PublishedSoFar ==
    ASSUME RestoreInv, write.pc \in {"read", "publish", "send"}
    PROVE  Published = 1 .. write.at - 1
    BY PlanShape DEF RestoreInv, ShopShapes, OrderOfSteps, Published

LEMMA PublishedUpTo ==
    ASSUME RestoreInv, write.pc = "restore"
    PROVE  Published = 1 .. write.at
    BY PlanShape DEF RestoreInv, ShopShapes, OrderOfSteps, Published

-----------------------------------------------------------------------------
(* Each step keeps RestoreInv *)

LEMMA TokenKeeps == RestoreInv /\ TokenChanges => RestoreInv'
<1> SUFFICES ASSUME RestoreInv, TokenChanges PROVE RestoreInv'
    OBVIOUS
<1>1. plan' = plan /\ shop' = shop /\ write' = write /\ before' = before /\ outcome' = outcome /\ edited' = edited
    BY DEF TokenChanges
<1> QED
    BY <1>1 DEF RestoreInv, ShopShapes, OrderOfSteps, FieldsHold, CapturesHold, EditsHold, Clean, IsLatest, Shown,
                Sent, FieldsOf, StepsOf, Published, Step, Writable

LEMMA StutterKeeps == RestoreInv /\ UNCHANGED shopVars => RestoreInv'
    BY DEF RestoreInv, ShopShapes, OrderOfSteps, FieldsHold, CapturesHold, EditsHold, Clean, IsLatest, Shown,
           Sent, FieldsOf, StepsOf, Published, Step, Writable, shopVars

LEMMA EditKeeps ==
    ASSUME RestoreInv, NEW r \in Resources, NEW f \in Fields, MerchantEdits(r, f)
    PROVE  RestoreInv'
<1>1. plan' = plan /\ write' = write /\ before' = before /\ outcome' = outcome /\ edited' = edited \cup {<<r, f>>}
    BY DEF MerchantEdits
<1>2. /\ DOMAIN shop' = Resources /\ \A s \in Resources : DOMAIN shop'[s] = Fields
      /\ \A x \in Resources \X Fields : shop'[x[1]][x[2]] = IF x = <<r, f>> THEN Merchant ELSE Shown(x)
    BY DEF MerchantEdits, RestoreInv, ShopShapes, Shown
<1>3. ShopShapes'
    BY <1>1, <1>2 DEF RestoreInv, ShopShapes, StepsOf
<1>4. OrderOfSteps'
    BY <1>1 DEF RestoreInv, OrderOfSteps, StepsOf, Published
<1>5. ASSUME NEW x, Clean(x)'
      PROVE  Clean(x) /\ x # <<r, f>>
    BY <1>1, <1>5 DEF Clean, Sent, FieldsOf, StepsOf
<1>6. FieldsHold'
    BY <1>1, <1>2, <1>5 DEF RestoreInv, FieldsHold, IsLatest, Shown, Sent, FieldsOf, StepsOf, Published
<1>7. CapturesHold'
    BY <1>1, <1>5 DEF RestoreInv, CapturesHold, IsLatest, Sent, FieldsOf, StepsOf, Step
<1>8. EditsHold'
    BY <1>1, <1>2 DEF RestoreInv, EditsHold, Shown, Writable, FieldsOf, StepsOf
<1> QED
    BY <1>3, <1>4, <1>6, <1>7, <1>8 DEF RestoreInv

LEMMA ReadKeeps == RestoreInv /\ ReadResource => RestoreInv'
<1> SUFFICES ASSUME RestoreInv, ReadResource PROVE RestoreInv'
    OBVIOUS
<1>1. /\ plan' = plan /\ shop' = shop /\ before' = before /\ outcome' = outcome /\ edited' = edited
      /\ write.pc = "read"
    BY DEF ReadResource, SurroundingsStay
<1>2. PICK state \in {NoSnapshot} \cup {[f \in shape |-> shop[Step.resource][f]] : shape \in Snapshots} :
          write' = [write EXCEPT !.pc = "publish", !.state = state]
    BY DEF ReadResource
<1>3. write'.pc = "publish" /\ write'.at = write.at /\ write'.state = state /\ DOMAIN write' = DOMAIN write
    BY <1>2 DEF RestoreInv, ShopShapes
<1>4. ShopShapes'
    BY <1>1, <1>3 DEF RestoreInv, ShopShapes, StepsOf
<1>5. OrderOfSteps'
    BY <1>1, <1>3 DEF RestoreInv, OrderOfSteps, StepsOf, Published
<1>6. ASSUME NEW x
      PROVE  Clean(x)' <=> Clean(x)
    BY <1>1 DEF Clean, Sent, FieldsOf, StepsOf
<1>7. FieldsHold'
    BY <1>1, <1>3, <1>6 DEF RestoreInv, FieldsHold, IsLatest, Shown, Sent, FieldsOf, StepsOf, Published
<1>8. CapturesHold'
    <2> SUFFICES ASSUME NEW x \in Resources \X Fields, Clean(x)
                 PROVE  /\ state # NoSnapshot /\ x[1] = Step.resource /\ x[2] \in DOMAIN state
                           => IsLatest(x, state[x[2]], 1 .. write.at - 1)
                        /\ \A i \in StepsOf :
                              before[i] # NoSnapshot /\ x[1] = plan[i].resource /\ x[2] \in DOMAIN before[i]
                              => IsLatest(x, before[i][x[2]], 1 .. i - 1)
        BY <1>1, <1>3, <1>6 DEF CapturesHold, IsLatest, Sent, FieldsOf, StepsOf, Step
    <2>1. IsLatest(x, Shown(x), 1 .. write.at - 1)
        BY <1>1, PublishedSoFar DEF RestoreInv, FieldsHold
    <2>2. state # NoSnapshot /\ x[1] = Step.resource /\ x[2] \in DOMAIN state => state[x[2]] = Shown(x)
        BY <1>2 DEF Shown
    <2> QED
        BY <2>1, <2>2 DEF RestoreInv, CapturesHold
<1>9. EditsHold'
    BY <1>1 DEF RestoreInv, EditsHold, Shown, Writable, FieldsOf, StepsOf
<1> QED
    BY <1>4, <1>5, <1>7, <1>8, <1>9 DEF RestoreInv

\* What the steps that capture nothing have in common.
LEMMA CapturesStay ==
    ASSUME RestoreInv, OutcomesLast, before' = before,
           write'.pc \in {"publish", "send"} =>
               write.pc \in {"publish", "send"} /\ write'.at = write.at /\ write'.state = write.state
    PROVE  CapturesHold'
<1>1. ASSUME NEW x, Clean(x)'
      PROVE  Clean(x)
    BY <1>1, CleanBefore
<1> QED
    BY <1>1 DEF RestoreInv, CapturesHold, OutcomesLast, Step, IsLatest, Sent, FieldsOf, StepsOf

LEMMA PublishKeeps == RestoreInv /\ Publish => RestoreInv'
<1> SUFFICES ASSUME RestoreInv, Publish PROVE RestoreInv'
    OBVIOUS
<1>1. /\ write.pc = "publish" /\ plan' = plan /\ shop' = shop /\ edited' = edited /\ before' = before
      /\ DOMAIN write' = DOMAIN write /\ write'.at = write.at /\ write'.state = write.state
      /\ DOMAIN outcome' = DOMAIN outcome
      /\ \/ /\ write'.pc = "undo"
            /\ \A i \in StepsOf : outcome'[i] = IF i = write.at THEN "failed" ELSE outcome[i]
         \/ write'.pc = "send" /\ outcome' = outcome
    BY DEF Publish, PublishFails, SurroundingsStay, RestoreInv, ShopShapes
<1>2. write.at \in Nat /\ StepsOf \subseteq Nat
    BY PlanShape DEF RestoreInv, ShopShapes
<1>3. \A i \in StepsOf : outcome[i] = IF i < write.at THEN "published" ELSE "pending"
    BY <1>1 DEF RestoreInv, OrderOfSteps
<1>4. OutcomesLast
    BY <1>1, <1>2, <1>3 DEF OutcomesLast
<1>5. ShopShapes'
    BY <1>1 DEF RestoreInv, ShopShapes, StepsOf
<1>6. Published' = Published
    BY <1>1, <1>2, <1>3 DEF Published, StepsOf
<1>7. OrderOfSteps'
    BY <1>1, <1>2, <1>3, <1>6 DEF OrderOfSteps, StepsOf, Published
<1>8. FieldsHold'
    <2>1. ASSUME NEW x \in Resources \X Fields, Clean(x)'
          PROVE  Clean(x) /\ IsLatest(x, Shown(x), Published)
        BY <1>1, <1>4, <2>1, CleanBefore DEF RestoreInv, FieldsHold
    <2> QED
        BY <1>1, <1>6, <2>1 DEF FieldsHold, IsLatest, Shown, Sent, FieldsOf
<1>9. CapturesHold'
    BY <1>1, <1>4, CapturesStay
<1>10. EditsHold'
    BY <1>1 DEF RestoreInv, EditsHold, Shown, Writable, FieldsOf, StepsOf
<1> QED
    BY <1>5, <1>7, <1>8, <1>9, <1>10 DEF RestoreInv

\* A step that cannot be restored leaves the published ones, and its fields are
\* no longer clean.
LEMMA RollBackKeeps == RestoreInv /\ RollBack => RestoreInv'
<1> SUFFICES ASSUME RestoreInv, RollBack PROVE RestoreInv'
    OBVIOUS
<1> DEFINE last == NextToRestore
<1>1. /\ last \in Published /\ \A j \in Published : j <= last
      /\ last \in StepsOf /\ outcome[last] = "published"
    BY GreatestPublished DEF RollBack, Published
<1> HIDE DEF last
<1>2. /\ write.pc = "undo" /\ plan' = plan /\ shop' = shop /\ edited' = edited /\ before' = before
      /\ DOMAIN write' = DOMAIN write /\ DOMAIN outcome' = DOMAIN outcome
      /\ \/ /\ before[last] # NoSnapshot /\ outcome' = outcome
            /\ write'.pc = "restore" /\ write'.at = last
         \/ /\ write' = write
            /\ \A i \in StepsOf : outcome'[i] = IF i = last THEN "stuck" ELSE outcome[i]
    BY DEF RollBack, SurroundingsStay, RestoreInv, ShopShapes, CanRestore, last
<1>3. StepsOf \subseteq Nat
    BY PlanShape DEF RestoreInv, ShopShapes
<1>4. OutcomesLast
    BY <1>1, <1>2 DEF OutcomesLast
<1>5. ShopShapes'
    BY <1>1, <1>2 DEF RestoreInv, ShopShapes, StepsOf
<1>6. \/ write'.pc = "restore" /\ Published' = Published
      \/ write'.pc = "undo" /\ Published' = Published \ {last}
    BY <1>1, <1>2 DEF Published, StepsOf
<1>7. \A j \in Published : \A i \in StepsOf : i < j => i \in Published
    BY <1>2 DEF RestoreInv, OrderOfSteps
<1>8. OrderOfSteps'
    <2>1. ASSUME NEW j \in Published', NEW i \in StepsOf, i < j
          PROVE  i \in Published'
        <3>1. j \in Published /\ j \in Nat /\ i \in Nat /\ last \in Nat
            BY <1>1, <1>3, <1>6, <2>1 DEF Published
        <3>2. i \in Published /\ i # last
            BY <1>1, <1>7, <2>1, <3>1
        <3> QED
            BY <1>6, <3>2
    <2> QED
        BY <1>1, <1>2, <1>6, <2>1 DEF OrderOfSteps, StepsOf
<1>9. FieldsHold'
    <2> SUFFICES ASSUME NEW x \in Resources \X Fields, Clean(x)'
                 PROVE  IsLatest(x, Shown(x), Published')
        BY <1>2 DEF FieldsHold, IsLatest, Shown, Sent, FieldsOf
    <2>1. IsLatest(x, Shown(x), Published)
        BY <1>2, <1>4, CleanBefore DEF RestoreInv, FieldsHold
    <2>2. CASE Published' = Published
        BY <2>1, <2>2
    <2>3. CASE Published' = Published \ {last}
        <3>1. last \notin Published' /\ last \in Published
            BY <1>1, <2>3
        <3>2. outcome'[last] = "stuck"
            BY <1>1, <1>2, <1>6, <3>1
        <3>3. ~ Sent(last, x)
            BY <1>1, <1>2, <3>2 DEF Clean, Sent, FieldsOf, StepsOf
        <3> QED
            BY <2>1, <2>3, <3>3, LatestWithout
    <2> QED
        BY <1>6, <2>2, <2>3
<1>10. CapturesHold'
    BY <1>2, <1>4, CapturesStay
<1>11. EditsHold'
    BY <1>2 DEF RestoreInv, EditsHold, Shown, Writable, FieldsOf, StepsOf
<1> QED
    BY <1>5, <1>8, <1>9, <1>10, <1>11 DEF RestoreInv

LEMMA RollbackEndKeeps == RestoreInv /\ RollbackEnds => RestoreInv'
<1> SUFFICES ASSUME RestoreInv, RollbackEnds PROVE RestoreInv'
    OBVIOUS
<1>1. /\ plan' = plan /\ shop' = shop /\ edited' = edited /\ before' = before /\ outcome' = outcome
      /\ DOMAIN write' = DOMAIN write /\ write.pc = "undo" /\ write'.pc = "over" /\ write'.at = write.at
    BY DEF RollbackEnds, SurroundingsStay, RestoreInv, ShopShapes
<1>2. ShopShapes' /\ OrderOfSteps'
    BY <1>1 DEF RestoreInv, ShopShapes, OrderOfSteps, StepsOf
<1>3. FieldsHold'
    BY <1>1 DEF RestoreInv, FieldsHold, Clean, IsLatest, Shown, Sent, FieldsOf, StepsOf, Published
<1>4. CapturesHold'
    BY <1>1, CapturesStay DEF OutcomesLast
<1>5. EditsHold'
    BY <1>1 DEF RestoreInv, EditsHold, Shown, Writable, FieldsOf, StepsOf
<1> QED
    BY <1>2, <1>3, <1>4, <1>5 DEF RestoreInv

\* No request sets a field that no step writes.
LEMMA EditsOutlive ==
    ASSUME RestoreInv, Sending, Applied \/ UNCHANGED shop, SurroundingsStay
    PROVE  EditsHold'
<1> SUFFICES ASSUME NEW x \in edited, x \notin Writable
             PROVE  shop'[x[1]][x[2]] = Merchant
    BY DEF RestoreInv, EditsHold, Shown, Writable, FieldsOf, StepsOf, SurroundingsStay
<1>1. x \in Resources \X Fields /\ Shown(x) = Merchant
    BY DEF RestoreInv, EditsHold
<1>2. ~ Sent(write.at, x)
    BY <1>1 DEF Sent, Writable, RestoreInv, ShopShapes
<1> QED
    BY <1>1, <1>2, UnsentStays

\* A request is on its way again, or a restore is made once more.
LEMMA RequestContinues ==
    ASSUME RestoreInv, Sending, Applied \/ UNCHANGED shop, Retries \/ RestoresAgain, SurroundingsStay
    PROVE  RestoreInv'
<1>1. /\ plan' = plan /\ edited' = edited /\ before' = before /\ outcome' = outcome
      /\ DOMAIN write' = DOMAIN write
      /\ write'.pc = write.pc /\ write'.at = write.at /\ write'.state = write.state
    BY DEF Retries, RestoresAgain, SurroundingsStay, RestoreInv, ShopShapes
<1>2. ShopShapes' /\ OrderOfSteps'
    BY <1>1, RequestShapes DEF RestoreInv, ShopShapes, OrderOfSteps, StepsOf, Published
<1>3. FieldsHold'
    <2> SUFFICES ASSUME NEW x \in Resources \X Fields, Clean(x)', ~ Sent(write.at, x)
                 PROVE  IsLatest(x, shop'[x[1]][x[2]], Published)
        BY <1>1 DEF FieldsHold, IsLatest, Shown, Sent, FieldsOf, Published, StepsOf, Sending
    <2>1. IsLatest(x, Shown(x), Published)
        BY <1>1, CleanBefore DEF RestoreInv, FieldsHold, OutcomesLast
    <2> QED
        BY <2>1, UnsentStays
<1>4. CapturesHold'
    BY <1>1, CapturesStay DEF OutcomesLast
<1>5. EditsHold'
    BY EditsOutlive
<1> QED
    BY <1>2, <1>3, <1>4, <1>5 DEF RestoreInv


\* The fields of a step that failed, or could not be restored, are no longer clean.
LEMMA RequestFails ==
    ASSUME RestoreInv, Sending, Applied \/ UNCHANGED shop, Fails, SurroundingsStay
    PROVE  RestoreInv'
<1>1. /\ plan' = plan /\ edited' = edited /\ before' = before
      /\ DOMAIN write' = DOMAIN write /\ DOMAIN outcome' = DOMAIN outcome
      /\ write'.pc = "undo" /\ write'.at = write.at
      /\ outcome'[write.at] = IF write.pc = "restore" THEN "stuck" ELSE "failed"
      /\ \A i \in StepsOf \ {write.at} : outcome'[i] = outcome[i]
    BY DEF Fails, RestoreEnds, PublishFails, SurroundingsStay, RestoreInv, ShopShapes
<1>2. StepsOf \subseteq Nat \ {0} /\ write.at \in StepsOf /\ write.at \in Nat /\ write.at # 0
    BY PlanShape DEF RestoreInv, ShopShapes
<1>3. \/ write.pc = "send" /\ Published = 1 .. write.at - 1 /\ outcome[write.at] = "pending"
      \/ write.pc = "restore" /\ Published = 1 .. write.at /\ outcome[write.at] = "published"
    <2>1. CASE write.pc = "send"
        <3>1. outcome[write.at] = IF write.at < write.at THEN "published" ELSE "pending"
            BY <1>2, <2>1 DEF RestoreInv, OrderOfSteps
        <3> QED
            BY <1>2, <2>1, <3>1, PublishedSoFar
    <2>2. CASE write.pc = "restore"
        <3>1. outcome[write.at] = "published"
            BY <2>2 DEF RestoreInv, OrderOfSteps, Published
        <3> QED
            BY <2>2, <3>1, PublishedUpTo
    <2> QED
        BY <2>1, <2>2 DEF Sending
<1>4. Published' = 1 .. write.at - 1 /\ Published' = Published \ {write.at}
    <2>1. Published' = Published \ {write.at}
        BY <1>1, <1>2 DEF Published, StepsOf
    <2> QED
        BY <1>2, <1>3, <2>1, LastOfInterval
<1>5. OutcomesLast
    <2>1. outcome[write.at] \in {"pending", "published"}
        BY <1>3
    <2> QED
        BY <1>1, <2>1 DEF OutcomesLast
<1>6. ShopShapes'
    BY <1>1, RequestShapes DEF RestoreInv, ShopShapes, StepsOf
<1>7. OrderOfSteps'
    BY <1>1, <1>2, <1>4 DEF OrderOfSteps, StepsOf
<1>8. FieldsHold'
    <2> SUFFICES ASSUME NEW x \in Resources \X Fields, Clean(x)'
                 PROVE  IsLatest(x, shop'[x[1]][x[2]], Published')
        BY <1>1 DEF FieldsHold, IsLatest, Shown, Sent, FieldsOf
    <2>1. ~ Sent(write.at, x)
        BY <1>1, <1>2 DEF Clean, Sent, FieldsOf, StepsOf
    <2>2. IsLatest(x, Shown(x), Published)
        BY <1>5, <2>1, CleanBefore DEF RestoreInv, FieldsHold
    <2>3. IsLatest(x, Shown(x), Published \ {write.at})
        BY <2>1, <2>2, LatestWithout
    <2> QED
        BY <1>4, <2>1, <2>3, UnsentStays
<1>9. CapturesHold'
    BY <1>1, <1>5, CapturesStay
<1>10. EditsHold'
    BY EditsOutlive
<1> QED
    BY <1>6, <1>7, <1>8, <1>9, <1>10 DEF RestoreInv

LEMMA PublishedKeeps ==
    ASSUME RestoreInv, write.pc = "send", Applied, PublishSucceeds, SurroundingsStay
    PROVE  RestoreInv'
<1>1. /\ plan' = plan /\ edited' = edited
      /\ DOMAIN write' = {"pc", "at", "sends", "state"}
      /\ DOMAIN outcome' = DOMAIN outcome /\ DOMAIN before' = DOMAIN before
      /\ \A i \in StepsOf : outcome'[i] = IF i = write.at THEN "published" ELSE outcome[i]
      /\ \A i \in StepsOf : before'[i] = IF i = write.at /\ write.state # NoSnapshot THEN write.state ELSE before[i]
      /\ \/ write.at = Len(plan) /\ write'.pc = "over" /\ write'.at = write.at
         \/ write.at # Len(plan) /\ write'.pc = "read" /\ write'.at = write.at + 1
    BY DEF PublishSucceeds, SurroundingsStay, RestoreInv, ShopShapes
<1>2. /\ Len(plan) \in Nat \ {0} /\ StepsOf = 1 .. Len(plan)
      /\ write.at \in StepsOf /\ write.at \in Nat \ {0} /\ write'.at \in StepsOf
    BY <1>1, PlanShape DEF RestoreInv, ShopShapes
<1>3. Published = 1 .. write.at - 1 /\ Published' = 1 .. write.at
    <2>1. Published = 1 .. write.at - 1
        BY PublishedSoFar
    <2>2. Published' = Published \cup {write.at}
        BY <1>1, <1>2 DEF Published, StepsOf
    <2> QED
        BY <1>2, <2>1, <2>2
<1>4. \A i \in StepsOf : outcome[i] = IF i < write.at THEN "published" ELSE "pending"
    BY DEF RestoreInv, OrderOfSteps
<1>5. OutcomesLast
    BY <1>1, <1>2, <1>4 DEF OutcomesLast
<1>6. Sending
    BY DEF Sending
<1>7. ShopShapes'
    BY <1>1, <1>2, <1>6, RequestShapes DEF RestoreInv, ShopShapes, StepsOf
<1>8. OrderOfSteps'
    BY <1>1, <1>2, <1>4 DEF OrderOfSteps, StepsOf
<1>10. FieldsHold'
    <2> SUFFICES ASSUME NEW x \in Resources \X Fields, Clean(x)'
                 PROVE  IsLatest(x, shop'[x[1]][x[2]], Published')
        BY <1>1 DEF FieldsHold, IsLatest, Shown, Sent, FieldsOf
    <2>1. CASE Sent(write.at, x)
        <3>1. x[1] = Step.resource /\ x[2] \in DOMAIN Input /\ Input[x[2]] = write.at
            BY <2>1 DEF Sent, Step, Input
        <3>2. shop'[x[1]][x[2]] = write.at
            BY <1>6, <3>1, FieldValues
        <3> QED
            BY <1>2, <1>3, <2>1, <3>2, LatestIsLast
    <2>2. CASE ~ Sent(write.at, x)
        <3>1. IsLatest(x, Shown(x), Published)
            BY <1>5, <2>2, CleanBefore DEF RestoreInv, FieldsHold
        <3>2. Published' = Published \cup {write.at}
            BY <1>2, <1>3
        <3> QED
            BY <1>6, <2>2, <3>1, <3>2, LatestWithout, UnsentStays
    <2> QED
        BY <2>1, <2>2
<1>11. CapturesHold'
    <2> SUFFICES ASSUME NEW x \in Resources \X Fields, Clean(x)', NEW i \in StepsOf,
                        before'[i] # NoSnapshot, x[1] = plan[i].resource, x[2] \in DOMAIN before'[i]
                 PROVE  IsLatest(x, before'[i][x[2]], 1 .. i - 1)
        BY <1>1 DEF CapturesHold, IsLatest, Sent, FieldsOf, StepsOf
    <2>1. Clean(x)
        BY <1>5, CleanBefore
    <2>2. CASE i = write.at /\ write.state # NoSnapshot
        BY <1>1, <2>1, <2>2 DEF RestoreInv, CapturesHold, Step
    <2>3. CASE ~ (i = write.at /\ write.state # NoSnapshot)
        <3>1. before'[i] = before[i]
            BY <1>1, <2>3
        <3> QED
            BY <2>1, <3>1 DEF RestoreInv, CapturesHold
    <2> QED
        BY <2>2, <2>3
<1>12. EditsHold'
    BY <1>6, EditsOutlive
<1> QED
    BY <1>7, <1>8, <1>10, <1>11, <1>12 DEF RestoreInv

\* A clean field that the restored step had set has what was captured of it.
LEMMA RestoredKeeps ==
    ASSUME RestoreInv, write.pc = "restore", Applied, RestoreEnds("restored"), SurroundingsStay
    PROVE  RestoreInv'
<1>1. /\ plan' = plan /\ edited' = edited /\ before' = before
      /\ DOMAIN write' = DOMAIN write /\ DOMAIN outcome' = DOMAIN outcome
      /\ write'.pc = "undo" /\ write'.at = write.at
      /\ \A i \in StepsOf : outcome'[i] = IF i = write.at THEN "restored" ELSE outcome[i]
    BY DEF RestoreEnds, SurroundingsStay, RestoreInv, ShopShapes
<1>2. StepsOf \subseteq Nat \ {0} /\ write.at \in StepsOf /\ write.at \in Nat /\ write.at # 0 /\ Sending
    BY PlanShape DEF RestoreInv, ShopShapes, Sending
<1>3. Published = 1 .. write.at /\ outcome[write.at] = "published" /\ before[write.at] # NoSnapshot
    <2>1. outcome[write.at] = "published" /\ before[write.at] # NoSnapshot
        BY DEF RestoreInv, OrderOfSteps, Published
    <2> QED
        BY <2>1, PublishedUpTo
<1>4. Published' = Published \ {write.at} /\ Published' = 1 .. write.at - 1
    <2>1. Published' = Published \ {write.at}
        BY <1>1, <1>2 DEF Published, StepsOf
    <2> QED
        BY <1>2, <1>3, <2>1, LastOfInterval
<1>5. OutcomesLast
    <2>1. outcome[write.at] = "published"
        BY <1>3
    <2> QED
        BY <1>1, <2>1 DEF OutcomesLast
<1>6. ShopShapes'
    BY <1>1, <1>2, RequestShapes DEF RestoreInv, ShopShapes, StepsOf
<1>7. OrderOfSteps'
    BY <1>1, <1>2, <1>4 DEF OrderOfSteps, StepsOf
<1>8. FieldsHold'
    <2> SUFFICES ASSUME NEW x \in Resources \X Fields, Clean(x)'
                 PROVE  IsLatest(x, shop'[x[1]][x[2]], Published')
        BY <1>1 DEF FieldsHold, IsLatest, Shown, Sent, FieldsOf
    <2>1. Clean(x)
        BY <1>5, CleanBefore
    <2>2. CASE Sent(write.at, x)
        <3>1. x[2] \in DOMAIN before[write.at]
            BY <1>1, <1>2, <2>2 DEF Clean, Sent, FieldsOf, StepsOf
        <3>2. IsLatest(x, before[write.at][x[2]], 1 .. write.at - 1)
            BY <1>2, <1>3, <2>1, <2>2, <3>1 DEF RestoreInv, CapturesHold, Sent
        <3>3. x[1] = Step.resource /\ x[2] \in DOMAIN Input /\ Input[x[2]] = before[write.at][x[2]]
            BY <2>2, <3>1 DEF Sent, Step, Input, RestoreInput
        <3>4. shop'[x[1]][x[2]] = before[write.at][x[2]]
            BY <1>2, <3>3, FieldValues
        <3> QED
            BY <1>4, <3>2, <3>4
    <2>3. CASE ~ Sent(write.at, x)
        <3>1. IsLatest(x, Shown(x), Published)
            BY <2>1, <2>3 DEF RestoreInv, FieldsHold
        <3>2. IsLatest(x, Shown(x), Published \ {write.at})
            BY <2>3, <3>1, LatestWithout
        <3> QED
            BY <1>2, <1>4, <2>3, <3>2, UnsentStays
    <2> QED
        BY <2>2, <2>3
<1>9. CapturesHold'
    BY <1>1, <1>5, CapturesStay
<1>10. EditsHold'
    BY <1>2, EditsOutlive
<1> QED
    BY <1>6, <1>7, <1>8, <1>9, <1>10 DEF RestoreInv

LEMMA RestoreStep == RestoreInv /\ [ShopNext]_shopVars => RestoreInv'
<1> SUFFICES ASSUME RestoreInv, [ShopNext]_shopVars PROVE RestoreInv'
    OBVIOUS
<1>1. CASE TokenChanges
    BY <1>1, TokenKeeps
<1>2. CASE \E r \in Resources, f \in Fields : MerchantEdits(r, f)
    BY <1>2, EditKeeps
<1>3. CASE ReadResource
    BY <1>3, ReadKeeps
<1>4. CASE Publish
    BY <1>4, PublishKeeps
<1>5. CASE RollBack
    BY <1>5, RollBackKeeps
<1>6. CASE RollbackEnds
    BY <1>6, RollbackEndKeeps
<1>7. CASE RequestAnswered
    <2>1. Sending /\ Applied /\ (Succeeds \/ RestoresAgain) /\ SurroundingsStay
        BY <1>7 DEF RequestAnswered
    <2>2. CASE RestoresAgain
        BY <2>1, <2>2, RequestContinues
    <2>3. CASE Succeeds
        BY <2>1, <2>3, PublishedKeeps, RestoredKeeps DEF Succeeds, Sending
    <2> QED
        BY <2>1, <2>2, <2>3
<1>8. CASE AnswerLost
    BY <1>8, RequestContinues, RequestFails DEF AnswerLost
<1>9. CASE RequestRefused
    BY <1>9, RequestContinues, RequestFails DEF RequestRefused
<1>10. CASE UNCHANGED shopVars
    BY <1>10, StutterKeeps
<1> QED
    BY <1>1, <1>2, <1>3, <1>4, <1>5, <1>6, <1>7, <1>8, <1>9, <1>10 DEF ShopNext

\* When every published step of an execution was restored, each field holds what
\* it held before the first of them, and the merchant's edits of other fields
\* are still there, for any plan, captured states, retries and edits.
THEOREM RollbackRestores == ShopSpec => []RestoredMeansBefore
<1>1. ShopInit => RestoreInv
    BY RestoreInit
<1>2. RestoreInv /\ [ShopNext]_shopVars => RestoreInv'
    BY RestoreStep
<1>3. RestoreInv => RestoredMeansBefore
    BY RestoreImplies
<1> QED
    BY <1>1, <1>2, <1>3, PTL DEF ShopSpec
=============================================================================
