--------------------------- MODULE DecisionProofs ---------------------------
(***************************************************************************)
(* What the approval of a plan promises of the store, for any decision,    *)
(* recommendations, rules, versions and calls of the decision engine.      *)
(* First what a plan consists of and how it is ordered, then the invariant *)
(* that ties rows, calls and store together, then each step of a call.     *)
(* And what preparing an execution promises of its steps, for any tasks;   *)
(* how the score of a recommendation moves with the evidence recorded; and *)
(* that no severe issue is missing from the report of an audit.            *)
(***************************************************************************)
EXTENDS DecisionPlans, ExecutionPreparation, LearningEngine, SeoAudit, FiniteSetTheorems, FunctionTheorems, SequenceTheorems, WellFoundedInduction, TLAPS

LEMMA LeastNumber ==
    ASSUME NEW T \in SUBSET Nat, T # {}
    PROVE  \E least \in T : \A other \in T : least <= other
<1>1. \A x, y \in Nat : <<x, y>> \in OpToRel(<, Nat) <=> x < y
    BY DEF OpToRel
<1>2. PICK Less : IsWellFoundedOn(Less, Nat) /\ \A x, y \in Nat : <<x, y>> \in Less <=> x < y
    BY <1>1, NatLessThanWellFounded, Zenon
<1>3. \A R, S, U : IsWellFoundedOn(R, S) /\ U \subseteq S /\ U # {} =>
                       \E x \in U : \A y \in U : ~ (<<y, x>> \in R)
    BY WFMin, Zenon
<1>4. PICK x \in T : \A y \in T : ~ (<<y, x>> \in Less)
    <2>1. IsWellFoundedOn(Less, Nat) /\ T \subseteq Nat /\ T # {}
        BY <1>2
    <2> QED
        BY <1>3, <2>1, Zenon
<1>5. ASSUME NEW y \in T
      PROVE  x <= y
    <2>1. x \in Nat /\ y \in Nat /\ ~ (y < x)
        BY <1>2, <1>4
    <2> QED
        BY <2>1
<1> QED
    BY <1>5

-----------------------------------------------------------------------------
(* The tasks of a plan and their order *)

LEMMA TaskShape ==
    ASSUME NEW t \in CreateTasks
    PROVE  Score[t[1]] \in Nat /\ TaskId[t] \in Nat
    BY PlanAssumption DEF CreateTasks

\* compareTasks is a strict order of all tasks.
LEMMA BeatsOrders ==
    /\ \A s, t \in CreateTasks : s # t => Beats(s, t) \/ Beats(t, s)
    /\ \A s, t, u \in CreateTasks : Beats(s, t) /\ Beats(t, u) => Beats(s, u)
    /\ \A t \in CreateTasks : ~Beats(t, t)
<1>1. ASSUME NEW s \in CreateTasks, NEW t \in CreateTasks, s # t
      PROVE  Beats(s, t) \/ Beats(t, s)
    <2>1. TaskId[s] # TaskId[t]
        BY <1>1, PlanAssumption
    <2> QED
        BY <2>1, TaskShape DEF Beats
<1>2. ASSUME NEW s \in CreateTasks, NEW t \in CreateTasks, NEW u \in CreateTasks, Beats(s, t), Beats(t, u)
      PROVE  Beats(s, u)
    <2>1. Score[s[1]] \in Nat /\ Score[t[1]] \in Nat /\ Score[u[1]] \in Nat
          /\ TaskId[s] \in Nat /\ TaskId[t] \in Nat /\ TaskId[u] \in Nat
        BY TaskShape
    <2> QED
        BY <1>2, <2>1 DEF Beats
<1>3. ASSUME NEW t \in CreateTasks
      PROVE  ~Beats(t, t)
    BY TaskShape DEF Beats
<1> QED
    BY <1>1, <1>2, <1>3

\* Whatever depends on another task comes after it.
Respects(order, T) ==
    \A i \in DOMAIN order : \A e \in Dependencies(T) :
        e[2] = order[i] => \E j \in 1 .. i - 1 : order[j] = e[1]

LEMMA SmallestIsReady ==
    ASSUME NEW ready \in SUBSET CreateTasks, ready # {}
    PROVE  SmallestId(ready) \in ready
<1>1. PICK ids : ids = {TaskId[t] : t \in ready}
    OBVIOUS
<1>2. ids \in SUBSET Nat /\ ids # {}
    BY <1>1, TaskShape
<1>3. PICK least \in ids : \A other \in ids : least <= other
    BY <1>2, LeastNumber
<1>4. PICK t \in ready : TaskId[t] = least
    BY <1>1
<1>5. \A s \in ready : TaskId[t] <= TaskId[s]
    BY <1>1, <1>3, <1>4
<1> QED
    BY <1>5 DEF SmallestId

LEMMA OrderGrows ==
    ASSUME NEW T \in SUBSET CreateTasks, NEW order \in Seq(T), Respects(order, T), ReadyAfter(T, order) # {},
           NEW longer, longer = Append(order, SmallestId(ReadyAfter(T, order)))
    PROVE  longer \in Seq(T) /\ Respects(longer, T)
<1>1. PICK t : t = SmallestId(ReadyAfter(T, order))
    OBVIOUS
<1>2. t \in ReadyAfter(T, order)
    <2>1. ReadyAfter(T, order) \in SUBSET CreateTasks
        BY DEF ReadyAfter
    <2> QED
        BY <1>1, <2>1, SmallestIsReady
<1>3. t \in T /\ \A e \in Dependencies(T) : e[2] = t => \E j \in DOMAIN order : order[j] = e[1]
    BY <1>2 DEF ReadyAfter
<1>4. PICK n \in Nat : n = Len(order) /\ DOMAIN order = 1 .. n
    OBVIOUS
<1>5. /\ longer \in Seq(T) /\ DOMAIN longer = 1 .. n + 1 /\ longer[n + 1] = t
      /\ \A j \in 1 .. n : longer[j] = order[j]
    BY <1>1, <1>3, <1>4
<1>6. ASSUME NEW i \in DOMAIN longer, NEW e \in Dependencies(T), e[2] = longer[i]
      PROVE  \E j \in 1 .. i - 1 : longer[j] = e[1]
    <2>1. CASE i = n + 1
        <3>1. PICK j \in 1 .. n : order[j] = e[1]
            BY <1>3, <1>4, <1>5, <1>6, <2>1
        <3>2. j \in 1 .. i - 1
            BY <2>1
        <3> QED
            BY <1>5, <3>1, <3>2
    <2>2. CASE i # n + 1
        <3>1. i \in 1 .. n
            BY <1>5, <2>2
        <3>2. PICK j \in 1 .. i - 1 : order[j] = e[1]
            BY <1>4, <1>5, <1>6, <3>1 DEF Respects
        <3>3. j \in 1 .. n
            BY <3>1
        <3> QED
            BY <1>5, <3>2, <3>3
    <2> QED
        BY <2>1, <2>2
<1> QED
    BY <1>5, <1>6 DEF Respects

\* topologicalOrder is defined, and respects the dependencies.
LEMMA OrderRespects ==
    ASSUME NEW T \in SUBSET CreateTasks
    PROVE  TopologicalOrder(T) \in Seq(T) /\ Respects(TopologicalOrder(T), T)
<1>1. IsFiniteSet(T) /\ Cardinality(T) \in Nat
    BY PlanAssumption, FS_Subset, FS_CardinalityType
<1>2. PICK last \in Nat : last = Cardinality(T)
    BY <1>1
<1> DEFINE Longer(order) == IF ReadyAfter(T, order) = {} THEN order
                            ELSE Append(order, SmallestId(ReadyAfter(T, order)))
           Upto(f, n) == IF n = 0 THEN <<>> ELSE Longer(f[n - 1])
           Builds(f, m) == f = [n \in 0 .. m |-> Upto(f, n)]
<1>3. ASSUME NEW m \in Nat
      PROVE  \E f : Builds(f, m)
    <2> DEFINE U == {n \in Nat : ~ \E f : Builds(f, n)}
    <2>1. U \in SUBSET Nat
        <3> HIDE DEF Builds
        <3> QED
            OBVIOUS
    <2>2. ASSUME U # {}
          PROVE  FALSE
        <3>1. PICK least \in U : \A other \in U : least <= other
            BY <2>1, <2>2, LeastNumber
        <3>2. least \in Nat /\ ~ \E f : Builds(f, least)
            BY <3>1
        <3>3. CASE least = 0
            <4>1. Builds([n \in 0 .. 0 |-> <<>>], 0)
                OBVIOUS
            <4> QED
                BY <3>2, <3>3, <4>1
        <3>4. CASE least # 0
            <4>1. least - 1 \in Nat /\ ~ (least <= least - 1)
                BY <3>2, <3>4
            <4>2. PICK f : Builds(f, least - 1)
                <5> HIDE DEF Builds
                <5> QED
                    BY <3>1, <4>1
            <4>3. PICK g : g = [n \in 0 .. least |-> IF n < least THEN f[n] ELSE Longer(f[least - 1])]
                OBVIOUS
            <4>4. ASSUME NEW n \in 0 .. least
                  PROVE  g[n] = Upto(g, n)
                <5> HIDE DEF Longer
                <5>1. CASE n = 0
                    <6>1. n < least /\ n \in 0 .. least - 1
                        BY <3>2, <3>4, <5>1
                    <6>2. g[n] = f[n] /\ f[n] = <<>>
                        BY <4>2, <4>3, <5>1, <6>1
                    <6> QED
                        BY <5>1, <6>2
                <5>2. CASE n # 0
                    <6>1. n - 1 \in 0 .. least /\ n - 1 < least
                        BY <3>2, <5>2
                    <6>2. g[n - 1] = f[n - 1]
                        BY <4>3, <6>1
                    <6>3. CASE n = least
                        <7>1. ~ (n < least) /\ n \in 0 .. least
                            BY <3>2, <6>3
                        <7>2. g[n] = Longer(f[least - 1])
                            BY <4>3, <7>1
                        <7> QED
                            BY <5>2, <6>2, <6>3, <7>2
                    <6>4. CASE n # least
                        <7>1. n \in 0 .. least - 1 /\ n < least
                            BY <3>2, <6>4
                        <7>2. g[n] = f[n]
                            BY <4>3, <7>1
                        <7>3. f[n] = Upto(f, n)
                            BY <4>2, <7>1
                        <7> QED
                            BY <5>2, <6>2, <7>2, <7>3
                    <6> QED
                        BY <6>3, <6>4
                <5> QED
                    BY <5>1, <5>2
            <4>5. Builds(g, least)
                <5> HIDE DEF Upto
                <5>1. g = [n \in 0 .. least |-> g[n]]
                    BY <4>3
                <5> QED
                    BY <4>4, <5>1
            <4> QED
                BY <3>2, <4>5
        <3> QED
            BY <3>3, <3>4
    <2> QED
        <3> HIDE DEF Builds
        <3> QED
            BY <2>2
<1>4. PICK F : F = CHOOSE f : f = [n \in 0 .. Cardinality(T) |-> IF n = 0 THEN <<>> ELSE Longer(f[n - 1])]
    OBVIOUS
<1>5. F = [n \in 0 .. last |-> IF n = 0 THEN <<>> ELSE Longer(F[n - 1])]
    <2>1. \E f : f = [n \in 0 .. Cardinality(T) |-> IF n = 0 THEN <<>> ELSE Longer(f[n - 1])]
        BY <1>2, <1>3
    <2> HIDE DEF Longer
    <2>2. F = [n \in 0 .. Cardinality(T) |-> IF n = 0 THEN <<>> ELSE Longer(F[n - 1])]
        BY <1>4, <2>1, Zenon
    <2> QED
        BY <1>2, <2>2
<1>6. TopologicalOrder(T) = F[last]
    BY <1>2, <1>4, Zenon DEF TopologicalOrder
<1>7. ASSUME NEW n \in 0 .. last
      PROVE  F[n] = IF n = 0 THEN <<>> ELSE Longer(F[n - 1])
    <2> HIDE DEF Longer
    <2> QED
        BY <1>5
<1> DEFINE Fits(n) == F[n] \in Seq(T) /\ Respects(F[n], T)
           U == {n \in 0 .. last : ~Fits(n)}
<1>8. U \in SUBSET Nat
    OBVIOUS
<1>9. ASSUME U # {}
      PROVE  FALSE
    <2>1. PICK least \in U : \A other \in U : least <= other
        BY <1>8, <1>9, LeastNumber
    <2>2. least \in 0 .. last /\ ~Fits(least)
        BY <2>1
    <2>3. CASE least = 0
        <3>1. F[least] = <<>>
            BY <1>7, <2>2, <2>3
        <3>2. <<>> \in Seq(T) /\ Respects(<<>>, T)
            BY DEF Respects
        <3> QED
            BY <2>2, <3>1, <3>2
    <2>4. CASE least # 0
        <3>1. least - 1 \in 0 .. last /\ ~ (least <= least - 1)
            BY <2>2, <2>4
        <3>2. PICK order : order = F[least - 1]
            OBVIOUS
        <3>3. order \in Seq(T) /\ Respects(order, T)
            BY <2>1, <3>1, <3>2
        <3>4. F[least] = Longer(order)
            <4> HIDE DEF Longer
            <4> QED
                BY <1>7, <2>2, <2>4, <3>2
        <3>5. Longer(order) \in Seq(T) /\ Respects(Longer(order), T)
            BY <3>3, OrderGrows
        <3> QED
            BY <2>2, <3>4, <3>5
    <2> QED
        BY <2>3, <2>4
<1>10. Fits(last)
    <2>1. last \in 0 .. last
        OBVIOUS
    <2> QED
        BY <1>9, <2>1
<1> QED
    BY <1>6, <1>10

\* What s has to come before t for.
Before(s, t) == SameResource(s, t) /\ (RuleOf(s) \in Prerequisites[RuleOf(t)] \/ Beats(s, t))

\* On a resource only neighbours depend on one another.  A task that beats
\* another and is not placed before it would have one between them of which the
\* same is true and which is nearer.
LEMMA BetterComesFirst ==
    ASSUME NEW T \in SUBSET CreateTasks, NEW order \in Seq(T), Respects(order, T),
           NEW s \in T, NEW i \in DOMAIN order, SameResource(s, order[i]), Beats(s, order[i])
    PROVE  \E j \in 1 .. i - 1 : order[j] = s
<1>1. IsFiniteSet(T) /\ DOMAIN order \subseteq Nat /\ \A k \in DOMAIN order : order[k] \in T
    BY PlanAssumption, FS_Subset
<1> DEFINE Gap(x, t) == Better(t, T) \ Better(x, T)
           Placed(x, k) == \E j \in 1 .. k - 1 : order[j] = x
           Wrong == {p \in T \X DOMAIN order :
                       SameResource(p[1], order[p[2]]) /\ Beats(p[1], order[p[2]]) /\ ~Placed(p[1], p[2])}
           Sizes == {Cardinality(Gap(p[1], order[p[2]])) : p \in Wrong}
<1>2. ASSUME NEW x, NEW t
      PROVE  IsFiniteSet(Gap(x, t)) /\ Cardinality(Gap(x, t)) \in Nat
    <2>1. Gap(x, t) \subseteq T
        BY DEF Better
    <2> QED
        BY <1>1, <2>1, FS_Subset, FS_CardinalityType
<1>3. ASSUME Wrong # {}
      PROVE  FALSE
    <2>1. Sizes \in SUBSET Nat /\ Sizes # {}
        <3> HIDE DEF Gap, Wrong
        <3> QED
            BY <1>2, <1>3
    <2>2. PICK least \in Sizes : \A other \in Sizes : least <= other
        BY <2>1, LeastNumber
    <2>3. PICK p \in Wrong : least = Cardinality(Gap(p[1], order[p[2]]))
        <3> HIDE DEF Gap, Wrong
        <3> QED
            BY <2>2
    <2>4. PICK x \in T, k \in DOMAIN order : x = p[1] /\ k = p[2]
        BY <2>3
    <2>5. PICK t \in T : t = order[k]
        BY <1>1
    <2>6. SameResource(x, t) /\ Beats(x, t) /\ ~Placed(x, k) /\ least = Cardinality(Gap(x, t))
        BY <2>3, <2>4, <2>5
    <2>7. x \in Gap(x, t)
        BY <2>6 DEF Better, SameResource
    <2>8. Gap(x, t) # {x}
        <3>1. ASSUME Gap(x, t) = {x}
              PROVE  FALSE
            <4>1. PICK e : e = <<x, t>>
                OBVIOUS
            <4>2. e[1] = x /\ e[2] = t /\ e \in T \X T
                BY <4>1
            <4>3. e \in Dependencies(T)
                BY <2>6, <3>1, <4>2 DEF Dependencies
            <4> QED
                BY <2>5, <2>6, <4>2, <4>3 DEF Respects
        <3> QED
            BY <3>1
    <2>9. PICK u \in Gap(x, t) : u # x
        BY <2>7, <2>8
    <2>10. u \in T /\ SameResource(u, t) /\ Beats(u, t) /\ ~(SameResource(u, x) /\ Beats(u, x))
        BY <2>9 DEF Better
    <2>11. SameResource(x, u) /\ SameResource(u, x)
        BY <2>6, <2>9, <2>10 DEF SameResource
    <2>12. Beats(x, u)
        BY <2>9, <2>10, <2>11, BeatsOrders
    <2>13. Gap(u, t) \subseteq Gap(x, t) /\ x \notin Gap(u, t)
        <3>1. Better(x, T) \subseteq Better(u, T)
            <4>1. ASSUME NEW z \in Better(x, T)
                  PROVE  z \in Better(u, T)
                <5>1. z \in T /\ SameResource(z, x) /\ Beats(z, x)
                    BY DEF Better
                <5>2. Beats(z, u)
                    BY <2>10, <2>12, <5>1, BeatsOrders
                <5>3. z # u
                    BY <2>10, <2>11, <5>1
                <5>4. SameResource(z, u)
                    BY <2>11, <5>1, <5>3 DEF SameResource
                <5> QED
                    BY <5>1, <5>2, <5>4 DEF Better
            <4> QED
                BY <4>1
        <3>2. x \in Better(u, T)
            BY <2>11, <2>12 DEF Better
        <3> QED
            BY <3>1, <3>2
    <2>14. Gap(x, u) \subseteq Gap(x, t) /\ u \notin Gap(x, u)
        <3>1. Better(u, T) \subseteq Better(t, T)
            <4>1. ASSUME NEW z \in Better(u, T)
                  PROVE  z \in Better(t, T)
                <5>1. z \in T /\ SameResource(z, u) /\ Beats(z, u)
                    BY DEF Better
                <5>2. Beats(z, t)
                    BY <2>10, <5>1, BeatsOrders
                <5>3. z # t
                    BY <5>2, BeatsOrders
                <5>4. SameResource(z, t)
                    BY <2>10, <5>1, <5>3 DEF SameResource
                <5> QED
                    BY <5>1, <5>2, <5>4 DEF Better
            <4> QED
                BY <4>1
        <3>2. u \notin Better(u, T)
            BY DEF Better, SameResource
        <3> QED
            BY <3>1, <3>2
    <2>15. Cardinality(Gap(u, t)) < least /\ Cardinality(Gap(x, u)) < least
        <3>1. ASSUME NEW S, NEW S2, IsFiniteSet(S), S2 \subseteq S, NEW z \in S, z \notin S2
              PROVE  Cardinality(S2) < Cardinality(S)
            <4>1. S2 # S /\ S2 \in SUBSET S
                BY <3>1
            <4>2. IsFiniteSet(S2) /\ Cardinality(S2) <= Cardinality(S) /\ Cardinality(S2) # Cardinality(S)
                BY <3>1, <4>1, FS_Subset
            <4>3. Cardinality(S2) \in Nat /\ Cardinality(S) \in Nat
                BY <3>1, <4>2, FS_CardinalityType
            <4> QED
                BY <4>2, <4>3
        <3> HIDE DEF Gap
        <3>2. Cardinality(Gap(u, t)) < Cardinality(Gap(x, t))
            BY <1>2, <2>7, <2>13, <3>1
        <3>3. Cardinality(Gap(x, u)) < Cardinality(Gap(x, t))
            BY <1>2, <2>9, <2>14, <3>1
        <3> QED
            BY <2>6, <3>2, <3>3
    <2>16. ASSUME NEW y \in T, NEW l \in DOMAIN order, SameResource(y, order[l]), Beats(y, order[l]),
                  Cardinality(Gap(y, order[l])) < least
           PROVE  Placed(y, l)
        <3>1. PICK q : q = <<y, l>>
            OBVIOUS
        <3>2. q \in T \X DOMAIN order /\ q[1] = y /\ q[2] = l
            BY <3>1
        <3>3. q \notin Wrong
            <4>1. ASSUME q \in Wrong
                  PROVE  FALSE
                <5> HIDE DEF Gap, Wrong
                <5>1. Cardinality(Gap(y, order[l])) \in Sizes
                    BY <3>2, <4>1
                <5>2. least <= Cardinality(Gap(y, order[l])) /\ least \in Nat
                    BY <2>1, <2>2, <5>1
                <5> QED
                    BY <1>2, <2>16, <5>2
            <4> QED
                BY <4>1
        <3>4. ~Placed(q[1], q[2]) => q \in Wrong
            <4> HIDE DEF Placed
            <4>1. SameResource(q[1], order[q[2]]) /\ Beats(q[1], order[q[2]])
                BY <2>16, <3>2
            <4> QED
                BY <3>2, <4>1
        <3>5. Placed(q[1], q[2])
            BY <3>3, <3>4
        <3> QED
            BY <3>2, <3>5
    <2>17. PICK l \in 1 .. k - 1 : order[l] = u
        BY <2>5, <2>10, <2>15, <2>16
    <2>18. l \in DOMAIN order /\ k \in Nat
        BY <2>17
    <2>19. PICK j \in 1 .. l - 1 : order[j] = x
        BY <2>11, <2>12, <2>15, <2>16, <2>17, <2>18
    <2>20. j \in 1 .. k - 1
        BY <2>17, <2>18, <2>19
    <2> QED
        BY <2>6, <2>19, <2>20
<1>4. PICK q : q = <<s, i>>
    OBVIOUS
<1>5. q \notin Wrong /\ q \in T \X DOMAIN order /\ q[1] = s /\ q[2] = i
    BY <1>3, <1>4
<1> QED
    BY <1>5

LEMMA RunsInOrder ==
    ASSUME NEW T \in SUBSET CreateTasks, NEW s \in T, NEW i \in DOMAIN TopologicalOrder(T),
           Before(s, TopologicalOrder(T)[i])
    PROVE  \E j \in 1 .. i - 1 : TopologicalOrder(T)[j] = s
<1>1. PICK order \in Seq(T) : order = TopologicalOrder(T) /\ Respects(order, T)
    BY OrderRespects
<1>2. PICK t \in T : t = order[i]
    BY <1>1
<1>3. CASE Beats(s, t)
    BY <1>1, <1>2, <1>3, BetterComesFirst DEF Before
<1>4. CASE RuleOf(s) \in Prerequisites[RuleOf(t)]
    <2>1. PICK e : e = <<s, t>>
        OBVIOUS
    <2>2. e[1] = s /\ e[2] = t /\ e \in T \X T
        BY <2>1
    <2>3. e \in Dependencies(T)
        BY <1>1, <1>2, <1>4, <2>2 DEF Dependencies, Before
    <2> QED
        BY <1>1, <1>2, <2>2, <2>3 DEF Respects
<1> QED
    BY <1>1, <1>2, <1>3, <1>4 DEF Before

\* Of two tasks that conflict, one is dropped.
LEMMA KeepHasNoConflict ==
    ASSUME NEW max \in Int
    PROVE  /\ Keep(max) \subseteq CreateTasks
           /\ \A s, t \in Keep(max) : ~Conflict(s, t)
<1>1. Keep(max) \subseteq CreateTasks \ ExcludedTasks(CreateTasks)
    BY DEF Keep, CapPerResource
<1>2. ASSUME NEW s \in Keep(max), NEW t \in Keep(max), Conflict(s, t)
      PROVE  FALSE
    <2>1. s \in CreateTasks /\ t \in CreateTasks /\ s # t
        BY <1>1, <1>2 DEF Conflict, SameResource
    <2>2. Conflict(t, s)
        BY <1>2 DEF Conflict, SameResource, Duplicate, IncompatibleActions, MutuallyExclusive
    <2>3. Beats(s, t) \/ Beats(t, s)
        BY <2>1, BeatsOrders
    <2>4. s \in ExcludedTasks(CreateTasks) \/ t \in ExcludedTasks(CreateTasks)
        BY <1>2, <2>1, <2>2, <2>3 DEF ExcludedTasks
    <2> QED
        BY <1>1, <2>4
<1> QED
    BY <1>1, <1>2

\* Of the tasks of one resource that are kept, one is beaten by all others.
LEMMA WorstTask ==
    ASSUME NEW C \in SUBSET CreateTasks, C # {}
    PROVE  \E worst \in C : \A s \in C : s = worst \/ Beats(s, worst)
<1>1. IsFiniteSet(C) /\ Cardinality(C) \in Nat
    BY PlanAssumption, FS_Subset, FS_CardinalityType
<1> DEFINE Behind(t) == {s \in C : Beats(t, s)}
           Sizes == {Cardinality(Behind(t)) : t \in C}
<1>2. ASSUME NEW t
      PROVE  IsFiniteSet(Behind(t)) /\ Cardinality(Behind(t)) \in Nat
    BY <1>1, FS_Subset, FS_CardinalityType
<1>3. Sizes \in SUBSET Nat /\ Sizes # {}
    <2> HIDE DEF Behind
    <2> QED
        BY <1>2
<1>4. PICK least \in Sizes : \A other \in Sizes : least <= other
    BY <1>3, LeastNumber
<1>5. PICK worst \in C : least = Cardinality(Behind(worst))
    BY <1>4
<1>6. ASSUME NEW s \in C, s # worst, ~Beats(s, worst)
      PROVE  FALSE
    <2>1. Beats(worst, s)
        BY <1>6, BeatsOrders
    <2>2. s \in Behind(worst) /\ s \notin Behind(s)
        BY <2>1, BeatsOrders
    <2>3. Behind(s) \subseteq Behind(worst)
        BY <2>1, BeatsOrders
    <2> HIDE DEF Behind
    <2>4. Cardinality(Behind(s)) < Cardinality(Behind(worst))
        <3>1. Behind(s) # Behind(worst)
            BY <2>2
        <3> QED
            BY <1>2, <2>3, <3>1, FS_Subset
    <2>5. least <= Cardinality(Behind(s))
        BY <1>4
    <2> QED
        BY <1>2, <1>5, <2>4, <2>5
<1> QED
    BY <1>6

\* capPerResource keeps no more of a resource than the cap.
LEMMA KeepIsCapped ==
    ASSUME NEW max \in Int, max > 0, NEW D \in SUBSET Keep(max), NEW t \in D
    PROVE  Cardinality({s \in D : s[2] = t[2]}) <= max
<1>1. PICK left : left = CreateTasks \ ExcludedTasks(CreateTasks)
    OBVIOUS
<1>2. \A s \in D : s \in left /\ s \in CreateTasks /\ Cardinality(Better(s, left)) < max
    BY <1>1 DEF Keep, CapPerResource
<1>3. PICK C : C = {s \in D : s[2] = t[2]}
    OBVIOUS
<1>4. C \in SUBSET CreateTasks /\ C # {} /\ IsFiniteSet(C) /\ Cardinality(C) \in Nat
    <2>1. C \subseteq CreateTasks /\ t \in C
        BY <1>2, <1>3
    <2> QED
        BY <2>1, PlanAssumption, FS_Subset, FS_CardinalityType
<1>5. PICK worst \in C : \A s \in C : s = worst \/ Beats(s, worst)
    BY <1>4, WorstTask
<1>6. C \ {worst} \subseteq Better(worst, left)
    BY <1>2, <1>3, <1>5 DEF Better, SameResource
<1>7. IsFiniteSet(Better(worst, left)) /\ Cardinality(Better(worst, left)) \in Nat
    <2>1. Better(worst, left) \subseteq CreateTasks
        BY <1>1 DEF Better
    <2> QED
        BY <2>1, PlanAssumption, FS_Subset, FS_CardinalityType
<1>8. Cardinality(C \ {worst}) = Cardinality(C) - 1
    BY <1>4, <1>5, FS_RemoveElement
<1>9. Cardinality(C \ {worst}) <= Cardinality(Better(worst, left))
    BY <1>6, <1>7, FS_Subset
<1>10. Cardinality(Better(worst, left)) < max
    BY <1>2, <1>3, <1>5
<1> QED
    BY <1>3, <1>4, <1>7, <1>8, <1>9, <1>10

-----------------------------------------------------------------------------
(* What holds in every state *)

\* A table of statuses is of all tasks of the plan or of none, and none is
\* done before one that comes first.
Table(held) ==
    /\ \A t \in CreateTasks \ Plan.tasks : held[t] = "absent"
    /\ \A s, t \in Plan.tasks : held[s] = "absent" => held[t] = "absent"
    /\ \A s, t \in CreateTasks : Before(s, t) /\ held[s] = "PENDING" => held[t] \notin {"COMPLETED", "FAILED"}

\* Where a call may be, and with what, and that a loop left nothing behind it undone.
CallOK(call) ==
    /\ call.at = "idle" <=> call.op = "none"
    /\ call.op # "none" => call.version \in Versions
    /\ Table(call.held)
    /\ call.op = "plan" => \A t \in CreateTasks : call.held[t] \in {"absent", "PENDING"}
    /\ call.op \in {"plan", "approve", "reject"} =>
          call.at \in {"find", "save", "request", "decision"} /\ call.status # "EXECUTING"
    /\ call.op = "execute" =>
          /\ call.at \in {"save", "tasks", "decision"} /\ call.status \in {"EXECUTING", "COMPLETED", "FAILED"}
          /\ call.at = "tasks" => call.status = "EXECUTING"
          /\ call.status = "EXECUTING" /\ call.at = "save" => call.next = 0
          /\ call.status = "EXECUTING" => \A j \in DOMAIN Plan.orderedTaskIds :
                j <= call.next => call.held[Plan.orderedTaskIds[j]] \in {"absent", "COMPLETED"}
    /\ call.op = "rollback" =>
          /\ call.at \in {"undo", "save", "decision"} /\ call.status = "ROLLED_BACK"
          /\ \A t \in call.targets : call.held[t] # "absent"

PlanCallRec ==
    [at : PlanCallStops, op : {"none", "plan", "approve", "reject", "execute", "rollback"},
     version : 0 .. MaxVersion, held : Held, status : PlanStatuses \cup {"none"},
     decisionPlan : 0 .. MaxVersion, next : Nat, targets : SUBSET CreateTasks]

TablesInv ==
    /\ settings \in PlanSettings /\ planCall \in [PlanWorkers -> PlanCallRec]
    /\ decision.plan \in 0 .. MaxVersion
    /\ planStatus \in [Versions -> PlanStatuses \cup {"none"}]
    /\ taskRow \in [CreateTasks -> [plan : 0 .. MaxVersion, status : TaskStatuses]]
    /\ \A v \in Versions : Table(GetPlan(v))
    /\ \A w \in PlanWorkers : CallOK(planCall[w])

ApprovedInv ==
    /\ changed \subseteq Plan.tasks
    /\ \A v \in Versions : planStatus[v] = "APPROVED" => v \in approvedOnce
    /\ (\E w \in PlanWorkers : planCall[w].op = "execute") => approvedOnce # {}
    /\ changed # {} => approvedOnce # {}

Tells(status, t) ==
    /\ status = "COMPLETED" => t \in changed
    /\ status = "ROLLED_BACK" => t \notin changed \/ t \in undoFailed
    /\ status = "PENDING" => t \notin changed \/ t \in resetRows

\* What the call has done about t and not saved.
Unsaved(call, t) ==
    /\ call.op \in RollbackOps /\ call.at \in {"save", "tasks", "undo"} /\ call.held[t] # "absent"
    /\ call.at = "undo" => call.held[t] = "ROLLED_BACK"

TruthInv ==
    ~entangled =>
        /\ \A w, x \in PlanWorkers : w # x /\ planCall[w].op \in RollbackOps => planCall[x].op = "none"
        /\ \A w \in PlanWorkers : planCall[w].op # "plan" /\ planCall[w].at \in {"find", "save", "tasks", "undo"} =>
              \A t \in CreateTasks : Tells(planCall[w].held[t], t)
        /\ \A t \in CreateTasks : Tells(taskRow[t].status, t) \/ \E w \in PlanWorkers : Unsaved(planCall[w], t)

DecisionInv == TablesInv /\ ApprovedInv /\ TruthInv

LEMMA PlanShape ==
    ASSUME settings \in PlanSettings
    PROVE  \E T \in SUBSET CreateTasks :
              /\ Plan.tasks = T /\ T = Keep(settings.maxChangesPerResource)
              /\ Plan.orderedTaskIds = TopologicalOrder(T) /\ TopologicalOrder(T) \in Seq(T)
<1>1. PICK m : m = settings.maxChangesPerResource
    OBVIOUS
<1>2. m \in Int /\ m \in {c.maxChangesPerResource : c \in PlanSettings}
    BY <1>1, DecisionAssumption
<1>3. PICK T \in SUBSET CreateTasks : T = Keep(m)
    BY <1>2, KeepHasNoConflict
<1>4. Plan = [tasks |-> T, orderedTaskIds |-> TopologicalOrder(T), dependencies |-> Dependencies(T)]
    BY <1>1, <1>2, <1>3 DEF Plan, Assembled
<1> QED
    BY <1>1, <1>3, <1>4, OrderRespects

LEMMA TableOf ==
    ASSUME NEW h, NEW g, Table(h), settings \in PlanSettings, \A t \in CreateTasks : g[t] = h[t]
    PROVE  Table(g)
<1>1. Plan.tasks \subseteq CreateTasks
    BY PlanShape
<1> QED
    BY <1>1 DEF Table

\* Only one call moves, and what is held and stored stays in order.
LEMMA CallMoves ==
    ASSUME TablesInv, NEW w \in PlanWorkers, NEW next \in PlanCallRec, CallOK(next),
           planCall' = [planCall EXCEPT ![w] = next], settings' = settings,
           decision'.plan \in 0 .. MaxVersion,
           planStatus' \in [Versions -> PlanStatuses \cup {"none"}],
           taskRow' \in [CreateTasks -> [plan : 0 .. MaxVersion, status : TaskStatuses]],
           \A v \in Versions : Table(GetPlan(v)')
    PROVE  TablesInv'
<1>1. planCall \in [PlanWorkers -> PlanCallRec]
    BY DEF TablesInv
<1>2. /\ planCall' \in [PlanWorkers -> PlanCallRec]
      /\ \A x \in PlanWorkers : planCall'[x] = IF x = w THEN next ELSE planCall[x]
    BY <1>1
<1>3. Plan' = Plan
    BY DEF Plan
<1>4. \A h : Table(h)' <=> Table(h)
    BY <1>3 DEF Table
<1>5. \A x \in PlanWorkers : CallOK(planCall'[x])
    BY <1>2 DEF TablesInv
<1>6. \A x \in PlanWorkers : CallOK(planCall[x])'
    <2>1. ASSUME NEW x \in PlanWorkers
          PROVE  CallOK(planCall[x])'
        BY <1>3, <1>5 DEF CallOK, Table
    <2> QED
        BY <2>1
<1>7. \A v \in Versions : Table(GetPlan(v))'
    BY <1>3 DEF Table
<1> QED
    BY <1>2, <1>6, <1>7 DEF TablesInv

\* A step of a call that leaves rows, store and history as they are.
LEMMA QuietStep ==
    ASSUME DecisionInv, NEW w \in PlanWorkers, NEW call, call = planCall[w],
           NEW next \in PlanCallRec, CallOK(next), planCall' = [planCall EXCEPT ![w] = next],
           next.op \in {call.op, "none"}, decision'.plan \in 0 .. MaxVersion,
           UNCHANGED <<settings, planStatus, taskRow, changed, approvedOnce, resetRows, undoFailed>>,
           ~entangled' =>
              /\ ~entangled
              /\ next.op # "plan" /\ next.at \in {"find", "save", "tasks", "undo"} =>
                    \A t \in CreateTasks : Tells(next.held[t], t)
              /\ \A t \in CreateTasks : Unsaved(call, t) => Unsaved(next, t) \/ Tells(taskRow[t].status, t)
    PROVE  DecisionInv'
<1>1. /\ TablesInv /\ ApprovedInv /\ TruthInv
      /\ planCall \in [PlanWorkers -> PlanCallRec]
      /\ planStatus \in [Versions -> PlanStatuses \cup {"none"}]
      /\ taskRow \in [CreateTasks -> [plan : 0 .. MaxVersion, status : TaskStatuses]]
      /\ \A v \in Versions : Table(GetPlan(v))
    BY DEF DecisionInv, TablesInv
<1>2. \A x \in PlanWorkers : planCall'[x] = IF x = w THEN next ELSE planCall[x]
    BY <1>1
<1>3. TablesInv'
    <2>1. \A v \in Versions : GetPlan(v)' = GetPlan(v)
        BY DEF GetPlan
    <2> QED
        BY <1>1, <2>1, CallMoves
<1>4. ApprovedInv'
    <2>1. Plan' = Plan
        BY DEF Plan
    <2>2. (\E x \in PlanWorkers : planCall'[x].op = "execute") => \E x \in PlanWorkers : planCall[x].op = "execute"
        BY <1>2
    <2> QED
        BY <1>1, <2>1, <2>2 DEF ApprovedInv
<1>5. ASSUME ~entangled'
      PROVE  /\ \A y, x \in PlanWorkers : y # x /\ planCall'[y].op \in RollbackOps => planCall'[x].op = "none"
             /\ \A x \in PlanWorkers : planCall'[x].op # "plan" /\ planCall'[x].at \in {"find", "save", "tasks", "undo"} =>
                   \A t \in CreateTasks : Tells(planCall'[x].held[t], t)
             /\ \A t \in CreateTasks : Tells(taskRow[t].status, t) \/ \E x \in PlanWorkers : Unsaved(planCall'[x], t)
    <2>1. ~entangled
        BY <1>5
    <2>2. /\ \A y, x \in PlanWorkers : y # x /\ planCall[y].op \in RollbackOps => planCall[x].op = "none"
          /\ \A x \in PlanWorkers : planCall[x].op # "plan" /\ planCall[x].at \in {"find", "save", "tasks", "undo"} =>
                \A t \in CreateTasks : Tells(planCall[x].held[t], t)
          /\ \A t \in CreateTasks : Tells(taskRow[t].status, t) \/ \E x \in PlanWorkers : Unsaved(planCall[x], t)
        BY <1>1, <2>1 DEF TruthInv
    <2>3. \A y, x \in PlanWorkers : y # x /\ planCall'[y].op \in RollbackOps => planCall'[x].op = "none"
        <3>1. next.op = "none" \/ next.op = planCall[w].op
            OBVIOUS
        <3>2. "none" \notin RollbackOps
            BY DEF RollbackOps
        <3> QED
            BY <1>2, <2>2, <3>1, <3>2
    <2>4. \A x \in PlanWorkers : planCall'[x].op # "plan" /\ planCall'[x].at \in {"find", "save", "tasks", "undo"} =>
                \A t \in CreateTasks : Tells(planCall'[x].held[t], t)
        BY <1>2, <1>5, <2>2
    <2>5. ASSUME NEW t \in CreateTasks
          PROVE  Tells(taskRow[t].status, t) \/ \E x \in PlanWorkers : Unsaved(planCall'[x], t)
        <3>1. CASE Tells(taskRow[t].status, t)
            BY <3>1
        <3>2. ASSUME NEW x \in PlanWorkers, Unsaved(planCall[x], t)
              PROVE  Tells(taskRow[t].status, t) \/ \E y \in PlanWorkers : Unsaved(planCall'[y], t)
            <4>1. CASE x = w
                <5>1. Unsaved(next, t) \/ Tells(taskRow[t].status, t)
                    BY <1>5, <3>2, <4>1
                <5> QED
                    BY <1>2, <5>1
            <4>2. CASE x # w
                BY <1>2, <3>2, <4>2
            <4> QED
                BY <4>1, <4>2
        <3> QED
            BY <2>2, <3>1, <3>2
    <2> QED
        BY <2>3, <2>4, <2>5
<1>6. TruthInv'
    <2>1. \A status, t : Tells(status, t)' <=> Tells(status, t)
        BY DEF Tells
    <2> QED
        BY <1>5, <2>1 DEF TruthInv, Tells, Unsaved
<1> QED
    BY <1>3, <1>4, <1>6 DEF DecisionInv

-----------------------------------------------------------------------------
(* Calls begin *)

LEMMA PlanHeld ==
    ASSUME TablesInv, NEW v \in Versions
    PROVE  GetPlan(v) \in Held /\ Table(GetPlan(v)) /\ v \in 0 .. MaxVersion
<1>1. taskRow \in [CreateTasks -> [plan : 0 .. MaxVersion, status : TaskStatuses]] /\ Table(GetPlan(v))
    BY DEF TablesInv
<1>2. ASSUME NEW t \in CreateTasks
      PROVE  (IF taskRow[t].plan = v THEN taskRow[t].status ELSE "absent") \in TaskStatuses \cup {"absent"}
    BY <1>1
<1>3. GetPlan(v) \in Held
    BY <1>2 DEF GetPlan, Held
<1>4. v \in 0 .. MaxVersion
    BY DecisionAssumption DEF Versions
<1> QED
    BY <1>1, <1>3, <1>4

LEMMA HoldingIs ==
    ASSUME NEW op, NEW v, NEW at, NEW status
    PROVE  Holding(op, v, at, status) =
               [at |-> at, op |-> op, version |-> v, held |-> GetPlan(v), status |-> status,
                decisionPlan |-> decision.plan, next |-> 0, targets |-> {}]
<1>1. PICK none : none = [t \in CreateTasks |-> "absent"]
    OBVIOUS
<1>2. PICK held : held = GetPlan(v)
    OBVIOUS
<1>3. PICK plan : plan = decision.plan
    OBVIOUS
<1>4. NoPlanCall = [at |-> "idle", op |-> "none", version |-> 0, held |-> none, status |-> "none",
                    decisionPlan |-> 0, next |-> 0, targets |-> {}]
    BY <1>1 DEF NoPlanCall
<1>5. Holding(op, v, at, status) =
          [NoPlanCall EXCEPT !.at = at, !.op = op, !.version = v, !.held = held, !.status = status,
                             !.decisionPlan = plan]
    BY <1>2, <1>3 DEF Holding
<1>6. PICK call : call = Holding(op, v, at, status)
    OBVIOUS
<1>7. call = [at |-> at, op |-> op, version |-> v, held |-> held, status |-> status,
              decisionPlan |-> plan, next |-> 0, targets |-> {}]
    BY <1>4, <1>5, <1>6
<1> QED
    BY <1>2, <1>3, <1>6, <1>7

LEMMA CallBegins ==
    ASSUME DecisionInv, NEW w \in PlanWorkers, NEW call \in PlanCallRec, CallOK(call), call.op # "none",
           BeginCall(w, call), call.op = "execute" => approvedOnce # {},
           call.op # "plan" => \E v \in Versions : call.held = GetPlan(v)
    PROVE  DecisionInv'
<1>1. /\ TablesInv /\ ApprovedInv /\ TruthInv
      /\ planCall \in [PlanWorkers -> PlanCallRec]
      /\ planStatus \in [Versions -> PlanStatuses \cup {"none"}]
      /\ taskRow \in [CreateTasks -> [plan : 0 .. MaxVersion, status : TaskStatuses]]
      /\ decision.plan \in 0 .. MaxVersion
      /\ \A v \in Versions : Table(GetPlan(v))
      /\ \A x \in PlanWorkers : CallOK(planCall[x])
    BY DEF DecisionInv, TablesInv
<1>2. /\ planCall' = [planCall EXCEPT ![w] = call]
      /\ UNCHANGED <<settings, decision, planStatus, taskRow, request, changed, approvedOnce, resetRows, undoFailed>>
    BY DEF BeginCall
<1>3. \A x \in PlanWorkers : planCall'[x] = IF x = w THEN call ELSE planCall[x]
    BY <1>1, <1>2
<1>4. planCall[w].op = "none" /\ call.at # "idle"
    BY <1>1 DEF BeginCall, Free, CallOK
<1>5. TablesInv'
    <2>1. \A v \in Versions : GetPlan(v)' = GetPlan(v)
        BY <1>2 DEF GetPlan
    <2> QED
        BY <1>1, <1>2, <2>1, CallMoves
<1>6. ApprovedInv'
    <2>1. Plan' = Plan
        BY <1>2 DEF Plan
    <2>2. (\E x \in PlanWorkers : planCall'[x].op = "execute") =>
              approvedOnce # {} \/ \E x \in PlanWorkers : planCall[x].op = "execute"
        BY <1>3
    <2> QED
        BY <1>1, <1>2, <2>1, <2>2 DEF ApprovedInv
<1>7. ASSUME ~entangled'
      PROVE  ~entangled /\ ~Overlaps(call.op)
    <2>1. entangled' = (entangled \/ Overlaps(call.op))
        BY DEF BeginCall
    <2> QED
        BY <1>7, <2>1, Zenon
<1>8. ASSUME ~entangled'
      PROVE  /\ \A y, x \in PlanWorkers : y # x /\ planCall'[y].op \in RollbackOps => planCall'[x].op = "none"
             /\ \A x \in PlanWorkers : planCall'[x].op # "plan" /\ planCall'[x].at \in {"find", "save", "tasks", "undo"} =>
                   \A t \in CreateTasks : Tells(planCall'[x].held[t], t)
             /\ \A t \in CreateTasks : Tells(taskRow[t].status, t) \/ \E x \in PlanWorkers : Unsaved(planCall'[x], t)
    <2>1. ~entangled /\ ~Overlaps(call.op)
        BY <1>7, <1>8
    <2>2. /\ \A y, x \in PlanWorkers : y # x /\ planCall[y].op \in RollbackOps => planCall[x].op = "none"
          /\ \A x \in PlanWorkers : planCall[x].op # "plan" /\ planCall[x].at \in {"find", "save", "tasks", "undo"} =>
                \A t \in CreateTasks : Tells(planCall[x].held[t], t)
          /\ \A t \in CreateTasks : Tells(taskRow[t].status, t) \/ \E x \in PlanWorkers : Unsaved(planCall[x], t)
        BY <1>1, <2>1 DEF TruthInv
    <2>3. \A x \in PlanWorkers : planCall[x].op \notin RollbackOps
        <3>1. ASSUME NEW x \in PlanWorkers, planCall[x].op \in RollbackOps
              PROVE  FALSE
            <4>1. planCall[x].at # "idle"
                BY <1>1, <3>1 DEF CallOK, RollbackOps
            <4> QED
                BY <2>1, <3>1, <4>1 DEF Overlaps
        <3> QED
            BY <3>1
    <2>4. call.op \in RollbackOps => \A x \in PlanWorkers : planCall[x].op = "none"
        <3>1. ASSUME NEW x \in PlanWorkers, call.op \in RollbackOps
              PROVE  planCall[x].op = "none"
            <4>1. planCall[x].at = "idle"
                BY <2>1, <3>1 DEF Overlaps
            <4> QED
                BY <1>1, <4>1 DEF CallOK
        <3> QED
            BY <3>1
    <2>5. \A t \in CreateTasks : Tells(taskRow[t].status, t)
        BY <2>2, <2>3 DEF Unsaved
    <2>6. \A y, x \in PlanWorkers : y # x /\ planCall'[y].op \in RollbackOps => planCall'[x].op = "none"
        BY <1>3, <2>3, <2>4
    <2>7. call.op # "plan" => \A t \in CreateTasks : Tells(call.held[t], t)
        <3>1. ASSUME NEW v \in Versions, call.held = GetPlan(v), NEW t \in CreateTasks
              PROVE  Tells(call.held[t], t)
            <4>1. call.held[t] \in {taskRow[t].status, "absent"}
                BY <3>1 DEF GetPlan
            <4> QED
                BY <2>5, <4>1 DEF Tells
        <3> QED
            BY <3>1
    <2>8. \A x \in PlanWorkers : planCall'[x].op # "plan" /\ planCall'[x].at \in {"find", "save", "tasks", "undo"} =>
                \A t \in CreateTasks : Tells(planCall'[x].held[t], t)
        BY <1>3, <2>2, <2>7
    <2> QED
        BY <2>5, <2>6, <2>8
<1>9. TruthInv'
    <2>1. \A status, t : Tells(status, t)' <=> Tells(status, t)
        BY <1>2 DEF Tells
    <2> QED
        BY <1>2, <1>8, <2>1 DEF TruthInv, Tells, Unsaved
<1> QED
    BY <1>5, <1>6, <1>9 DEF DecisionInv

LEMMA PlanningBegins ==
    ASSUME DecisionInv, NEW w \in PlanWorkers, PlanDecision(w)
    PROVE  DecisionInv'
<1>1. TablesInv /\ settings \in PlanSettings
    BY DEF DecisionInv, TablesInv
<1>2. PICK T \in SUBSET CreateTasks : Plan.tasks = T
    BY <1>1, PlanShape
<1>3. PICK v \in Versions : BeginCall(w, [Holding("plan", v, "save", ReviewedStatus) EXCEPT
                             !.held = [t \in CreateTasks |-> IF t \in Plan.tasks THEN "PENDING" ELSE "absent"],
                             !.decisionPlan = v])
    BY DEF PlanDecision
<1>4. PICK status : status = ReviewedStatus
    OBVIOUS
<1>5. PICK held : held = [t \in CreateTasks |-> IF t \in T THEN "PENDING" ELSE "absent"]
    OBVIOUS
<1>6. PICK call : call = [at |-> "save", op |-> "plan", version |-> v, held |-> held, status |-> status,
                          decisionPlan |-> v, next |-> 0, targets |-> {}]
    OBVIOUS
<1>7. BeginCall(w, call)
    <2>1. PICK holding : holding = Holding("plan", v, "save", status)
        OBVIOUS
    <2>2. PICK row, plan : row = GetPlan(v) /\ plan = decision.plan
        OBVIOUS
    <2>3. holding = [at |-> "save", op |-> "plan", version |-> v, held |-> row, status |-> status,
                     decisionPlan |-> plan, next |-> 0, targets |-> {}]
        BY <2>1, <2>2, HoldingIs
    <2>4. PICK started : started = [holding EXCEPT !.held = held, !.decisionPlan = v]
        OBVIOUS
    <2>5. started = [at |-> "save", op |-> "plan", version |-> v, held |-> held, status |-> status,
                     decisionPlan |-> v, next |-> 0, targets |-> {}]
        BY <2>3, <2>4
    <2>6. BeginCall(w, started)
        BY <1>2, <1>3, <1>4, <1>5, <2>1, <2>4
    <2> QED
        BY <1>6, <2>5, <2>6
<1>8. status \in {"APPROVED", "REJECTED", "AWAITING_APPROVAL"}
    BY <1>4 DEF ReviewedStatus
<1>9. held \in Held /\ \A t \in CreateTasks : held[t] \in {"absent", "PENDING"}
    BY <1>5 DEF Held, TaskStatuses
<1>10. Table(held)
    BY <1>2, <1>5, <1>9 DEF Table
<1>11. v \in 0 .. MaxVersion
    BY DecisionAssumption DEF Versions
<1>12. call \in PlanCallRec
    BY <1>6, <1>8, <1>9, <1>11 DEF PlanCallRec, PlanCallStops, PlanStatuses
<1>13. CallOK(call)
    BY <1>6, <1>8, <1>9, <1>10 DEF CallOK
<1> QED
    BY <1>6, <1>7, <1>12, <1>13, CallBegins

LEMMA OthersBegin ==
    ASSUME DecisionInv, NEW w \in PlanWorkers, NEW v \in Versions,
           DecidePlan(w, v) \/ ExecutePlan(w, v) \/ \E only \in {{}} \cup {{t} : t \in CreateTasks} : ExecuteRollback(w, v, only)
    PROVE  DecisionInv'
<1>1. TablesInv /\ ApprovedInv /\ settings \in PlanSettings /\ decision.plan \in 0 .. MaxVersion
    BY DEF DecisionInv, TablesInv
<1>2. PICK held \in Held : held = GetPlan(v) /\ Table(held) /\ v \in 0 .. MaxVersion
    BY <1>1, PlanHeld
<1>3. ASSUME NEW call, NEW op \in {"approve", "reject", "execute", "rollback"}, NEW at, NEW status, NEW targets,
             call = [at |-> at, op |-> op, version |-> v, held |-> held, status |-> status,
                     decisionPlan |-> decision.plan, next |-> 0, targets |-> targets],
             op \in {"approve", "reject"} => at = "find" /\ status \in {"APPROVED", "REJECTED"},
             op = "execute" => at = "save" /\ status = "EXECUTING" /\ approvedOnce # {},
             op = "rollback" => at = "undo" /\ status = "ROLLED_BACK",
             targets \subseteq CreateTasks, \A t \in targets : held[t] # "absent",
             BeginCall(w, call)
      PROVE  DecisionInv'
    <2>1. at \in {"find", "save", "undo"} /\ status \in {"APPROVED", "REJECTED", "EXECUTING", "ROLLED_BACK"}
        BY <1>3
    <2>2. call \in PlanCallRec
        BY <1>1, <1>2, <1>3, <2>1 DEF PlanCallRec, PlanCallStops, PlanStatuses
    <2>3. \A j \in DOMAIN Plan.orderedTaskIds : ~ (j <= 0)
        <3>1. PICK T : Plan.orderedTaskIds \in Seq(T)
            BY <1>1, PlanShape
        <3>2. DOMAIN Plan.orderedTaskIds = 1 .. Len(Plan.orderedTaskIds)
            BY <3>1
        <3> QED
            BY <3>2
    <2>4. CallOK(call)
        BY <1>2, <1>3, <2>1, <2>3 DEF CallOK
    <2> QED
        BY <1>2, <1>3, <2>2, <2>4, CallBegins
<1>4. CASE DecidePlan(w, v)
    <2>1. PICK op \in {"approve", "reject"}, status \in {"APPROVED", "REJECTED"} : BeginCall(w, Holding(op, v, "find", status))
        BY <1>4 DEF DecidePlan
    <2> QED
        BY <1>2, <1>3, <2>1, HoldingIs
<1>5. CASE ExecutePlan(w, v)
    <2>1. BeginCall(w, Holding("execute", v, "save", "EXECUTING")) /\ planStatus[v] = "APPROVED"
        BY <1>5 DEF ExecutePlan
    <2>2. approvedOnce # {}
        BY <1>1, <2>1 DEF ApprovedInv
    <2> QED
        BY <1>2, <1>3, <2>1, <2>2, HoldingIs
<1>6. CASE \E only \in {{}} \cup {{t} : t \in CreateTasks} : ExecuteRollback(w, v, only)
    <2>1. PICK targets \in SUBSET RollbackTargets(v) :
                BeginCall(w, [Holding("rollback", v, "undo", "ROLLED_BACK") EXCEPT !.targets = targets])
        BY <1>6 DEF ExecuteRollback
    <2>2. PICK call : call = [Holding("rollback", v, "undo", "ROLLED_BACK") EXCEPT !.targets = targets]
        OBVIOUS
    <2>3. PICK plan : plan = decision.plan
        OBVIOUS
    <2>4. PICK holding : holding = Holding("rollback", v, "undo", "ROLLED_BACK")
        OBVIOUS
    <2>5. holding = [at |-> "undo", op |-> "rollback", version |-> v, held |-> held, status |-> "ROLLED_BACK",
                     decisionPlan |-> plan, next |-> 0, targets |-> {}]
        BY <1>2, <2>3, <2>4, HoldingIs
    <2>6. call = [at |-> "undo", op |-> "rollback", version |-> v, held |-> held, status |-> "ROLLED_BACK",
                  decisionPlan |-> plan, next |-> 0, targets |-> targets]
        BY <2>2, <2>4, <2>5
    <2>7. targets \subseteq CreateTasks /\ \A t \in targets : held[t] # "absent"
        BY <1>2 DEF RollbackTargets, GetPlan
    <2> QED
        BY <1>3, <2>1, <2>2, <2>3, <2>6, <2>7
<1> QED
    BY <1>4, <1>5, <1>6

-----------------------------------------------------------------------------
(* Steps that only move a call on *)

LEMMA IdleCall ==
    ASSUME settings \in PlanSettings
    PROVE  /\ NoPlanCall \in PlanCallRec /\ CallOK(NoPlanCall)
           /\ NoPlanCall.at = "idle" /\ NoPlanCall.op = "none"
<1>1. PICK T \in SUBSET CreateTasks : Plan.tasks = T
    BY PlanShape
<1>2. PICK none : none = [t \in CreateTasks |-> "absent"]
    OBVIOUS
<1>3. none \in Held /\ \A t \in CreateTasks : none[t] = "absent"
    BY <1>2 DEF Held
<1>4. Table(none)
    BY <1>1, <1>3 DEF Table
<1>5. PICK call : call = NoPlanCall
    OBVIOUS
<1>6. call = [at |-> "idle", op |-> "none", version |-> 0, held |-> none, status |-> "none",
              decisionPlan |-> 0, next |-> 0, targets |-> {}]
    BY <1>2, <1>5 DEF NoPlanCall
<1>7. 0 \in 0 .. MaxVersion
    BY DecisionAssumption
<1>8. call \in PlanCallRec
    BY <1>3, <1>6, <1>7 DEF PlanCallRec, PlanCallStops
<1>9. CallOK(call)
    BY <1>4, <1>6 DEF CallOK
<1> QED
    BY <1>5, <1>6, <1>8, <1>9

\* The call with another place and status in it.
Moved(call, status, at) == [call EXCEPT !.status = status, !.at = at]

LEMMA MovedCall ==
    ASSUME NEW call \in PlanCallRec, NEW at \in PlanCallStops, NEW status \in PlanStatuses \cup {"none"}
    PROVE  /\ Moved(call, status, at) \in PlanCallRec
           /\ Moved(call, status, at).at = at /\ Moved(call, status, at).status = status
           /\ Moved(call, status, at).op = call.op /\ Moved(call, status, at).version = call.version
           /\ Moved(call, status, at).held = call.held
           /\ Moved(call, status, at).next = call.next /\ Moved(call, status, at).targets = call.targets
    BY DEF PlanCallRec, Moved

LEMMA PlaceOnly ==
    ASSUME NEW call \in PlanCallRec, NEW at
    PROVE  [call EXCEPT !.at = at] = Moved(call, call.status, at)
<1>1. PICK a : a = [call EXCEPT !.at = at]
    OBVIOUS
<1>2. PICK b : b = [call EXCEPT !.status = call.status, !.at = at]
    OBVIOUS
<1>3. a = b
    BY <1>1, <1>2 DEF PlanCallRec
<1> QED
    BY <1>1, <1>2, <1>3 DEF Moved

\* What the invariant says of a call.
LEMMA OfCall ==
    ASSUME DecisionInv, NEW w \in PlanWorkers
    PROVE  /\ planCall[w] \in PlanCallRec /\ CallOK(planCall[w]) /\ settings \in PlanSettings
           /\ decision.plan \in 0 .. MaxVersion
           /\ planCall \in [PlanWorkers -> PlanCallRec]
           /\ ~entangled /\ planCall[w].op # "plan" /\ planCall[w].at \in {"find", "save", "tasks", "undo"} =>
                 \A t \in CreateTasks : Tells(planCall[w].held[t], t)
<1>1. TablesInv /\ TruthInv
    BY DEF DecisionInv
<1>2. planCall \in [PlanWorkers -> PlanCallRec] /\ settings \in PlanSettings /\ CallOK(planCall[w])
      /\ decision.plan \in 0 .. MaxVersion
    BY <1>1 DEF TablesInv
<1> QED
    BY <1>1, <1>2 DEF TruthInv

\* A call that ends, with nothing done that it had not saved.
LEMMA CallEnds ==
    ASSUME DecisionInv, NEW w \in PlanWorkers, planCall' = [planCall EXCEPT ![w] = NoPlanCall],
           decision'.plan \in 0 .. MaxVersion,
           UNCHANGED <<settings, planStatus, taskRow, changed, approvedOnce, resetRows, undoFailed>>,
           ~entangled' => ~entangled /\ \A t \in CreateTasks : ~Unsaved(planCall[w], t)
    PROVE  DecisionInv'
<1>1. settings \in PlanSettings
    BY OfCall
<1>2. PICK next \in PlanCallRec : next = NoPlanCall /\ CallOK(next) /\ next.at = "idle" /\ next.op = "none"
    BY <1>1, IdleCall
<1>3. PICK call : call = planCall[w]
    OBVIOUS
<1> QED
    BY <1>2, <1>3, QuietStep

\* A call that goes from one place to another.
LEMMA CallGoesOn ==
    ASSUME DecisionInv, NEW w \in PlanWorkers, NEW at \in PlanCallStops, NEW status \in PlanStatuses \cup {"none"},
           NEW next, next = Moved(planCall[w], status, at), CallOK(next),
           planCall' = [planCall EXCEPT ![w] = next],
           UNCHANGED <<settings, decision, planStatus, taskRow, changed, approvedOnce, entangled, resetRows, undoFailed>>,
           at \in {"find", "save", "tasks", "undo"} =>
               /\ planCall[w].at \in {"find", "save", "tasks", "undo"}
               /\ at # "undo",
           at \notin {"save", "tasks", "undo"} => planCall[w].at \notin {"save", "tasks", "undo"}
    PROVE  DecisionInv'
<1>1. PICK call : call = planCall[w]
    OBVIOUS
<1>2. /\ call \in PlanCallRec /\ decision.plan \in 0 .. MaxVersion
      /\ ~entangled /\ call.op # "plan" /\ call.at \in {"find", "save", "tasks", "undo"} =>
            \A t \in CreateTasks : Tells(call.held[t], t)
    BY <1>1, OfCall
<1>3. /\ next \in PlanCallRec /\ next.at = at /\ next.op = call.op /\ next.held = call.held
    BY <1>1, <1>2, MovedCall
<1>4. \A t \in CreateTasks : Unsaved(call, t) => Unsaved(next, t)
    BY <1>1, <1>3 DEF Unsaved
<1> QED
    BY <1>1, <1>2, <1>3, <1>4, QuietStep

LEMMA Finding ==
    ASSUME DecisionInv, NEW w \in PlanWorkers, FindRequest(w)
    PROVE  DecisionInv'
<1>1. PICK call : call = planCall[w]
    OBVIOUS
<1>2. call \in PlanCallRec /\ CallOK(call) /\ decision.plan \in 0 .. MaxVersion
    BY <1>1, OfCall
<1>3. call.at = "find" /\ UNCHANGED <<settings, decision, planStatus, taskRow, changed, approvedOnce, entangled,
                                      resetRows, undoFailed>>
    BY <1>1 DEF FindRequest
<1>4. CASE request[planCall[w].version] = "none"
    <2>1. planCall' = [planCall EXCEPT ![w] = NoPlanCall]
        BY <1>4 DEF FindRequest
    <2>2. \A t \in CreateTasks : ~Unsaved(planCall[w], t)
        BY <1>1, <1>3 DEF Unsaved
    <2> QED
        BY <1>2, <1>3, <2>1, <2>2, CallEnds
<1>5. CASE request[planCall[w].version] # "none"
    <2>1. PICK next : next = Moved(call, call.status, "save")
        OBVIOUS
    <2>2. planCall' = [planCall EXCEPT ![w] = next]
        <3>1. planCall' = [planCall EXCEPT ![w] = [call EXCEPT !.at = "save"]]
            BY <1>1, <1>5 DEF FindRequest
        <3>2. [call EXCEPT !.at = "save"] = next
            BY <1>2, <2>1, PlaceOnly
        <3> QED
            BY <3>1, <3>2
    <2>3. "save" \in PlanCallStops /\ call.status \in PlanStatuses \cup {"none"}
        BY <1>2 DEF PlanCallStops, PlanCallRec
    <2>4. /\ next.at = "save" /\ next.status = call.status /\ next.op = call.op
          /\ next.version = call.version /\ next.held = call.held
        BY <1>2, <2>1, <2>3, MovedCall
    <2>5. call.op \in {"plan", "approve", "reject"}
        BY <1>2, <1>3 DEF CallOK, PlanCallRec
    <2>6. CallOK(next)
        BY <1>2, <2>4, <2>5 DEF CallOK
    <2> QED
        BY <1>1, <1>3, <2>1, <2>2, <2>3, <2>6, CallGoesOn
<1> QED
    BY <1>4, <1>5

LEMMA RequestSaved ==
    ASSUME DecisionInv, NEW w \in PlanWorkers, SaveRequest(w)
    PROVE  DecisionInv'
<1>1. PICK call : call = planCall[w]
    OBVIOUS
<1>2. call \in PlanCallRec /\ CallOK(call)
    BY <1>1, OfCall
<1>3. call.at = "request" /\ UNCHANGED <<settings, decision, planStatus, taskRow, changed, approvedOnce, entangled,
                                         resetRows, undoFailed>>
    BY <1>1 DEF SaveRequest
<1>4. PICK next : next = Moved(call, call.status, "decision")
    OBVIOUS
<1>5. planCall' = [planCall EXCEPT ![w] = next]
    <2>1. planCall' = [planCall EXCEPT ![w] = [call EXCEPT !.at = "decision"]]
        BY <1>1 DEF SaveRequest
    <2> QED
        BY <1>2, <1>4, <2>1, PlaceOnly
<1>6. "decision" \in PlanCallStops /\ call.status \in PlanStatuses \cup {"none"}
    BY <1>2 DEF PlanCallStops, PlanCallRec
<1>7. /\ next.at = "decision" /\ next.status = call.status /\ next.op = call.op
      /\ next.version = call.version /\ next.held = call.held
    BY <1>2, <1>4, <1>6, MovedCall
<1>8. call.op \in {"plan", "approve", "reject"}
    BY <1>2, <1>3 DEF CallOK, PlanCallRec
<1>9. CallOK(next)
    BY <1>2, <1>7, <1>8 DEF CallOK
<1> QED
    BY <1>1, <1>3, <1>4, <1>5, <1>6, <1>9, CallGoesOn

LEMMA DecisionSaved ==
    ASSUME DecisionInv, NEW w \in PlanWorkers, SaveDecision(w)
    PROVE  DecisionInv'
<1>1. planCall[w] \in PlanCallRec /\ decision.plan \in 0 .. MaxVersion
    BY OfCall
<1>2. /\ planCall[w].at = "decision" /\ planCall' = [planCall EXCEPT ![w] = NoPlanCall]
      /\ decision'.plan \in {decision.plan, planCall[w].decisionPlan}
      /\ UNCHANGED <<settings, planStatus, taskRow, changed, approvedOnce, entangled, resetRows, undoFailed>>
    BY DEF SaveDecision
<1>3. decision'.plan \in 0 .. MaxVersion
    BY <1>1, <1>2 DEF PlanCallRec
<1>4. \A t \in CreateTasks : ~Unsaved(planCall[w], t)
    BY <1>2 DEF Unsaved
<1> QED
    BY <1>2, <1>3, <1>4, CallEnds

LEMMA ExecutionEnds ==
    ASSUME DecisionInv, NEW w \in PlanWorkers, AllExecuted(w)
    PROVE  DecisionInv'
<1>1. PICK call : call = planCall[w]
    OBVIOUS
<1>2. call \in PlanCallRec /\ CallOK(call)
    BY <1>1, OfCall
<1>3. call.at = "tasks" /\ UNCHANGED <<settings, decision, planStatus, taskRow, changed, approvedOnce, entangled,
                                       resetRows, undoFailed>>
    BY <1>1 DEF AllExecuted
<1>4. PICK next : next = Moved(call, "COMPLETED", "save")
    OBVIOUS
<1>5. planCall' = [planCall EXCEPT ![w] = next]
    BY <1>1, <1>4 DEF AllExecuted, Moved
<1>6. "save" \in PlanCallStops /\ "COMPLETED" \in PlanStatuses \cup {"none"}
    BY DEF PlanCallStops, PlanStatuses
<1>7. /\ next.at = "save" /\ next.status = "COMPLETED" /\ next.op = call.op
      /\ next.version = call.version /\ next.held = call.held
    BY <1>2, <1>4, <1>6, MovedCall
<1>8. call.op = "execute"
    BY <1>2, <1>3 DEF CallOK, PlanCallRec
<1>9. CallOK(next)
    BY <1>2, <1>7, <1>8 DEF CallOK
<1> QED
    BY <1>1, <1>3, <1>4, <1>5, <1>6, <1>9, CallGoesOn

LEMMA RollbackEnds ==
    ASSUME DecisionInv, NEW w \in PlanWorkers, AllRolledBack(w)
    PROVE  DecisionInv'
<1>1. PICK call : call = planCall[w]
    OBVIOUS
<1>2. call \in PlanCallRec /\ CallOK(call)
    BY <1>1, OfCall
<1>3. call.at = "undo" /\ UNCHANGED <<settings, decision, planStatus, taskRow, changed, approvedOnce, entangled,
                                      resetRows, undoFailed>>
    BY <1>1 DEF AllRolledBack
<1>4. PICK next : next = Moved(call, call.status, "save")
    OBVIOUS
<1>5. planCall' = [planCall EXCEPT ![w] = next]
    <2>1. planCall' = [planCall EXCEPT ![w] = [call EXCEPT !.at = "save"]]
        BY <1>1 DEF AllRolledBack
    <2> QED
        BY <1>2, <1>4, <2>1, PlaceOnly
<1>6. "save" \in PlanCallStops /\ call.status \in PlanStatuses \cup {"none"}
    BY <1>2 DEF PlanCallStops, PlanCallRec
<1>7. /\ next.at = "save" /\ next.status = call.status /\ next.op = call.op
      /\ next.version = call.version /\ next.held = call.held /\ next.targets = call.targets
    BY <1>2, <1>4, <1>6, MovedCall
<1>8. call.op = "rollback"
    BY <1>2, <1>3 DEF CallOK, PlanCallRec
<1>9. CallOK(next)
    BY <1>2, <1>7, <1>8 DEF CallOK
<1> QED
    BY <1>1, <1>3, <1>4, <1>5, <1>6, <1>9, CallGoesOn

\* A call that is cut short inside a loop entangles what it did.
LEMMA CutShort ==
    ASSUME DecisionInv, NEW w \in PlanWorkers, CallEndsMidway(w)
    PROVE  DecisionInv'
<1>1. decision.plan \in 0 .. MaxVersion
    BY OfCall
<1>2. /\ planCall' = [planCall EXCEPT ![w] = NoPlanCall]
      /\ UNCHANGED <<settings, decision, planStatus, taskRow, changed, approvedOnce, resetRows, undoFailed>>
    BY DEF CallEndsMidway
<1>3. ASSUME ~entangled'
      PROVE  ~entangled /\ planCall[w].op \notin RollbackOps
    <2>1. entangled' = (entangled \/ planCall[w].op \in RollbackOps)
        BY DEF CallEndsMidway
    <2> QED
        BY <1>3, <2>1, Zenon
<1>4. ~entangled' => ~entangled /\ \A t \in CreateTasks : ~Unsaved(planCall[w], t)
    BY <1>3 DEF Unsaved
<1> QED
    BY <1>1, <1>2, <1>4, CallEnds

-----------------------------------------------------------------------------
(* A plan is saved *)

\* All tasks of the plan are held, or none, and the rows follow.
LEMMA RowsFollow ==
    ASSUME TablesInv, NEW call \in PlanCallRec, CallOK(call), call.version \in Versions, settings' = settings,
           NEW H, H = {t \in CreateTasks : call.held[t] # "absent"},
           taskRow' = [t \in CreateTasks |-> IF t \in H THEN [plan |-> call.version, status |-> call.held[t]]
                                             ELSE taskRow[t]]
    PROVE  /\ taskRow' \in [CreateTasks -> [plan : 0 .. MaxVersion, status : TaskStatuses]]
           /\ \A v \in Versions : Table(GetPlan(v)')
<1>1. /\ settings \in PlanSettings /\ \A v \in Versions : Table(GetPlan(v))
      /\ taskRow \in [CreateTasks -> [plan : 0 .. MaxVersion, status : TaskStatuses]]
    BY DEF TablesInv
<1>2. PICK T \in SUBSET CreateTasks : Plan.tasks = T
    BY <1>1, PlanShape
<1>3. PICK u \in Versions : u = call.version /\ u \in 0 .. MaxVersion
    BY DecisionAssumption DEF PlanCallRec
<1>4. PICK held \in Held : held = call.held /\ Table(held)
    BY DEF PlanCallRec, CallOK
<1>5. \A t \in H : t \in CreateTasks /\ held[t] \in TaskStatuses
    BY <1>4 DEF Held
<1>6. /\ DOMAIN taskRow' = CreateTasks
      /\ \A t \in H : taskRow'[t] = [plan |-> u, status |-> held[t]]
      /\ \A t \in CreateTasks \ H : taskRow'[t] = taskRow[t]
    BY <1>3, <1>4, <1>5
<1>7. \A t \in CreateTasks : taskRow'[t] \in [plan : 0 .. MaxVersion, status : TaskStatuses]
    BY <1>1, <1>3, <1>5, <1>6
<1>8. taskRow' \in [CreateTasks -> [plan : 0 .. MaxVersion, status : TaskStatuses]]
    <2>1. taskRow' = [t \in CreateTasks |-> taskRow'[t]]
        OBVIOUS
    <2> QED
        BY <1>7, <2>1
<1>9. H = {} \/ H = T
    BY <1>2, <1>4 DEF Table
<1>10. ASSUME NEW v \in Versions
       PROVE  Table(GetPlan(v)')
    <2>1. PICK rows : rows = GetPlan(v)'
        OBVIOUS
    <2>2. PICK old : old = GetPlan(v) /\ Table(old)
        BY <1>1
    <2>3. \A t \in CreateTasks : /\ rows[t] = IF taskRow'[t].plan = v THEN taskRow'[t].status ELSE "absent"
                                 /\ old[t] = IF taskRow[t].plan = v THEN taskRow[t].status ELSE "absent"
        BY <2>1, <2>2 DEF GetPlan
    <2>4. \A t \in CreateTasks \ H : rows[t] = old[t]
        BY <1>6, <2>3
    <2>5. \A t \in H : rows[t] = IF u = v THEN held[t] ELSE "absent"
        BY <1>5, <1>6, <2>3
    <2>6. CASE H = {}
        <3>1. \A t \in CreateTasks : rows[t] = old[t]
            BY <2>4, <2>6
        <3> QED
            BY <1>1, <2>1, <2>2, <3>1, TableOf
    <2>7. CASE H = T
        <3>1. \A t \in CreateTasks \ T : rows[t] = "absent" /\ held[t] = "absent"
            BY <1>2, <1>4, <2>2, <2>4, <2>7 DEF Table
        <3>2. CASE u = v
            <4>1. \A t \in CreateTasks : rows[t] = held[t]
                BY <2>5, <2>7, <3>1, <3>2
            <4> QED
                BY <1>1, <1>4, <2>1, <4>1, TableOf
        <3>3. CASE u # v
            <4>1. \A t \in CreateTasks : rows[t] = "absent"
                BY <2>5, <2>7, <3>1, <3>3
            <4>2. Table(rows)
                BY <1>2, <4>1 DEF Table
            <4> QED
                BY <2>1, <4>2
        <3> QED
            BY <3>2, <3>3
    <2> QED
        BY <1>9, <2>6, <2>7
<1> QED
    BY <1>8, <1>10

LEMMA PlanSaved ==
    ASSUME DecisionInv, NEW w \in PlanWorkers, SavePlan(w)
    PROVE  DecisionInv'
<1>1. PICK call : call = planCall[w]
    OBVIOUS
<1>2. /\ call \in PlanCallRec /\ CallOK(call) /\ decision.plan \in 0 .. MaxVersion
      /\ planCall \in [PlanWorkers -> PlanCallRec] /\ settings \in PlanSettings
      /\ ~entangled /\ call.op # "plan" /\ call.at \in {"find", "save", "tasks", "undo"} =>
             \A t \in CreateTasks : Tells(call.held[t], t)
    BY <1>1, OfCall
<1>3. PICK H : H = {t \in CreateTasks : call.held[t] # "absent"}
    OBVIOUS
<1>4. /\ call.at = "save" /\ planStatus' = [planStatus EXCEPT ![call.version] = call.status]
      /\ taskRow' = [t \in CreateTasks |-> IF t \in H THEN [plan |-> call.version, status |-> call.held[t]]
                                           ELSE taskRow[t]]
      /\ planCall' = [planCall EXCEPT ![w] = AfterSave(call)]
      /\ UNCHANGED <<settings, decision, changed, entangled, undoFailed>>
    BY <1>1, <1>3 DEF SavePlan
<1>5. /\ approvedOnce' = IF call.status = "APPROVED" THEN approvedOnce \cup {call.version} ELSE approvedOnce
      /\ resetRows' = IF call.op = "plan" THEN resetRows \cup {t \in H : taskRow[t].status # "PENDING"}
                      ELSE resetRows
    BY <1>1, <1>3 DEF SavePlan
<1>6. call.version \in Versions /\ call.op \in {"plan", "approve", "reject", "execute", "rollback"}
    BY <1>2, <1>4 DEF CallOK, PlanCallRec
<1>7. /\ TablesInv /\ ApprovedInv /\ TruthInv
      /\ planStatus \in [Versions -> PlanStatuses \cup {"none"}]
      /\ taskRow \in [CreateTasks -> [plan : 0 .. MaxVersion, status : TaskStatuses]]
    BY DEF DecisionInv, TablesInv
<1>8. PICK at \in {"request", "tasks", "decision"} :
          /\ AfterSave(call) = Moved(call, call.status, at)
          /\ at = IF call.op \in {"plan", "approve", "reject"} THEN "request"
                  ELSE IF call.status = "EXECUTING" THEN "tasks" ELSE "decision"
    <2>1. PICK at : at = IF call.op \in {"plan", "approve", "reject"} THEN "request"
                         ELSE IF call.status = "EXECUTING" THEN "tasks" ELSE "decision"
        OBVIOUS
    <2>2. AfterSave(call) = [call EXCEPT !.at = at]
        <3>1. CASE call.op \in {"plan", "approve", "reject"}
            <4>1. call.status # "EXECUTING"
                BY <1>2, <3>1 DEF CallOK
            <4> QED
                BY <2>1, <3>1, <4>1 DEF AfterSave
        <3>2. CASE call.op \notin {"plan", "approve", "reject"} /\ call.status = "EXECUTING"
            BY <2>1, <3>2 DEF AfterSave
        <3>3. CASE call.op \notin {"plan", "approve", "reject"} /\ call.status # "EXECUTING"
            BY <2>1, <3>3 DEF AfterSave
        <3> QED
            BY <3>1, <3>2, <3>3
    <2>3. at \in {"request", "tasks", "decision"}
        BY <2>1
    <2> QED
        BY <1>2, <2>1, <2>2, <2>3, PlaceOnly
<1>9. PICK next : next = Moved(call, call.status, at)
    OBVIOUS
<1>10. at \in PlanCallStops /\ call.status \in PlanStatuses \cup {"none"}
    BY <1>2 DEF PlanCallStops, PlanCallRec
<1>11. /\ next \in PlanCallRec /\ next.at = at /\ next.status = call.status /\ next.op = call.op
       /\ next.version = call.version /\ next.held = call.held /\ next.next = call.next
       /\ next.targets = call.targets
    BY <1>2, <1>9, <1>10, MovedCall
<1>12. CallOK(next)
    BY <1>2, <1>4, <1>6, <1>8, <1>11 DEF CallOK
<1>13. \A x \in PlanWorkers : planCall'[x] = IF x = w THEN next ELSE planCall[x]
    BY <1>2, <1>4, <1>8, <1>9
<1>14. /\ taskRow' \in [CreateTasks -> [plan : 0 .. MaxVersion, status : TaskStatuses]]
       /\ \A v \in Versions : Table(GetPlan(v)')
    BY <1>2, <1>3, <1>4, <1>6, <1>7, RowsFollow
<1>15. TablesInv'
    <2>1. planStatus' \in [Versions -> PlanStatuses \cup {"none"}]
        BY <1>4, <1>7, <1>10
    <2>2. planCall' = [planCall EXCEPT ![w] = next]
        BY <1>4, <1>8, <1>9
    <2>3. settings' = settings /\ decision'.plan \in 0 .. MaxVersion
        BY <1>2, <1>4
    <2> QED
        BY <1>7, <1>11, <1>12, <1>14, <2>1, <2>2, <2>3, CallMoves
<1>16. ApprovedInv'
    <2>1. Plan' = Plan
        BY <1>4 DEF Plan
    <2>2. \A v \in Versions : planStatus'[v] = "APPROVED" => v \in approvedOnce'
        BY <1>4, <1>5, <1>6, <1>7 DEF ApprovedInv
    <2>3. (\E x \in PlanWorkers : planCall'[x].op = "execute") => \E x \in PlanWorkers : planCall[x].op = "execute"
        BY <1>1, <1>11, <1>13
    <2>4. approvedOnce \subseteq approvedOnce'
        BY <1>5
    <2> QED
        BY <1>4, <1>7, <2>1, <2>2, <2>3, <2>4 DEF ApprovedInv
<1>17. resetRows \subseteq resetRows' /\ \A status, t : Tells(status, t) => Tells(status, t)'
    <2>1. resetRows \subseteq resetRows'
        BY <1>5
    <2> QED
        BY <1>4, <2>1 DEF Tells
<1>18. ASSUME ~entangled
       PROVE  /\ \A y, x \in PlanWorkers : y # x /\ planCall'[y].op \in RollbackOps => planCall'[x].op = "none"
              /\ \A x \in PlanWorkers : planCall'[x].op # "plan" /\ planCall'[x].at \in {"find", "save", "tasks", "undo"} =>
                    \A t \in CreateTasks : Tells(planCall[x].held[t], t)'
              /\ \A t \in CreateTasks : Tells(taskRow[t].status, t)' \/ \E x \in PlanWorkers : Unsaved(planCall'[x], t)
    <2>1. /\ \A y, x \in PlanWorkers : y # x /\ planCall[y].op \in RollbackOps => planCall[x].op = "none"
          /\ \A x \in PlanWorkers : planCall[x].op # "plan" /\ planCall[x].at \in {"find", "save", "tasks", "undo"} =>
                \A t \in CreateTasks : Tells(planCall[x].held[t], t)
          /\ \A t \in CreateTasks : Tells(taskRow[t].status, t) \/ \E x \in PlanWorkers : Unsaved(planCall[x], t)
        BY <1>7, <1>18 DEF TruthInv
    <2>2. \A y, x \in PlanWorkers : y # x /\ planCall'[y].op \in RollbackOps => planCall'[x].op = "none"
        BY <1>1, <1>11, <1>13, <2>1
    <2>3. ASSUME NEW x \in PlanWorkers, planCall'[x].op # "plan", planCall'[x].at \in {"find", "save", "tasks", "undo"},
                 NEW t \in CreateTasks
          PROVE  Tells(planCall[x].held[t], t)'
        <3>1. Tells(planCall[x].held[t], t)
            BY <1>1, <1>2, <1>4, <1>11, <1>13, <1>18, <2>1, <2>3
        <3>2. planCall'[x].held[t] = planCall[x].held[t]
            BY <1>1, <1>11, <1>13
        <3>3. PICK status : status = planCall[x].held[t]
            OBVIOUS
        <3>4. status = planCall'[x].held[t] /\ Tells(status, t)
            BY <3>1, <3>2, <3>3
        <3>5. Tells(status, t)'
            BY <1>17, <3>4
        <3> QED
            BY <3>4, <3>5 DEF Tells
    <2>4. ASSUME NEW t \in CreateTasks
          PROVE  Tells(taskRow[t].status, t)' \/ \E x \in PlanWorkers : Unsaved(planCall'[x], t)
        <3>1. PICK status : status = taskRow'[t].status
            OBVIOUS
        <3>2. ASSUME Tells(status, t)
              PROVE  Tells(taskRow[t].status, t)'
            <4>1. Tells(status, t)'
                BY <1>17, <3>2
            <4> QED
                BY <3>1, <4>1 DEF Tells
        <3>3. CASE t \in H
            <4>1. status = call.held[t]
                BY <1>4, <3>1, <3>3
            <4>2. CASE call.op # "plan"
                BY <1>2, <1>4, <1>18, <3>2, <4>1, <4>2
            <4>3. CASE call.op = "plan"
                <5>1. status = "PENDING"
                    BY <1>2, <1>3, <3>3, <4>1, <4>3 DEF CallOK
                <5>2. CASE taskRow[t].status = "PENDING"
                    <6>1. \A x \in PlanWorkers : ~Unsaved(planCall[x], t)
                        <7>1. ASSUME NEW x \in PlanWorkers, planCall[x].op \in RollbackOps
                              PROVE  FALSE
                            <8>1. x # w
                                BY <1>1, <4>3, <7>1 DEF RollbackOps
                            <8>2. planCall[w].op = "none"
                                BY <2>1, <7>1, <8>1
                            <8> QED
                                BY <1>1, <4>3, <8>2
                        <7> QED
                            BY <7>1 DEF Unsaved
                    <6>2. Tells(taskRow[t].status, t)
                        BY <2>1, <6>1
                    <6> QED
                        BY <3>2, <5>1, <5>2, <6>2
                <5>3. CASE taskRow[t].status # "PENDING"
                    <6>1. t \in resetRows'
                        BY <1>5, <3>3, <4>3, <5>3
                    <6> QED
                        BY <3>1, <5>1, <6>1 DEF Tells
                <5> QED
                    BY <5>2, <5>3
            <4> QED
                BY <4>2, <4>3
        <3>4. CASE t \notin H
            <4>1. status = taskRow[t].status
                BY <1>4, <3>1, <3>4
            <4>2. ASSUME NEW x \in PlanWorkers, Unsaved(planCall[x], t)
                  PROVE  Unsaved(planCall'[x], t)
                <5>1. x # w
                    BY <1>1, <1>3, <3>4, <4>2 DEF Unsaved
                <5> QED
                    BY <1>13, <4>2, <5>1
            <4> QED
                BY <2>1, <3>2, <4>1, <4>2
        <3> QED
            BY <3>3, <3>4
    <2> QED
        BY <2>2, <2>3, <2>4
<1>19. TruthInv'
    BY <1>4, <1>18 DEF TruthInv, Tells, Unsaved
<1> QED
    BY <1>15, <1>16, <1>19 DEF DecisionInv

-----------------------------------------------------------------------------
(* The loops *)

LEMMA OnlyCallMoves ==
    ASSUME TablesInv, NEW w \in PlanWorkers, NEW next \in PlanCallRec, CallOK(next),
           planCall' = [planCall EXCEPT ![w] = next], UNCHANGED <<settings, decision, planStatus, taskRow>>
    PROVE  TablesInv'
<1>1. /\ planStatus \in [Versions -> PlanStatuses \cup {"none"}]
      /\ taskRow \in [CreateTasks -> [plan : 0 .. MaxVersion, status : TaskStatuses]]
      /\ decision.plan \in 0 .. MaxVersion
      /\ \A v \in Versions : Table(GetPlan(v))
    BY DEF TablesInv
<1>2. \A v \in Versions : GetPlan(v)' = GetPlan(v)
    BY DEF GetPlan
<1> QED
    BY <1>1, <1>2, CallMoves

\* A step of a loop changes one task, on the store and in what the call holds.
LoopChanges(w, call, next, t) ==
    /\ w \in PlanWorkers /\ call = planCall[w] /\ call.op \in RollbackOps
    /\ next \in PlanCallRec /\ CallOK(next) /\ next.op = call.op /\ planCall' = [planCall EXCEPT ![w] = next]
    /\ call.at \in {"tasks", "undo"} /\ next.at \in {call.at, "save"}
    /\ UNCHANGED <<settings, decision, planStatus, taskRow, approvedOnce, entangled, resetRows>>
    /\ t \in CreateTasks
    /\ \A s \in CreateTasks : s # t => (s \in changed' <=> s \in changed) /\ next.held[s] = call.held[s]
    /\ changed' \subseteq Plan.tasks /\ (changed' # {} => approvedOnce # {}) /\ undoFailed \subseteq undoFailed'
    /\ Tells(next.held[t], t)' /\ Unsaved(next, t)

LEMMA LoopStep ==
    ASSUME DecisionInv, NEW w, NEW call, NEW next, NEW t, LoopChanges(w, call, next, t)
    PROVE  DecisionInv'
<1> /\ w \in PlanWorkers /\ call = planCall[w] /\ call.op \in RollbackOps
    /\ next \in PlanCallRec /\ CallOK(next) /\ next.op = call.op /\ planCall' = [planCall EXCEPT ![w] = next]
    /\ call.at \in {"tasks", "undo"} /\ next.at \in {call.at, "save"}
    /\ UNCHANGED <<settings, decision, planStatus, taskRow, approvedOnce, entangled, resetRows>>
    /\ t \in CreateTasks
    /\ \A s \in CreateTasks : s # t => (s \in changed' <=> s \in changed) /\ next.held[s] = call.held[s]
    /\ changed' \subseteq Plan.tasks /\ (changed' # {} => approvedOnce # {}) /\ undoFailed \subseteq undoFailed'
    /\ Tells(next.held[t], t)' /\ Unsaved(next, t)
    BY DEF LoopChanges
<1>1. /\ TablesInv /\ ApprovedInv /\ TruthInv
      /\ planCall \in [PlanWorkers -> PlanCallRec]
      /\ planStatus \in [Versions -> PlanStatuses \cup {"none"}]
      /\ taskRow \in [CreateTasks -> [plan : 0 .. MaxVersion, status : TaskStatuses]]
      /\ \A v \in Versions : Table(GetPlan(v)) /\ decision.plan \in 0 .. MaxVersion
      /\ \A x \in PlanWorkers : CallOK(planCall[x])
    BY DEF DecisionInv, TablesInv
<1>2. \A x \in PlanWorkers : planCall'[x] = IF x = w THEN next ELSE planCall[x]
    BY <1>1
<1>3. TablesInv'
    BY <1>1, OnlyCallMoves
<1>4. ApprovedInv'
    <2>1. Plan' = Plan
        BY DEF Plan
    <2>2. (\E x \in PlanWorkers : planCall'[x].op = "execute") => \E x \in PlanWorkers : planCall[x].op = "execute"
        BY <1>2
    <2> QED
        BY <1>1, <2>1, <2>2 DEF ApprovedInv
<1>5. \A status, s : s \in CreateTasks /\ s # t /\ Tells(status, s) => Tells(status, s)'
    <2>1. ASSUME NEW status, NEW s \in CreateTasks, s # t, Tells(status, s)
          PROVE  Tells(status, s)'
        <3>1. (s \in changed' <=> s \in changed) /\ (s \in undoFailed => s \in undoFailed') /\ resetRows' = resetRows
            BY <2>1
        <3> QED
            BY <2>1, <3>1 DEF Tells
    <2> QED
        BY <2>1
<1>6. ASSUME ~entangled
      PROVE  /\ \A y, x \in PlanWorkers : y # x /\ planCall'[y].op \in RollbackOps => planCall'[x].op = "none"
             /\ \A x \in PlanWorkers : planCall'[x].op # "plan" /\ planCall'[x].at \in {"find", "save", "tasks", "undo"} =>
                   \A s \in CreateTasks : Tells(planCall[x].held[s], s)'
             /\ \A s \in CreateTasks : Tells(taskRow[s].status, s)' \/ \E x \in PlanWorkers : Unsaved(planCall'[x], s)
    <2>1. /\ \A y, x \in PlanWorkers : y # x /\ planCall[y].op \in RollbackOps => planCall[x].op = "none"
          /\ \A x \in PlanWorkers : planCall[x].op # "plan" /\ planCall[x].at \in {"find", "save", "tasks", "undo"} =>
                \A s \in CreateTasks : Tells(planCall[x].held[s], s)
          /\ \A s \in CreateTasks : Tells(taskRow[s].status, s) \/ \E x \in PlanWorkers : Unsaved(planCall[x], s)
        BY <1>1, <1>6 DEF TruthInv
    <2>2. \A x \in PlanWorkers : x # w => planCall[x].op = "none" /\ planCall[x].at = "idle"
        BY <1>1, <2>1 DEF CallOK
    <2>3. \A y, x \in PlanWorkers : y # x /\ planCall'[y].op \in RollbackOps => planCall'[x].op = "none"
        <3>1. "none" \notin RollbackOps
            BY DEF RollbackOps
        <3> QED
            BY <1>2, <2>2, <3>1
    <2>4. ASSUME NEW x \in PlanWorkers, planCall'[x].at \in {"find", "save", "tasks", "undo"}, NEW s \in CreateTasks
          PROVE  Tells(planCall[x].held[s], s)'
        <3>1. x = w
            BY <1>2, <2>2, <2>4
        <3>2. CASE s = t
            <4>1. planCall'[x].held[s] = next.held[t]
                BY <1>2, <3>1, <3>2
            <4> QED
                BY <3>2, <4>1 DEF Tells
        <3>3. CASE s # t
            <4>1. call.op # "plan"
                BY DEF RollbackOps
            <4>2. Tells(call.held[s], s)
                BY <2>1, <4>1
            <4>3. PICK status : status = call.held[s]
                OBVIOUS
            <4>4. planCall'[x].held[s] = status
                BY <1>2, <3>1, <3>3, <4>3
            <4>5. Tells(status, s)'
                BY <1>5, <3>3, <4>2, <4>3
            <4> QED
                BY <4>4, <4>5 DEF Tells
        <3> QED
            BY <3>2, <3>3
    <2>5. ASSUME NEW s \in CreateTasks
          PROVE  Tells(taskRow[s].status, s)' \/ \E x \in PlanWorkers : Unsaved(planCall'[x], s)
        <3>1. CASE s = t
            BY <1>2, <3>1
        <3>2. CASE s # t
            <4>1. CASE Tells(taskRow[s].status, s)
                <5>1. PICK status : status = taskRow[s].status
                    OBVIOUS
                <5>2. Tells(status, s)' /\ status = taskRow'[s].status
                    BY <1>5, <3>2, <4>1, <5>1
                <5> QED
                    BY <5>2 DEF Tells
            <4>2. ASSUME NEW x \in PlanWorkers, Unsaved(planCall[x], s)
                  PROVE  \E y \in PlanWorkers : Unsaved(planCall'[y], s)
                <5>1. x = w
                    BY <2>2, <4>2 DEF Unsaved
                <5>2. Unsaved(next, s)
                    BY <3>2, <4>2, <5>1 DEF Unsaved
                <5> QED
                    BY <1>2, <5>2
            <4> QED
                BY <2>1, <4>1, <4>2
        <3> QED
            BY <3>1, <3>2
    <2> QED
        BY <2>3, <2>4, <2>5
<1>7. TruthInv'
    BY <1>6 DEF TruthInv, Tells, Unsaved
<1> QED
    BY <1>3, <1>4, <1>7 DEF DecisionInv

\* The call with another status of one task.
Marked(call, t, status) == [call EXCEPT !.held[t] = status]

LEMMA MarkedCall ==
    ASSUME NEW call \in PlanCallRec, NEW t \in CreateTasks, NEW status \in TaskStatuses
    PROVE  /\ Marked(call, t, status) \in PlanCallRec
           /\ Marked(call, t, status).held[t] = status
           /\ \A s \in CreateTasks : s # t => Marked(call, t, status).held[s] = call.held[s]
           /\ Marked(call, t, status).op = call.op /\ Marked(call, t, status).at = call.at
           /\ Marked(call, t, status).version = call.version /\ Marked(call, t, status).status = call.status
           /\ Marked(call, t, status).next = call.next /\ Marked(call, t, status).targets = call.targets
    BY DEF PlanCallRec, Marked, Held

LEMMA NextTaskIs ==
    ASSUME settings \in PlanSettings, NEW call \in PlanCallRec, NEW order, order = Plan.orderedTaskIds,
           NEW i, i = NextTask(call), i # 0
    PROVE  /\ i \in DOMAIN order /\ i > call.next
           /\ call.held[order[i]] \notin {"absent", "COMPLETED"}
           /\ \A j \in DOMAIN order : j < i /\ j > call.next => call.held[order[j]] \in {"absent", "COMPLETED"}
<1>1. PICK T \in SUBSET CreateTasks : order \in Seq(T)
    BY PlanShape
<1>2. DOMAIN order \in SUBSET Nat
    BY <1>1
<1>3. PICK left \in SUBSET Nat : left = {j \in DOMAIN order : j > call.next /\ call.held[order[j]] \notin {"absent", "COMPLETED"}}
    BY <1>2
<1>4. i = IF left = {} THEN 0 ELSE CHOOSE k \in left : \A j \in left : k <= j
    BY <1>3 DEF NextTask
<1>5. left # {}
    BY <1>4
<1>6. PICK least \in left : \A j \in left : least <= j
    BY <1>5, LeastNumber
<1>7. i \in left /\ \A j \in left : i <= j
    BY <1>4, <1>5, <1>6
<1>8. i \in DOMAIN order /\ i > call.next /\ call.held[order[i]] \notin {"absent", "COMPLETED"}
    BY <1>3, <1>7
<1>9. ASSUME NEW j \in DOMAIN order, j < i, j > call.next
      PROVE  call.held[order[j]] \in {"absent", "COMPLETED"}
    <2>1. j \in Nat /\ i \in Nat
        BY <1>2, <1>3, <1>7
    <2>2. ~ (i <= j)
        BY <1>9, <2>1
    <2> QED
        BY <1>3, <1>7, <1>9, <2>2
<1> QED
    BY <1>8, <1>9

\* The next task of an execution has all before it behind it.
LEMMA TaskInTurn ==
    ASSUME settings \in PlanSettings, NEW call \in PlanCallRec, CallOK(call), call.op = "execute", call.at = "tasks",
           NEW i, i = NextTask(call), i # 0, NEW status \in {"COMPLETED", "FAILED"}
    PROVE  \E t \in CreateTasks :
              /\ t = Plan.orderedTaskIds[i] /\ t \in Plan.tasks /\ call.held[t] # "absent"
              /\ Table(Marked(call, t, status).held)
              /\ \A j \in DOMAIN Plan.orderedTaskIds :
                    j < i => call.held[Plan.orderedTaskIds[j]] \in {"absent", "COMPLETED"}
              /\ i \in Nat
<1>1. PICK T \in SUBSET CreateTasks :
          Plan.tasks = T /\ Plan.orderedTaskIds = TopologicalOrder(T) /\ TopologicalOrder(T) \in Seq(T)
    BY PlanShape
<1>2. PICK order \in Seq(T) : order = TopologicalOrder(T) /\ order = Plan.orderedTaskIds
    BY <1>1
<1>3. /\ i \in DOMAIN order /\ i > call.next
      /\ call.held[order[i]] \notin {"absent", "COMPLETED"}
      /\ \A j \in DOMAIN order : j < i /\ j > call.next => call.held[order[j]] \in {"absent", "COMPLETED"}
    BY <1>2, NextTaskIs
<1>4. call.status = "EXECUTING" /\ Table(call.held) /\ call.next \in Nat
    BY DEF CallOK, PlanCallRec
<1>5. \A j \in DOMAIN order : j <= call.next => call.held[order[j]] \in {"absent", "COMPLETED"}
    BY <1>2, <1>4 DEF CallOK
<1>6. ASSUME NEW j \in DOMAIN order, j < i
      PROVE  call.held[order[j]] \in {"absent", "COMPLETED"}
    <2>1. j \in Nat
        OBVIOUS
    <2>2. j <= call.next \/ j > call.next
        BY <1>4, <2>1
    <2> QED
        BY <1>3, <1>5, <1>6, <2>2
<1>7. PICK t \in T : t = order[i]
    BY <1>3
<1>8. t \in CreateTasks /\ status \in TaskStatuses
    BY <1>7 DEF TaskStatuses
<1>9. PICK new : new = Marked(call, t, status).held
    OBVIOUS
<1>10. new[t] = status /\ \A s \in CreateTasks : s # t => new[s] = call.held[s]
    BY <1>8, <1>9, MarkedCall
<1>11. ASSUME NEW s \in CreateTasks, NEW u \in CreateTasks, Before(s, u), new[s] = "PENDING"
       PROVE  new[u] \notin {"COMPLETED", "FAILED"}
    <2>1. s # t /\ call.held[s] = "PENDING"
        BY <1>10, <1>11
    <2>2. CASE u # t
        BY <1>4, <1>10, <1>11, <2>1, <2>2 DEF Table
    <2>3. CASE u = t
        <3>1. s \in T
            BY <1>1, <1>4, <2>1 DEF Table
        <3>2. PICK j \in 1 .. i - 1 : order[j] = s
            <4>1. Before(s, TopologicalOrder(T)[i]) /\ i \in DOMAIN TopologicalOrder(T)
                BY <1>2, <1>3, <1>7, <1>11, <2>3
            <4>2. \E j \in 1 .. i - 1 : TopologicalOrder(T)[j] = s
                BY <3>1, <4>1, RunsInOrder
            <4> QED
                BY <1>2, <4>2
        <3>3. j \in DOMAIN order /\ j < i
            BY <1>3, <3>2
        <3> QED
            BY <1>6, <2>1, <3>2, <3>3
    <2> QED
        BY <2>2, <2>3
<1>12. /\ \A s \in CreateTasks \ T : new[s] = "absent"
       /\ \A s, u \in T : new[s] = "absent" => new[u] = "absent"
    <2>1. t \in T /\ call.held[t] # "absent" /\ status # "absent"
        BY <1>3, <1>7
    <2>2. /\ \A s \in CreateTasks \ T : call.held[s] = "absent"
          /\ \A s \in T : call.held[s] # "absent"
        BY <1>1, <1>4, <2>1 DEF Table
    <2> QED
        BY <1>8, <1>10, <2>1, <2>2
<1>13. Table(new)
    BY <1>1, <1>11, <1>12 DEF Table
<1>14. i \in Nat
    BY <1>3
<1> QED
    BY <1>1, <1>2, <1>3, <1>6, <1>7, <1>8, <1>9, <1>13, <1>14

LEMMA TaskExecuted ==
    ASSUME DecisionInv, NEW w \in PlanWorkers, ExecuteTask(w)
    PROVE  DecisionInv'
<1>1. PICK call : call = planCall[w]
    OBVIOUS
<1>2. call \in PlanCallRec /\ CallOK(call) /\ settings \in PlanSettings
    BY <1>1, OfCall
<1>3. PICK i : i = NextTask(call)
    OBVIOUS
<1>4. call.at = "tasks" /\ i # 0
      /\ UNCHANGED <<settings, decision, planStatus, taskRow, approvedOnce, entangled, resetRows, undoFailed>>
    BY <1>1, <1>3 DEF ExecuteTask
<1>5. call.op = "execute" /\ call.op \in RollbackOps /\ call.status = "EXECUTING"
    BY <1>2, <1>4 DEF CallOK, PlanCallRec, RollbackOps
<1>6. PICK t \in CreateTasks :
              /\ t = Plan.orderedTaskIds[i] /\ t \in Plan.tasks /\ call.held[t] # "absent"
              /\ \A j \in DOMAIN Plan.orderedTaskIds :
                    j < i => call.held[Plan.orderedTaskIds[j]] \in {"absent", "COMPLETED"}
              /\ i \in Nat
    BY <1>2, <1>3, <1>4, <1>5, TaskInTurn
<1>7. \A status \in {"COMPLETED", "FAILED"} : Table(Marked(call, t, status).held)
    BY <1>2, <1>3, <1>4, <1>5, <1>6, TaskInTurn
<1>8. ApprovedInv /\ approvedOnce # {}
    BY <1>1, <1>5 DEF DecisionInv, ApprovedInv
<1>9. PICK T \in SUBSET CreateTasks :
          Plan.tasks = T /\ Plan.orderedTaskIds \in Seq(T)
    BY <1>2, PlanShape
<1>10. ASSUME changed' \in {changed, changed \cup {t}}
       PROVE  /\ changed' \subseteq Plan.tasks
              /\ \A s \in CreateTasks : s # t => (s \in changed' <=> s \in changed)
    BY <1>6, <1>8, <1>10 DEF ApprovedInv
<1>11. CASE /\ changed' = changed \cup {t}
            /\ planCall' = [planCall EXCEPT ![w].held[t] = "COMPLETED", ![w].next = i]
    <2>1. PICK marked : marked = Marked(call, t, "COMPLETED")
        OBVIOUS
    <2>2. /\ marked \in PlanCallRec /\ marked.held[t] = "COMPLETED"
          /\ \A s \in CreateTasks : s # t => marked.held[s] = call.held[s]
          /\ marked.op = call.op /\ marked.at = call.at /\ marked.version = call.version /\ marked.status = call.status
          /\ marked.targets = call.targets
        <3>1. "COMPLETED" \in TaskStatuses
            BY DEF TaskStatuses
        <3> QED
            BY <1>2, <2>1, <3>1, MarkedCall
    <2>3. PICK next : next = [marked EXCEPT !.next = i]
        OBVIOUS
    <2>4. /\ next \in PlanCallRec /\ next.held = marked.held /\ next.op = call.op /\ next.at = call.at
          /\ next.version = call.version /\ next.status = call.status /\ next.next = i
        BY <1>6, <2>2, <2>3 DEF PlanCallRec
    <2>5. planCall' = [planCall EXCEPT ![w] = next]
        BY <1>1, <1>11, <2>1, <2>3 DEF Marked
    <2>6. \A j \in DOMAIN Plan.orderedTaskIds :
              j <= i => next.held[Plan.orderedTaskIds[j]] \in {"absent", "COMPLETED"}
        <3>1. ASSUME NEW j \in DOMAIN Plan.orderedTaskIds, j <= i
              PROVE  next.held[Plan.orderedTaskIds[j]] \in {"absent", "COMPLETED"}
            <4>1. j \in Nat /\ Plan.orderedTaskIds[j] \in CreateTasks
                BY <1>9
            <4>2. CASE Plan.orderedTaskIds[j] = t
                BY <2>2, <2>4, <4>2
            <4>3. CASE Plan.orderedTaskIds[j] # t
                <5>1. j < i
                    BY <1>6, <3>1, <4>1, <4>3
                <5> QED
                    BY <1>6, <2>2, <2>4, <4>1, <4>3, <5>1
            <4> QED
                BY <4>2, <4>3
        <3> QED
            BY <3>1
    <2>7. Table(next.held)
        BY <1>7, <2>1, <2>4
    <2>8. CallOK(next)
        BY <1>2, <1>4, <1>5, <2>4, <2>6, <2>7 DEF CallOK
    <2>9. Unsaved(next, t) /\ Tells(next.held[t], t)'
        <3>1. t \in changed' /\ next.held[t] = "COMPLETED"
            BY <1>11, <2>2, <2>4
        <3> QED
            BY <1>4, <1>5, <2>4, <3>1 DEF Unsaved, Tells
    <2>10. /\ changed' \subseteq Plan.tasks
           /\ \A s \in CreateTasks : s # t => (s \in changed' <=> s \in changed) /\ next.held[s] = call.held[s]
        BY <1>10, <1>11, <2>2, <2>4
    <2>11. /\ call.at \in {"tasks", "undo"} /\ next.at \in {call.at, "save"} /\ next.op = call.op
           /\ changed' # {} => approvedOnce # {}
           /\ undoFailed \subseteq undoFailed' /\ t \in CreateTasks
           /\ UNCHANGED <<settings, decision, planStatus, taskRow, approvedOnce, entangled, resetRows>>
        BY <1>4, <1>6, <1>8, <2>4
    <2>12. LoopChanges(w, call, next, t)
        BY <1>1, <1>5, <2>4, <2>5, <2>8, <2>9, <2>10, <2>11 DEF LoopChanges
    <2> QED
        BY <2>12, LoopStep
<1>12. CASE /\ changed' \in {changed, changed \cup {t}}
            /\ planCall' = [planCall EXCEPT ![w].held[t] = "FAILED", ![w].status = "FAILED", ![w].at = "save"]
    <2>1. PICK marked : marked = Marked(call, t, "FAILED")
        OBVIOUS
    <2>2. /\ marked \in PlanCallRec /\ marked.held[t] = "FAILED"
          /\ \A s \in CreateTasks : s # t => marked.held[s] = call.held[s]
          /\ marked.op = call.op /\ marked.at = call.at /\ marked.version = call.version
        <3>1. "FAILED" \in TaskStatuses
            BY DEF TaskStatuses
        <3> QED
            BY <1>2, <2>1, <3>1, MarkedCall
    <2>3. PICK next : next = Moved(marked, "FAILED", "save")
        OBVIOUS
    <2>4. /\ next \in PlanCallRec /\ next.held = marked.held /\ next.op = call.op /\ next.at = "save"
          /\ next.version = call.version /\ next.status = "FAILED"
        <3>1. "save" \in PlanCallStops /\ "FAILED" \in PlanStatuses \cup {"none"}
            BY DEF PlanCallStops, PlanStatuses
        <3> QED
            BY <2>2, <2>3, <3>1, MovedCall
    <2>5. planCall' = [planCall EXCEPT ![w] = next]
        BY <1>1, <1>12, <2>1, <2>3 DEF Marked, Moved
    <2>6. Table(next.held)
        BY <1>7, <2>1, <2>4
    <2>7. CallOK(next)
        BY <1>2, <1>4, <1>5, <2>4, <2>6 DEF CallOK
    <2>8. Unsaved(next, t) /\ Tells(next.held[t], t)'
        BY <1>5, <2>2, <2>4 DEF Unsaved, Tells
    <2>9. /\ changed' \subseteq Plan.tasks
          /\ \A s \in CreateTasks : s # t => (s \in changed' <=> s \in changed) /\ next.held[s] = call.held[s]
        BY <1>10, <1>12, <2>2, <2>4
    <2>10. /\ call.at \in {"tasks", "undo"} /\ next.at \in {call.at, "save"} /\ next.op = call.op
           /\ changed' # {} => approvedOnce # {}
           /\ undoFailed \subseteq undoFailed' /\ t \in CreateTasks
           /\ UNCHANGED <<settings, decision, planStatus, taskRow, approvedOnce, entangled, resetRows>>
        BY <1>4, <1>6, <1>8, <2>4
    <2>11. LoopChanges(w, call, next, t)
        BY <1>1, <1>5, <2>4, <2>5, <2>7, <2>8, <2>9, <2>10 DEF LoopChanges
    <2> QED
        BY <2>11, LoopStep
<1> QED
    BY <1>1, <1>3, <1>6, <1>11, <1>12 DEF ExecuteTask

LEMMA TaskRolledBack ==
    ASSUME DecisionInv, NEW w \in PlanWorkers, RollbackTask(w)
    PROVE  DecisionInv'
<1>1. PICK call : call = planCall[w]
    OBVIOUS
<1>2. call \in PlanCallRec /\ CallOK(call) /\ settings \in PlanSettings /\ decision.plan \in 0 .. MaxVersion
    BY <1>1, OfCall
<1>3. call.at = "undo" /\ UNCHANGED <<settings, decision, planStatus, taskRow, approvedOnce, resetRows>>
    BY <1>1 DEF RollbackTask
<1>4. call.op = "rollback" /\ call.op \in RollbackOps /\ call.status = "ROLLED_BACK"
    BY <1>2, <1>3 DEF CallOK, PlanCallRec, RollbackOps
<1>5. CASE /\ planCall' = [planCall EXCEPT ![w] = NoPlanCall]
           /\ entangled' = (entangled \/ \E s \in CreateTasks : call.held[s] = "ROLLED_BACK")
           /\ UNCHANGED <<changed, undoFailed>>
    <2>1. ASSUME ~entangled'
          PROVE  ~entangled /\ ~ \E s \in CreateTasks : call.held[s] = "ROLLED_BACK"
        BY <1>5, <2>1, Zenon
    <2>2. ~entangled' => ~entangled /\ \A t \in CreateTasks : ~Unsaved(planCall[w], t)
        BY <1>1, <1>3, <2>1 DEF Unsaved
    <2> QED
        BY <1>2, <1>3, <1>5, <2>2, CallEnds
<1>6. ASSUME NEW t \in call.targets,
             planCall' = [planCall EXCEPT ![w].targets = @ \ {t}, ![w].held[t] = "ROLLED_BACK"],
             \/ changed' = changed \ {t} /\ UNCHANGED undoFailed
             \/ changed' \in {changed, changed \ {t}} /\ undoFailed' = undoFailed \cup {t},
             UNCHANGED entangled
      PROVE  DecisionInv'
    <2>1. PICK fewer : fewer = [call EXCEPT !.targets = call.targets \ {t}]
        OBVIOUS
    <2>2. /\ fewer \in PlanCallRec /\ fewer.held = call.held /\ fewer.op = call.op /\ fewer.at = call.at
          /\ fewer.version = call.version /\ fewer.status = call.status /\ fewer.targets = call.targets \ {t}
        BY <1>2, <2>1 DEF PlanCallRec
    <2>3. PICK next : next = Marked(fewer, t, "ROLLED_BACK")
        OBVIOUS
    <2>4. t \in CreateTasks /\ "ROLLED_BACK" \in TaskStatuses
        BY <1>2 DEF PlanCallRec, TaskStatuses
    <2>5. /\ next \in PlanCallRec /\ next.held[t] = "ROLLED_BACK"
          /\ \A s \in CreateTasks : s # t => next.held[s] = call.held[s]
          /\ next.op = call.op /\ next.at = call.at /\ next.version = call.version /\ next.status = call.status
          /\ next.targets = call.targets \ {t}
        BY <2>2, <2>3, <2>4, MarkedCall
    <2>6. planCall' = [planCall EXCEPT ![w] = next]
        BY <1>1, <1>6, <2>1, <2>3 DEF Marked
    <2>7. PICK T \in SUBSET CreateTasks : Plan.tasks = T
        BY <1>2, PlanShape
    <2>8. Table(call.held) /\ \A s \in call.targets : call.held[s] # "absent"
        BY <1>2, <1>4 DEF CallOK
    <2>9. Table(next.held)
        <3>1. t \in T
            BY <2>4, <2>7, <2>8 DEF Table
        <3>2. \A s \in T : call.held[s] # "absent"
            BY <2>7, <2>8, <3>1 DEF Table
        <3>3. /\ \A s \in CreateTasks \ T : next.held[s] = "absent"
              /\ \A s \in T : next.held[s] # "absent"
            BY <2>5, <2>7, <2>8, <3>1, <3>2 DEF Table
        <3>4. \A s, u \in CreateTasks : Before(s, u) /\ next.held[s] = "PENDING" => next.held[u] \notin {"COMPLETED", "FAILED"}
            BY <2>5, <2>8 DEF Table
        <3> QED
            BY <2>7, <3>3, <3>4 DEF Table
    <2>10. CallOK(next)
        <3>1. \A s \in next.targets : next.held[s] # "absent"
            <4>1. \A s \in next.targets : s \in call.targets /\ s \in CreateTasks /\ s # t
                BY <1>2, <2>5 DEF PlanCallRec
            <4> QED
                BY <2>5, <2>8, <4>1
        <3> QED
            BY <1>2, <1>3, <1>4, <2>5, <2>9, <3>1 DEF CallOK
    <2>11. Unsaved(next, t) /\ Tells(next.held[t], t)'
        <3>1. t \notin changed' \/ t \in undoFailed'
            BY <1>6
        <3> QED
            BY <1>3, <1>4, <2>5, <3>1 DEF Unsaved, Tells
    <2>12. ApprovedInv
        BY DEF DecisionInv
    <2>13. /\ changed' \subseteq Plan.tasks
           /\ \A s \in CreateTasks : s # t => (s \in changed' <=> s \in changed) /\ next.held[s] = call.held[s]
        BY <1>6, <2>5, <2>12 DEF ApprovedInv
    <2>14. changed' # {} => approvedOnce # {}
        BY <1>6, <2>12 DEF ApprovedInv
    <2>15. /\ next \in PlanCallRec /\ call.at \in {"tasks", "undo"} /\ next.at \in {call.at, "save"} /\ next.op = call.op
           /\ undoFailed \subseteq undoFailed' /\ t \in CreateTasks
           /\ UNCHANGED <<settings, decision, planStatus, taskRow, approvedOnce, entangled, resetRows>>
        BY <1>3, <1>6, <2>4, <2>5
    <2>16. LoopChanges(w, call, next, t)
        BY <1>1, <1>4, <2>6, <2>10, <2>11, <2>13, <2>14, <2>15 DEF LoopChanges
    <2> QED
        BY <2>16, LoopStep
<1>7. PICK t \in call.targets :
          \/ /\ planCall' = [planCall EXCEPT ![w] = NoPlanCall]
             /\ entangled' = (entangled \/ \E s \in CreateTasks : call.held[s] = "ROLLED_BACK")
             /\ UNCHANGED <<changed, undoFailed>>
          \/ /\ planCall' = [planCall EXCEPT ![w].targets = @ \ {t}, ![w].held[t] = "ROLLED_BACK"]
             /\ \/ changed' = changed \ {t} /\ UNCHANGED undoFailed
                \/ changed' \in {changed, changed \ {t}} /\ undoFailed' = undoFailed \cup {t}
             /\ UNCHANGED entangled
    BY <1>1, Zenon DEF RollbackTask
<1> QED
    BY <1>5, <1>6, <1>7

-----------------------------------------------------------------------------
(* The theorem *)

LEMMA PlansBegin ==
    ASSUME PlansInit
    PROVE  DecisionInv
<1>1. /\ settings \in PlanSettings /\ decision.plan = 0 /\ planStatus = [v \in Versions |-> "none"]
      /\ taskRow = [t \in CreateTasks |-> [plan |-> 0, status |-> "PENDING"]]
      /\ planCall = [w \in PlanWorkers |-> NoPlanCall] /\ changed = {} /\ 0 \in 0 .. MaxVersion
    BY DecisionAssumption DEF PlansInit
<1>2. PICK T \in SUBSET CreateTasks : Plan.tasks = T
    BY <1>1, PlanShape
<1>3. /\ NoPlanCall \in PlanCallRec /\ CallOK(NoPlanCall) /\ NoPlanCall.at = "idle" /\ NoPlanCall.op = "none"
    BY <1>1, IdleCall
<1>4. \A w \in PlanWorkers : planCall[w] = NoPlanCall
    BY <1>1
<1>5. TablesInv
    <2>1. ASSUME NEW v \in Versions
          PROVE  Table(GetPlan(v))
        <3>1. PICK rows : rows = GetPlan(v)
            OBVIOUS
        <3>2. v # 0
            BY DecisionAssumption DEF Versions
        <3>3. \A t \in CreateTasks : rows[t] = "absent"
            BY <1>1, <3>1, <3>2 DEF GetPlan
        <3>4. Table(rows)
            BY <1>2, <3>3 DEF Table
        <3> QED
            BY <3>1, <3>4
    <2>2. planCall \in [PlanWorkers -> PlanCallRec] /\ \A w \in PlanWorkers : CallOK(planCall[w])
        BY <1>1, <1>3
    <2>3. taskRow \in [CreateTasks -> [plan : 0 .. MaxVersion, status : TaskStatuses]]
        <3>1. PICK row : row = [plan |-> 0, status |-> "PENDING"]
            OBVIOUS
        <3>2. row \in [plan : 0 .. MaxVersion, status : TaskStatuses]
            BY <1>1, <3>1 DEF TaskStatuses
        <3> QED
            BY <1>1, <3>1, <3>2
    <2>4. planStatus \in [Versions -> PlanStatuses \cup {"none"}]
        BY <1>1
    <2> QED
        BY <1>1, <2>1, <2>2, <2>3, <2>4 DEF TablesInv
<1>6. ApprovedInv
    BY <1>1, <1>3, <1>4 DEF ApprovedInv
<1>7. TruthInv
    <2>1. "none" \notin RollbackOps
        BY DEF RollbackOps
    <2>2. \A t \in CreateTasks : Tells(taskRow[t].status, t)
        BY <1>1 DEF Tells
    <2> QED
        BY <1>3, <1>4, <2>1, <2>2 DEF TruthInv
<1> QED
    BY <1>5, <1>6, <1>7 DEF DecisionInv

\* DecisionInv is inductive: one lemma per action, and a stutter.
LEMMA PlansGoOn ==
    ASSUME DecisionInv, [PlansNext]_planVars
    PROVE  DecisionInv'
<1>1. CASE UNCHANGED planVars
    <2>1. /\ settings' = settings /\ decision' = decision /\ planStatus' = planStatus /\ taskRow' = taskRow
          /\ planCall' = planCall /\ changed' = changed /\ approvedOnce' = approvedOnce /\ entangled' = entangled
          /\ resetRows' = resetRows /\ undoFailed' = undoFailed
        BY <1>1 DEF planVars
    <2>2. Plan' = Plan /\ \A v \in Versions : GetPlan(v)' = GetPlan(v)
        BY <2>1 DEF Plan, GetPlan
    <2>3. TablesInv'
        <3>1. /\ \A h : Table(h)' <=> Table(h)
              /\ \A call : CallOK(call)' <=> CallOK(call)
            BY <2>2 DEF Table, CallOK
        <3>2. TablesInv
            BY DEF DecisionInv
        <3> QED
            BY <2>1, <2>2, <3>1, <3>2 DEF TablesInv, Table, CallOK
    <2>4. ApprovedInv'
        BY <2>1, <2>2 DEF DecisionInv, ApprovedInv
    <2>5. TruthInv'
        BY <2>1 DEF DecisionInv, TruthInv, Tells, Unsaved
    <2> QED
        BY <2>3, <2>4, <2>5 DEF DecisionInv
<1>2. ASSUME NEW w \in PlanWorkers,
             \/ PlanDecision(w)
             \/ \E v \in Versions : \/ DecidePlan(w, v) \/ ExecutePlan(w, v)
                                    \/ \E only \in {{}} \cup {{t} : t \in CreateTasks} : ExecuteRollback(w, v, only)
             \/ FindRequest(w) \/ SavePlan(w) \/ SaveRequest(w) \/ SaveDecision(w)
             \/ ExecuteTask(w) \/ AllExecuted(w) \/ RollbackTask(w) \/ AllRolledBack(w)
             \/ CallEndsMidway(w)
      PROVE  DecisionInv'
    <2>1. CASE PlanDecision(w)
        BY <2>1, PlanningBegins
    <2>2. ASSUME NEW v \in Versions,
                 \/ DecidePlan(w, v) \/ ExecutePlan(w, v)
                 \/ \E only \in {{}} \cup {{t} : t \in CreateTasks} : ExecuteRollback(w, v, only)
          PROVE  DecisionInv'
        BY <2>2, OthersBegin
    <2>3. CASE FindRequest(w)
        BY <2>3, Finding
    <2>4. CASE SavePlan(w)
        BY <2>4, PlanSaved
    <2>5. CASE SaveRequest(w)
        BY <2>5, RequestSaved
    <2>6. CASE SaveDecision(w)
        BY <2>6, DecisionSaved
    <2>7. CASE ExecuteTask(w)
        BY <2>7, TaskExecuted
    <2>8. CASE AllExecuted(w)
        BY <2>8, ExecutionEnds
    <2>9. CASE RollbackTask(w)
        BY <2>9, TaskRolledBack
    <2>10. CASE AllRolledBack(w)
        BY <2>10, RollbackEnds
    <2>11. CASE CallEndsMidway(w)
        BY <2>11, CutShort
    <2> QED
        BY <1>2, <2>1, <2>2, <2>3, <2>4, <2>5, <2>6, <2>7, <2>8, <2>9, <2>10, <2>11
<1> QED
    BY <1>1, <1>2 DEF PlansNext

LEMMA ApprovalKept ==
    ASSUME DecisionInv
    PROVE  PlansAreHonoured
<1>1. /\ TablesInv /\ ApprovedInv /\ TruthInv /\ settings \in PlanSettings
      /\ \A w \in PlanWorkers : CallOK(planCall[w])
    BY DEF DecisionInv, TablesInv
<1>2. PICK max \in Int : max = settings.maxChangesPerResource
    BY <1>1, DecisionAssumption
<1>3. PICK T \in SUBSET CreateTasks : Plan.tasks = T /\ T = Keep(max)
    BY <1>1, <1>2, PlanShape
<1>4. changed \in SUBSET Keep(max)
    BY <1>1, <1>3 DEF ApprovedInv
<1>5. OnlyApprovedChanges
    <2>1. changed # {} => approvedOnce # {}
        BY <1>1 DEF ApprovedInv
    <2>2. \A s, t \in changed : ~Conflict(s, t)
        BY <1>4, KeepHasNoConflict
    <2>3. ASSUME max > 0, NEW t \in changed
          PROVE  Cardinality({s \in changed : s[2] = t[2]}) <= max
        BY <1>4, <2>3, KeepIsCapped
    <2> QED
        BY <1>2, <2>1, <2>2, <2>3 DEF OnlyApprovedChanges
<1>6. RowsTellTheTruth
    <2>1. ASSUME ~entangled, \A w \in PlanWorkers : planCall[w].at = "idle", NEW t \in CreateTasks
          PROVE  Tells(taskRow[t].status, t)
        <3>1. \A w \in PlanWorkers : ~Unsaved(planCall[w], t)
            BY <2>1 DEF Unsaved
        <3> QED
            BY <1>1, <2>1, <3>1 DEF TruthInv
    <2> QED
        BY <2>1 DEF RowsTellTheTruth, Tells
<1>7. PrerequisitesFirst
    <2>1. \A w \in PlanWorkers : Table(planCall[w].held)
        BY <1>1 DEF CallOK
    <2> QED
        BY <2>1 DEF PrerequisitesFirst, Table, Before
<1> QED
    BY <1>5, <1>6, <1>7 DEF PlansAreHonoured

\* Whatever approvals, rejections, executions, rollbacks and re-plans of a
\* decision overlap, and wherever they are cut short: the store only gets
\* changes of an approved version, without conflicts and within the cap; when
\* no call is in progress the rows tell what was done; and a task runs after
\* those that come before it on its resource.
THEOREM PlansHonoured == PlansSpec => []PlansAreHonoured
<1>1. PlansInit => DecisionInv
    BY PlansBegin
<1>2. DecisionInv /\ [PlansNext]_planVars => DecisionInv'
    BY PlansGoOn
<1>3. DecisionInv => PlansAreHonoured
    BY ApprovalKept
<1> QED
    BY <1>1, <1>2, <1>3, PTL DEF PlansSpec

-----------------------------------------------------------------------------
(* What the preparation of an execution promises of its steps *)

LEMMA RankType ==
    ASSUME NEW steps, NEW p \in Nat
    PROVE  RankOf(steps, p) \in Nat
<1> DEFINE earlier == {t \in 1 .. p - 1 : SameKind(steps, t, p)}
<1>1. IsFiniteSet(1 .. p - 1) /\ earlier \subseteq 1 .. p - 1
    <2>1. PICK last \in Int : last = p - 1
        OBVIOUS
    <2>2. IsFiniteSet(1 .. last)
        BY FS_Interval
    <2> QED
        BY <2>1, <2>2
<1>2. Cardinality(earlier) \in Nat
    BY <1>1, FS_Subset, FS_CardinalityType
<1> QED
    BY <1>2 DEF RankOf

\* Of steps of a kind the later one has the higher rank, so that at most
\* MaxBatchSize of them share a quotient by it.
LEMMA RankGrows ==
    ASSUME NEW steps, NEW n \in Nat, DOMAIN steps = 1 .. n,
           NEW p \in 1 .. n, NEW q \in 1 .. n, p < q, SameKind(steps, p, q)
    PROVE  RankOf(steps, p) < RankOf(steps, q)
<1> DEFINE before(s) == {t \in 1 .. s - 1 : SameKind(steps, t, s)}
<1>1. p \in Nat /\ q \in Nat
    OBVIOUS
<1>2. before(p) \subseteq before(q) /\ p \in before(q) /\ p \notin before(p)
    BY DEF SameKind
<1>3. IsFiniteSet(before(q))
    <2>1. PICK last \in Int : last = q - 1
        BY <1>1
    <2>2. IsFiniteSet(1 .. last)
        BY FS_Interval
    <2>3. before(q) \subseteq 1 .. last
        BY <2>1
    <2> QED
        BY <2>2, <2>3, FS_Subset
<1> HIDE DEF before
<1>4. Cardinality(before(p)) <= Cardinality(before(q)) /\ Cardinality(before(p)) # Cardinality(before(q))
    BY <1>2, <1>3, FS_Subset
<1>5. Cardinality(before(p)) = RankOf(steps, p) /\ Cardinality(before(q)) = RankOf(steps, q)
    BY DEF before, RankOf
<1> QED
    BY <1>1, <1>4, <1>5, RankType

LEMMA Division ==
    ASSUME NEW a \in Nat, NEW m \in Nat \ {0}
    PROVE  /\ a % m \in 0 .. m - 1
           /\ \A b \in Nat : a \div m = b \div m /\ a % m = b % m => a = b
<1>1. a % m \in 0 .. m - 1
    OBVIOUS
<1>2. ASSUME NEW b \in Nat, a \div m = b \div m, a % m = b % m
      PROVE  a = b
    BY <1>2
<1> QED
    BY <1>1, <1>2

LEMMA BatchesAreSmall ==
    ASSUME NEW steps, NEW n \in Nat, DOMAIN steps = 1 .. n, NEW p \in 1 .. n
    PROVE  Cardinality(BatchOf(steps, p)) <= MaxBatchSize
<1> DEFINE batch == BatchOf(steps, p)
           place == [q \in batch |-> RankOf(steps, q) % MaxBatchSize]
<1>1. MaxBatchSize \in Nat \ {0}
    BY PreparationAssumption
<1>2. \A q \in batch : q \in 1 .. n /\ RankOf(steps, q) \in Nat
    BY RankType DEF BatchOf
<1>3. place \in [batch -> 0 .. MaxBatchSize - 1]
    BY <1>1, <1>2, Division
<1>4. ASSUME NEW q \in batch, NEW r \in batch, place[q] = place[r]
      PROVE  q = r
    <2>1. RankOf(steps, q) \div MaxBatchSize = RankOf(steps, r) \div MaxBatchSize
        BY DEF BatchOf
    <2>2. RankOf(steps, q) % MaxBatchSize = RankOf(steps, r) % MaxBatchSize
        BY <1>4
    <2>3. RankOf(steps, q) = RankOf(steps, r)
        BY <1>1, <1>2, <2>1, <2>2, Division
    <2>4. SameKind(steps, q, r) /\ SameKind(steps, r, q)
        BY DEF BatchOf, SameKind
    <2>5. ~ (q < r) /\ ~ (r < q)
        BY <1>2, <2>3, <2>4, RankGrows
    <2> QED
        BY <1>2, <2>5
<1> HIDE DEF batch, place
<1>5. place \in Injection(batch, 0 .. MaxBatchSize - 1)
    BY <1>3, <1>4 DEF Injection, IsInjective
<1>6. IsFiniteSet(0 .. MaxBatchSize - 1) /\ Cardinality(0 .. MaxBatchSize - 1) = MaxBatchSize
    BY <1>1, FS_Interval
<1> QED
    BY <1>5, <1>6, FS_Injection DEF batch

LEMMA OneBatchEach ==
    ASSUME NEW steps, NEW p \in DOMAIN steps
    PROVE  Cardinality({b \in Batches(steps) : p \in b}) = 1
<1>1. {b \in Batches(steps) : p \in b} = {BatchOf(steps, p)}
    BY DEF Batches, BatchOf, SameKind
<1> QED
    BY <1>1, FS_Singleton

StepNumbers == DOMAIN prepSteps
StatusOf(p) == prepSteps[p].status

PrepShapes ==
    /\ DOMAIN prepared = {"number", "request", "phase"}
    /\ \E n \in Nat : StepNumbers = 1 .. n
    /\ \A p \in StepNumbers :
          DOMAIN prepSteps[p] = {"task", "dependsOn", "approved", "status", "captured", "failed"}
    /\ repository \in Seq({repository[i] : i \in DOMAIN repository})

\* Steps run in order: what waits comes after what does not.
RunInOrder ==
    prepared.phase # "over" => \A p, q \in StepNumbers :
        p < q /\ StatusOf(p) \in {"PENDING", "EXECUTING"} => StatusOf(q) = "PENDING"

\* What a settled step depends on came before it and is settled, which is why
\* undoing the last settled step leaves the others theirs.
DependenciesSettled ==
    \A p \in StepNumbers : \A k \in DOMAIN prepSteps[p].dependsOn :
        LET d == prepSteps[p].dependsOn[k] IN
        /\ d \in StepNumbers \cup {0}
        /\ StatusOf(p) \in Settled => d \in StepNumbers /\ d < p /\ StatusOf(d) \in Settled

WriteAllowed(step) ==
    /\ step.captured \/ step.task.type = "store" \/ step.task.action = "create_page"
    /\ step.task.rollback \notin {"null", "unavailable"}
    /\ Capability[step.task.action] \in WriterCan

WritesAllowed == \A p \in StepNumbers : StatusOf(p) = "COMPLETED" => WriteAllowed(prepSteps[p])

AlreadySaved(task) ==
    \E i \in DOMAIN repository : /\ SameChange(repository[i].task, task) /\ repository[i].task.value = task.value
                                 /\ repository[i].status \in Settled

FindingsHold == \A p \in StepNumbers : "idempotency" \in prepSteps[p].failed => AlreadySaved(prepSteps[p].task)

PrepInv == PrepShapes /\ RunInOrder /\ DependenciesSettled /\ WritesAllowed /\ FindingsHold

LEMMA GreatestOf ==
    ASSUME NEW n \in Nat, NEW T \in SUBSET (1 .. n), T # {}
    PROVE  \E greatest \in T : \A other \in T : other <= greatest
<1> DEFINE Gaps == {n - t : t \in T}
<1>1. Gaps \in SUBSET Nat /\ Gaps # {}
    <2>1. \A t \in T : t \in 1 .. n
        OBVIOUS
    <2>2. \A t \in 1 .. n : n - t \in Nat
        OBVIOUS
    <2>3. Gaps \subseteq Nat
        BY <2>1, <2>2
    <2>4. PICK t \in T : TRUE
        OBVIOUS
    <2>5. n - t \in Gaps
        BY <2>4
    <2> QED
        BY <2>3, <2>5
<1>2. PICK gap \in Gaps : \A other \in Gaps : gap <= other
    BY <1>1, LeastNumber
<1>3. PICK t \in T : gap = n - t
    OBVIOUS
<1>4. ASSUME NEW other \in T
      PROVE  other <= t
    <2>1. n - t <= n - other /\ t \in Nat /\ other \in Nat
        BY <1>2, <1>3
    <2> QED
        BY <2>1
<1> QED
    BY <1>4

LEMMA PrepInvInit == PrepInit => PrepInv
<1> SUFFICES ASSUME PrepInit PROVE PrepInv
    OBVIOUS
<1>1. StepNumbers = {} /\ StepNumbers = 1 .. 0 /\ DOMAIN repository = {}
    BY DEF PrepInit, StepNumbers
<1>2. repository \in Seq({repository[i] : i \in DOMAIN repository})
    BY DEF PrepInit
<1> QED
    BY <1>1, <1>2 DEF PrepInit, PrepInv, PrepShapes, RunInOrder, DependenciesSettled, WritesAllowed, FindingsHold

LEMMA PrepImplies == PrepInv => StepsArePrepared
<1> SUFFICES ASSUME PrepInv PROVE StepsArePrepared
    OBVIOUS
<1>1. PICK n \in Nat : DOMAIN prepSteps = 1 .. n
    BY DEF PrepInv, PrepShapes, StepNumbers
<1>2. ASSUME NEW b \in Batches(prepSteps)
      PROVE  Cardinality(b) <= MaxBatchSize
    BY <1>1, BatchesAreSmall DEF Batches
<1>3. ASSUME NEW p \in DOMAIN prepSteps
      PROVE  Cardinality({b \in Batches(prepSteps) : p \in b}) = 1
    BY OneBatchEach
<1> QED
    BY <1>2, <1>3 DEF StepsArePrepared, PrepInv, DependenciesSettled, WritesAllowed, WriteAllowed, FindingsHold,
                      AlreadySaved, StepNumbers, StatusOf

-----------------------------------------------------------------------------
(* Each step keeps PrepInv *)

LEMMA PlanKeepsPrep ==
    ASSUME PrepInv, NEW r \in PrepRequests, PlanExecution(r)
    PROVE  PrepInv'
<1> DEFINE tasks == r.tasks
           order == TopoOrder(tasks)
<1>1. tasks \in Seq(PrepTask)
    BY PreparationAssumption
<1>2. PICK n \in Nat : DOMAIN tasks = 1 .. n
    BY <1>1
<1>3. /\ prepSteps' = BuildSteps(tasks, order)
      /\ prepared' = [number |-> prepared.number + 1, request |-> r, phase |-> "waiting"]
      /\ repository' = repository
    BY DEF PlanExecution
<1> HIDE DEF order
<1>4. /\ DOMAIN prepSteps' = DOMAIN tasks
      /\ \A p \in DOMAIN tasks :
           /\ DOMAIN prepSteps'[p] = {"task", "dependsOn", "approved", "status", "captured", "failed"}
           /\ prepSteps'[p].status = "PENDING" /\ prepSteps'[p].failed = {}
           /\ \A k \in DOMAIN prepSteps'[p].dependsOn : prepSteps'[p].dependsOn[k] \in DOMAIN tasks \cup {0}
    <2> DEFINE StepOf(id) == LET those == {p \in DOMAIN tasks : tasks[order[p]].id = id} IN
                             IF those = {} THEN 0 ELSE CHOOSE p \in those : \A q \in those : q <= p
    <2>1. ASSUME NEW id
          PROVE  StepOf(id) \in DOMAIN tasks \cup {0}
        <3> DEFINE those == {p \in DOMAIN tasks : tasks[order[p]].id = id}
        <3>1. those # {} => \E p \in those : \A q \in those : q <= p
            BY <1>2, GreatestOf
        <3> QED
            BY <3>1
    <2> QED
        BY <1>3, <2>1 DEF BuildSteps
<1>5. PrepShapes'
    <2>1. prepared' = [number |-> prepared.number + 1, request |-> r, phase |-> "waiting"] /\ repository' = repository
        BY <1>3
    <2> QED
        BY <1>2, <1>4, <2>1 DEF PrepInv, PrepShapes, StepNumbers
<1>6. RunInOrder' /\ DependenciesSettled'
    BY <1>4 DEF RunInOrder, DependenciesSettled, StepNumbers, StatusOf, Settled
<1>7. WritesAllowed' /\ FindingsHold'
    BY <1>4 DEF WritesAllowed, FindingsHold, StepNumbers, StatusOf
<1> QED
    BY <1>5, <1>6, <1>7 DEF PrepInv

\* A decision, the start, what changes no step but its approval.
LEMMA QuietKeepsPrep ==
    ASSUME PrepInv, DOMAIN prepared' = DOMAIN prepared, prepared.phase = "over" => prepared'.phase = "over",
           repository' = repository, DOMAIN prepSteps' = DOMAIN prepSteps,
           \A p \in StepNumbers :
              /\ DOMAIN prepSteps'[p] = DOMAIN prepSteps[p] /\ prepSteps'[p].task = prepSteps[p].task
              /\ prepSteps'[p].dependsOn = prepSteps[p].dependsOn /\ prepSteps'[p].status = prepSteps[p].status
              /\ prepSteps'[p].captured = prepSteps[p].captured /\ prepSteps'[p].failed = prepSteps[p].failed
    PROVE  PrepInv'
<1>1. PrepShapes' /\ RunInOrder'
    BY DEF PrepInv, PrepShapes, RunInOrder, StepNumbers, StatusOf
<1>2. DependenciesSettled'
    BY DEF PrepInv, DependenciesSettled, StepNumbers, StatusOf
<1>3. WritesAllowed'
    BY DEF PrepInv, WritesAllowed, WriteAllowed, StepNumbers, StatusOf
<1>4. FindingsHold'
    BY DEF PrepInv, FindingsHold, AlreadySaved, StepNumbers
<1> QED
    BY <1>1, <1>2, <1>3, <1>4 DEF PrepInv

LEMMA DecideKeepsPrep ==
    ASSUME PrepInv, NEW p \in StepNumbers, NEW approved \in BOOLEAN, Decide(p, approved)
    PROVE  PrepInv'
<1>1. /\ prepared' = prepared /\ repository' = repository
      /\ prepSteps' = [prepSteps EXCEPT ![p].approved = approved]
    BY DEF Decide
<1>2. DOMAIN prepSteps' = DOMAIN prepSteps
    BY <1>1
<1>3. ASSUME NEW q \in StepNumbers
      PROVE  /\ DOMAIN prepSteps'[q] = DOMAIN prepSteps[q] /\ prepSteps'[q].task = prepSteps[q].task
             /\ prepSteps'[q].dependsOn = prepSteps[q].dependsOn /\ prepSteps'[q].status = prepSteps[q].status
             /\ prepSteps'[q].captured = prepSteps[q].captured /\ prepSteps'[q].failed = prepSteps[q].failed
    BY <1>1 DEF PrepInv, PrepShapes, StepNumbers
<1> QED
    BY <1>1, <1>2, <1>3, QuietKeepsPrep

LEMMA StartKeepsPrep ==
    ASSUME PrepInv, StartRun
    PROVE  PrepInv'
<1>1. /\ prepSteps' = prepSteps /\ repository' = repository
      /\ prepared.phase = "waiting" /\ DOMAIN prepared' = DOMAIN prepared
    BY DEF StartRun
<1> QED
    BY <1>1, QuietKeepsPrep

\* What a change of one step's status, and of what is found or captured with it,
\* has to meet.
LEMMA StatusKeepsPrep ==
    ASSUME PrepInv, prepared.phase # "over", DOMAIN prepared' = DOMAIN prepared, repository' = repository,
           NEW p \in StepNumbers, DOMAIN prepSteps' = DOMAIN prepSteps,
           \A q \in StepNumbers \ {p} : prepSteps'[q] = prepSteps[q],
           DOMAIN prepSteps'[p] = DOMAIN prepSteps[p], prepSteps'[p].task = prepSteps[p].task,
           prepSteps'[p].dependsOn = prepSteps[p].dependsOn,
           StatusOf(p)' # "PENDING", \A q \in StepNumbers : p < q /\ StatusOf(p)' = "EXECUTING" => StatusOf(q) = "PENDING",
           \A q \in StepNumbers : q < p => StatusOf(q) \notin {"PENDING", "EXECUTING"},
           StatusOf(p)' \in Settled => \A k \in DOMAIN prepSteps[p].dependsOn :
               LET d == prepSteps[p].dependsOn[k] IN d \in StepNumbers /\ d < p /\ StatusOf(d) \in Settled,
           StatusOf(p) \in Settled => StatusOf(p)' \in Settled \/ \A q \in StepNumbers : p < q => StatusOf(q) \notin Settled,
           StatusOf(p)' = "COMPLETED" => WriteAllowed(prepSteps'[p]),
           "idempotency" \in prepSteps'[p].failed => AlreadySaved(prepSteps[p].task)
    PROVE  PrepInv'
<1>1. PICK n \in Nat : StepNumbers = 1 .. n
    BY DEF PrepInv, PrepShapes
<1>2. PrepShapes'
    BY DEF PrepInv, PrepShapes, StepNumbers
<1>3. RunInOrder'
    BY <1>1 DEF PrepInv, RunInOrder, StepNumbers, StatusOf
<1>4. DependenciesSettled'
    BY <1>1 DEF PrepInv, DependenciesSettled, StepNumbers, StatusOf
<1>5. WritesAllowed'
    BY DEF PrepInv, WritesAllowed, WriteAllowed, StepNumbers, StatusOf
<1>6. FindingsHold'
    BY DEF PrepInv, FindingsHold, AlreadySaved, StepNumbers
<1> QED
    BY <1>2, <1>3, <1>4, <1>5, <1>6 DEF PrepInv

LEMMA BeginKeepsPrep ==
    ASSUME PrepInv, NEW p \in StepNumbers, BeginStep(p)
    PROVE  PrepInv'
<1>1. PICK status \in {"FAILED", "EXECUTING"} : prepSteps' = [prepSteps EXCEPT ![p].status = status]
    BY DEF BeginStep, SetStatus
<1>2. /\ prepared.phase = "running" /\ repository' = repository /\ DOMAIN prepared' = DOMAIN prepared
      /\ StatusOf(p) = "PENDING"
      /\ \A q \in StepNumbers : StatusOf(q) # "EXECUTING" /\ (StatusOf(q) = "PENDING" => p <= q)
    BY DEF BeginStep, PhaseAfterFailure, Turned, Pending, StepNumbers, StatusOf
<1>3. /\ DOMAIN prepSteps' = DOMAIN prepSteps /\ \A q \in StepNumbers \ {p} : prepSteps'[q] = prepSteps[q]
      /\ DOMAIN prepSteps'[p] = DOMAIN prepSteps[p] /\ prepSteps'[p].task = prepSteps[p].task
      /\ prepSteps'[p].dependsOn = prepSteps[p].dependsOn /\ prepSteps'[p].failed = prepSteps[p].failed
      /\ StatusOf(p)' = status
    BY <1>1 DEF PrepInv, PrepShapes, StepNumbers, StatusOf
<1>4. \A q \in StepNumbers : p < q => StatusOf(q) = "PENDING"
    BY <1>2 DEF PrepInv, RunInOrder
<1>5. \A q \in StepNumbers : q < p => StatusOf(q) \notin {"PENDING", "EXECUTING"}
    <2>1. PICK n \in Nat : StepNumbers = 1 .. n
        BY DEF PrepInv, PrepShapes
    <2> QED
        BY <1>2, <2>1
<1>6. "idempotency" \in prepSteps'[p].failed => AlreadySaved(prepSteps[p].task)
    BY <1>3 DEF PrepInv, FindingsHold
<1>7. StatusOf(p) \notin Settled /\ status \notin Settled \cup {"COMPLETED", "PENDING"}
    BY <1>2 DEF Settled
<1> QED
    BY <1>2, <1>3, <1>4, <1>5, <1>6, <1>7, StatusKeepsPrep

LEMMA ExecutingIsLast ==
    ASSUME PrepInv, NEW p \in StepNumbers, Executing(p)
    PROVE  /\ prepared.phase = "running" /\ StatusOf(p) = "EXECUTING"
           /\ \A q \in StepNumbers : p < q => StatusOf(q) = "PENDING"
           /\ \A q \in StepNumbers : q < p => StatusOf(q) \notin {"PENDING", "EXECUTING"}
    BY DEF PrepInv, RunInOrder, Executing, StatusOf, StepNumbers

\* What the idempotency check finds is a step that was saved.
LEMMA IdempotencyFound ==
    ASSUME NEW p, NEW state, NEW budget, "idempotency" \in Failures(p, state, budget)
    PROVE  AlreadySaved(prepSteps[p].task)
<1>1. "idempotency" \in IdempotencyCheck(p)
    BY DEF Failures, ApprovalCheck, DependencyCheck, StateCheck, RollbackCheck, RateLimitCheck, PermissionCheck, Finds
<1>2. \E i \in PriorSteps(prepSteps[p].task) : repository[i].task.value = prepSteps[p].task.value
    BY <1>1 DEF IdempotencyCheck, Finds
<1> QED
    BY <1>2 DEF PriorSteps, AlreadySaved, SameChange

LEMMA FailKeepsPrep ==
    ASSUME PrepInv, NEW p \in StepNumbers, NEW state, NEW budget, FailStep(p, state, budget)
    PROVE  PrepInv'
<1> DEFINE found == Failures(p, state, budget)
<1>1. prepSteps' = [prepSteps EXCEPT ![p].status = "FAILED", ![p].failed = found] /\ Executing(p)
    BY DEF FailStep
<1>2. repository' = repository /\ DOMAIN prepared' = DOMAIN prepared
    BY DEF FailStep, PhaseAfterFailure
<1>3. "idempotency" \in found => AlreadySaved(prepSteps[p].task)
    BY IdempotencyFound
<1> HIDE DEF found
<1>4. /\ DOMAIN prepSteps' = DOMAIN prepSteps /\ \A q \in StepNumbers \ {p} : prepSteps'[q] = prepSteps[q]
      /\ DOMAIN prepSteps'[p] = DOMAIN prepSteps[p] /\ prepSteps'[p].task = prepSteps[p].task
      /\ prepSteps'[p].dependsOn = prepSteps[p].dependsOn /\ prepSteps'[p].failed = found
      /\ StatusOf(p)' = "FAILED"
    BY <1>1 DEF PrepInv, PrepShapes, StepNumbers, StatusOf
<1>5. /\ prepared.phase = "running" /\ StatusOf(p) = "EXECUTING"
      /\ \A q \in StepNumbers : q < p => StatusOf(q) \notin {"PENDING", "EXECUTING"}
    BY <1>1, ExecutingIsLast
<1>6. {"FAILED", "EXECUTING"} \cap Settled = {}
    BY DEF Settled
<1> QED
    BY <1>2, <1>3, <1>4, <1>5, <1>6, StatusKeepsPrep

\* A completed step passed every check.
LEMMA CompleteKeepsPrep ==
    ASSUME PrepInv, NEW p \in StepNumbers, NEW state, NEW budget, NEW after, CompleteStep(p, state, budget, after)
    PROVE  PrepInv'
<1>1. PICK status : /\ status = IF InRealMode THEN "COMPLETED" ELSE "SIMULATED"
                    /\ prepSteps' = [prepSteps EXCEPT ![p].status = status, ![p].captured = state # UnreadBody]
    BY DEF CompleteStep
<1>2. Executing(p) /\ Failures(p, state, budget) = {} /\ repository' = repository /\ prepared' = prepared
    BY DEF CompleteStep
<1>3. /\ DOMAIN prepSteps' = DOMAIN prepSteps /\ \A q \in StepNumbers \ {p} : prepSteps'[q] = prepSteps[q]
      /\ DOMAIN prepSteps'[p] = DOMAIN prepSteps[p] /\ prepSteps'[p].task = prepSteps[p].task
      /\ prepSteps'[p].dependsOn = prepSteps[p].dependsOn /\ prepSteps'[p].failed = prepSteps[p].failed
      /\ prepSteps'[p].captured = (state # UnreadBody) /\ StatusOf(p)' = status
    BY <1>1 DEF PrepInv, PrepShapes, StepNumbers, StatusOf
<1>4. /\ prepared.phase = "running" /\ StatusOf(p) = "EXECUTING"
      /\ \A q \in StepNumbers : p < q => StatusOf(q) = "PENDING"
      /\ \A q \in StepNumbers : q < p => StatusOf(q) \notin {"PENDING", "EXECUTING"}
    BY <1>2, ExecutingIsLast
<1>5. ASSUME NEW k \in DOMAIN prepSteps[p].dependsOn
      PROVE  LET d == prepSteps[p].dependsOn[k] IN d \in StepNumbers /\ d < p /\ StatusOf(d) \in Settled
    <2> DEFINE d == prepSteps[p].dependsOn[k]
    <2>1. DependencyCheck(p) = {}
        BY <1>2 DEF Failures
    <2>2. d # 0 /\ StatusOf(d) \in Settled
        BY <2>1 DEF DependencyCheck, Finds, StatusOf
    <2>3. d \in StepNumbers
        BY <2>2 DEF PrepInv, DependenciesSettled
    <2>4. d # p /\ ~ (p < d)
        BY <1>4, <2>2, <2>3 DEF Settled
    <2>5. PICK n \in Nat : StepNumbers = 1 .. n
        BY DEF PrepInv, PrepShapes
    <2> QED
        BY <2>2, <2>3, <2>4, <2>5
<1>6. status = "COMPLETED" => WriteAllowed(prepSteps'[p])
    <2> SUFFICES ASSUME status = "COMPLETED" PROVE WriteAllowed(prepSteps'[p])
        OBVIOUS
    <2>1. InRealMode
        BY <1>1
    <2>2. StateCheck(p, state) = {} /\ RollbackCheck(p) = {} /\ PermissionCheck(p) = {}
        BY <1>2 DEF Failures
    <2>3. /\ state # UnreadBody \/ prepSteps[p].task.type = "store" \/ prepSteps[p].task.action = "create_page"
          /\ prepSteps[p].task.rollback \notin {"null", "unavailable"}
          /\ Capability[prepSteps[p].task.action] \in WriterCan
        BY <2>1, <2>2 DEF StateCheck, RollbackCheck, PermissionCheck, Finds
    <2> QED
        BY <1>3, <2>3 DEF WriteAllowed
<1>7. "idempotency" \in prepSteps'[p].failed => AlreadySaved(prepSteps[p].task)
    BY <1>3 DEF PrepInv, FindingsHold
<1>8. status \in Settled /\ status # "PENDING" /\ status # "EXECUTING"
    BY <1>1 DEF Settled
<1> QED
    BY <1>2, <1>3, <1>4, <1>5, <1>6, <1>7, <1>8, StatusKeepsPrep

\* The last settled step is undone: none that is left depends on it.
LEMMA UndoKeepsPrep ==
    ASSUME PrepInv, NEW undone \in BOOLEAN, UndoStep(undone)
    PROVE  PrepInv'
<1> DEFINE status == IF undone THEN "ROLLED_BACK" ELSE "FAILED"
<1> PICK p : p = NextToUndo
    OBVIOUS
<1>1. PICK n \in Nat : StepNumbers = 1 .. n
    BY DEF PrepInv, PrepShapes
<1>2. p \in Undoable /\ \A q \in Undoable : q <= p
    <2>1. Undoable \in SUBSET (1 .. n) /\ Undoable # {}
        BY <1>1 DEF Undoable, StepNumbers, UndoStep
    <2>2. \E greatest \in Undoable : \A other \in Undoable : other <= greatest
        BY <2>1, GreatestOf
    <2>3. NextToUndo \in Undoable /\ \A q \in Undoable : q <= NextToUndo
        BY <2>2 DEF NextToUndo
    <2> QED
        BY <2>3
<1>3. /\ prepared.phase = "undoing" /\ prepared' = prepared /\ repository' = repository
      /\ prepSteps' = [prepSteps EXCEPT ![p].status = status]
    BY DEF UndoStep, SetStatus
<1>4. p \in StepNumbers /\ StatusOf(p) \in Settled
    BY <1>2 DEF Undoable, StepNumbers, StatusOf
<1>5. /\ DOMAIN prepSteps' = DOMAIN prepSteps /\ \A q \in StepNumbers \ {p} : prepSteps'[q] = prepSteps[q]
      /\ DOMAIN prepSteps'[p] = DOMAIN prepSteps[p] /\ prepSteps'[p].task = prepSteps[p].task
      /\ prepSteps'[p].dependsOn = prepSteps[p].dependsOn /\ prepSteps'[p].failed = prepSteps[p].failed
      /\ StatusOf(p)' = status
    BY <1>3, <1>4 DEF PrepInv, PrepShapes, StepNumbers, StatusOf
<1>6. \A q \in StepNumbers : q < p => StatusOf(q) \notin {"PENDING", "EXECUTING"}
    BY <1>3, <1>4 DEF PrepInv, RunInOrder, Settled
<1>7. \A q \in StepNumbers : p < q => StatusOf(q) \notin Settled
    BY <1>1, <1>2, <1>4 DEF Undoable, StepNumbers, StatusOf
<1>8. "idempotency" \in prepSteps'[p].failed => AlreadySaved(prepSteps[p].task)
    BY <1>4, <1>5 DEF PrepInv, FindingsHold
<1>9. status \notin Settled \cup {"PENDING", "EXECUTING", "COMPLETED"}
    BY DEF Settled
<1> HIDE DEF status
<1> QED
    BY <1>3, <1>4, <1>5, <1>6, <1>7, <1>8, <1>9, StatusKeepsPrep

\* What is saved is added to what was; the steps that wait are cancelled.
LEMMA EndKeepsPrep ==
    ASSUME PrepInv, EndRun
    PROVE  PrepInv'
<1> DEFINE saved == [p \in DOMAIN prepSteps |-> [task |-> prepSteps[p].task, status |-> prepSteps'[p].status]]
<1>1. PICK n \in Nat : StepNumbers = 1 .. n
    BY DEF PrepInv, PrepShapes
<1>2. /\ DOMAIN prepared' = DOMAIN prepared /\ prepared'.phase = "over"
      /\ prepSteps' = [p \in DOMAIN prepSteps |->
            IF p \in Pending THEN [prepSteps[p] EXCEPT !.status = "CANCELLED"] ELSE prepSteps[p]]
      /\ repository' = repository \o saved
    BY DEF EndRun, PrepInv, PrepShapes
<1>3. /\ DOMAIN prepSteps' = DOMAIN prepSteps
      /\ \A p \in StepNumbers :
            /\ DOMAIN prepSteps'[p] = DOMAIN prepSteps[p] /\ prepSteps'[p].task = prepSteps[p].task
            /\ prepSteps'[p].dependsOn = prepSteps[p].dependsOn /\ prepSteps'[p].captured = prepSteps[p].captured
            /\ prepSteps'[p].failed = prepSteps[p].failed
            /\ StatusOf(p)' = IF StatusOf(p) = "PENDING" THEN "CANCELLED" ELSE StatusOf(p)
    BY <1>2 DEF PrepInv, PrepShapes, Pending, StepNumbers, StatusOf
<1>4. /\ repository' \in Seq({repository'[i] : i \in DOMAIN repository'})
      /\ DOMAIN repository \subseteq DOMAIN repository' /\ \A i \in DOMAIN repository : repository'[i] = repository[i]
    <2> DEFINE Rows == {repository[i] : i \in DOMAIN repository} \cup {saved[i] : i \in DOMAIN saved}
    <2>1. repository \in Seq({repository[i] : i \in DOMAIN repository})
        BY DEF PrepInv, PrepShapes
    <2>2. repository \in Seq(Rows)
        BY <2>1
    <2>3. saved \in Seq(Rows) /\ Len(saved) = n
        BY <1>1 DEF StepNumbers
    <2> HIDE DEF saved, Rows
    <2>4. repository' \in Seq(Rows)
        BY <1>2, <2>2, <2>3, ConcatProperties
    <2>5. Len(repository) \in Nat /\ Len(saved) \in Nat
        BY <2>2, <2>3
    <2>6. Len(repository') = Len(repository) + Len(saved)
        BY <1>2, <2>2, <2>3, ConcatProperties
    <2>7. \A i \in 1 .. Len(repository) : repository'[i] = repository[i]
        BY <1>2, <2>2, <2>3, <2>5, ConcatProperties
    <2> QED
        BY <2>2, <2>4, <2>5, <2>6, <2>7
<1>5. PrepShapes'
    BY <1>2, <1>3, <1>4 DEF PrepInv, PrepShapes, StepNumbers
<1>6. RunInOrder'
    BY <1>2 DEF RunInOrder
<1>7. DependenciesSettled'
    BY <1>3 DEF PrepInv, DependenciesSettled, StepNumbers, StatusOf, Settled
<1>8. WritesAllowed'
    BY <1>3 DEF PrepInv, WritesAllowed, WriteAllowed, StepNumbers, StatusOf
<1>9. FindingsHold'
    BY <1>3, <1>4 DEF PrepInv, FindingsHold, AlreadySaved, StepNumbers
<1> QED
    BY <1>5, <1>6, <1>7, <1>8, <1>9 DEF PrepInv

LEMMA PrepStepKeeps == PrepInv /\ [PrepNext]_prepVars => PrepInv'
<1> SUFFICES ASSUME PrepInv, [PrepNext]_prepVars PROVE PrepInv'
    OBVIOUS
<1>1. ASSUME NEW r \in PrepRequests, PlanExecution(r)
      PROVE  PrepInv'
    BY <1>1, PlanKeepsPrep
<1>2. CASE StartRun
    BY <1>2, StartKeepsPrep
<1>3. CASE EndRun
    BY <1>3, EndKeepsPrep
<1>4. ASSUME NEW undone \in BOOLEAN, UndoStep(undone)
      PROVE  PrepInv'
    BY <1>4, UndoKeepsPrep
<1>5. ASSUME NEW p \in DOMAIN prepSteps, BeginStep(p)
      PROVE  PrepInv'
    BY <1>5, BeginKeepsPrep DEF StepNumbers
<1>6. ASSUME NEW p \in DOMAIN prepSteps, NEW approved \in BOOLEAN, Decide(p, approved)
      PROVE  PrepInv'
    BY <1>6, DecideKeepsPrep DEF StepNumbers
<1>7. ASSUME NEW p \in DOMAIN prepSteps, NEW state, NEW budget, FailStep(p, state, budget)
      PROVE  PrepInv'
    BY <1>7, FailKeepsPrep DEF StepNumbers
<1>8. ASSUME NEW p \in DOMAIN prepSteps, NEW state, NEW budget, NEW after, CompleteStep(p, state, budget, after)
      PROVE  PrepInv'
    BY <1>8, CompleteKeepsPrep DEF StepNumbers
<1>9. CASE UNCHANGED prepVars
    BY <1>9, QuietKeepsPrep DEF prepVars
<1> QED
    BY <1>1, <1>2, <1>3, <1>4, <1>5, <1>6, <1>7, <1>8, <1>9 DEF PrepNext

\* For any tasks, batch size, checks and states: each step is in one batch, of
\* its kind and no larger than allowed; what a settled step depends on is
\* settled, also while an execution is undone; a completed write was captured,
\* can be undone and is within what the writer can do; and a step is found to be
\* applied already only when one like it was saved (grouping.ts,
\* validation-pipeline.ts, execution-engine.ts: rollbackSteps and finalize).
THEOREM StepsPrepared == PrepSpec => []StepsArePrepared
<1>1. PrepInit => PrepInv
    BY PrepInvInit
<1>2. PrepInv /\ [PrepNext]_prepVars => PrepInv'
    BY PrepStepKeeps
<1>3. PrepInv => StepsArePrepared
    BY PrepImplies
<1> QED
    BY <1>1, <1>2, <1>3, PTL DEF PrepSpec

----------------------------------------------------------------------------
(***************************************************************************)
(* What the learning engine's scores say of the evidence: a rate of some   *)
(* of a store's entries when one more is added, then each part of a score, *)
(* then the score.                                                         *)
(***************************************************************************)

LEMMA RatioOrder ==
    ASSUME NEW a \in Nat, NEW b \in Nat, NEW c \in Nat, NEW d \in Nat, b > 0, d > 0, a * d <= c * b
    PROVE  Rate(a, b) <= Rate(c, d)
<1> DEFINE w == Whole
<1>w. w \in Nat
    BY LearningAssumption
<1>d. \A x, y, q \in Nat : y > 0 => /\ x \div y \in Nat /\ (x \div y) * y <= x
                                    /\ q * y <= x => q <= x \div y
    OBVIOUS
<1> HIDE DEF w
<1>1. PICK q \in Nat : q = (a * w) \div b
    BY <1>d, <1>w
<1>2. q * b <= a * w
    BY <1>1, <1>d, <1>w
<1>3. (q * b) * d <= (a * w) * d
    BY <1>2, <1>w
<1>4. (a * d) * w <= (c * b) * w
    BY <1>w, SMTT(30)
<1>5. (q * d) * b <= (c * w) * b
    BY <1>w, <1>3, <1>4, SMTT(30)
<1>6. q * d <= c * w
    BY <1>w, <1>5, SMTT(30)
<1>7. c * w \in Nat
    BY <1>w
<1>8. q <= (c * w) \div d
    BY <1>6, <1>7, <1>d
<1> QED
    BY <1>1, <1>8 DEF Rate, w

LEMMA RateIsNat ==
    ASSUME NEW a \in Nat, NEW b \in Nat, b > 0
    PROVE  Rate(a, b) \in Nat
BY LearningAssumption DEF Rate

LEMMA RateOfAll ==
    ASSUME NEW a \in Nat, NEW b \in Nat, b > 0, a <= b
    PROVE  Rate(a, b) <= Rate(1, 1) /\ Rate(0, 1) <= Rate(a, b)
BY RatioOrder

\* The share of the successes among some positions.
Share(all, T) == Rate(Cardinality(Succeeded(all, T)), Cardinality(T))

LEMMA CountsOfSome ==
    ASSUME NEW all, NEW T, IsFiniteSet(T)
    PROVE  /\ Cardinality(T) \in Nat /\ Cardinality(Succeeded(all, T)) \in Nat
           /\ Cardinality(Succeeded(all, T)) <= Cardinality(T)
           /\ T # {} => Cardinality(T) > 0
<1>1. Succeeded(all, T) \subseteq T
    BY DEF Succeeded
<1> QED
    BY <1>1, FS_Subset, FS_CardinalityType, FS_EmptySet, SMTT(30)

LEMMA ShareIsRate ==
    ASSUME NEW all, NEW T, IsFiniteSet(T), T # {}
    PROVE  Share(all, T) \in Nat /\ Rate(0, 1) <= Share(all, T) /\ Share(all, T) <= Rate(1, 1)
BY CountsOfSome, RateOfAll, RateIsNat DEF Share

\* more has an entry n besides some of all's, at the positions T.
OneMore(all, more, T, n) == IsFiniteSet(T) /\ n \notin T /\ \A i \in T : more[i] = all[i]

Success(o) == IF o.status = "SUCCESS" THEN 1 ELSE 0

\* One more entry: what is counted of it and of those before it.
LEMMA CountsOfOneMore ==
    ASSUME NEW all, NEW more, NEW T, NEW n, OneMore(all, more, T, n)
    PROVE  /\ Succeeded(more, T) = Succeeded(all, T)
           /\ IsFiniteSet(T \cup {n}) /\ Cardinality(T \cup {n}) = Cardinality(T) + 1
           /\ Cardinality(Succeeded(more, T \cup {n}))
                = Cardinality(Succeeded(all, T)) + Success(more[n])
<1> USE DEF OneMore
<1>1. Succeeded(more, T) = Succeeded(all, T) /\ Succeeded(all, T) \subseteq T
    BY DEF Succeeded
<1>2. IsFiniteSet(Succeeded(all, T)) /\ n \notin Succeeded(all, T)
    BY <1>1, FS_Subset
<1>3. IsFiniteSet(T \cup {n}) /\ Cardinality(T \cup {n}) = Cardinality(T) + 1
    BY FS_AddElement
<1>4. Cardinality(Succeeded(all, T) \cup {n}) = Cardinality(Succeeded(all, T)) + 1
    BY <1>2, FS_AddElement
<1>5. Cardinality(Succeeded(all, T)) \in Nat
    BY <1>2, FS_CardinalityType
<1>6. CASE more[n].status = "SUCCESS"
    <2>1. Succeeded(more, T \cup {n}) = Succeeded(all, T) \cup {n}
        BY <1>6, <1>1 DEF Succeeded
    <2> QED
        BY <2>1, <1>1, <1>3, <1>4, <1>6 DEF Success
<1>7. CASE more[n].status # "SUCCESS"
    <2>1. Succeeded(more, T \cup {n}) = Succeeded(all, T)
        BY <1>7, <1>1 DEF Succeeded
    <2> QED
        BY <2>1, <1>1, <1>3, <1>5, <1>7 DEF Success
<1> QED
    BY <1>6, <1>7

\* A rate never falls with one more success among one more entry, and never rises with one more entry alone.
LEMMA ShareOfOneMore ==
    ASSUME NEW all, NEW more, NEW T, NEW n, OneMore(all, more, T, n), T # {}
    PROVE  /\ Share(more, T) = Share(all, T)
           /\ more[n].status = "SUCCESS" => Share(all, T) <= Share(more, T \cup {n})
           /\ more[n].status # "SUCCESS" => Share(more, T \cup {n}) <= Share(all, T)
<1>1. PICK s \in Nat, e \in Nat : s = Cardinality(Succeeded(all, T)) /\ e = Cardinality(T) /\ s <= e /\ e > 0
    BY CountsOfSome DEF OneMore
<1>c. /\ Succeeded(more, T) = Succeeded(all, T) /\ Cardinality(T \cup {n}) = e + 1
      /\ Cardinality(Succeeded(more, T \cup {n})) = s + Success(more[n])
    <2>1. /\ Succeeded(more, T) = Succeeded(all, T)
          /\ Cardinality(T \cup {n}) = Cardinality(T) + 1
          /\ Cardinality(Succeeded(more, T \cup {n}))
                = Cardinality(Succeeded(all, T)) + Success(more[n])
        BY CountsOfOneMore
    <2> QED
        BY <1>1, <2>1
<1>2. Share(all, T) = Rate(s, e) /\ Share(more, T) = Rate(s, e)
    BY <1>1, <1>c DEF Share
<1>3. CASE more[n].status = "SUCCESS"
    <2>1. Share(more, T \cup {n}) = Rate(s + 1, e + 1)
        BY <1>1, <1>3, <1>c DEF Share, Success
    <2>2. s * (e + 1) <= (s + 1) * e
        BY <1>1
    <2> QED
        BY <1>1, <1>2, <1>3, <2>1, <2>2, RatioOrder
<1>4. CASE more[n].status # "SUCCESS"
    <2>0. Cardinality(Succeeded(more, T \cup {n})) = s
        BY <1>1, <1>4, <1>c DEF Success
    <2>1. Share(more, T \cup {n}) = Rate(s, e + 1)
        BY <2>0, <1>c DEF Share
    <2>2. s * e <= s * (e + 1)
        BY <1>1
    <2> QED
        BY <1>1, <1>2, <1>4, <2>1, <2>2, RatioOrder
<1> QED
    BY <1>2, <1>3, <1>4

LEMMA ShareOfTheFirst ==
    ASSUME NEW all, NEW n
    PROVE  Share(all, {n}) = IF all[n].status = "SUCCESS" THEN Rate(1, 1) ELSE Rate(0, 1)
<1>1. Succeeded(all, {n}) = IF all[n].status = "SUCCESS" THEN {n} ELSE {}
    BY DEF Succeeded
<1> QED
    BY <1>1, FS_Singleton, FS_EmptySet DEF Share

----------------------------------------------------------------------------
(* One more entry of a store *)

LEMMA MatchingOfRule ==
    ASSUME NEW S, NEW all \in Seq(S), NEW rule, rule # Whatever, Len(all) <= MaxOutcomes + MaxFeedback
    PROVE  Matching(all, OfRule(rule)) = {i \in 1 .. Len(all) : all[i].rule = rule}
<1> DEFINE hits == {i \in DOMAIN all : all[i].rule = rule}
<1>1. DOMAIN all = 1 .. Len(all) /\ Len(all) \in Nat /\ MaxOutcomes + MaxFeedback \in Nat
    BY LearningAssumption
<1>2. Matching(all, OfRule(rule)) = {i \in hits : Cardinality({j \in hits : j > i}) < MaxOutcomes + MaxFeedback}
    <2>1. \A i \in DOMAIN all : (/\ OfRule(rule).store \in {Whatever, all[i].store}
                                /\ OfRule(rule).rule \in {Whatever, all[i].rule}
                                /\ i >= OfRule(rule).since) <=> all[i].rule = rule
        BY <1>1 DEF OfRule
    <2>2. OfRule(rule).limit = MaxOutcomes + MaxFeedback
        BY DEF OfRule
    <2>3. {i \in DOMAIN all : /\ OfRule(rule).store \in {Whatever, all[i].store}
                              /\ OfRule(rule).rule \in {Whatever, all[i].rule}
                              /\ i >= OfRule(rule).since} = hits
        BY <2>1
    <2> QED
        BY <2>2, <2>3 DEF Matching
<1>3. ASSUME NEW i \in hits
      PROVE  Cardinality({j \in hits : j > i}) < MaxOutcomes + MaxFeedback
    <2>1. {j \in hits : j > i} \subseteq 2 .. Len(all)
        BY <1>1
    <2>2. IsFiniteSet(2 .. Len(all)) /\ Cardinality(2 .. Len(all)) = IF 2 > Len(all) THEN 0 ELSE Len(all) - 2 + 1
        <3>0. 2 \in Int /\ Len(all) \in Int
            BY <1>1
        <3>1. PICK two \in Int, last \in Int : two = 2 /\ last = Len(all)
            BY <3>0, Zenon
        <3>2. IsFiniteSet(two .. last) /\ Cardinality(two .. last) = IF two > last THEN 0 ELSE last - two + 1
            BY FS_Interval
        <3> QED
            BY <3>1, <3>2
    <2>3. Cardinality({j \in hits : j > i}) <= Cardinality(2 .. Len(all))
        BY <2>1, <2>2, FS_Subset
    <2>4. Cardinality({j \in hits : j > i}) \in Nat
        BY <2>1, <2>2, FS_Subset, FS_CardinalityType
    <2>5. Len(all) >= 1
        BY <1>1, <1>3
    <2> QED
        BY <1>1, <2>2, <2>3, <2>4, <2>5
<1> QED
    BY <1>1, <1>2, <1>3

\* more is all and then o, at position n.
Longer(S, all, o, more, n) ==
    /\ all \in Seq(S) /\ o \in S /\ more = Append(all, o) /\ n = Len(all) + 1
    /\ Len(all) < MaxOutcomes + MaxFeedback

LEMMA MatchingOfOneMore ==
    ASSUME NEW S, NEW all, NEW o, NEW more, NEW n, Longer(S, all, o, more, n), NEW rule, rule # Whatever
    PROVE  /\ OneMore(all, more, Matching(all, OfRule(rule)), n) /\ more[n] = o
           /\ o.rule = rule => Matching(more, OfRule(rule)) = Matching(all, OfRule(rule)) \cup {n}
           /\ o.rule # rule => Matching(more, OfRule(rule)) = Matching(all, OfRule(rule))
<1> DEFINE T == Matching(all, OfRule(rule))
<1> USE DEF Longer
<1>1. Len(all) \in Nat /\ MaxOutcomes + MaxFeedback \in Nat
    BY LearningAssumption
<1>2. /\ more \in Seq(S) /\ Len(more) = n /\ more[n] = o
      /\ \A i \in 1 .. Len(all) : more[i] = all[i]
    BY AppendProperties
<1>3. T = {i \in 1 .. Len(all) : all[i].rule = rule}
    BY <1>1, MatchingOfRule
<1>4. Matching(more, OfRule(rule)) = {i \in 1 .. n : more[i].rule = rule}
    <2>1. PICK m \in Seq(S) : m = more
        BY <1>2
    <2>2. Len(m) <= MaxOutcomes + MaxFeedback
        BY <2>1, <1>1, <1>2
    <2>3. Matching(m, OfRule(rule)) = {i \in 1 .. Len(m) : m[i].rule = rule}
        BY <2>2, MatchingOfRule
    <2> QED
        BY <2>1, <2>3, <1>2
<1>5. IsFiniteSet(T)
    <2>1. IsFiniteSet(1 .. Len(all))
        BY <1>1, FS_Interval
    <2>2. T \subseteq 1 .. Len(all)
        BY <1>3
    <2> QED
        BY <2>1, <2>2, FS_Subset
<1>6. n \notin T
    BY <1>1, <1>3
<1>8. Matching(more, OfRule(rule)) = IF o.rule = rule THEN T \cup {n} ELSE T
    BY <1>1, <1>2, <1>3, <1>4
<1> QED
    BY <1>2, <1>3, <1>5, <1>6, <1>8 DEF OneMore

----------------------------------------------------------------------------
(* What one more outcome does to a score *)

\* One value is as high as another: at least when up holds, at most when down holds.
Moves(before, later, up, down) ==
    /\ before \in Int /\ later \in Int
    /\ up => before <= later
    /\ down => later <= before

LEMMA CalibrationMoves ==
    ASSUME NEW all, NEW more, NEW T, NEW n, NEW confidence \in 0 .. 100,
           OneMore(all, more, T, n)
    PROVE  /\ Calibrate(all, T, confidence) \in Int
           /\ Calibrate(more, T, confidence) = Calibrate(all, T, confidence)
           /\ Moves(Calibrate(all, T, confidence), Calibrate(more, T \cup {n}, confidence),
                    more[n].status = "SUCCESS", more[n].status # "SUCCESS")
<1> DEFINE Labelled(a, U) == {i \in U : a[i].confidence # Unlabelled}
           Binned(a, U) == {i \in Labelled(a, U) : BinOf(a[i].confidence) = TargetBin(confidence)}
           labelled == Labelled(all, T)
           entries == Binned(all, T)
           bin == TargetBin(confidence)
<1>1. \A a, U : Calibrate(a, U, confidence) =
          IF Binned(a, U) # {} THEN Share(a, Binned(a, U))
          ELSE IF Labelled(a, U) # {} THEN Share(a, Labelled(a, U)) ELSE Rate(confidence, 100)
    BY DEF Calibrate, Share
<1>2. labelled \subseteq T /\ entries \subseteq labelled
    OBVIOUS
<1>o. IsFiniteSet(T) /\ n \notin T /\ \A i \in T : more[i] = all[i]
    BY DEF OneMore
<1>3. /\ IsFiniteSet(labelled) /\ OneMore(all, more, labelled, n)
      /\ IsFiniteSet(entries) /\ OneMore(all, more, entries, n)
    BY <1>o, <1>2, FS_Subset DEF OneMore
<1>4. Labelled(more, T) = labelled /\ Binned(more, T) = entries
    BY <1>o
<1>l. \A i : i \in Labelled(more, T \cup {n}) <=> (i \in T \/ i = n) /\ more[i].confidence # Unlabelled
    BY <1>o
<1>m. \A i : i \in labelled <=> i \in T /\ more[i].confidence # Unlabelled
    BY <1>o
<1>b. \A i : i \in Binned(more, T \cup {n}) <=> i \in Labelled(more, T \cup {n}) /\ BinOf(more[i].confidence) = bin
    BY <1>o
<1>c. \A i : i \in entries <=> i \in labelled /\ BinOf(more[i].confidence) = bin
    BY <1>o
<1>e. Labelled(all, T) = labelled /\ Binned(all, T) = entries
    BY <1>o
<1> HIDE DEF Labelled, Binned, labelled, entries, bin
<1>5. /\ Rate(confidence, 100) \in Nat /\ Rate(0, 1) <= Rate(confidence, 100) /\ Rate(confidence, 100) <= Rate(1, 1)
      /\ Rate(0, 1) \in Nat /\ Rate(1, 1) \in Nat
    <2>1. PICK c \in Nat, h \in Nat : c = confidence /\ h = 100 /\ c <= h /\ h > 0
        OBVIOUS
    <2>2. Rate(c, h) \in Nat /\ Rate(0, 1) <= Rate(c, h) /\ Rate(c, h) <= Rate(1, 1)
        BY <2>1, RateOfAll, RateIsNat
    <2>3. Rate(0, 1) \in Nat /\ Rate(1, 1) \in Nat
        BY RateIsNat
    <2> QED
        BY <2>1, <2>2, <2>3
<1>6. /\ entries # {} => Share(all, entries) \in Nat /\ Share(more, entries) = Share(all, entries)
      /\ labelled # {} => Share(all, labelled) \in Nat /\ Share(more, labelled) = Share(all, labelled)
    BY <1>3, ShareIsRate, ShareOfOneMore
<1>7. Calibrate(all, T, confidence) \in Nat /\ Calibrate(more, T, confidence) = Calibrate(all, T, confidence)
    BY <1>1, <1>4, <1>5, <1>6, <1>e
<1>8. Rate(0, 1) <= Calibrate(all, T, confidence) /\ Calibrate(all, T, confidence) <= Rate(1, 1)
    <2>1. /\ entries # {} => Rate(0, 1) <= Share(all, entries) /\ Share(all, entries) <= Rate(1, 1)
          /\ labelled # {} => Rate(0, 1) <= Share(all, labelled) /\ Share(all, labelled) <= Rate(1, 1)
        BY <1>3, ShareIsRate
    <2> QED
        BY <1>1, <1>5, <1>e, <2>1
<1> DEFINE up == more[n].status = "SUCCESS"
           before == Calibrate(all, T, confidence)
           later == Calibrate(more, T \cup {n}, confidence)
<1>9. CASE more[n].confidence = Unlabelled
    <2>1. Labelled(more, T \cup {n}) = labelled
        BY <1>l, <1>m, <1>9
    <2>2. Binned(more, T \cup {n}) = entries
        BY <2>1, <1>b, <1>c
    <2>3. later = before
        BY <1>1, <1>6, <1>e, <2>1, <2>2
    <2> QED
        BY <1>7, <2>3 DEF Moves
<1>10. CASE more[n].confidence # Unlabelled
    <2>1. Labelled(more, T \cup {n}) = labelled \cup {n}
        BY <1>l, <1>m, <1>10
    <2>2. labelled = {} => Share(more, labelled \cup {n}) = IF up THEN Rate(1, 1) ELSE Rate(0, 1)
        BY ShareOfTheFirst
    <2>3. labelled # {} => Moves(Share(all, labelled), Share(more, labelled \cup {n}), up, ~up)
        <3>1. IsFiniteSet(labelled \cup {n})
            BY <1>3, FS_AddElement
        <3>2. Share(more, labelled \cup {n}) \in Nat
            BY <3>1, ShareIsRate
        <3>3. labelled # {} => /\ up => Share(all, labelled) <= Share(more, labelled \cup {n})
                               /\ ~up => Share(more, labelled \cup {n}) <= Share(all, labelled)
            BY <1>3, ShareOfOneMore
        <3> QED
            BY <1>6, <3>2, <3>3 DEF Moves
    <2>4. CASE BinOf(more[n].confidence) = bin
        <3>1. Binned(more, T \cup {n}) = entries \cup {n}
            BY <1>b, <1>c, <2>1, <2>4
        <3>2. later = Share(more, entries \cup {n})
            BY <1>1, <3>1
        <3>3. CASE entries = {}
            <4>1. later = IF up THEN Rate(1, 1) ELSE Rate(0, 1)
                BY <3>2, <3>3, ShareOfTheFirst
            <4> QED
                BY <4>1, <1>5, <1>7, <1>8 DEF Moves
        <3>4. CASE entries # {}
            <4>1. before = Share(all, entries)
                BY <1>1, <1>e, <3>4
            <4>2. IsFiniteSet(entries \cup {n})
                BY <1>3, FS_AddElement
            <4>3. later \in Nat
                BY <3>2, <4>2, ShareIsRate
            <4>4. /\ up => Share(all, entries) <= Share(more, entries \cup {n})
                  /\ ~up => Share(more, entries \cup {n}) <= Share(all, entries)
                BY <1>3, <3>4, ShareOfOneMore
            <4> QED
                BY <1>7, <3>2, <4>1, <4>3, <4>4 DEF Moves
        <3> QED
            BY <3>3, <3>4, <1>7
    <2>5. CASE BinOf(more[n].confidence) # bin
        <3>1. Binned(more, T \cup {n}) = entries
            BY <1>b, <1>c, <2>1, <2>5
        <3>2. CASE entries # {}
            <4>1. later = before
                BY <1>1, <1>6, <1>e, <3>1, <3>2
            <4> QED
                BY <4>1, <1>7 DEF Moves
        <3>3. CASE entries = {} /\ labelled # {}
            <4>1. before = Share(all, labelled) /\ later = Share(more, labelled \cup {n})
                BY <1>1, <1>e, <2>1, <3>1, <3>3
            <4> QED
                BY <4>1, <2>3, <3>3, <1>7
        <3>4. CASE entries = {} /\ labelled = {}
            <4>0. Binned(more, T \cup {n}) = {} /\ Labelled(more, T \cup {n}) = labelled \cup {n} /\ labelled \cup {n} # {}
                BY <2>1, <3>1, <3>4
            <4>1. later = IF up THEN Rate(1, 1) ELSE Rate(0, 1)
                BY <1>1, <2>2, <3>4, <4>0
            <4> QED
                BY <4>1, <1>5, <1>7, <1>8 DEF Moves
        <3> QED
            BY <3>2, <3>3, <3>4, <1>7
    <2> QED
        BY <2>4, <2>5
<1> QED
    BY <1>9, <1>10

LEMMA EffectivenessMoves ==
    ASSUME NEW all, NEW more, NEW T, NEW n, OneMore(all, more, T, n)
    PROVE  /\ Effectiveness(all, T) \in Int
           /\ Effectiveness(more, T) = Effectiveness(all, T)
           /\ Moves(Effectiveness(all, T), Effectiveness(more, T \cup {n}),
                    more[n].status = "SUCCESS", more[n].status # "SUCCESS")
<1>1. PICK s \in Nat, e \in Nat : s = Cardinality(Succeeded(all, T)) /\ e = Cardinality(T) /\ s <= e /\ (T # {} => e > 0)
    BY CountsOfSome DEF OneMore
<1>2. PICK k \in {0, 1} : k = Success(more[n])
    BY DEF Success
<1>3. /\ Succeeded(more, T) = Succeeded(all, T) /\ Cardinality(T \cup {n}) = e + 1
      /\ Cardinality(Succeeded(more, T \cup {n})) = s + k
    <2>1. /\ Succeeded(more, T) = Succeeded(all, T)
          /\ Cardinality(T \cup {n}) = Cardinality(T) + 1
          /\ Cardinality(Succeeded(more, T \cup {n}))
                = Cardinality(Succeeded(all, T)) + Success(more[n])
        BY CountsOfOneMore
    <2> QED
        BY <1>1, <1>2, <2>1
<1>4. Effectiveness(all, T) = (IF T = {} THEN Rate(1, 2) ELSE Rate(s + 1, e + 2)) /\ Effectiveness(more, T) = Effectiveness(all, T)
    BY <1>1, <1>3 DEF Effectiveness, SmoothedRate
<1>5. Effectiveness(more, T \cup {n}) = Rate(s + k + 1, e + 1 + 2)
    BY <1>3 DEF Effectiveness, SmoothedRate
<1>6. Rate(1, 2) \in Nat /\ Rate(s + 1, e + 2) \in Nat /\ Rate(s + k + 1, e + 3) \in Nat
    <2>1. \A x, y \in Nat : y > 0 => Rate(x, y) \in Nat
        BY RateIsNat
    <2>2. /\ 1 \in Nat /\ 2 \in Nat /\ s + 1 \in Nat /\ e + 2 \in Nat /\ s + k + 1 \in Nat /\ e + 3 \in Nat
          /\ 2 > 0 /\ e + 2 > 0 /\ e + 3 > 0
        BY <1>2
    <2> QED
        BY <2>1, <2>2
<1>7. T = {} => e = 0 /\ s = 0
    BY <1>1, FS_EmptySet
<1>8. CASE T = {}
    <2>1. Rate(1, 2) <= Rate(2, 3) /\ Rate(1, 3) <= Rate(1, 2)
        BY RatioOrder
    <2> QED
        BY <1>2, <1>4, <1>5, <1>6, <1>7, <1>8, <2>1 DEF Moves, Success
<1>9. CASE T # {}
    <2>1. (s + 1) * (e + 3) <= (s + 2) * (e + 2) /\ (s + 1) * (e + 2) <= (s + 1) * (e + 3)
        BY <1>1, SMTT(30)
    <2>2. Rate(s + 1, e + 2) <= Rate(s + 2, e + 3) /\ Rate(s + 1, e + 3) <= Rate(s + 1, e + 2)
        BY <2>1, RatioOrder
    <2> QED
        BY <1>2, <1>4, <1>5, <1>6, <1>9, <2>2 DEF Moves, Success
<1> QED
    BY <1>4, <1>6, <1>8, <1>9

----------------------------------------------------------------------------
(* What one more rating does to a score *)

LEMMA FeedbackMoves ==
    ASSUME NEW all, NEW more, NEW T, NEW n, OneMore(all, more, T, n),
           more[n].rating \in {-1, 0, 1}
    PROVE  /\ FeedbackScore(all, T) \in Int
           /\ FeedbackScore(more, T) = FeedbackScore(all, T)
           /\ Moves(FeedbackScore(all, T), FeedbackScore(more, T \cup {n}), more[n].rating = 1, more[n].rating = -1)
<1> DEFINE good == Rated(all, T, 1)
           bad == Rated(all, T, -1)
<1> USE DEF OneMore
<1>1. /\ good \subseteq T /\ bad \subseteq T
      /\ Rated(more, T, 1) = good /\ Rated(more, T, -1) = bad
      /\ n \notin good /\ n \notin bad
    BY DEF Rated
<1>2. IsFiniteSet(good) /\ IsFiniteSet(bad)
    BY <1>1, FS_Subset
<1>3. PICK t \in Nat, g \in Nat, b \in Nat :
          /\ t = Cardinality(T) /\ g = Cardinality(good) /\ b = Cardinality(bad)
          /\ g <= t /\ b <= t /\ (T # {} => t > 0) /\ (T = {} => t = 0 /\ g = 0 /\ b = 0)
    BY <1>1, <1>2, FS_Subset, FS_CardinalityType, FS_EmptySet, SMTT(30)
<1>4. PICK k \in {0, 1}, l \in {0, 1} : k = (IF more[n].rating = 1 THEN 1 ELSE 0) /\ l = (IF more[n].rating = -1 THEN 1 ELSE 0)
    OBVIOUS
<1>5. /\ Rated(more, T \cup {n}, 1) = IF k = 1 THEN good \cup {n} ELSE good
      /\ Rated(more, T \cup {n}, -1) = IF l = 1 THEN bad \cup {n} ELSE bad
    BY <1>1, <1>4 DEF Rated
<1>6. /\ Cardinality(Rated(more, T \cup {n}, 1)) = g + k
      /\ Cardinality(Rated(more, T \cup {n}, -1)) = b + l
      /\ Cardinality(T \cup {n}) = t + 1
    <2>1. \A U : IsFiniteSet(U) /\ n \notin U => Cardinality(U \cup {n}) = Cardinality(U) + 1
        BY FS_AddElement
    <2>2. /\ Cardinality(good \cup {n}) = g + 1 /\ Cardinality(bad \cup {n}) = b + 1
          /\ Cardinality(T \cup {n}) = t + 1
        BY <2>1, <1>1, <1>2, <1>3
    <2> HIDE DEF good, bad
    <2> QED
        BY <2>2, <1>3, <1>4, <1>5
<1>7. /\ FeedbackScore(all, T) = IF T = {} THEN Rate(1, 2) ELSE Rate(t + (g - b), 2 * t)
      /\ FeedbackScore(more, T) = FeedbackScore(all, T)
    BY <1>1, <1>3 DEF FeedbackScore
<1>8. FeedbackScore(more, T \cup {n}) = Rate(t + 1 + ((g + k) - (b + l)), 2 * (t + 1))
    BY <1>6 DEF FeedbackScore
<1>9. PICK p \in Nat : p = t + (g - b) /\ p <= 2 * t
    BY <1>3
<1>10. PICK q \in Nat : q = t + 1 + ((g + k) - (b + l)) /\ q <= 2 * (t + 1)
    BY <1>3, <1>4
<1>11. k = 1 => l = 0 /\ q = p + 2
    BY <1>3, <1>4, <1>9, <1>10
<1>12. l = 1 => k = 0 /\ q = p
    BY <1>3, <1>4, <1>9, <1>10
<1>13. CASE T = {}
    <2>1. q = 1 + k - l
        BY <1>3, <1>10, <1>13
    <2>2. Rate(1, 2) <= Rate(2, 2) /\ Rate(0, 2) <= Rate(1, 2) /\ Rate(1, 2) \in Nat /\ Rate(q, 2) \in Nat
        BY RatioOrder, RateIsNat
    <2>3. FeedbackScore(more, T \cup {n}) = Rate(q, 2)
        BY <1>3, <1>8, <1>10, <1>13
    <2> QED
        BY <1>4, <1>7, <1>11, <1>12, <1>13, <2>1, <2>2, <2>3 DEF Moves
<1>14. CASE T # {}
    <2>1. PICK d \in Nat : d = 2 * t /\ d > 0
        BY <1>3, <1>14
    <2>2. FeedbackScore(all, T) = Rate(p, d) /\ FeedbackScore(more, T \cup {n}) = Rate(q, d + 2)
        BY <1>7, <1>8, <1>9, <1>10, <1>14, <2>1
    <2>3. p <= d
        BY <1>9, <2>1
    <2>4. p * (d + 2) <= (p + 2) * d /\ p * d <= p * (d + 2)
        BY <2>3, SMTT(30)
    <2>5. Rate(p, d) <= Rate(p + 2, d + 2) /\ Rate(p, d + 2) <= Rate(p, d)
        BY <2>1, <2>4, RatioOrder
    <2>6. Rate(p, d) \in Nat /\ Rate(q, d + 2) \in Nat
        BY <2>1, RateIsNat
    <2> QED
        BY <1>4, <1>7, <1>11, <1>12, <2>2, <2>5, <2>6 DEF Moves
<1> QED
    BY <1>7, <1>13, <1>14

----------------------------------------------------------------------------
(* The score itself *)

LEMMA ReachIsInt ==
    ASSUME NEW count \in Int, NEW reference \in Int
    PROVE  ReachFactor(count, reference) \in Int
BY LearningAssumption DEF ReachFactor, Rate

LEMMA PercentIsInt ==
    ASSUME NEW percent \in 0 .. 100
    PROVE  Rate(percent, 100) \in Int
<1>1. percent * Whole \in Int
    BY LearningAssumption
<1> QED
    BY <1>1 DEF Rate

LEMMA OutcomeMovesScore ==
    ASSUME NEW S, NEW all \in Seq(S), NEW o \in S, Len(all) < MaxOutcomes + MaxFeedback,
           NEW R, NEW ratings \in Seq(R), NEW input \in ScoreInputs,
           FeedbackScore(ratings, Matching(ratings, OfRule(input.rule))) \in Int
    PROVE  LET before == Raw(all, ratings, input)
               later == Raw(Append(all, o), ratings, input)
           IN /\ o.status = "SUCCESS" \/ o.rule # input.rule => before <= later
              /\ o.status # "SUCCESS" \/ o.rule # input.rule => later <= before
<1>0. PICK more, n : more = Append(all, o) /\ n = Len(all) + 1
    OBVIOUS
<1> DEFINE T == Matching(all, OfRule(input.rule))
           U == Matching(more, OfRule(input.rule))
           up == o.status = "SUCCESS" \/ o.rule # input.rule
           down == o.status # "SUCCESS" \/ o.rule # input.rule
<1>1. /\ input.confidence \in 0 .. 100 /\ input.impact \in 0 .. 100 /\ input.effort \in 0 .. 100
      /\ input.pages \in Int /\ input.maxPages \in Int /\ input.rule # Whatever
    BY LearningAssumption
<1>2. OneMore(all, more, T, n) /\ more[n] = o /\ U = IF o.rule = input.rule THEN T \cup {n} ELSE T
    <2>1. PICK rule : rule = input.rule /\ rule # Whatever
        BY <1>1
    <2>2. Longer(S, all, o, more, n)
        BY <1>0 DEF Longer
    <2>3. T = Matching(all, OfRule(rule)) /\ U = Matching(more, OfRule(rule))
        BY <2>1
    <2> HIDE DEF T, U
    <2>4. OneMore(all, more, Matching(all, OfRule(rule)), n) /\ more[n] = o
        BY <2>1, <2>2, MatchingOfOneMore
    <2>5. /\ o.rule = rule => Matching(more, OfRule(rule)) = Matching(all, OfRule(rule)) \cup {n}
          /\ o.rule # rule => Matching(more, OfRule(rule)) = Matching(all, OfRule(rule))
        BY <2>1, <2>2, MatchingOfOneMore
    <2> QED
        BY <2>1, <2>3, <2>4, <2>5
<1> HIDE DEF T, U
<1>3. Moves(Calibrate(all, T, input.confidence), Calibrate(more, U, input.confidence), up, down)
    <2>1. /\ Calibrate(all, T, input.confidence) \in Int
          /\ Calibrate(more, T, input.confidence) = Calibrate(all, T, input.confidence)
          /\ Moves(Calibrate(all, T, input.confidence), Calibrate(more, T \cup {n}, input.confidence),
                   more[n].status = "SUCCESS", more[n].status # "SUCCESS")
        BY <1>1, <1>2, CalibrationMoves
    <2> QED
        BY <1>2, <2>1 DEF Moves
<1>4. Moves(Effectiveness(all, T), Effectiveness(more, U), up, down)
    <2>1. /\ Effectiveness(all, T) \in Int /\ Effectiveness(more, T) = Effectiveness(all, T)
          /\ Moves(Effectiveness(all, T), Effectiveness(more, T \cup {n}),
                   more[n].status = "SUCCESS", more[n].status # "SUCCESS")
        BY <1>2, EffectivenessMoves
    <2> QED
        BY <1>2, <2>1 DEF Moves
<1> DEFINE rest == 3 * Rate(input.impact, 100)
           pages == ReachFactor(input.pages, input.maxPages)
           effort == Rate(input.effort, 100)
           rated == FeedbackScore(ratings, Matching(ratings, OfRule(input.rule)))
<1>5. rest \in Int /\ pages \in Int /\ effort \in Int /\ rated \in Int
    <2>1. Rate(input.impact, 100) \in Int /\ Rate(input.effort, 100) \in Int
        BY <1>1, PercentIsInt
    <2>2. pages \in Int
        BY <1>1, ReachIsInt
    <2> QED
        BY <2>1, <2>2
<1>6. /\ Raw(all, ratings, input) = rest + 2 * Calibrate(all, T, input.confidence) + 2 * Effectiveness(all, T)
                                        + pages + effort + rated
      /\ Raw(more, ratings, input) = rest + 2 * Calibrate(more, U, input.confidence) + 2 * Effectiveness(more, U)
                                        + pages + effort + rated
    BY DEF Raw, T, U
<1> HIDE DEF rest, pages, effort, rated
<1>7. \A c, d, e, f \in Int : c <= d /\ e <= f =>
          rest + 2 * c + 2 * e + pages + effort + rated <= rest + 2 * d + 2 * f + pages + effort + rated
    BY <1>5
<1>8. /\ up => Raw(all, ratings, input) <= Raw(more, ratings, input)
      /\ down => Raw(more, ratings, input) <= Raw(all, ratings, input)
    BY <1>3, <1>4, <1>6, <1>7 DEF Moves
<1> QED
    BY <1>0, <1>8

LEMMA FeedbackScoreIsInt ==
    ASSUME NEW R, NEW ratings \in Seq(R), Len(ratings) <= MaxOutcomes + MaxFeedback, NEW rule, rule # Whatever
    PROVE  FeedbackScore(ratings, Matching(ratings, OfRule(rule))) \in Int
<1>1. PICK T : T = Matching(ratings, OfRule(rule))
    OBVIOUS
<1>2. T = {i \in 1 .. Len(ratings) : ratings[i].rule = rule} /\ Len(ratings) \in Nat
    BY <1>1, MatchingOfRule
<1>3. IsFiniteSet(T)
    <2>1. IsFiniteSet(1 .. Len(ratings)) /\ T \subseteq 1 .. Len(ratings)
        BY <1>2, FS_Interval
    <2> QED
        BY <2>1, FS_Subset
<1>4. PICK more : more = [i \in T \cup {0} |-> IF i = 0 THEN [rating |-> 0] ELSE ratings[i]]
    OBVIOUS
<1>5. OneMore(ratings, more, T, 0) /\ more[0].rating = 0
    BY <1>2, <1>3, <1>4 DEF OneMore
<1> QED
    BY <1>1, <1>5, FeedbackMoves

LEMMA RatingMovesScore ==
    ASSUME NEW S, NEW all \in Seq(S), Len(all) <= MaxOutcomes + MaxFeedback,
           NEW R, NEW ratings \in Seq(R), NEW f \in R, f.rating \in {-1, 0, 1},
           Len(ratings) < MaxOutcomes + MaxFeedback, NEW input \in ScoreInputs
    PROVE  LET before == Raw(all, ratings, input)
               later == Raw(all, Append(ratings, f), input)
           IN /\ f.rating = 1 \/ f.rule # input.rule => before <= later
              /\ f.rating = -1 \/ f.rule # input.rule => later <= before
<1>0. PICK more, n : more = Append(ratings, f) /\ n = Len(ratings) + 1
    OBVIOUS
<1> DEFINE T == Matching(ratings, OfRule(input.rule))
           U == Matching(more, OfRule(input.rule))
           H == Matching(all, OfRule(input.rule))
           up == f.rating = 1 \/ f.rule # input.rule
           down == f.rating = -1 \/ f.rule # input.rule
<1>1. /\ input.confidence \in 0 .. 100 /\ input.impact \in 0 .. 100 /\ input.effort \in 0 .. 100
      /\ input.pages \in Int /\ input.maxPages \in Int /\ input.rule # Whatever
    BY LearningAssumption
<1>2. OneMore(ratings, more, T, n) /\ more[n] = f /\ U = IF f.rule = input.rule THEN T \cup {n} ELSE T
    <2>1. PICK rule : rule = input.rule /\ rule # Whatever
        BY <1>1
    <2>2. Longer(R, ratings, f, more, n)
        BY <1>0 DEF Longer
    <2>3. T = Matching(ratings, OfRule(rule)) /\ U = Matching(more, OfRule(rule))
        BY <2>1
    <2> HIDE DEF T, U
    <2>4. OneMore(ratings, more, Matching(ratings, OfRule(rule)), n) /\ more[n] = f
        BY <2>1, <2>2, MatchingOfOneMore
    <2>5. /\ f.rule = rule => Matching(more, OfRule(rule)) = Matching(ratings, OfRule(rule)) \cup {n}
          /\ f.rule # rule => Matching(more, OfRule(rule)) = Matching(ratings, OfRule(rule))
        BY <2>1, <2>2, MatchingOfOneMore
    <2> QED
        BY <2>1, <2>3, <2>4, <2>5
<1>h. H = {i \in 1 .. Len(all) : all[i].rule = input.rule} /\ Len(all) \in Nat
    BY <1>1, MatchingOfRule
<1> HIDE DEF T, U
<1>3. Moves(FeedbackScore(ratings, T), FeedbackScore(more, U), up, down)
    <2>1. /\ FeedbackScore(ratings, T) \in Int /\ FeedbackScore(more, T) = FeedbackScore(ratings, T)
          /\ Moves(FeedbackScore(ratings, T), FeedbackScore(more, T \cup {n}), more[n].rating = 1, more[n].rating = -1)
        BY <1>2, FeedbackMoves
    <2> QED
        BY <1>2, <2>1 DEF Moves
<1> DEFINE impact == 3 * Rate(input.impact, 100)
           confidence == 2 * Calibrate(all, H, input.confidence)
           effective == 2 * Effectiveness(all, H)
           pages == ReachFactor(input.pages, input.maxPages)
           effort == Rate(input.effort, 100)
<1>4. impact \in Int /\ pages \in Int /\ effort \in Int
    <2>1. Rate(input.impact, 100) \in Int /\ Rate(input.effort, 100) \in Int
        BY <1>1, PercentIsInt
    <2>2. pages \in Int
        BY <1>1, ReachIsInt
    <2> QED
        BY <2>1, <2>2
<1>5. confidence \in Int /\ effective \in Int
    <2>1. IsFiniteSet(H)
        <3>1. IsFiniteSet(1 .. Len(all)) /\ H \subseteq 1 .. Len(all)
            BY <1>h, FS_Interval
        <3> QED
            BY <3>1, FS_Subset
    <2>2. OneMore(all, all, H, 0)
        BY <1>h, <2>1 DEF OneMore
    <2> HIDE DEF H
    <2>3. Calibrate(all, H, input.confidence) \in Int /\ Effectiveness(all, H) \in Int
        BY <1>1, <2>2, CalibrationMoves, EffectivenessMoves
    <2> QED
        BY <2>3
<1>6. /\ Raw(all, ratings, input) = impact + confidence + effective + pages + effort + FeedbackScore(ratings, T)
      /\ Raw(all, more, input) = impact + confidence + effective + pages + effort + FeedbackScore(more, U)
    BY DEF Raw, T, U
<1> HIDE DEF impact, confidence, effective, pages, effort
<1>7. \A c, d \in Int : c <= d =>
          impact + confidence + effective + pages + effort + c <= impact + confidence + effective + pages + effort + d
    BY <1>4, <1>5
<1>8. /\ up => Raw(all, ratings, input) <= Raw(all, more, input)
      /\ down => Raw(all, more, input) <= Raw(all, ratings, input)
    BY <1>3, <1>6, <1>7 DEF Moves
<1> QED
    BY <1>0, <1>8

----------------------------------------------------------------------------
(* What is kept between the steps *)

Of(all, e) == {i \in DOMAIN all : all[i].execution = e}
Looking(calls, e) == {c \in Ingests : calls[c] # NoOutcome /\ calls[c].execution = e}

\* What is kept is well formed and within its bounds, and the outcomes of an execution, with those that are about
\* to be saved, are no more than there are calls.
OutcomesFit ==
    /\ outcomes \in Seq(OutcomeRec) /\ Len(outcomes) <= MaxOutcomes
    /\ feedback \in Seq(FeedbackInputs) /\ Len(feedback) <= MaxFeedback
    /\ ingest \in [Ingests -> OutcomeRec \cup {NoOutcome}]
    /\ \A r \in ExecutionRecords :
          Cardinality(Of(outcomes, r.execution)) + Cardinality(Looking(ingest, r.execution)) <= Cardinality(Ingests)

LEMMA OutcomeFields ==
    ASSUME NEW o \in OutcomeRec
    PROVE  \E r \in ExecutionRecords : o.execution = r.execution
<1>1. PICK r \in ExecutionRecords, s \in OutcomeStatuses : o = [r EXCEPT !.status = s]
    BY DEF OutcomeRec
<1>2. PICK e, store, rule, status, confidence :
          /\ r = [execution |-> e, store |-> store, rule |-> rule, status |-> status, confidence |-> confidence]
          /\ r.execution = e
    BY LearningAssumption
<1>3. o.execution = e
    BY <1>1, <1>2
<1> QED
    BY <1>2, <1>3

LEMMA FoundIsOutcome ==
    ASSUME NEW r \in ExecutionRecords, Status(r.status) # NoOutcome
    PROVE  LET o == [FromExecutionRecord(r) EXCEPT !.confidence = r.confidence]
           IN o \in OutcomeRec /\ o.execution = r.execution
<1>1. PICK e, store, rule, status, confidence :
          /\ r = [execution |-> e, store |-> store, rule |-> rule, status |-> status, confidence |-> confidence]
          /\ r.execution = e /\ r.status = status /\ r.confidence = confidence
    BY LearningAssumption
<1>2. PICK s \in OutcomeStatuses : s = Status(status)
    BY <1>1 DEF Status, OutcomeStatuses
<1>3. FromExecutionRecord(r) = [execution |-> e, store |-> store, rule |-> rule, status |-> s, confidence |-> Unlabelled]
    <2>1. Status(r.status) = s
        BY <1>1, <1>2
    <2>2. FromExecutionRecord(r) = [r EXCEPT !.status = s, !.confidence = Unlabelled]
        BY <2>1 DEF FromExecutionRecord
    <2> QED
        BY <1>1, <2>2
<1>4. [FromExecutionRecord(r) EXCEPT !.confidence = r.confidence]
          = [execution |-> e, store |-> store, rule |-> rule, status |-> s, confidence |-> confidence]
    BY <1>1, <1>3
<1>5. [r EXCEPT !.status = s]
          = [execution |-> e, store |-> store, rule |-> rule, status |-> s, confidence |-> confidence]
    BY <1>1
<1> QED
    <2>1. [r EXCEPT !.status = s] \in OutcomeRec
        BY DEF OutcomeRec
    <2>2. [FromExecutionRecord(r) EXCEPT !.confidence = r.confidence].execution = e
        BY <1>4
    <2> QED
        BY <1>1, <1>4, <1>5, <2>1, <2>2

LEMMA OfIsFinite ==
    ASSUME NEW S, NEW all \in Seq(S), NEW e
    PROVE  IsFiniteSet(Of(all, e)) /\ Cardinality(Of(all, e)) \in Nat
<1>1. IsFiniteSet(1 .. Len(all))
    BY FS_Interval
<1>2. Of(all, e) \subseteq 1 .. Len(all)
    BY DEF Of
<1> QED
    BY <1>1, <1>2, FS_Subset, FS_CardinalityType

LEMMA LookingIsFinite ==
    ASSUME NEW calls, NEW e
    PROVE  /\ IsFiniteSet(Looking(calls, e)) /\ Cardinality(Looking(calls, e)) \in Nat
           /\ Cardinality(Looking(calls, e)) <= Cardinality(Ingests) /\ Cardinality(Ingests) \in Nat
<1>1. IsFiniteSet(Ingests) /\ Looking(calls, e) \subseteq Ingests
    BY LearningAssumption DEF Looking
<1> QED
    BY <1>1, FS_Subset, FS_CardinalityType

LEMMA OutcomesFitInit == LearningInit => OutcomesFit
<1> SUFFICES ASSUME LearningInit PROVE OutcomesFit
    OBVIOUS
<1>1. outcomes = <<>> /\ feedback = <<>> /\ ingest = [c \in Ingests |-> NoOutcome]
    BY DEF LearningInit
<1>2. ASSUME NEW r \in ExecutionRecords
      PROVE  Cardinality(Of(outcomes, r.execution)) + Cardinality(Looking(ingest, r.execution)) <= Cardinality(Ingests)
    <2>1. Of(outcomes, r.execution) = {}
        BY <1>1 DEF Of
    <2>2. Cardinality(Of(outcomes, r.execution)) = 0
        BY <2>1, FS_EmptySet
    <2> QED
        BY <2>2, LookingIsFinite
<1>3. outcomes \in Seq(OutcomeRec) /\ Len(outcomes) = 0 /\ feedback \in Seq(FeedbackInputs) /\ Len(feedback) = 0
    BY <1>1
<1> QED
    BY <1>1, <1>2, <1>3, LearningAssumption DEF OutcomesFit

LEMMA FindKeepsFit ==
    ASSUME OutcomesFit, NEW c \in Ingests, NEW r \in ExecutionRecords, FindOutcome(c, r)
    PROVE  OutcomesFit'
<1>1. PICK o : o = [FromExecutionRecord(r) EXCEPT !.confidence = r.confidence]
    OBVIOUS
<1>2. o \in OutcomeRec /\ o.execution = r.execution
    BY <1>1, FoundIsOutcome DEF FindOutcome
<1>3. /\ ingest[c] = NoOutcome /\ ingest' = [ingest EXCEPT ![c] = o] /\ outcomes' = outcomes /\ feedback' = feedback
      /\ \A i \in DOMAIN outcomes : outcomes[i].execution # r.execution
    BY <1>1 DEF FindOutcome
<1>4. ingest \in [Ingests -> OutcomeRec \cup {NoOutcome}] /\ outcomes \in Seq(OutcomeRec)
    BY DEF OutcomesFit
<1>5. ASSUME NEW s \in ExecutionRecords
      PROVE  Cardinality(Of(outcomes', s.execution)) + Cardinality(Looking(ingest', s.execution)) <= Cardinality(Ingests)
    <2>1. CASE s.execution = r.execution
        <3>1. Of(outcomes', s.execution) = {}
            BY <1>3, <2>1 DEF Of
        <3>2. Cardinality(Of(outcomes', s.execution)) = 0
            BY <3>1, FS_EmptySet
        <3> QED
            BY <3>2, LookingIsFinite
    <2>2. CASE s.execution # r.execution
        <3>1. Looking(ingest', s.execution) = Looking(ingest, s.execution)
            BY <1>2, <1>3, <1>4, <2>2 DEF Looking
        <3> QED
            BY <1>3, <3>1 DEF OutcomesFit
    <2> QED
        BY <2>1, <2>2
<1>6. ingest' \in [Ingests -> OutcomeRec \cup {NoOutcome}]
    BY <1>2, <1>3, <1>4
<1> QED
    BY <1>3, <1>5, <1>6 DEF OutcomesFit

LEMMA SaveKeepsFit ==
    ASSUME OutcomesFit, NEW c \in Ingests, SaveOutcome(c)
    PROVE  OutcomesFit'
<1>1. PICK o : o = ingest[c]
    OBVIOUS
<1>2. /\ o # NoOutcome /\ Len(outcomes) < MaxOutcomes /\ outcomes' = Append(outcomes, o)
      /\ ingest' = [ingest EXCEPT ![c] = NoOutcome] /\ feedback' = feedback
    BY <1>1 DEF SaveOutcome
<1>3. ingest \in [Ingests -> OutcomeRec \cup {NoOutcome}] /\ outcomes \in Seq(OutcomeRec)
    BY DEF OutcomesFit
<1>4. o \in OutcomeRec
    BY <1>1, <1>2, <1>3
<1>5. PICK n \in Nat : n = Len(outcomes) + 1
    BY <1>3
<1>6. /\ outcomes' \in Seq(OutcomeRec) /\ Len(outcomes') = n /\ n \notin DOMAIN outcomes
      /\ DOMAIN outcomes' = DOMAIN outcomes \cup {n}
      /\ outcomes'[n] = o /\ \A i \in DOMAIN outcomes : outcomes'[i] = outcomes[i]
    BY <1>2, <1>3, <1>4, <1>5
<1>7. ASSUME NEW s \in ExecutionRecords
      PROVE  Cardinality(Of(outcomes', s.execution)) + Cardinality(Looking(ingest', s.execution)) <= Cardinality(Ingests)
    <2> DEFINE before == Of(outcomes, s.execution)
               calls == Looking(ingest, s.execution)
    <2>0. /\ IsFiniteSet(before) /\ Cardinality(before) \in Nat
          /\ IsFiniteSet(calls) /\ Cardinality(calls) \in Nat /\ Cardinality(Ingests) \in Nat
        BY <1>3, OfIsFinite, LookingIsFinite
    <2>1. Cardinality(before) + Cardinality(calls) <= Cardinality(Ingests)
        BY DEF OutcomesFit
    <2>2. CASE s.execution = o.execution
        <3>1. Of(outcomes', s.execution) = before \cup {n} /\ n \notin before
            BY <1>6, <2>2 DEF Of
        <3>2. Looking(ingest', s.execution) = calls \ {c} /\ c \in calls
            BY <1>1, <1>2, <1>3, <2>2 DEF Looking
        <3> HIDE DEF before, calls
        <3>3. Cardinality(before \cup {n}) = Cardinality(before) + 1
            BY <2>0, <3>1, FS_AddElement
        <3>4. Cardinality(calls \ {c}) = Cardinality(calls) - 1
            BY <2>0, <3>2, FS_RemoveElement
        <3> QED
            BY <2>0, <2>1, <3>1, <3>2, <3>3, <3>4
    <2>3. CASE s.execution # o.execution
        <3>1. Of(outcomes', s.execution) = before
            BY <1>6, <2>3 DEF Of
        <3>2. Looking(ingest', s.execution) = calls
            BY <1>1, <1>2, <1>3, <2>3 DEF Looking
        <3> QED
            BY <2>1, <3>1, <3>2
    <2> QED
        BY <2>2, <2>3
<1>8. ingest' \in [Ingests -> OutcomeRec \cup {NoOutcome}]
    BY <1>2, <1>3
<1>9. Len(outcomes') <= MaxOutcomes
    BY <1>2, <1>3, <1>5, <1>6, LearningAssumption
<1>10. feedback' \in Seq(FeedbackInputs) /\ Len(feedback') <= MaxFeedback
    BY <1>2 DEF OutcomesFit
<1> QED
    BY <1>6, <1>7, <1>8, <1>9, <1>10 DEF OutcomesFit

LEMMA FeedbackKeepsFit ==
    ASSUME OutcomesFit, NEW f \in FeedbackInputs, RecordFeedback(f)
    PROVE  OutcomesFit'
<1>1. /\ Len(feedback) < MaxFeedback /\ feedback' = Append(feedback, f)
      /\ outcomes' = outcomes /\ ingest' = ingest
    BY DEF RecordFeedback
<1>2. feedback \in Seq(FeedbackInputs) /\ Len(feedback) \in Nat
    BY DEF OutcomesFit
<1>3. feedback' \in Seq(FeedbackInputs) /\ Len(feedback') <= MaxFeedback
    BY <1>1, <1>2, LearningAssumption
<1> QED
    BY <1>1, <1>3 DEF OutcomesFit

LEMMA ResetKeepsFit == OutcomesFit /\ Reset => OutcomesFit'
<1> SUFFICES ASSUME OutcomesFit, Reset PROVE OutcomesFit'
    OBVIOUS
<1>1. outcomes' = <<>> /\ feedback' = <<>> /\ ingest' = ingest
    BY DEF Reset
<1>2. ASSUME NEW r \in ExecutionRecords
      PROVE  Cardinality(Of(outcomes', r.execution)) + Cardinality(Looking(ingest', r.execution)) <= Cardinality(Ingests)
    <2>1. Of(outcomes', r.execution) = {}
        BY <1>1 DEF Of
    <2>2. Cardinality(Of(outcomes', r.execution)) = 0
        BY <2>1, FS_EmptySet
    <2> QED
        BY <2>2, LookingIsFinite
<1>3. outcomes' \in Seq(OutcomeRec) /\ Len(outcomes') = 0 /\ feedback' \in Seq(FeedbackInputs) /\ Len(feedback') = 0
    BY <1>1
<1>4. ingest' \in [Ingests -> OutcomeRec \cup {NoOutcome}]
    BY <1>1 DEF OutcomesFit
<1> QED
    BY <1>2, <1>3, <1>4, LearningAssumption DEF OutcomesFit

LEMMA SaveIsEvidence ==
    ASSUME OutcomesFit, OutcomesFit', NEW c \in Ingests, SaveOutcome(c)
    PROVE  Evidence
<1>1. PICK o : o = ingest[c]
    OBVIOUS
<1>2. /\ o # NoOutcome /\ Len(outcomes) < MaxOutcomes /\ outcomes' = Append(outcomes, o) /\ feedback' = feedback
    BY <1>1 DEF SaveOutcome
<1>3. /\ outcomes \in Seq(OutcomeRec) /\ o \in OutcomeRec
      /\ feedback \in Seq(FeedbackInputs) /\ Len(feedback) <= MaxFeedback
    BY <1>1, <1>2 DEF OutcomesFit
<1>4. outcomes'[Len(outcomes')] = o
    BY <1>2, <1>3
<1>5. Cardinality({i \in DOMAIN outcomes' : outcomes'[i].execution = o.execution}) <= Cardinality(Ingests)
    <2>1. PICK r \in ExecutionRecords : o.execution = r.execution
        BY <1>3, OutcomeFields
    <2>2. Cardinality(Of(outcomes', o.execution)) + Cardinality(Looking(ingest', o.execution)) <= Cardinality(Ingests)
        BY <2>1 DEF OutcomesFit
    <2>3. Cardinality(Of(outcomes', o.execution)) \in Nat
        BY OfIsFinite DEF OutcomesFit
    <2>4. Cardinality(Of(outcomes', o.execution)) <= Cardinality(Ingests)
        BY <2>2, <2>3, LookingIsFinite
    <2> QED
        BY <2>4 DEF Of
<1>6. ASSUME NEW input \in ScoreInputs
      PROVE  /\ o.status = "SUCCESS" \/ o.rule # input.rule =>
                    Raw(outcomes, feedback, input) <= Raw(outcomes', feedback', input)
             /\ o.status # "SUCCESS" \/ o.rule # input.rule =>
                    Raw(outcomes', feedback', input) <= Raw(outcomes, feedback, input)
    <2>1. Len(outcomes) < MaxOutcomes + MaxFeedback /\ Len(feedback) <= MaxOutcomes + MaxFeedback
        BY <1>2, <1>3, LearningAssumption
    <2>2. FeedbackScore(feedback, Matching(feedback, OfRule(input.rule))) \in Int
        BY <1>3, <2>1, FeedbackScoreIsInt, LearningAssumption
    <2> QED
        BY <1>2, <1>3, <2>1, <2>2, OutcomeMovesScore
<1> QED
    BY <1>2, <1>4, <1>5, <1>6 DEF Evidence

LEMMA RatingIsEvidence ==
    ASSUME OutcomesFit, NEW f \in FeedbackInputs, RecordFeedback(f)
    PROVE  Evidence
<1>1. /\ Len(feedback) < MaxFeedback /\ feedback' = Append(feedback, f) /\ f.rating \in {-1, 0, 1}
      /\ outcomes' = outcomes
    BY DEF RecordFeedback
<1>2. /\ outcomes \in Seq(OutcomeRec) /\ Len(outcomes) <= MaxOutcomes /\ feedback \in Seq(FeedbackInputs)
    BY DEF OutcomesFit
<1>3. feedback'[Len(feedback')] = f
    BY <1>1, <1>2
<1>4. ASSUME NEW input \in ScoreInputs
      PROVE  /\ f.rating = 1 \/ f.rule # input.rule => Raw(outcomes, feedback, input) <= Raw(outcomes', feedback', input)
             /\ f.rating = -1 \/ f.rule # input.rule => Raw(outcomes', feedback', input) <= Raw(outcomes, feedback, input)
    <2>1. Len(feedback) < MaxOutcomes + MaxFeedback /\ Len(outcomes) <= MaxOutcomes + MaxFeedback
        BY <1>1, <1>2, LearningAssumption
    <2> QED
        BY <1>1, <1>2, <2>1, RatingMovesScore
<1> QED
    BY <1>1, <1>3, <1>4 DEF Evidence

\* Whatever is recorded, the score of a recommendation moves with its evidence (EvidenceCounts), and the outcomes
\* of an execution are no more than the calls that looked for one at the same time.
THEOREM ScoresFollowEvidence == LearningSpec => EvidenceCounts
<1>1. ASSUME OutcomesFit, [LearningNext]_learnVars
      PROVE  OutcomesFit' /\ [Evidence]_learnVars
    <2>1. CASE UNCHANGED learnVars
        BY <1>1, <2>1 DEF learnVars, OutcomesFit, Of, Looking
    <2>2. ASSUME NEW f \in FeedbackInputs, RecordFeedback(f)
          PROVE  OutcomesFit' /\ [Evidence]_learnVars
        BY <1>1, <2>2, FeedbackKeepsFit, RatingIsEvidence
    <2>3. ASSUME NEW c \in Ingests, SaveOutcome(c)
          PROVE  OutcomesFit' /\ [Evidence]_learnVars
        <3>1. OutcomesFit'
            BY <1>1, <2>3, SaveKeepsFit
        <3> QED
            BY <1>1, <2>3, <3>1, SaveIsEvidence
    <2>4. ASSUME NEW c \in Ingests, NEW r \in ExecutionRecords, FindOutcome(c, r)
          PROVE  OutcomesFit' /\ [Evidence]_learnVars
        <3>1. OutcomesFit'
            BY <1>1, <2>4, FindKeepsFit
        <3>2. outcomes' = outcomes /\ feedback' = feedback
            BY <2>4 DEF FindOutcome
        <3> QED
            BY <3>1, <3>2 DEF Evidence
    <2>5. ASSUME NEW store, GenerateSignals(store)
          PROVE  OutcomesFit' /\ [Evidence]_learnVars
        <3>1. outcomes' = outcomes /\ feedback' = feedback /\ ingest' = ingest
            BY <2>5 DEF GenerateSignals
        <3> QED
            BY <1>1, <3>1 DEF Evidence, OutcomesFit, Of, Looking
    <2>6. ASSUME NEW filter, NEW existing, GetHistoricalOutcomes(filter, existing)
          PROVE  OutcomesFit' /\ [Evidence]_learnVars
        <3>1. outcomes' = outcomes /\ feedback' = feedback /\ ingest' = ingest
            BY <2>6 DEF GetHistoricalOutcomes
        <3> QED
            BY <1>1, <3>1 DEF Evidence, OutcomesFit, Of, Looking
    <2>7. CASE Reset
        <3>1. outcomes' = <<>> /\ feedback' = <<>>
            BY <2>7 DEF Reset
        <3> QED
            BY <1>1, <2>7, <3>1, ResetKeepsFit DEF Evidence
    <2> QED
        BY <1>1, <2>1, <2>2, <2>3, <2>4, <2>5, <2>6, <2>7 DEF LearningNext
<1> QED
    BY <1>1, OutcomesFitInit, PTL DEF LearningSpec, EvidenceCounts

-----------------------------------------------------------------------------
(* What an audit reports, for any crawls and configurations: the rank of a recommendation among those of its
   category, what is merged of a rule, what is found in a crawl and what of it is recommended. *)
(* The first of a ranking *)

Rank(all, r) == Cardinality({s \in all : Precedes(s, r)})

\* Recommendations that a rule and a score tell apart.
Ranked(all) ==
    /\ IsFiniteSet(all)
    /\ \A r \in all : r.score \in Int /\ RuleIndex(r.rule) \in Nat
    /\ \A r, s \in all : RuleIndex(r.rule) = RuleIndex(s.rule) => r = s

LEMMA PrecedesRanks ==
    ASSUME NEW all, Ranked(all), NEW x \in all, NEW y \in all, Precedes(x, y)
    PROVE  Rank(all, x) < Rank(all, y)
<1> DEFINE front == {z \in all : Precedes(z, x)}
               back == {z \in all : Precedes(z, y)}
<1>1. front \subseteq back /\ x \in back /\ x \notin front
    BY DEF Precedes, Ranked
<1>2. IsFiniteSet(back) /\ IsFiniteSet(front)
    <2>1. front \subseteq all /\ back \subseteq all
        OBVIOUS
    <2> QED
        BY <2>1, FS_Subset DEF Ranked
<1> HIDE DEF front, back
<1>3. Cardinality(front) <= Cardinality(back) /\ Cardinality(front) # Cardinality(back)
    BY <1>1, <1>2, FS_Subset
<1>4. Cardinality(front) \in Nat /\ Cardinality(back) \in Nat
    BY <1>2, FS_CardinalityType
<1>5. Cardinality(front) < Cardinality(back)
    BY <1>3, <1>4
<1> QED
    BY <1>5 DEF Rank, front, back

LEMMA RankGrowsDown ==
    ASSUME NEW all, Ranked(all), NEW r \in all, NEW s \in all, r # s
    PROVE  Rank(all, r) # Rank(all, s)
<1>1. \A x, y \in all : Precedes(x, y) => Rank(all, x) < Rank(all, y)
    BY PrecedesRanks
<1>2. Precedes(r, s) \/ Precedes(s, r)
    BY DEF Precedes, Ranked
<1>3. Rank(all, r) \in Nat /\ Rank(all, s) \in Nat
    <2>1. \A x : {z \in all : Precedes(z, x)} \subseteq all
        OBVIOUS
    <2> QED
        BY <2>1, FS_Subset, FS_CardinalityType DEF Rank, Ranked
<1> QED
    BY <1>1, <1>2, <1>3

LEMMA RankIsBelow ==
    ASSUME NEW all, Ranked(all), NEW r \in all
    PROVE  Rank(all, r) \in 0 .. Cardinality(all) - 1 /\ Cardinality(all) \in Nat
<1> DEFINE front == {z \in all : Precedes(z, r)}
<1>1. front \subseteq all \ {r}
    BY DEF Precedes, Ranked
<1>2. IsFiniteSet(all) /\ IsFiniteSet(all \ {r}) /\ Cardinality(all \ {r}) = Cardinality(all) - 1
    BY FS_RemoveElement DEF Ranked
<1> HIDE DEF front
<1>3. IsFiniteSet(front) /\ Cardinality(front) <= Cardinality(all \ {r})
    BY <1>1, <1>2, FS_Subset
<1>4. Cardinality(front) \in Nat /\ Cardinality(all) \in Nat
    BY <1>2, <1>3, FS_CardinalityType
<1>5. Cardinality(front) \in 0 .. Cardinality(all) - 1
    BY <1>2, <1>3, <1>4
<1> QED
    BY <1>4, <1>5 DEF Rank, front

\* Of a ranking that is long enough, cap are among the first cap.
LEMMA FirstAreAsMany ==
    ASSUME NEW all, Ranked(all), NEW cap \in Nat, cap <= Cardinality(all)
    PROVE  Cardinality({r \in all : Rank(all, r) < cap}) = cap
<1>1. IsFiniteSet(all) /\ Cardinality(all) \in Nat
    BY FS_CardinalityType DEF Ranked
<1>2. PICK n \in Nat : n = Cardinality(all)
    BY <1>1
<1> DEFINE f == [r \in all |-> Rank(all, r)]
           first == {r \in all : Rank(all, r) < cap}
           g == [r \in first |-> Rank(all, r)]
<1>3. \A r \in all : Rank(all, r) \in 0 .. n - 1
    BY <1>2, RankIsBelow
<1>4. \A r, s \in all : Rank(all, r) = Rank(all, s) => r = s
    BY RankGrowsDown
<1>5. f \in Injection(all, 0 .. n - 1)
    BY <1>3, <1>4 DEF Injection, IsInjective
<1>6. \A m \in Nat : IsFiniteSet(0 .. m - 1) /\ Cardinality(0 .. m - 1) = m
    <2>1. ASSUME NEW m \in Nat
          PROVE  IsFiniteSet(0 .. m - 1) /\ Cardinality(0 .. m - 1) = m
        <3>1. PICK last \in Int : last = m - 1
            OBVIOUS
        <3>2. IsFiniteSet(0 .. last) /\ Cardinality(0 .. last) = IF 0 > last THEN 0 ELSE last - 0 + 1
            BY FS_Interval
        <3> QED
            BY <3>1, <3>2
    <2> QED
        BY <2>1
<1>7. f \in Surjection(all, 0 .. n - 1)
    <2>1. PICK T : T = 0 .. n - 1
        OBVIOUS
    <2>2. IsFiniteSet(T) /\ Cardinality(all) = Cardinality(T) /\ f \in Injection(all, T)
        BY <1>2, <1>5, <1>6, <2>1
    <2> HIDE DEF f
    <2>3. f \in Surjection(all, T)
        BY <2>2, FS_Injection
    <2> QED
        BY <2>1, <2>3
<1>8. \A k \in 0 .. n - 1 : \E r \in all : Rank(all, r) = k
    BY <1>7 DEF Surjection
<1>9. g \in Injection(first, 0 .. cap - 1)
    BY <1>3, <1>4 DEF Injection, IsInjective
<1>10. g \in Surjection(first, 0 .. cap - 1)
    <2>1. \A k \in 0 .. cap - 1 : \E r \in first : g[r] = k
        BY <1>2, <1>8
    <2> QED
        BY <1>9, <2>1 DEF Surjection, Injection
<1>11. PICK T : T = 0 .. cap - 1 /\ IsFiniteSet(T) /\ Cardinality(T) = cap
    BY <1>6
<1>12. g \in Injection(first, T) /\ g \in Surjection(first, T)
    BY <1>9, <1>10, <1>11
<1> HIDE DEF g, first
<1>13. Cardinality(first) = Cardinality(T)
    BY <1>11, <1>12, FS_Injection
<1> QED
    BY <1>11, <1>13 DEF first

-----------------------------------------------------------------------------
(* What is merged of a rule *)

\* Candidates whose impact and confidence are those of the code.
InScale(c) == c.impact \in Impacts /\ c.confidence \in 50 .. 95

OfRuleIn(found, rule) == {c \in found : c.rule = rule}
MergedImpact(found, rule) ==
    (CHOOSE c \in OfRuleIn(found, rule) : \A d \in OfRuleIn(found, rule) : Level(d.impact) <= Level(c.impact)).impact
MergedEffort(found, rule) ==
    (CHOOSE c \in OfRuleIn(found, rule) : \A d \in OfRuleIn(found, rule) : Level(d.effort) >= Level(c.effort)).effort
MergedConfidence(found, rule) ==
    CHOOSE x \in {c.confidence : c \in OfRuleIn(found, rule)} : \A d \in OfRuleIn(found, rule) : d.confidence <= x
Merged(found, rule) ==
    Candidate(rule, UNION {c.urls : c \in OfRuleIn(found, rule)}, MergedImpact(found, rule),
              MergedEffort(found, rule), MergedConfidence(found, rule))

LEMMA MergeIsMerged ==
    ASSUME NEW found
    PROVE  MergeByRule(found) = {Merged(found, rule) : rule \in {c.rule : c \in found}}
BY DEF MergeByRule, Merged, MergedImpact, MergedEffort, MergedConfidence, OfRuleIn

LEMMA ConfidenceIsOne ==
    ASSUME NEW found, \A c \in found : InScale(c), NEW rule, OfRuleIn(found, rule) # {}
    PROVE  MergedConfidence(found, rule) \in 50 .. 95
<1> DEFINE of == OfRuleIn(found, rule)
           short == {95 - c.confidence : c \in of}
<1>1. \A c \in of : c.confidence \in 50 .. 95
    BY DEF OfRuleIn, InScale
<1> HIDE DEF of
<1>2. short \in SUBSET Nat /\ short # {}
    BY <1>1 DEF of
<1>3. PICK least \in short : \A other \in short : least <= other
    BY <1>2, LeastNumber
<1>4. PICK c \in of : least = 95 - c.confidence
    BY <1>3
<1>5. \A d \in of : d.confidence <= c.confidence
    <2>1. ASSUME NEW d \in of
          PROVE  d.confidence <= c.confidence
        <3>1. 95 - d.confidence \in short
            OBVIOUS
        <3>2. least <= 95 - d.confidence
            BY <1>3, <3>1
        <3>3. d.confidence \in 50 .. 95 /\ c.confidence \in 50 .. 95
            BY <1>1
        <3> QED
            BY <1>4, <3>2, <3>3
    <2> QED
        BY <2>1
<1>6. \E x \in {d.confidence : d \in of} : \A d \in of : d.confidence <= x
    BY <1>4, <1>5
<1>7. MergedConfidence(found, rule) \in {d.confidence : d \in of}
    BY <1>6 DEF MergedConfidence, of
<1> QED
    BY <1>1, <1>7

LEMMA HighestImpactStays ==
    ASSUME NEW found, \A c \in found : InScale(c), NEW rule,
           NEW severe \in OfRuleIn(found, rule), severe.impact = "HIGH"
    PROVE  MergedImpact(found, rule) = "HIGH"
<1> DEFINE of == OfRuleIn(found, rule)
           best == CHOOSE c \in of : \A d \in of : Level(d.impact) <= Level(c.impact)
<1>1. \A d \in of : d.impact \in Impacts /\ Level(d.impact) \in 0 .. 2
    BY DEF OfRuleIn, InScale, Impacts, Level
<1>2. \A d \in of : Level(d.impact) <= Level(severe.impact)
    BY <1>1 DEF Level
<1>3. best \in of /\ \A d \in of : Level(d.impact) <= Level(best.impact)
    BY <1>2
<1>4. Level(best.impact) = 2
    BY <1>1, <1>3 DEF Level
<1>5. best.impact = "HIGH"
    BY <1>1, <1>3, <1>4 DEF Level, Impacts
<1> QED
    BY <1>5 DEF MergedImpact

\* A product grows with either factor.
LEMMA Weighted ==
    ASSUME NEW weight \in Nat, NEW x \in Nat, NEW y \in Nat, x <= y
    PROVE  weight * x \in Nat /\ weight * y \in Nat /\ weight * x <= weight * y
<1>1. weight * x \in Nat /\ weight * y \in Nat
    OBVIOUS
<1>2. weight * (y - x) \in Nat
    OBVIOUS
<1>3. weight * y = weight * x + weight * (y - x)
    OBVIOUS
<1> QED
    BY <1>1, <1>2, <1>3

LEMMA ScoreIsInt ==
    ASSUME NEW impact, NEW effort, NEW confidence \in 50 .. 95, NEW weights \in Weights
    PROVE  /\ ComputeScore(impact, confidence, effort, weights) \in 0 .. 100
           /\ impact = "HIGH" =>
                  ComputeScore(impact, confidence, effort, weights) >= ComputeScore("HIGH", 50, "HIGH", weights)
<1>1. PICK i \in {30, 60, 100} : i = CASE impact = "HIGH" -> 100 [] impact = "MEDIUM" -> 60 [] OTHER -> 30
    OBVIOUS
<1>2. PICK e \in {30, 60, 100} : e = CASE effort = "HIGH" -> 30 [] effort = "MEDIUM" -> 60 [] OTHER -> 100
    OBVIOUS
<1>3. PICK wi \in Nat, wc \in Nat, we \in Nat : wi = weights.impact /\ wc = weights.confidence /\ we = weights.effort
    BY DEF Weights
<1>4. PICK a \in Nat, b \in Nat, c \in Nat : a = wi * i /\ b = wc * confidence /\ c = we * e
    <2>1. wi * i \in Nat /\ we * e \in Nat
        BY <1>1, <1>2
    <2>2. wc * confidence \in Nat
        BY Weighted
    <2> QED
        BY <2>1, <2>2
<1>5. PICK a0 \in Nat, b0 \in Nat, c0 \in Nat : a0 = wi * 100 /\ b0 = wc * 50 /\ c0 = we * 30
    OBVIOUS
<1>6. ComputeScore(impact, confidence, effort, weights) = Clamp((a + b + c + 50) \div 100, 0, 100)
    BY <1>1, <1>2, <1>3, <1>4 DEF ComputeScore
<1>7. ComputeScore("HIGH", 50, "HIGH", weights) = Clamp((a0 + b0 + c0 + 50) \div 100, 0, 100)
    BY <1>3, <1>5 DEF ComputeScore
<1>8. b >= b0 /\ c >= c0 /\ (impact = "HIGH" => a = a0)
    <2>1. b >= b0
        BY <1>4, <1>5, Weighted
    <2>2. c >= c0
        BY <1>2, <1>4, <1>5, Weighted
    <2> QED
        BY <1>1, <1>4, <1>5, <2>1, <2>2
<1>9. PICK x \in Int, x0 \in Int : x = (a + b + c + 50) \div 100 /\ x0 = (a0 + b0 + c0 + 50) \div 100
    OBVIOUS
<1>10. impact = "HIGH" => x >= x0
    BY <1>8, <1>9
<1> QED
    BY <1>6, <1>7, <1>9, <1>10 DEF Clamp

LEMMA PriorityIsHigh ==
    ASSUME NEW score \in Int, score >= 60
    PROVE  PriorityFromScore(score) \in {"HIGH", "CRITICAL"}
BY DEF PriorityFromScore

-----------------------------------------------------------------------------
(* What is found in a crawl *)

Found(pages, config) == FromIssues(pages, config) \cup FromPerformance(pages) \cup FromStructuredData(pages, config)

LEMMA ConfidenceInRange ==
    ASSUME NEW objective, NEW count, NEW values
    PROVE  ComputeConfidence(objective, count, values) \in 50 .. 95
<1>1. PICK a \in {85, 70}, b \in {10, 0}, d \in {0, 15} :
          /\ a = (IF objective THEN 85 ELSE 70) /\ b = (IF count >= 3 THEN 10 ELSE 0) /\ d = (IF values THEN 0 ELSE 15)
    OBVIOUS
<1>2. ComputeConfidence(objective, count, values) = Clamp(a + b - d, 50, 95)
    BY <1>1 DEF ComputeConfidence
<1> QED
    BY <1>1, <1>2 DEF Clamp

LEMMA MeasuredIsRated ==
    ASSUME NEW rule, NEW pages, NEW c \in Measured(rule, pages)
    PROVE  InScale(c) /\ c.rule = rule
<1>1. c = Candidate(rule, {p.url : p \in pages}, RuleImpact(rule), RuleEffort(rule),
                    ComputeConfidence(TRUE, Cardinality(pages), TRUE))
    BY DEF Measured
<1>2. c.rule = rule /\ c.impact = RuleImpact(rule) /\ c.confidence = ComputeConfidence(TRUE, Cardinality(pages), TRUE)
    BY <1>1 DEF Candidate
<1>3. RuleImpact(rule) \in Impacts
    BY DEF RuleImpact, Impacts
<1> QED
    BY <1>2, <1>3, ConfidenceInRange DEF InScale

\* What analyzeIssues makes of a rule.
FiredOn(pages, rule) == {p \in pages : \E i \in p.issues : i.rule = rule}
Fired(pages, rule) == UNION {{i \in p.issues : i.rule = rule} : p \in pages}
OfIssues(pages, config, rule) ==
    Candidate(rule, {p.url : p \in FiredOn(pages, rule)},
        IssueImpact(rule, {i.severity : i \in Fired(pages, rule)}, ImpactOf(config, rule),
                    \E p \in FiredOn(pages, rule) : p.type \in {"product", "collection", "homepage"}),
        EffortOf(config, rule),
        ComputeConfidence(rule \in Objective, Cardinality(FiredOn(pages, rule)), \A i \in Fired(pages, rule) : i.value))

LEMMA IssuesAre ==
    ASSUME NEW pages, NEW config
    PROVE  FromIssues(pages, config)
               = {OfIssues(pages, config, rule) : rule \in {i.rule : i \in UNION {p.issues : p \in pages}} \ config.off}
BY DEF FromIssues, OfIssues, FiredOn, Fired

LEMMA ImpactIsOne ==
    ASSUME NEW pages \in Crawls, NEW config \in AuditConfigs, NEW rule, NEW severities, NEW money \in BOOLEAN
    PROVE  /\ IssueImpact(rule, severities, ImpactOf(config, rule), money) \in Impacts
           /\ (\E s \in severities : s \in {"HIGH", "CRITICAL"}) =>
                  IssueImpact(rule, severities, ImpactOf(config, rule), money) = "HIGH"
<1>1. PICK override \in Impacts : override = ImpactOf(config, rule)
    BY AuditAssumption DEF ImpactOf, RuleImpact, Impacts
<1>2. PICK observed \in Impacts : observed = IF \E s \in severities : SeverityImpact(s) = "HIGH" THEN "HIGH"
                                             ELSE IF "MEDIUM" \in severities THEN "MEDIUM" ELSE "LOW"
    BY DEF Impacts
<1>3. PICK impact \in Impacts : impact = MaxLevel(observed, override)
    BY <1>1, <1>2 DEF MaxLevel
<1>4. IssueImpact(rule, severities, ImpactOf(config, rule), money)
          = IF MattersForMoney(rule) /\ money THEN BumpImpact(impact) ELSE impact
    BY <1>1, <1>2, <1>3 DEF IssueImpact
<1>5. ASSUME NEW s \in severities, s \in {"HIGH", "CRITICAL"}
      PROVE  impact = "HIGH"
    <2>1. SeverityImpact(s) = "HIGH"
        BY <1>5 DEF SeverityImpact
    <2>2. observed = "HIGH"
        BY <1>2, <2>1
    <2> QED
        BY <1>1, <1>3, <2>2 DEF MaxLevel, Level, Impacts
<1>6. BumpImpact(impact) \in Impacts /\ (impact = "HIGH" => BumpImpact(impact) = "HIGH")
    BY DEF BumpImpact, Impacts
<1> QED
    BY <1>4, <1>5, <1>6

LEMMA IssueFields ==
    ASSUME NEW pages \in Crawls, NEW config \in AuditConfigs, NEW rule
    PROVE  LET c == OfIssues(pages, config, rule)
           IN /\ InScale(c) /\ c.rule = rule
              /\ \A p \in pages : \A i \in p.issues : i.rule = rule =>
                     p.url \in c.urls /\ (i.severity \in {"HIGH", "CRITICAL"} => c.impact = "HIGH")
<1> DEFINE affected == FiredOn(pages, rule)
           severities == {i.severity : i \in Fired(pages, rule)}
           money == \E p \in affected : p.type \in {"product", "collection", "homepage"}
<1>1. PICK impact : impact = IssueImpact(rule, severities, ImpactOf(config, rule), money)
    OBVIOUS
<1>2. impact \in Impacts /\ ((\E s \in severities : s \in {"HIGH", "CRITICAL"}) => impact = "HIGH")
    <2>1. PICK any \in BOOLEAN : any = money
        OBVIOUS
    <2> HIDE DEF money, severities
    <2>2. /\ IssueImpact(rule, severities, ImpactOf(config, rule), any) \in Impacts
          /\ (\E s \in severities : s \in {"HIGH", "CRITICAL"}) =>
                 IssueImpact(rule, severities, ImpactOf(config, rule), any) = "HIGH"
        BY ImpactIsOne
    <2> QED
        BY <1>1, <2>1, <2>2
<1>3. PICK confidence \in 50 .. 95 : confidence = ComputeConfidence(rule \in Objective, Cardinality(affected),
                                                                   \A i \in Fired(pages, rule) : i.value)
    BY ConfidenceInRange
<1>4. OfIssues(pages, config, rule) = Candidate(rule, {p.url : p \in affected}, impact, EffortOf(config, rule), confidence)
    BY <1>1, <1>3 DEF OfIssues
<1>5. ASSUME NEW p \in pages, NEW i \in p.issues, i.rule = rule
      PROVE  p \in affected /\ i.severity \in severities
    BY <1>5 DEF FiredOn, Fired
<1> HIDE DEF affected, severities
<1> QED
    <2>1. PICK c : c = OfIssues(pages, config, rule)
        OBVIOUS
    <2>2. c.rule = rule /\ c.impact = impact /\ c.confidence = confidence /\ c.urls = {p.url : p \in affected}
        BY <1>4, <2>1 DEF Candidate
    <2>3. InScale(c)
        BY <1>2, <2>2 DEF InScale
    <2>4. ASSUME NEW p \in pages, NEW i \in p.issues, i.rule = rule
          PROVE  p.url \in c.urls /\ (i.severity \in {"HIGH", "CRITICAL"} => c.impact = "HIGH")
        BY <1>2, <1>5, <2>2, <2>4
    <2> QED
        BY <2>1, <2>2, <2>3, <2>4

LEMMA FoundInScale ==
    ASSUME NEW pages \in Crawls, NEW config \in AuditConfigs, NEW c \in Found(pages, config)
    PROVE  InScale(c) /\ (c.rule \in StructuredData \cup Performance \/ \E k \in DOMAIN AuditRules : AuditRules[k] = c.rule)
<1>1. CASE c \in FromIssues(pages, config)
    <2>1. PICK rule \in {i.rule : i \in UNION {p.issues : p \in pages}} : c = OfIssues(pages, config, rule)
        BY <1>1, IssuesAre
    <2>2. InScale(c) /\ c.rule = rule
        BY <2>1, IssueFields
    <2>3. \E k \in DOMAIN AuditRules : AuditRules[k] = rule
        BY AuditAssumption
    <2> QED
        BY <2>2, <2>3
<1>2. CASE c \in FromPerformance(pages)
    <2>1. PICK rule \in Performance : c \in Measured(rule, {p \in pages : rule \in p.slow})
        BY <1>2 DEF FromPerformance
    <2> QED
        BY <2>1, MeasuredIsRated
<1>3. CASE c \in FromStructuredData(pages, config)
    <2>1. \E rule \in StructuredData : \E some : c \in Measured(rule, some)
        BY <1>3 DEF FromStructuredData, StructuredData
    <2> QED
        BY <2>1, MeasuredIsRated
<1> QED
    BY <1>1, <1>2, <1>3 DEF Found

LEMMA RuleHasIndex ==
    ASSUME NEW rule, rule \in StructuredData \cup Performance \/ \E k \in DOMAIN AuditRules : AuditRules[k] = rule
    PROVE  RuleIndex(rule) \in 1 .. 24 /\ AuditRules[RuleIndex(rule)] = rule
<1>1. DOMAIN AuditRules = 1 .. 24
    BY DEF AuditRules
<1>2. /\ AuditRules[5] = "invalid-structured-data" /\ AuditRules[6] = "large-html" /\ AuditRules[14] = "missing-structured-data"
      /\ AuditRules[19] = "slow-ttfb" /\ AuditRules[23] = "too-many-scripts"
    BY DEF AuditRules
<1>3. \E k \in DOMAIN AuditRules : AuditRules[k] = rule
    BY <1>1, <1>2 DEF StructuredData, Performance
<1>4. RuleIndex(rule) \in DOMAIN AuditRules /\ AuditRules[RuleIndex(rule)] = rule
    BY <1>3 DEF RuleIndex
<1> QED
    BY <1>1, <1>4

-----------------------------------------------------------------------------
(* What is recommended *)

Recommended(pages, config) == {ToRecommendation(c, config.weights) : c \in MergeByRule(Found(pages, config))}

LEMMA RecommendedIs ==
    ASSUME NEW pages \in Crawls, NEW config \in AuditConfigs, NEW r \in Recommended(pages, config)
    PROVE  /\ r.score \in 0 .. 100 /\ r.priority = PriorityFromScore(r.score)
           /\ RuleIndex(r.rule) \in 1 .. 24 /\ AuditRules[RuleIndex(r.rule)] = r.rule
           /\ r = ToRecommendation(Merged(Found(pages, config), r.rule), config.weights)
<1>1. PICK found : found = Found(pages, config)
    OBVIOUS
<1>2. PICK rule \in {c.rule : c \in found} : r = ToRecommendation(Merged(found, rule), config.weights)
    BY <1>1, MergeIsMerged DEF Recommended
<1>3. PICK c \in found : c.rule = rule
    OBVIOUS
<1>4. \A d \in found : InScale(d)
    BY <1>1, FoundInScale
<1>5. c \in OfRuleIn(found, rule)
    BY <1>3 DEF OfRuleIn
<1>6. PICK confidence \in 50 .. 95 : confidence = MergedConfidence(found, rule)
    BY <1>4, <1>5, ConfidenceIsOne
<1>7. PICK score : score = ComputeScore(MergedImpact(found, rule), confidence, MergedEffort(found, rule), config.weights)
    OBVIOUS
<1>8. score \in 0 .. 100
    BY <1>7, ScoreIsInt, AuditAssumption
<1>9. r.rule = rule /\ r.score = score /\ r.priority = PriorityFromScore(score)
    BY <1>2, <1>6, <1>7 DEF ToRecommendation, Merged, Candidate
<1>10. RuleIndex(rule) \in 1 .. 24 /\ AuditRules[RuleIndex(rule)] = rule
    BY <1>1, <1>3, FoundInScale, RuleHasIndex
<1> QED
    BY <1>1, <1>2, <1>8, <1>9, <1>10

LEMMA RecommendedAreRanked ==
    ASSUME NEW pages \in Crawls, NEW config \in AuditConfigs, NEW some \in SUBSET Recommended(pages, config)
    PROVE  Ranked(some)
<1>1. \A r \in some : RuleIndex(r.rule) \in 1 .. 24 /\ r.score \in 0 .. 100
    BY RecommendedIs
<1>2. ASSUME NEW r \in some, NEW s \in some, RuleIndex(r.rule) = RuleIndex(s.rule)
      PROVE  r = s
    <2>1. r.rule = s.rule
        BY <1>2, RecommendedIs
    <2> QED
        BY <2>1, RecommendedIs
<1>3. IsFiniteSet(some)
    <2>1. PICK f : f = [r \in some |-> RuleIndex(r.rule)]
        OBVIOUS
    <2>2. f \in Injection(some, 1 .. 24)
        BY <1>1, <1>2, <2>1 DEF Injection, IsInjective
    <2>3. IsFiniteSet(1 .. 24)
        <3>1. PICK first \in Int, last \in Int : first = 1 /\ last = 24
            OBVIOUS
        <3>2. IsFiniteSet(first .. last)
            BY FS_Interval
        <3> QED
            BY <3>1, <3>2
    <2> QED
        BY <2>2, <2>3, FS_Injection
<1> QED
    BY <1>1, <1>2, <1>3 DEF Ranked

LEMMA SevereIsHigh ==
    ASSUME NEW pages \in Crawls, NEW config \in AuditConfigs, NEW p \in pages, NEW i \in p.issues,
           i.severity \in {"HIGH", "CRITICAL"}, i.rule \notin config.off
    PROVE  \E r \in Recommended(pages, config) :
               /\ r.rule = i.rule /\ r.category = CategoryOf(i.rule) /\ p.url \in r.urls
               /\ r.score \in SevereFloor(config) .. 100
<1>1. PICK found : found = Found(pages, config)
    OBVIOUS
<1>2. PICK c : c = OfIssues(pages, config, i.rule)
    OBVIOUS
<1>3. InScale(c) /\ c.rule = i.rule /\ p.url \in c.urls /\ c.impact = "HIGH"
    BY <1>2, IssueFields
<1>4. c \in found
    BY <1>1, <1>2, IssuesAre DEF Found
<1>5. c \in OfRuleIn(found, i.rule) /\ \A d \in found : InScale(d)
    BY <1>1, <1>3, <1>4, FoundInScale DEF OfRuleIn
<1>6. MergedImpact(found, i.rule) = "HIGH"
    BY <1>3, <1>5, HighestImpactStays
<1>7. PICK confidence \in 50 .. 95 : confidence = MergedConfidence(found, i.rule)
    BY <1>5, ConfidenceIsOne
<1>8. PICK score : score = ComputeScore(MergedImpact(found, i.rule), confidence, MergedEffort(found, i.rule), config.weights)
    OBVIOUS
<1>9. score \in SevereFloor(config) .. 100
    <2>1. PICK impact, effort : impact = MergedImpact(found, i.rule) /\ effort = MergedEffort(found, i.rule)
        OBVIOUS
    <2>2. PICK weights \in Weights : weights = config.weights
        BY AuditAssumption
    <2>3. /\ ComputeScore(impact, confidence, effort, weights) \in 0 .. 100
          /\ ComputeScore(impact, confidence, effort, weights) >= ComputeScore("HIGH", 50, "HIGH", weights)
        BY <1>6, <2>1, ScoreIsInt
    <2>4. ComputeScore("HIGH", 50, "HIGH", weights) \in 0 .. 100
        BY ScoreIsInt
    <2> QED
        BY <1>8, <2>1, <2>2, <2>3, <2>4 DEF SevereFloor
<1>10. PICK r : r = ToRecommendation(Merged(found, i.rule), config.weights)
    OBVIOUS
<1>11. /\ r.rule = i.rule /\ r.category = CategoryOf(i.rule) /\ r.score = score
       /\ r.urls = UNION {d.urls : d \in OfRuleIn(found, i.rule)}
    BY <1>7, <1>8, <1>10 DEF ToRecommendation, Merged, Candidate
<1>12. p.url \in r.urls
    BY <1>3, <1>5, <1>11
<1>13. r \in Recommended(pages, config)
    BY <1>1, <1>3, <1>4, <1>10, MergeIsMerged DEF Recommended
<1> QED
    BY <1>9, <1>11, <1>12, <1>13

RanksSevere(r, config) ==
    r.score >= SevereFloor(config) /\ (SevereFloor(config) >= 60 => r.priority \in {"HIGH", "CRITICAL"})

LEMMA SevereSurvivesCap ==
    ASSUME NEW pages \in Crawls, NEW config \in AuditConfigs, NEW p \in pages, NEW i \in p.issues,
           i.severity \in {"HIGH", "CRITICAL"}, i.rule \notin config.off
    PROVE  LET report == AnalyzeCrawl(pages, config)
           IN \/ \E r \in report : r.rule = i.rule /\ p.url \in r.urls /\ RanksSevere(r, config)
              \/ Cardinality({r \in report : r.category = CategoryOf(i.rule) /\ RanksSevere(r, config)}) = config.cap
<1> DEFINE all == Recommended(pages, config)
           report == AnalyzeCrawl(pages, config)
           category == CategoryOf(i.rule)
           same == {s \in all : s.category = category}
           cap == config.cap
           floor == SevereFloor(config)
<1>1. PICK r \in all : r.rule = i.rule /\ r.category = category /\ p.url \in r.urls /\ r.score \in floor .. 100
    BY SevereIsHigh
<1>2. \A s \in all : s.score \in 0 .. 100 /\ s.priority = PriorityFromScore(s.score)
    BY RecommendedIs
<1>3. floor \in Int /\ \A s \in all : s.score >= floor => RanksSevere(s, config)
    <2>1. floor \in Int
        BY ScoreIsInt, AuditAssumption DEF SevereFloor
    <2> HIDE DEF all, floor
    <2>2. ASSUME NEW s \in all, s.score >= floor, floor >= 60
          PROVE  s.priority \in {"HIGH", "CRITICAL"}
        BY <1>2, <2>1, <2>2, PriorityIsHigh
    <2> QED
        BY <2>1, <2>2 DEF RanksSevere, floor
<1>4. report = {s \in all : Cardinality({t \in all : t.category = s.category /\ Precedes(t, s)}) < cap}
    BY DEF AnalyzeCrawl, ApplyCategoryCap, Recommended, Found
<1>5. \A s \in same : {t \in all : t.category = s.category /\ Precedes(t, s)} = {t \in same : Precedes(t, s)}
    OBVIOUS
<1>6. \A s \in same : s \in report <=> Rank(same, s) < cap
    BY <1>4, <1>5 DEF Rank
<1>7. Ranked(same) /\ cap \in Nat
    BY RecommendedAreRanked, AuditAssumption
<1> HIDE DEF all, report, category, cap, floor
<1>8. r \in same
    BY <1>1
<1>9. CASE r \in report
    BY <1>1, <1>3, <1>9 DEF report
<1>10. CASE r \notin report
    <2>1. Rank(same, r) >= cap
        BY <1>6, <1>7, <1>8, <1>10, RankIsBelow
    <2>2. cap <= Cardinality(same)
        BY <1>7, <1>8, <2>1, RankIsBelow
    <2>3. Cardinality({s \in same : Rank(same, s) < cap}) = cap
        BY <1>7, <2>2, FirstAreAsMany
    <2>4. ASSUME NEW s \in same, Rank(same, s) < cap
          PROVE  RanksSevere(s, config)
        <3>1. ~ Precedes(r, s)
            <4>1. SUFFICES ASSUME Precedes(r, s) PROVE FALSE
                OBVIOUS
            <4>2. Rank(same, r) < Rank(same, s)
                BY <1>7, <1>8, <4>1, PrecedesRanks
            <4> QED
                BY <1>7, <1>8, <2>1, <2>4, <4>2, RankIsBelow
        <3>2. s.score >= floor
            BY <1>1, <1>2, <1>3, <3>1 DEF Precedes
        <3> QED
            BY <1>3, <3>2
    <2>5. {s \in report : s.category = category /\ RanksSevere(s, config)} = {s \in same : Rank(same, s) < cap}
        BY <1>4, <1>6, <2>4
    <2> QED
        BY <2>3, <2>5 DEF report, category, cap
<1> QED
    BY <1>9, <1>10

\* What a report is made of, if there is one.
AuditIs == crawl \in Crawls /\ auditConfig \in AuditConfigs /\ (audit # NoRecommendations => audit = AnalyzeCrawl(crawl, auditConfig))

\* A severe issue of a page is in the report with its page and a score no high impact falls below, or its category
\* is full of such (SevereIssuesSurface), for any overrides, any cap and any weights that are natural numbers.
THEOREM SevereIssuesAlwaysSurface == AuditSpec => []SevereIssuesSurface
<1>1. AuditInit => AuditIs
    BY DEF AuditInit, AuditIs
<1>2. AuditIs /\ [AuditNext]_auditVars => AuditIs'
    BY DEF AuditIs, AuditNext, Audit, auditVars
<1>3. AuditIs => SevereIssuesSurface
    <2>1. ASSUME AuditIs, audit # NoRecommendations, NEW p \in crawl, NEW i \in p.issues,
                 i.severity \in {"HIGH", "CRITICAL"}, i.rule \notin auditConfig.off
          PROVE  \/ \E r \in audit : r.rule = i.rule /\ p.url \in r.urls /\ RanksSevere(r, auditConfig)
                 \/ Cardinality({r \in audit : r.category = CategoryOf(i.rule) /\ RanksSevere(r, auditConfig)})
                        = auditConfig.cap
        BY <2>1, SevereSurvivesCap DEF AuditIs
    <2> QED
        BY <2>1 DEF SevereIssuesSurface, RanksSevere
<1> QED
    BY <1>1, <1>2, <1>3, PTL DEF AuditSpec
=============================================================================
