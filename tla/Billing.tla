------------------------------ MODULE Billing ------------------------------
(***************************************************************************)
(* What the enterprise service tells the outside: the billing provider,    *)
(* through the hook of the subscriptions, and the receivers of webhooks    *)
(* (packages/enterprise/src/billing.ts, webhooks.ts, the routes of         *)
(* apps/api/src/controllers/webhooks.ts).  A call of the provider and a    *)
(* delivery take a while, and other calls run meanwhile.  A provider that  *)
(* rejects has done nothing.  Usage, the price and the period of a plan    *)
(* are left out, as is the sink, that no component sets.                   *)
(***************************************************************************)
EXTENDS Integers, Sequences, FiniteSets

CONSTANTS
    BillTenants,
    PlanIds,
    BillCalls,         \* calls of the provider that can be in flight
    MaxBillOps,        \* bound: calls of subscribe, changePlan and cancelSubscription
    Endpoints,         \* ids of webhook endpoints, in the order of registration
    HookTypes,         \* event types
    HookEvents,        \* events dispatched, each once, and its type
    DeliveryAttempts,  \* attempts, between 1 and MAX_ATTEMPTS
    MaxPatches,        \* bound: changes of registered endpoints
    NoSubscription

ASSUME BillingAssumption ==
    /\ Endpoints \subseteq Nat /\ DeliveryAttempts \in 1 .. 10
    /\ DOMAIN HookEvents \subseteq Nat
    /\ \A e \in DOMAIN HookEvents : HookEvents[e] \in HookTypes

VARIABLES
    offered,        \* plans that are active
    subscriptions,  \* subscriptions[t]
    accepted,       \* history: accepted[t]: plans the provider took for the tenant
    billCall, billOps,
    endpoints,      \* endpoints[w]
    patches,
    dispatch,       \* dispatch[e]: the dispatch of an event
    deliveries      \* the history of delivery attempts

billVars == <<offered, subscriptions, accepted, billCall, billOps, endpoints, patches, dispatch, deliveries>>
hookVars == <<endpoints, patches, dispatch, deliveries>>

SubscriptionRec == [plan : PlanIds, status : {"active", "trialing", "canceled"}]
EndpointRec == [state : {"none", "registered", "removed"}, enabled : BOOLEAN, events : SUBSET HookTypes]
AttemptRec == [endpoint : Endpoints, event : DOMAIN HookEvents, number : 1 .. DeliveryAttempts,
               status : {"delivered", "failed", "expired"}]

\* left: the subscribers still to be served, in the order of registration, the
\* first of them now; made: its attempts so far; steady: those subscribed ever
\* since the event came.
DispatchRec == [pc : {"none", "running", "ended"}, left : SUBSET Endpoints, made : Seq(AttemptRec),
                allowed : 1 .. DeliveryAttempts, steady : SUBSET Endpoints]

BillingTypeOK ==
    /\ offered \subseteq PlanIds /\ patches \in 0 .. MaxPatches /\ billOps \in 0 .. MaxBillOps
    /\ subscriptions \in [BillTenants -> SubscriptionRec \cup {NoSubscription}]
    /\ accepted \in [BillTenants -> SUBSET PlanIds]
    /\ billCall \in [BillCalls -> [op : {"none", "subscribe", "changePlan", "cancel"},
                                   tenant : BillTenants, plan : PlanIds]]
    /\ endpoints \in [Endpoints -> EndpointRec]
    /\ dispatch \in [DOMAIN HookEvents -> DispatchRec]
    /\ deliveries \in Seq(AttemptRec)

BillingInit ==
    /\ offered = PlanIds /\ billOps = 0 /\ patches = 0
    /\ subscriptions = [t \in BillTenants |-> NoSubscription]
    /\ accepted = [t \in BillTenants |-> {}]
    /\ billCall = [c \in BillCalls |-> [op |-> "none", tenant |-> CHOOSE t \in BillTenants : TRUE,
                                        plan |-> CHOOSE p \in PlanIds : TRUE]]
    /\ endpoints = [w \in Endpoints |-> [state |-> "none", enabled |-> FALSE, events |-> {}]]
    /\ dispatch = [e \in DOMAIN HookEvents |->
                     [pc |-> "none", left |-> {}, made |-> <<>>, allowed |-> 1, steady |-> {}]]
    /\ deliveries = <<>>

----------------------------------------------------------------------------
(* Subscriptions *)

\* deactivatePlan, and updatePlan that offers it again.
OfferPlan(p, active) ==
    /\ active # (p \in offered)
    /\ offered' = IF active THEN offered \cup {p} ELSE offered \ {p}
    /\ UNCHANGED <<subscriptions, accepted, billCall, billOps, hookVars>>

CallProvider(c, op, t, p) ==
    /\ billCall[c].op = "none" /\ billOps < MaxBillOps /\ billOps' = billOps + 1
    /\ billCall' = [billCall EXCEPT ![c] = [op |-> op, tenant |-> t, plan |-> p]]
    /\ UNCHANGED <<offered, subscriptions, accepted, hookVars>>

Subscribe(c, t, p) ==
    p \in offered /\ subscriptions[t] = NoSubscription /\ CallProvider(c, "subscribe", t, p)

CancelSubscription(c, t) ==
    subscriptions[t] # NoSubscription /\ CallProvider(c, "cancel", t, subscriptions[t].plan)

\* Nothing is asked, and nothing changes, if it is the plan already.
ChangePlan(c, t, p) ==
    /\ subscriptions[t] # NoSubscription /\ p \in offered
    /\ subscriptions[t].plan # p
    /\ CallProvider(c, "changePlan", t, p)

ProviderRejects(c) ==
    /\ billCall[c].op # "none"
    /\ billCall' = [billCall EXCEPT ![c].op = "none"]
    /\ UNCHANGED <<offered, subscriptions, accepted, billOps, hookVars>>

\* What came meanwhile is written over: a second subscription replaces the
\* first, a cancellation cancels the plan that has been changed to.
ProviderAccepts(c) ==
    LET call == billCall[c] IN
    /\ call.op # "none"
    /\ billCall' = [billCall EXCEPT ![c].op = "none"]
    /\ accepted' = IF call.op = "cancel" THEN accepted
                   ELSE [accepted EXCEPT ![call.tenant] = @ \cup {call.plan}]
    /\ \E status \in IF call.op = "subscribe" THEN {"active", "trialing"} ELSE {"active"} :
         subscriptions' = [subscriptions EXCEPT ![call.tenant] =
           IF call.op = "cancel" THEN [@ EXCEPT !.status = "canceled"]
           ELSE [plan |-> call.plan, status |-> status]]
    /\ UNCHANGED <<offered, billOps, hookVars>>

----------------------------------------------------------------------------
(* Webhooks *)

Registered(w) == endpoints[w].state = "registered"
IsSubscribed(endpoint, type) == endpoint.state = "registered" /\ endpoint.enabled /\ type \in endpoint.events

\* An endpoint changes; dispatches under way keep the list they took.
SetEndpoint(w, rec) ==
    /\ endpoints' = [endpoints EXCEPT ![w] = rec]
    /\ dispatch' = [e \in DOMAIN HookEvents |->
         IF IsSubscribed(rec, HookEvents[e]) THEN dispatch[e]
         ELSE [dispatch[e] EXCEPT !.steady = @ \ {w}]]
    /\ UNCHANGED <<offered, subscriptions, accepted, billCall, billOps, deliveries>>

RegisterEndpoint(w, types) ==
    /\ endpoints[w].state = "none" /\ types # {}
    /\ \A earlier \in Endpoints : earlier < w => endpoints[earlier].state # "none"
    /\ SetEndpoint(w, [state |-> "registered", enabled |-> TRUE, events |-> types])
    /\ UNCHANGED patches

Patch(w, rec) ==
    /\ Registered(w) /\ rec # endpoints[w]
    /\ patches < MaxPatches /\ patches' = patches + 1
    /\ SetEndpoint(w, rec)

EnableEndpoint(w, enabled) == Patch(w, [endpoints[w] EXCEPT !.enabled = enabled])
UpdateEndpoint(w, types) == types # {} /\ Patch(w, [endpoints[w] EXCEPT !.events = types])

\* Its id is never given again.
RemoveEndpoint(w) == Patch(w, [endpoints[w] EXCEPT !.state = "removed"])

DispatchHooks(e) ==
    LET subscribers == {w \in Endpoints : IsSubscribed(endpoints[w], HookEvents[e])} IN
    /\ dispatch[e].pc = "none"
    /\ dispatch' = [dispatch EXCEPT ![e] = [pc |-> IF subscribers = {} THEN "ended" ELSE "running",
                      left |-> subscribers, made |-> <<>>, allowed |-> DeliveryAttempts,
                      steady |-> subscribers]]
    /\ UNCHANGED <<offered, subscriptions, accepted, billCall, billOps, endpoints, patches, deliveries>>

\* The route that tests an endpoint delivers to it alone, enabled or not, and once.
TestEndpoint(e, w) ==
    /\ dispatch[e].pc = "none" /\ Registered(w)
    /\ dispatch' = [dispatch EXCEPT ![e] =
         [pc |-> "running", left |-> {w}, made |-> <<>>, allowed |-> 1, steady |-> {}]]
    /\ UNCHANGED <<offered, subscriptions, accepted, billCall, billOps, endpoints, patches, deliveries>>

\* The attempts of an endpoint, as the history keeps them once they are over.
Recorded(made, delivered) ==
    IF delivered THEN made ELSE [made EXCEPT ![Len(made)].status = "expired"]

NextEndpoint(left) == CHOOSE w \in left : \A other \in left : w <= other

\* A receiver answers, in the 200s or not, or cannot be reached.  After the
\* last attempt, or the first that succeeds, the next endpoint is served.
Attempt(e, delivered) ==
    LET d == dispatch[e]
        w == NextEndpoint(d.left)
        made == Append(d.made, [endpoint |-> w, event |-> e, number |-> Len(d.made) + 1,
                                status |-> IF delivered THEN "delivered" ELSE "failed"])
        over == delivered \/ Len(made) = d.allowed
    IN  /\ d.pc = "running"
        /\ dispatch' = [dispatch EXCEPT ![e] =
             IF ~over THEN [d EXCEPT !.made = made]
             ELSE [d EXCEPT !.made = <<>>, !.left = @ \ {w},
                            !.pc = IF d.left = {w} THEN "ended" ELSE "running"]]
        /\ deliveries' = IF over THEN deliveries \o Recorded(made, delivered) ELSE deliveries
        /\ UNCHANGED <<offered, subscriptions, accepted, billCall, billOps, endpoints, patches>>

SubscriptionsNext ==
    \/ \E p \in PlanIds, active \in BOOLEAN : OfferPlan(p, active)
    \/ \E c \in BillCalls :
         \/ \E t \in BillTenants :
              \/ CancelSubscription(c, t)
              \/ \E p \in PlanIds : Subscribe(c, t, p) \/ ChangePlan(c, t, p)
         \/ ProviderRejects(c) \/ ProviderAccepts(c)

WebhooksNext ==
    \/ \E w \in Endpoints :
         \/ \E types \in SUBSET HookTypes : RegisterEndpoint(w, types) \/ UpdateEndpoint(w, types)
         \/ \E enabled \in BOOLEAN : EnableEndpoint(w, enabled)
         \/ RemoveEndpoint(w)
         \/ \E e \in DOMAIN HookEvents : TestEndpoint(e, w)
    \/ \E e \in DOMAIN HookEvents :
         DispatchHooks(e) \/ \E delivered \in BOOLEAN : Attempt(e, delivered)

BillingNext == SubscriptionsNext \/ WebhooksNext

BillingSpec == BillingInit /\ [][BillingNext]_billVars

----------------------------------------------------------------------------
(* Properties *)

\* The places of the attempts recorded of an event at an endpoint.
RecordedOf(e, w) == {i \in DOMAIN deliveries : deliveries[i].event = e /\ deliveries[i].endpoint = w}

\* "Only 2xx responses count as delivered; the final attempt is marked
\* expired" (webhooks.ts:3-4): the recorded attempts of an event at an
\* endpoint are numbered, all but the last failed, and the last was
\* delivered or is the last allowed and expired.
DeliveryAsRecorded(e, w) ==
    \A i \in RecordedOf(e, w) :
        LET attempt == deliveries[i]
            last == \A j \in RecordedOf(e, w) : j <= i
        IN  /\ attempt.number = Cardinality({j \in RecordedOf(e, w) : j <= i})
            /\ ~last => attempt.status = "failed"
            /\ last => \/ attempt.status = "delivered"
                       \/ attempt.status = "expired" /\ attempt.number = dispatch[e].allowed

\* What the outside was told agrees with the records: a subscription is of a
\* plan that the billing provider accepted for the tenant, through calls that
\* overlap and fail; and when a dispatch is over, every endpoint that was
\* subscribed throughout has its attempts recorded, whatever was registered,
\* changed or removed between the deliveries.
OutsideAgrees ==
    /\ \A t \in BillTenants : subscriptions[t] # NoSubscription => subscriptions[t].plan \in accepted[t]
    /\ \A e \in DOMAIN HookEvents :
        /\ \A w \in Endpoints : DeliveryAsRecorded(e, w)
        /\ dispatch[e].pc = "ended" =>
             \A w \in dispatch[e].steady : RecordedOf(e, w) # {}
=============================================================================
