--------------------------- MODULE PluginRegistry ---------------------------
(***************************************************************************)
(* The plugin registry and the bridge that delivers platform events to     *)
(* plugins (packages/plugin-sdk/src).  Every lifecycle operation is        *)
(* synchronous; dispatchEvent runs the handlers of one event one after the *)
(* other, and each may last, so that plugins come and go meanwhile.  A     *)
(* version range is the set of the versions in it.  Hooks and the other    *)
(* kinds of contribution run in the plugin's sandbox and change no state   *)
(* of the host; an operation that throws changes nothing either.           *)
(***************************************************************************)
EXTENDS Integers, Sequences, FiniteSets, SequencesExt

CONSTANTS
    Plugins,             \* plugin ids
    Bundles,             \* what install and update may be given: BundleRecs
    SubscriberIds,       \* ids of event subscribers, unique within a plugin only
    EventTypes,
    PluginEvents,        \* events that can be published, each once
    Permissions,
    AllowedPermissions,  \* allowedPermissions
    SdkVersion           \* sdkVersion

SubscriberRec == [id : SubscriberIds, types : SUBSET EventTypes, permission : Permissions]

ASSUME PluginAssumption ==
    EventTypes # {} /\ \A b \in Bundles :
        /\ b.plugin \in Plugins /\ b.version \in Nat /\ b.engines \subseteq Nat
        /\ DOMAIN b.dependencies \subseteq Plugins
        /\ b.permissions \subseteq Permissions
        /\ b.subscribers \in Seq(SubscriberRec)
        /\ \A i \in DOMAIN b.subscribers :
             /\ b.subscribers[i].permission \in b.permissions
             /\ \A j \in DOMAIN b.subscribers : b.subscribers[i].id = b.subscribers[j].id => i = j

VARIABLES
    records,    \* the registry's map, in the order of insertion
    wired,      \* event types the bridge has subscribed to
    delivery    \* delivery[e]: the call of dispatchEvent for event e

pluginVars == <<records, wired, delivery>>

RecordRec == [bundle : Bundles, state : {"installed", "enabled", "disabled"}]
Target == Plugins \X SubscriberIds

\* ids are those left to handle; reached is the history of the handlers run,
\* steady the subscribers that have been enabled under an id of their own
\* since the event was published.
DeliveryRec == [pc : {"unpublished", "loop", "handling", "ended"}, type : EventTypes,
                ids : Seq(SubscriberIds), reached : Seq(Target), steady : SUBSET Target]

PluginTypeOK ==
    /\ records \in Seq(RecordRec) /\ wired \subseteq EventTypes
    /\ delivery \in [PluginEvents -> DeliveryRec]
    /\ \A i, j \in DOMAIN records : records[i].bundle.plugin = records[j].bundle.plugin => i = j

PluginInit ==
    /\ records = <<>> /\ wired = {}
    /\ delivery = [e \in PluginEvents |-> [pc |-> "unpublished", type |-> CHOOSE t \in EventTypes : TRUE,
                                           ids |-> <<>>, reached |-> <<>>, steady |-> {}]]

IndexOf(p) == {i \in DOMAIN records : records[i].bundle.plugin = p}
RecordOf(p) == records[CHOOSE i \in IndexOf(p) : TRUE]
Installed(p) == IndexOf(p) # {}

----------------------------------------------------------------------------
(* What is enabled *)

\* The subscribers of the enabled plugins, in order: <<plugin, subscriber>>.
EnabledEntries(recs) ==
    FlattenSeq([i \in DOMAIN recs |->
        IF recs[i].state # "enabled" THEN <<>>
        ELSE [j \in DOMAIN recs[i].bundle.subscribers |->
                <<recs[i].bundle.plugin, recs[i].bundle.subscribers[j]>>]])

SubscribersForType(type) ==
    LET entries == EnabledEntries(records)
    IN  FlattenSeq([i \in DOMAIN entries |->
            IF type \in entries[i][2].types THEN <<entries[i][2].id>> ELSE <<>>])

\* Where an enabled subscriber of that id stands, whatever the event's type;
\* the first is found.
UnderId(id) == {i \in DOMAIN EnabledEntries(records) : EnabledEntries(records)[i][2].id = id}
FindEnabled(id) == EnabledEntries(records)[Min(UnderId(id))]

\* The subscribers to a type whose id no other enabled subscriber has.
Distinct(recs, type) ==
    LET entries == ToSet(EnabledEntries(recs)) IN
    {<<x[1], x[2].id>> : x \in {y \in entries :
        type \in y[2].types /\ \A z \in entries : z[2].id = y[2].id => z = y}}

\* Lifecycle operations change the map; those still steady are remembered.
SetRecords(recs) ==
    /\ records' = recs
    /\ delivery' = [e \in PluginEvents |->
         IF delivery[e].pc \in {"loop", "handling"}
           THEN [delivery[e] EXCEPT !.steady = @ \cap Distinct(recs, delivery[e].type)]
           ELSE delivery[e]]
    /\ UNCHANGED wired

----------------------------------------------------------------------------
(* The lifecycle *)

CheckDependencies(bundle) ==
    \A p \in DOMAIN bundle.dependencies :
        Installed(p) /\ RecordOf(p).bundle.version \in bundle.dependencies[p]

Acceptable(bundle) ==
    /\ SdkVersion \in bundle.engines
    /\ CheckDependencies(bundle)
    /\ bundle.permissions \subseteq AllowedPermissions

\* Mutant: a plugin may be installed a second time.
InstallAgain(bundle) ==
    /\ Acceptable(bundle)
    /\ SetRecords(Append(records, [bundle |-> bundle, state |-> "installed"]))

Install(bundle) ==
    /\ ~Installed(bundle.plugin) /\ Acceptable(bundle)
    /\ SetRecords(Append(records, [bundle |-> bundle, state |-> "installed"]))

EnablePlugin(p) ==
    /\ Installed(p) /\ RecordOf(p).state \in {"installed", "disabled"}
    /\ \E i \in IndexOf(p) : SetRecords([records EXCEPT ![i].state = "enabled"])

DisablePlugin(p) ==
    /\ Installed(p) /\ RecordOf(p).state = "enabled"
    /\ \E i \in IndexOf(p) : SetRecords([records EXCEPT ![i].state = "disabled"])

Uninstall(p) == \E i \in IndexOf(p) : SetRecords(RemoveAt(records, i))

\* It keeps its place and its state.
UpdatePlugin(bundle) ==
    /\ Installed(bundle.plugin) /\ bundle.version >= RecordOf(bundle.plugin).bundle.version
    /\ Acceptable(bundle)
    /\ \E i \in IndexOf(bundle.plugin) : SetRecords([records EXCEPT ![i].bundle = bundle])

DisposeRegistry == records # <<>> /\ SetRecords(<<>>)

----------------------------------------------------------------------------
(* Events *)

BridgeSync ==
    /\ wired' = wired \cup UNION {x[2].types : x \in ToSet(EnabledEntries(records))}
    /\ UNCHANGED <<records, delivery>>

\* The bus calls the one dispatcher of the type: dispatchEvent takes its list of ids.
PublishToPlugins(e, type) ==
    /\ delivery[e].pc = "unpublished" /\ type \in wired
    /\ delivery' = [delivery EXCEPT ![e] = [@ EXCEPT !.pc = "loop", !.type = type,
                      !.ids = SubscribersForType(type), !.steady = Distinct(records, type)]]
    /\ UNCHANGED <<records, wired>>

\* Mutant: a subscriber that is gone ends the whole dispatch.
HandleEventOrStop(e) ==
    /\ delivery[e].pc = "loop" /\ delivery[e].ids # <<>>
    /\ LET call == delivery[e]
           id == Head(call.ids)
           found == FindEnabled(id)
       IN delivery' = [delivery EXCEPT ![e] =
           IF UnderId(id) = {} THEN [call EXCEPT !.pc = "ended"]
           ELSE [call EXCEPT !.ids = Tail(call.ids), !.pc = "handling",
                             !.reached = Append(call.reached, <<found[1], found[2].id>>)]]
    /\ UNCHANGED <<records, wired>>

\* handleEvent: the id is looked up again; if nobody enabled has it, it
\* rejects, which dispatchEvent swallows.
HandleEvent(e) ==
    /\ delivery[e].pc = "loop" /\ delivery[e].ids # <<>>
    /\ LET call == delivery[e]
           id == Head(call.ids)
           found == FindEnabled(id)
       IN delivery' = [delivery EXCEPT ![e] =
           IF UnderId(id) = {} THEN [call EXCEPT !.ids = Tail(call.ids)]
           ELSE [call EXCEPT !.ids = Tail(call.ids), !.pc = "handling",
                             !.reached = Append(call.reached, <<found[1], found[2].id>>)]]
    /\ UNCHANGED <<records, wired>>

\* The handler returns, throws or times out: the loop goes on.
HandlerReturns(e) ==
    /\ delivery[e].pc = "handling"
    /\ delivery' = [delivery EXCEPT ![e].pc = "loop"]
    /\ UNCHANGED <<records, wired>>

DispatchEnds(e) ==
    /\ delivery[e].pc = "loop" /\ delivery[e].ids = <<>>
    /\ delivery' = [delivery EXCEPT ![e].pc = "ended"]
    /\ UNCHANGED <<records, wired>>

PluginNext ==
    \/ \E b \in Bundles : Install(b) \/ UpdatePlugin(b)
    \/ \E p \in Plugins : EnablePlugin(p) \/ DisablePlugin(p) \/ Uninstall(p)
    \/ DisposeRegistry \/ BridgeSync
    \/ \E e \in PluginEvents :
         \/ \E type \in EventTypes : PublishToPlugins(e, type)
         \/ HandleEvent(e) \/ HandlerReturns(e) \/ DispatchEnds(e)

PluginSpec == PluginInit /\ [][PluginNext]_pluginVars

----------------------------------------------------------------------------
(* Properties *)

\* "Delivers an event to every enabled subscriber of its type"
\* (registry.ts:362): a subscriber that stays enabled while the event is
\* dispatched, under an id that no other enabled subscriber has, handles it
\* exactly once, whatever is installed, updated, disabled, removed or wired
\* between the other handlers.
EachSubscriberOnce ==
    \A e \in PluginEvents : delivery[e].pc = "ended" =>
        \A target \in delivery[e].steady :
            Cardinality({i \in DOMAIN delivery[e].reached : delivery[e].reached[i] = target}) = 1
=============================================================================
