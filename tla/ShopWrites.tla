----------------------------- MODULE ShopWrites -----------------------------
(***************************************************************************)
(* What the steps of one execution do to the shop, and what their rollback *)
(* does to it: the operation catalog of the execution engine               *)
(* (publisher/operations, publisher/publisher, rollback/engine) over the   *)
(* Shopify client (packages/shopify/src: service, graphql-client), whose   *)
(* requests are retried and whose answers get lost.  The mode is a real    *)
(* one, rollback plans have steps, and the store lock keeps other          *)
(* executions out; ExecutionEngine has the rest of a run.                  *)
(***************************************************************************)
EXTENDS Integers, Sequences, FiniteSets

CONSTANTS
    ShopPlans,       \* sequences of ShopSteps: what the execution may consist of
    Resources,
    Snapshots,       \* sets of fields resourceStateProvider may return of a resource
    PayloadFields,   \* PayloadFields[action]: the fields a generic update sets
    ShopRetries,     \* maxRetries of the GraphQL client
    Editable,        \* bound: what the merchant may edit meanwhile, <<resource, field>>
    MaxEdits,        \* bound: how often
    NoSnapshot       \* before is null

Fields == {"seo.title", "seo.description", "descriptionHtml", "bodyHtml", "handle", "files"}
SeoTypes == {"product", "page", "blog"}

----------------------------------------------------------------------------
(* The catalog *)

\* buildOperation: the fields a pair of action and resource type writes; none
\* when its writes are not supported.
Writes(action, type) ==
    CASE action = "update_title" /\ type \in SeoTypes -> {"seo.title"}
      [] action = "update_meta_description" /\ type \in SeoTypes -> {"seo.description"}
      [] action = "update_description" /\ type = "product" -> {"descriptionHtml"}
      [] action = "update_description" /\ type \in SeoTypes \ {"product"} -> {"seo.description"}
      [] action = "update_body" /\ type = "page" -> {"bodyHtml"}
      [] action = "update_url" /\ type \in SeoTypes -> {"handle"}
      [] <<action, type>> \in {<<"update_product", "product">>, <<"update_blog", "blog">>} -> PayloadFields[action]
      [] <<action, type>> = <<"update_theme", "store">> -> {"files"}
      [] OTHER -> {}

\* It uploads a file, and sets no field of the product.
AddsImage(action, type) == <<action, type>> = <<"add_image", "product">>

SupportsWrite(action, type) == Writes(action, type) # {} \/ AddsImage(action, type)

SupportsRestore(action, type) ==
    SupportsWrite(action, type) /\ action \notin {"update_product", "update_blog", "add_image"}

\* What a restore does to a field before does not have: a seo field is left
\* out of the request, another one is set to the empty string.
LeftOut == {"seo.title", "seo.description"}

ShopStep == [action : STRING, type : SeoTypes \cup {"store"}, resource : Resources]

ASSUME ShopAssumption ==
    /\ ShopPlans \subseteq Seq(ShopStep) \ {<<>>}
    /\ Snapshots \subseteq SUBSET Fields /\ Editable \subseteq Resources \X Fields
    /\ {ShopRetries, MaxEdits} \subseteq Nat

----------------------------------------------------------------------------
VARIABLES
    plan,        \* the steps of the execution, in order
    shop,        \* shop[r][f]: the number of the step that set it, or one of the values below
    connected,   \* a token is stored for the shop
    write,       \* where the run is: its step, the requests sent for it, what was read
    before,      \* before[i] of step i
    outcome,     \* outcome[i] of step i
    edited       \* history: what the merchant edited, <<resource, field>>

shopVars == <<plan, shop, connected, write, before, outcome, edited>>

Initial == 0
Merchant == -1
Blank == -2

StepsOf == DOMAIN plan
FieldsOf(i) == Writes(plan[i].action, plan[i].type)

ShopTypeOK ==
    /\ plan \in ShopPlans /\ connected \in BOOLEAN
    /\ shop \in [Resources -> [Fields -> {Blank, Merchant, Initial} \cup StepsOf]]
    /\ write.pc \in {"read", "publish", "send", "undo", "restore", "over"}
    /\ write.at \in StepsOf /\ write.sends \in 0 .. ShopRetries
    /\ \A i \in StepsOf : before[i] = NoSnapshot \/ DOMAIN before[i] \in Snapshots
    /\ outcome \in [StepsOf -> {"pending", "published", "failed", "restored", "stuck"}]
    /\ edited \subseteq Resources \X Fields

ShopInit ==
    /\ plan \in ShopPlans
    /\ shop = [r \in Resources |-> [f \in Fields |-> Initial]]
    /\ connected = TRUE
    /\ write = [pc |-> "read", at |-> 1, sends |-> 0, state |-> NoSnapshot]
    /\ before = [i \in StepsOf |-> NoSnapshot]
    /\ outcome = [i \in StepsOf |-> "pending"]
    /\ edited = {}

----------------------------------------------------------------------------
(* Around the run *)

\* handleOAuthCallback, once its checks have passed, and disconnect.
TokenChanges ==
    /\ connected' = ~connected
    /\ UNCHANGED <<plan, shop, write, before, outcome, edited>>

MerchantEdits(r, f) ==
    /\ <<r, f>> \in Editable /\ Cardinality(edited) < MaxEdits
    /\ shop' = [shop EXCEPT ![r][f] = Merchant]
    /\ edited' = edited \cup {<<r, f>>}
    /\ UNCHANGED <<plan, connected, write, before, outcome>>

----------------------------------------------------------------------------
(* A step *)

Step == plan[write.at]
Sets(r, values) == shop' = [shop EXCEPT ![r] = [f \in Fields |-> IF f \in DOMAIN values THEN values[f] ELSE @[f]]]
SurroundingsStay == UNCHANGED <<plan, connected, edited>>

\* StepRunner.run: the state of the resource, or null.
ReadResource ==
    /\ write.pc = "read"
    /\ \E state \in {NoSnapshot} \cup {[f \in shape |-> shop[Step.resource][f]] : shape \in Snapshots} :
          write' = [write EXCEPT !.pc = "publish", !.state = state]
    /\ UNCHANGED <<shop, before, outcome>> /\ SurroundingsStay

PublishFails ==
    /\ outcome' = [outcome EXCEPT ![write.at] = "failed"]
    /\ write' = [write EXCEPT !.pc = "undo", !.sends = 0]
    /\ UNCHANGED before

\* publish: the write budget or the payload may refuse it, the registry and
\* requireToken as well; otherwise the client sends it.
Publish ==
    /\ write.pc = "publish"
    /\ \/ PublishFails
       \/ /\ SupportsWrite(Step.action, Step.type) /\ connected
          /\ write' = [write EXCEPT !.pc = "send"] /\ UNCHANGED <<before, outcome>>
    /\ UNCHANGED shop /\ SurroundingsStay

PublishSucceeds ==
    /\ outcome' = [outcome EXCEPT ![write.at] = "published"]
    /\ before' = [before EXCEPT ![write.at] = IF write.state # NoSnapshot THEN write.state ELSE @]
    /\ write' = IF write.at = Len(plan) THEN [write EXCEPT !.pc = "over"]
                ELSE [pc |-> "read", at |-> write.at + 1, sends |-> 0, state |-> NoSnapshot]

----------------------------------------------------------------------------
(* A step of the rollback *)

Published == {i \in StepsOf : outcome[i] = "published"}

\* rollbackSteps: the last step that is left.
NextToRestore == CHOOSE i \in Published : \A j \in Published : j <= i

\* rollbackStep's validation, the operation's support, the writer's token.
CanRestore(i) ==
    /\ before[i] # NoSnapshot /\ connected
    /\ SupportsRestore(plan[i].action, plan[i].type)
    /\ FieldsOf(i) = {"files"} => "files" \in DOMAIN before[i]

RollBack ==
    /\ write.pc = "undo" /\ Published # {}
    /\ IF CanRestore(NextToRestore)
         THEN write' = [write EXCEPT !.pc = "restore", !.at = NextToRestore] /\ UNCHANGED outcome
         ELSE outcome' = [outcome EXCEPT ![NextToRestore] = "stuck"] /\ UNCHANGED write
    /\ UNCHANGED <<shop, before>> /\ SurroundingsStay

RollbackEnds ==
    /\ write.pc = "undo" /\ Published = {}
    /\ write' = [write EXCEPT !.pc = "over"]
    /\ UNCHANGED <<shop, before, outcome>> /\ SurroundingsStay

RestoreEnds(result) ==
    /\ outcome' = [outcome EXCEPT ![write.at] = result]
    /\ write' = [write EXCEPT !.pc = "undo", !.sends = 0]
    /\ UNCHANGED before

\* buildRestoreInput: the captured value of each field the step wrote.
RestoreInput(i) ==
    LET held == before[i]
    IN  [f \in FieldsOf(i) \ (LeftOut \ DOMAIN held) |-> IF f \in DOMAIN held THEN held[f] ELSE Blank]

----------------------------------------------------------------------------
(* The client *)

\* The values of the request in progress.
Input == IF write.pc = "restore" THEN RestoreInput(write.at) ELSE [f \in FieldsOf(write.at) |-> write.at]

Sending == write.pc \in {"send", "restore"}
Applied == Sets(Step.resource, Input)

Succeeds == IF write.pc = "restore" THEN RestoreEnds("restored") ELSE PublishSucceeds
Fails == IF write.pc = "restore" THEN RestoreEnds("stuck") ELSE PublishFails

\* A network error, 429, 5xx and THROTTLED are tried again, up to maxRetries times.
Retries ==
    /\ write.sends < ShopRetries
    /\ write' = [write EXCEPT !.sends = @ + 1] /\ UNCHANGED <<before, outcome>>

\* Each step of a rollback plan makes the whole restore once more.
RestoresAgain ==
    /\ write.pc = "restore"
    /\ write' = [write EXCEPT !.sends = 0] /\ UNCHANGED <<before, outcome>>

RequestAnswered == Sending /\ Applied /\ (Succeeds \/ RestoresAgain) /\ SurroundingsStay

\* The connection breaks, or what comes back cannot be read, after the shop
\* has done what it was asked.
AnswerLost == Sending /\ Applied /\ (Retries \/ Fails) /\ SurroundingsStay

\* Throttled or unreachable; or the shop refuses, with a status, with errors or userErrors.
RequestRefused == Sending /\ UNCHANGED shop /\ (Retries \/ Fails) /\ SurroundingsStay

ShopNext ==
    \/ TokenChanges \/ \E r \in Resources, f \in Fields : MerchantEdits(r, f)
    \/ ReadResource \/ Publish \/ RollBack \/ RollbackEnds
    \/ RequestAnswered \/ AnswerLost \/ RequestRefused

ShopSpec == ShopInit /\ [][ShopNext]_shopVars

----------------------------------------------------------------------------
(* Properties *)

\* Fields a step may have set and no restore has set back: those of a step that
\* failed, or whose before-state misses the field.
NotUndone == {x \in Resources \X Fields : \E i \in StepsOf :
                 /\ plan[i].resource = x[1] /\ x[2] \in FieldsOf(i)
                 /\ \/ outcome[i] = "failed"
                    \/ outcome[i] = "restored" /\ x[2] \notin DOMAIN before[i]}

Writable == {x \in Resources \X Fields : \E i \in StepsOf :
                 plan[i].resource = x[1] /\ x[2] \in FieldsOf(i)}

\* "Restores the previous state of a step" (publisher.ts:90): when every
\* published step was restored, each field has the value it had before the first
\* of them, although steps wrote over each other, requests were applied and
\* their answers lost, or a token came and went; and what the merchant changed
\* meanwhile in fields no step writes is still there.
RestoredMeansBefore ==
    write.pc = "over" /\ (\A i \in StepsOf : outcome[i] \in {"restored", "failed", "pending"}) =>
        \A x \in (Resources \X Fields) \ NotUndone :
            /\ x \notin edited => shop[x[1]][x[2]] = Initial
            /\ x \in edited \ Writable => shop[x[1]][x[2]] = Merchant
=============================================================================
