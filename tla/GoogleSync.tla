----------------------------- MODULE GoogleSync -----------------------------
(***************************************************************************)
(* Incremental syncs of one resource from Google and the credential they   *)
(* use (packages/google-integrations/src: service, credentials,            *)
(* incremental-sync, http-client, repository).  A run reads the last       *)
(* cursor, fetches a window of days and saves the end of the window as the *)
(* new cursor; days are numbers.  A day's data is final only once the day  *)
(* is over.                                                                *)
(***************************************************************************)
EXTENDS Integers, FiniteSets

CONSTANTS
    Syncs,             \* calls of GoogleIntegrationsService.sync
    SyncProviders,     \* providers synced
    DatedProviders,    \* those whose data comes by day: search-console, analytics
    AuthProviders,     \* AUTH_REQUIRING_PROVIDERS
    FirstRunWindow,    \* firstRunWindowDays
    HttpRetries,       \* maxRetries of the HTTP client
    Days,              \* the days of the instance
    FirstDay,          \* the day it starts on
    StartDates,        \* bound: values of startDate in a request
    MaxSyncFaults      \* bound: rejected repository calls

ASSUME SyncAssumption ==
    /\ DatedProviders \subseteq SyncProviders /\ AuthProviders \subseteq SyncProviders
    /\ {FirstRunWindow, HttpRetries, MaxSyncFaults} \subseteq Nat
    /\ Days \subseteq Nat \ {0} /\ FirstDay \in Days /\ StartDates \subseteq Days
    /\ FirstDay - FirstRunWindow \in Days

VARIABLES
    today,         \* the current day
    credential,    \* the StoredCredential: "none", or its access token "fresh" or "expired"
    syncState,     \* syncState[p]: the saved cursor, NoCursor before, and status
    sync,          \* sync[i]: where call i is, and what it holds
    \* history
    fetchedOn,     \* fetchedOn[p][d]: the last day on which the data of day d was fetched
    origin,        \* origin[p]: the first day of the first window that was saved
    steered,       \* steered[p]: a request moved startDate, or set an endDate after the current day
    overlapping,   \* overlapping[p]: two runs were between getState and saveState
    syncFaults

syncVars == <<today, credential, syncState, sync, fetchedOn, origin, steered, overlapping, syncFaults>>

NoCursor == 0
SyncStops == {"idle", "token", "refresh", "read", "window", "fetch", "save", "fail", "over"}
SyncCall == [at : SyncStops, provider : SyncProviders, previous : Days \cup {NoCursor},
             start : Nat, end : Days \cup {0}, attempts : Nat]

SyncTypeOK ==
    /\ today \in Days /\ credential \in {"none", "fresh", "expired"}
    /\ syncState \in [SyncProviders -> [cursor : Days \cup {NoCursor},
                                        status : {"none", "SYNCED", "FAILED"}]]
    /\ sync \in [Syncs -> SyncCall]
    /\ fetchedOn \in [SyncProviders -> [Days -> Days \cup {0}]]
    /\ origin \in [SyncProviders -> Nat]
    /\ steered \in [SyncProviders -> BOOLEAN] /\ overlapping \in [SyncProviders -> BOOLEAN]
    /\ syncFaults \in Nat

SyncInit ==
    /\ today = FirstDay /\ credential = "none"
    /\ syncState = [p \in SyncProviders |-> [cursor |-> NoCursor, status |-> "none"]]
    /\ sync \in [Syncs -> {[at |-> "idle", provider |-> p, previous |-> NoCursor, start |-> 0,
                            end |-> 0, attempts |-> 0] : p \in SyncProviders}]
    /\ fetchedOn = [p \in SyncProviders |-> [d \in Days |-> 0]]
    /\ origin = [p \in SyncProviders |-> 0]
    /\ steered = [p \in SyncProviders |-> FALSE]
    /\ overlapping = [p \in SyncProviders |-> FALSE] /\ syncFaults = 0

----------------------------------------------------------------------------
(* The calendar and the credential *)

MidnightPasses ==
    /\ today + 1 \in Days /\ today' = today + 1
    /\ UNCHANGED <<credential, syncState, sync, fetchedOn, origin, steered, overlapping, syncFaults>>

\* storeTokens of handleOAuthCallback, disconnect, and the access token running out.
CredentialChanges ==
    /\ \/ credential' \in {"fresh", "none"}
       \/ credential = "fresh" /\ credential' = "expired"
    /\ UNCHANGED <<today, syncState, sync, fetchedOn, origin, steered, overlapping, syncFaults>>

----------------------------------------------------------------------------
(* A call of sync *)

At(i, stop) == sync[i].at = stop
Goes(i, stop) == sync' = [sync EXCEPT ![i].at = stop]
Calm == UNCHANGED <<today, fetchedOn, origin, steered, overlapping>>

SyncBegins(i) ==
    /\ At(i, "idle")
    /\ Goes(i, IF sync[i].provider \in AuthProviders THEN "token" ELSE "read")
    /\ UNCHANGED <<credential, syncState, syncFaults>> /\ Calm

\* getValidTokens: without a usable credential, sync itself rejects.
TakeToken(i) ==
    /\ At(i, "token")
    /\ Goes(i, CASE credential = "none" -> "over"
                 [] credential = "fresh" -> "read"
                 [] credential = "expired" -> "refresh")
    /\ UNCHANGED <<credential, syncState, syncFaults>> /\ Calm

\* Refused, or there is no refresh token; or the new tokens are stored, over
\* whatever is stored by now.
RefreshToken(i) ==
    /\ At(i, "refresh")
    /\ \/ Goes(i, "read") /\ credential' = "fresh"
       \/ Goes(i, "over") /\ UNCHANGED credential
    /\ UNCHANGED <<syncState, syncFaults>> /\ Calm

InRun(i) == sync[i].at \in {"window", "fetch", "save", "fail"}

\* getState, outside the try block.
ReadCursor(i) ==
    LET p == sync[i].provider IN
    /\ At(i, "read")
    /\ \/ /\ sync' = [sync EXCEPT ![i].at = "window", ![i].previous = syncState[p].cursor]
          /\ overlapping' = [overlapping EXCEPT ![p] =
                @ \/ \E j \in Syncs : InRun(j) /\ sync[j].provider = p]
          /\ UNCHANGED syncFaults
       \/ /\ syncFaults < MaxSyncFaults /\ syncFaults' = syncFaults + 1
          /\ Goes(i, "over") /\ UNCHANGED overlapping
    /\ UNCHANGED <<today, credential, syncState, fetchedOn, origin, steered>>

\* windowFor takes the dates of the request unchecked, an end after today too; a provider that is not dated has no
\* window, its cursor is the day.
FirstStart(i) == IF sync[i].previous # NoCursor THEN sync[i].previous ELSE today - FirstRunWindow

ChooseWindow(i) ==
    LET p == sync[i].provider IN
    /\ At(i, "window")
    /\ IF p \notin DatedProviders
         THEN /\ sync' = [sync EXCEPT ![i].at = "fetch", ![i].end = today] /\ UNCHANGED steered
         ELSE \E start \in StartDates \cup {FirstStart(i)}, end \in Days :
              /\ sync' = [sync EXCEPT ![i].at = "fetch", ![i].end = end, ![i].start = start]
              /\ steered' = [steered EXCEPT ![p] = @ \/ start # FirstStart(i) \/ end > today]
    /\ UNCHANGED <<today, credential, syncState, fetchedOn, origin, overlapping, syncFaults>>

\* The retries of a request are counted within it.
RequestEnds(i, stop) == sync' = [sync EXCEPT ![i].at = stop, ![i].attempts = 0]

\* Mutant: a final error counts as an answer without rows.
GivesUpUnseen(i) == RequestEnds(i, "save")

\* What request throws is caught, and fail is called.
GivesUp(i) == RequestEnds(i, "fail")

\* One turn of GoogleHttpClient.request: rows, a final error, or a retry.
Fetch(i) ==
    LET p == sync[i].provider
        window == IF p \in DatedProviders THEN sync[i].start .. sync[i].end ELSE {}
    IN
    /\ At(i, "fetch")
    /\ \/ /\ RequestEnds(i, "save")
          /\ fetchedOn' = [fetchedOn EXCEPT ![p] =
                [d \in Days |-> IF d \in window THEN today ELSE @[d]]]
       \/ GivesUp(i) /\ UNCHANGED fetchedOn
       \/ /\ sync[i].attempts < HttpRetries
          /\ sync' = [sync EXCEPT ![i].attempts = @ + 1] /\ UNCHANGED fetchedOn
    /\ UNCHANGED <<today, credential, syncState, origin, steered, overlapping, syncFaults>>

SaveCursor(i) ==
    LET p == sync[i].provider IN
    /\ At(i, "save")
    /\ \/ /\ syncState' = [syncState EXCEPT ![p] = [cursor |-> sync[i].end, status |-> "SYNCED"]]
          /\ origin' = [origin EXCEPT ![p] = IF @ = 0 THEN sync[i].start ELSE @]
          /\ Goes(i, "over") /\ UNCHANGED syncFaults
       \/ /\ syncFaults < MaxSyncFaults /\ syncFaults' = syncFaults + 1
          /\ Goes(i, "fail") /\ UNCHANGED <<syncState, origin>>
    /\ UNCHANGED <<today, credential, fetchedOn, steered, overlapping>>

\* fail puts back the cursor that was read; publishing is best effort.
SaveFailure(i) ==
    LET p == sync[i].provider IN
    /\ At(i, "fail") /\ Goes(i, "over")
    /\ \/ /\ syncState' = [syncState EXCEPT ![p] = [cursor |-> sync[i].previous, status |-> "FAILED"]]
          /\ UNCHANGED syncFaults
       \/ /\ syncFaults < MaxSyncFaults /\ syncFaults' = syncFaults + 1
          /\ UNCHANGED syncState
    /\ UNCHANGED credential /\ Calm

SyncStep(i) ==
    \/ SyncBegins(i) \/ TakeToken(i) \/ RefreshToken(i) \/ ReadCursor(i)
    \/ ChooseWindow(i) \/ Fetch(i) \/ SaveCursor(i) \/ SaveFailure(i)

SyncNext == MidnightPasses \/ CredentialChanges \/ \E i \in Syncs : SyncStep(i)

SyncSpec == SyncInit /\ [][SyncNext]_syncVars

----------------------------------------------------------------------------
(* Properties *)

\* "resuming from the last persisted cursor so only the delta since the previous
\* run is fetched" (incremental-sync.ts:4) leaves no gap: whatever fails in
\* between, every day from the first window up to the cursor was fetched after
\* it was over, so no day is left with the part of its data it had at noon.
\* It holds while runs of one resource do not overlap: a run that fails puts
\* back the cursor it read, over the one another run has saved.  And it holds of
\* windows the requests leave to the service, or end by the current day: nothing
\* checks a request's dates, one that starts later skips days, and one that ends
\* after the current day saves a cursor past days that are not over.
NoDayLost ==
    \A p \in DatedProviders :
        syncState[p].cursor # NoCursor /\ ~steered[p] /\ ~overlapping[p] =>
            \A d \in Days : origin[p] <= d /\ d < syncState[p].cursor => fetchedOn[p][d] > d
=============================================================================
