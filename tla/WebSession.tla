----------------------------- MODULE WebSession -----------------------------
(***************************************************************************)
(* Who is signed in to the web UI and what page is shown (apps/web/src):   *)
(* the auth store over the API and a session in the browser's storage, the *)
(* router with its guards, and the app's calls that use both.  Calls wait  *)
(* for the API, so several may be under way; what follows an answer runs   *)
(* at once.  Signing in and registering differ in the endpoint alone.      *)
(***************************************************************************)
EXTENDS Integers, Sequences, SequencesExt

CONSTANTS
    WebSessions,   \* sessions the API may answer with
    GrantedTo,     \* GrantedTo[s]: the permissions of session s
    NoWebSession,
    WebRoutes,     \* the routes in order: [path, permission, isLanding]
    Public,        \* permission of a public route
    WebPaths,      \* paths one may ask for; those without a route included
    WebCalls,
    MaxHistory     \* bound: pages remembered for back

LoginPath == "/login"

ASSUME WebSessionAssumption ==
    /\ NoWebSession \notin WebSessions /\ MaxHistory \in Nat
    /\ Len(WebRoutes) \in Nat /\ DOMAIN WebRoutes = 1..Len(WebRoutes)
    /\ \A i, j \in DOMAIN WebRoutes : WebRoutes[i].path = WebRoutes[j].path => i = j
    /\ \A i \in DOMAIN WebRoutes : WebRoutes[i].path \in WebPaths
    /\ LoginPath \in WebPaths
    /\ \A i \in DOMAIN WebRoutes : WebRoutes[i].path = LoginPath => WebRoutes[i].permission = Public

VARIABLES
    authState,  \* the auth store: status and session
    storage,    \* the session saved in the browser
    expired,    \* sessions whose expiresAt is over
    webCalls,   \* what each call waits for, "idle" if nothing
    router      \* path shown, and the history of paths

webVars == <<authState, storage, expired, webCalls, router>>

CallKinds == {"idle", "login", "refresh", "restore", "logout"}

WebTypeOK ==
    /\ authState \in [status : {"anonymous", "authenticating", "authenticated"},
                      session : WebSessions \cup {NoWebSession}]
    /\ storage \in WebSessions \cup {NoWebSession} /\ expired \subseteq WebSessions
    /\ webCalls \in [WebCalls -> CallKinds]
    /\ router.path \in WebPaths /\ router.history \in BoundedSeq(WebPaths, MaxHistory)

Anonymous == [status |-> "anonymous", session |-> NoWebSession]
SignedIn(s) == [status |-> "authenticated", session |-> s]
Authenticating(s) == [status |-> "authenticating", session |-> s]

----------------------------------------------------------------------------
(* The router *)

RoutesOf(path) == {i \in DOMAIN WebRoutes : WebRoutes[i].path = path}
FirstOf(indices) == WebRoutes[CHOOSE i \in indices : \A j \in indices : i <= j]
PermissionsOf(auth) == IF auth.session = NoWebSession THEN {} ELSE GrantedTo[auth.session]
VisibleRoutes(permissions) == {i \in DOMAIN WebRoutes : WebRoutes[i].permission \in permissions}

\* landingRoute: the landing route if it is visible, else the first visible one.
LandingPath(permissions) ==
    LET visible == VisibleRoutes(permissions)
        landing == {i \in visible : WebRoutes[i].isLanding}
    IN  IF visible = {} THEN LoginPath ELSE FirstOf(IF landing # {} THEN landing ELSE visible).path

\* guardedResolve; a path without a route is not guarded.
Resolved(auth, path) ==
    LET route == FirstOf(RoutesOf(path)) permissions == PermissionsOf(auth)
        authenticated == auth.status = "authenticated"
    IN  CASE RoutesOf(path) = {} -> path
          [] RoutesOf(path) # {} /\ route.permission = Public ->
               IF authenticated THEN LandingPath(permissions) ELSE path
          [] OTHER ->
               IF ~authenticated THEN LoginPath
               ELSE IF route.permission \in permissions THEN path ELSE LandingPath(permissions)

\* navigate, under the auth state there is.
Navigated(auth, path) ==
    IF Resolved(auth, path) = router.path THEN router
    ELSE [path |-> Resolved(auth, path), history |-> Append(router.history, router.path)]

RoomToNavigate == Len(router.history) < MaxHistory

\* The app starts at a path, before the session is restored.
WebInit ==
    /\ authState = Anonymous /\ storage \in WebSessions \cup {NoWebSession} /\ expired = {}
    /\ webCalls = [c \in WebCalls |-> "idle"]
    /\ \E path \in WebPaths : router = [path |-> Resolved(Anonymous, path), history |-> <<>>]

Navigate(path) ==
    /\ RoomToNavigate /\ router' = Navigated(authState, path)
    /\ UNCHANGED <<authState, storage, expired, webCalls>>

Back ==
    /\ router.history # <<>>
    /\ router' = [path |-> Resolved(authState, Last(router.history)), history |-> Front(router.history)]
    /\ UNCHANGED <<authState, storage, expired, webCalls>>

----------------------------------------------------------------------------
(* The auth store *)

Waits(c, kind) == webCalls' = [webCalls EXCEPT ![c] = kind]

\* login and register; the session there was is kept meanwhile.
BeginLogin(c) ==
    /\ webCalls[c] = "idle" /\ Waits(c, "login")
    /\ authState' = Authenticating(authState.session)
    /\ UNCHANGED <<storage, expired, router>>

\* The session is saved; submitLogin goes to where the API says, or to the landing page.
EndLogin(c, s, redirectTo) ==
    /\ webCalls[c] = "login" /\ Waits(c, "idle") /\ RoomToNavigate
    /\ storage' = s /\ authState' = SignedIn(s)
    /\ router' = Navigated(SignedIn(s), redirectTo)
    /\ UNCHANGED expired

\* What is in the storage stays there.
FailCall(c) ==
    /\ webCalls[c] \in {"login", "refresh"} /\ Waits(c, "idle")
    /\ authState' = Anonymous
    /\ UNCHANGED <<storage, expired, router>>

\* refresh of the session in the store, if there is one.
BeginRefresh(c) ==
    /\ webCalls[c] = "idle" /\ authState.session # NoWebSession
    /\ Waits(c, "refresh") /\ authState' = Authenticating(authState.session)
    /\ UNCHANGED <<storage, expired, router>>

EndRefresh(c, s) ==
    /\ webCalls[c] \in {"refresh", "restore"} /\ Waits(c, "idle")
    /\ storage' = s /\ authState' = SignedIn(s)
    /\ UNCHANGED <<expired, router>>

\* restore: nothing saved, a session that still holds, or one to refresh.
Restore(c) ==
    /\ webCalls[c] = "idle"
    /\ \/ storage = NoWebSession /\ authState' = Anonymous /\ UNCHANGED webCalls
       \/ storage # NoWebSession /\ storage \notin expired
          /\ authState' = SignedIn(storage) /\ UNCHANGED webCalls
       \/ storage \in expired /\ authState' = Authenticating(storage) /\ Waits(c, "restore")
    /\ UNCHANGED <<storage, expired, router>>

\* The refresh of a restore fails: the saved session is dropped.
FailRestore(c) ==
    /\ webCalls[c] = "restore" /\ Waits(c, "idle")
    /\ storage' = NoWebSession /\ authState' = Anonymous
    /\ UNCHANGED <<expired, router>>

\* The API is told of a session there is, and may fail at it.
BeginLogout(c) ==
    /\ webCalls[c] = "idle" /\ authState.session # NoWebSession /\ Waits(c, "logout")
    /\ UNCHANGED <<authState, storage, expired, router>>

\* Mutant: only the store forgets the session.
EndLogoutUnsaved(c) ==
    /\ \/ webCalls[c] = "logout"
       \/ webCalls[c] = "idle" /\ authState.session = NoWebSession
    /\ Waits(c, "idle") /\ RoomToNavigate
    /\ storage' = NoWebSession /\ router' = Navigated(Anonymous, LoginPath)
    /\ UNCHANGED <<authState, expired>>

\* submitLogout: both forget the session, and the sign-in page is next.
EndLogout(c) ==
    /\ \/ webCalls[c] = "logout"
       \/ webCalls[c] = "idle" /\ authState.session = NoWebSession
    /\ Waits(c, "idle") /\ RoomToNavigate
    /\ storage' = NoWebSession /\ authState' = Anonymous
    /\ router' = Navigated(Anonymous, LoginPath)
    /\ UNCHANGED expired

SetSession(s) ==
    /\ storage' = s /\ authState' = SignedIn(s)
    /\ UNCHANGED <<expired, webCalls, router>>

Expire(s) == s \notin expired /\ expired' = expired \cup {s} /\ UNCHANGED <<authState, storage, webCalls, router>>

WebNext ==
    \/ Back
    \/ \E path \in WebPaths : Navigate(path)
    \/ \E s \in WebSessions : SetSession(s) \/ Expire(s)
    \/ \E c \in WebCalls :
         \/ BeginLogin(c) \/ FailCall(c) \/ BeginRefresh(c) \/ Restore(c) \/ FailRestore(c)
         \/ BeginLogout(c) \/ EndLogout(c)
         \/ \E s \in WebSessions :
              \/ EndRefresh(c, s)
              \/ \E path \in WebPaths \cup {LandingPath(GrantedTo[s])} : EndLogin(c, s, path)

WebSpec == WebInit /\ [][WebNext]_webVars

----------------------------------------------------------------------------
(* Properties *)

\* Whoever is shown as signed in is so after a reload of the page: whatever
\* calls are under way, the session in the store is the one in the storage.
\* And a protected page is entered by someone who may see it at that moment,
\* by a link, after signing in, as the landing page or going back
\* (router.ts:33-34).
SignedInMeansSaved ==
    [][/\ authState'.status = "authenticated" => storage' = authState'.session
       /\ router'.path # router.path =>
            \A i \in DOMAIN WebRoutes :
                WebRoutes[i].path = router'.path /\ WebRoutes[i].permission # Public =>
                    /\ authState'.status = "authenticated"
                    /\ WebRoutes[i].permission \in PermissionsOf(authState')]_webVars
=============================================================================
