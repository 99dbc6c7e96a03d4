------------------------------- MODULE HostApp -------------------------------
(***************************************************************************)
(* The host application, apps/host/src, in one browser tab: the documents  *)
(* the server answers with, the views React Router and React.lazy show in  *)
(* them, and the login page's part in signing in.                          *)
(*                                                                         *)
(* A document goes from view to view without the server.  Each view comes  *)
(* in a chunk that is fetched when it is first rendered; React.lazy keeps  *)
(* the outcome, a failure too, for as long as the document lasts.  A       *)
(* failure that no ErrorBoundary catches unmounts the whole root and       *)
(* leaves a blank page.  The server, Edupass and local storage are         *)
(* environment; what the server does to the session is in SessionServer.   *)
(***************************************************************************)
EXTENDS Naturals

CONSTANTS
  Section,    \* the paths served by remotes: /students, /posts, /groups
  NotFound,   \* other paths: /meetings, a link of the sidebar, and mistyped ones
  None        \* no user, no path, no error

Path == Section \cup NotFound \cup {"/", "/login"}

ASSUME PathAssumption ==
  /\ "/" \notin Section \cup NotFound /\ "/login" \notin Section \cup NotFound
  /\ Section \cap NotFound = {}
  /\ None \notin Path

\* The views that are chunks of their own; a section's is its remote's.
OwnChunk == {"LoginView", "RootLayout", "HomeView", "RemoteLoadFallbackView"}
Chunk == OwnChunk \cup Section

ASSUME ChunkAssumption == OwnChunk \cap Section = {}

\* The error codes of auth.go, and a code somebody typed into the address.
ServerError == {"no_role", "multiple_roles", "unsupported_school_mk", "oauth2_callback_failed"}
Error == ServerError \cup {"unknown"}

VARIABLES
  session,      \* the server's: whether it has a user, the return_to of a pending login
  page,         \* "app", "blank" or "edupass"
  preloaded,    \* preloadedState of the document
  path,         \* location.pathname
  query,        \* its error and return_to parameters
  chunk,        \* what React.lazy knows of each view
  layout,       \* is RootLayout mounted
  modal,        \* is the WelcomeModal open
  seen,         \* tw_welcome_modal_seen in local storage: "true", "absent", or "denied"
  asked,        \* history: the page the teacher was turned away from
  refusal,      \* history: why the last login was refused
  greeted       \* history: the WelcomeModal was closed with storage at hand

document == <<page, preloaded, path, query, chunk, layout, modal>>
history == <<asked, refusal, greeted>>
vars == <<session, document, seen, history>>

-----------------------------------------------------------------------------
(***************************************************************************)
(* The server's documents.                                                 *)
(***************************************************************************)
\* As JSON: absent fields are undefined, and a nil slice would be null.
PreloadedState(user) ==
  [csrfToken |-> "string", remotes |-> "array", user |-> IF user THEN "User" ELSE "undefined"]

IsPreloadedState(state) ==
  /\ state.csrfToken = "string"
  /\ state.remotes = "array"
  /\ state.user \in {"undefined", "User"}

NoQuery == [error |-> None, returnTo |-> None]
LoginQuery(error, returnTo) == [error |-> error, returnTo |-> returnTo]

\* The chunk a path asks for first, and the one its layout's outlet does.
OuterChunk(p) == IF p = "/login" THEN {"LoginView"} ELSE IF p \in NotFound THEN {} ELSE {"RootLayout"}
InnerChunk(p) == IF p = "/" THEN {"HomeView"} ELSE {p} \cap Section

\* What a render of path p asks for, once the chunks of c are what they are.
Wants(p, c) ==
  OuterChunk(p)
    \cup (IF \A o \in OuterChunk(p) : c[o] = "loaded" THEN InnerChunk(p) ELSE {})
    \cup (IF \E s \in InnerChunk(p) \cap Section : c[s] = "failed"
          THEN {"RemoteLoadFallbackView"} ELSE {})

\* A bug: the view inside the layout is not asked for once the layout is there.
FetchedOuter(p, c) ==
  [k \in Chunk |-> IF k \in OuterChunk(p) /\ c[k] = "none" THEN "loading" ELSE c[k]]

\* Rendering path p starts the fetches that have not been started.
Fetched(p, c) ==
  [k \in Chunk |-> IF k \in Wants(p, c) /\ c[k] = "none" THEN "loading" ELSE c[k]]

Fresh == [k \in Chunk |-> "none"]

\* RootLayout is mounted on its routes, and the modal then asks local storage.
Laid(p, c) == p \in Section \cup {"/"} /\ c["RootLayout"] = "loaded"
Greets == seen = "absent"

\* A bug: the modal opens again whenever the layout is mounted.
RenderGreeting(p, c) ==
  /\ path' = p
  /\ chunk' = Fetched(p, c)
  /\ layout' = Laid(p, c)
  /\ modal' = (Laid(p, c) /\ (modal \/ ~layout))

Render(p, c) ==
  /\ path' = p
  /\ chunk' = Fetched(p, c)
  /\ layout' = Laid(p, c)
  /\ modal' = (Laid(p, c) /\ IF layout THEN modal ELSE Greets)

(***************************************************************************)
(* A new document: the page for path p, for the session's user or nobody.  *)
(***************************************************************************)
NewDocument(p, q, user) ==
  /\ preloaded' = PreloadedState(user)
  /\ query' = q
  /\ page' = IF IsPreloadedState(preloaded') THEN "app" ELSE "blank"
  /\ path' = p
  /\ chunk' = Fetched(p, Fresh)
  /\ layout' = FALSE
  /\ modal' = FALSE

\* A bug: a path no page has is answered without asking for a session.
GetUnguarded(p, q, signedIn) ==
  IF p = "/login" /\ signedIn
  THEN NewDocument(IF q.returnTo = None THEN "/" ELSE q.returnTo, NoQuery, TRUE)
  ELSE IF p \notin NotFound \cup {"/login"} /\ ~signedIn
  THEN NewDocument("/login", LoginQuery(None, p), FALSE)
  ELSE NewDocument(p, q, signedIn)

\* A bug: the redirect away from the login page takes its query along.
GetKeepingQuery(p, q, signedIn) ==
  IF p = "/login" /\ signedIn
  THEN NewDocument(IF q.returnTo = None THEN "/" ELSE q.returnTo, q, TRUE)
  ELSE IF p # "/login" /\ ~signedIn
  THEN NewDocument("/login", LoginQuery(None, p), FALSE)
  ELSE NewDocument(p, q, signedIn)

(***************************************************************************)
(* GET p, and the redirect that answers it: RequireAuth turns away to the  *)
(* login page, which turns away whoever is signed in.                      *)
(***************************************************************************)
Get(p, q, signedIn) ==
  IF p = "/login" /\ signedIn
  THEN NewDocument(IF q.returnTo = None THEN "/" ELSE q.returnTo, NoQuery, TRUE)
  ELSE IF p # "/login" /\ ~signedIn
  THEN NewDocument("/login", LoginQuery(None, p), FALSE)
  ELSE NewDocument(p, q, signedIn)

\* The page the teacher is turned away from when GET p is answered.
TurnedAway(p, signedIn) == IF signedIn \/ p = "/login" THEN None ELSE p

NewSession == [user |-> FALSE, pending |-> None]

Init ==
  /\ session = NewSession
  /\ page = "app"
  /\ preloaded = PreloadedState(FALSE)
  /\ path = "/login"
  /\ query = NoQuery
  /\ chunk = Fetched("/login", Fresh)
  /\ layout = FALSE /\ modal = FALSE
  /\ seen \in {"true", "absent", "denied"}
  /\ asked = None /\ refusal = None /\ greeted = FALSE

-----------------------------------------------------------------------------
(***************************************************************************)
(* The browser.                                                            *)
(***************************************************************************)
\* An address is typed, with any error code; or another page links to it.
Visit(p, error) ==
  /\ error # None => p = "/login"
  /\ Get(p, LoginQuery(error, None), session.user)
  /\ asked' = TurnedAway(p, session.user)
  /\ refusal' = None
  /\ UNCHANGED <<session, seen, greeted>>

Reload ==
  /\ page # "edupass"
  /\ Get(path, query, session.user)
  /\ asked' = IF path = "/login" THEN asked ELSE TurnedAway(path, session.user)
  /\ UNCHANGED <<session, seen, refusal, greeted>>

(***************************************************************************)
(* A fetch that a render started ends well or badly, wherever the teacher  *)
(* has gone since.  A failure matters when what is shown needs the chunk:  *)
(* a section's is caught by its ErrorBoundary, any other leaves nothing.   *)
(***************************************************************************)
\* A bug: the fallback is shown without its chunk, the section's boundary gone.
UncaughtAnywhere(p, c) == \E k \in Wants(p, c) : c[k] = "failed"

Uncaught(p, c) == \E k \in Wants(p, c) \cap OwnChunk : c[k] = "failed"

Show(p, c) ==
  /\ Render(p, c)
  /\ page' = IF Uncaught(p, chunk') THEN "blank" ELSE page
  /\ UNCHANGED <<preloaded, query>>

Settle(k, outcome) ==
  /\ page = "app"
  /\ chunk[k] = "loading"
  /\ Show(path, [chunk EXCEPT ![k] = outcome])
  /\ UNCHANGED <<session, seen, history>>

-----------------------------------------------------------------------------
(***************************************************************************)
(* The views.                                                              *)
(***************************************************************************)
Shown(k) == page = "app" /\ k \in Wants(path, chunk) /\ chunk[k] = "loaded"

\* The sidebar's items, the featured card and the links of the not-found page.
NavLinks == {"/", "/meetings"} \cup Section
HomeLinks == {"/students"}
NotFoundLinks == {"/", "/students", "/posts"}
FallbackLinks == {"/"}

Links ==
  (IF page = "app" /\ layout THEN NavLinks ELSE {})
    \cup (IF Shown("HomeView") THEN HomeLinks ELSE {})
    \cup (IF page = "app" /\ path \in NotFound THEN NotFoundLinks ELSE {})
    \cup (IF Shown("RemoteLoadFallbackView") THEN FallbackLinks ELSE {})

\* A link of the application: no request is made for the page.
Follow(p) ==
  /\ p \in Links
  /\ path # p
  /\ Show(p, chunk)
  /\ UNCHANGED <<session, seen, history>>

\* RemoteLoadFallbackView's "Try again".
TryAgain ==
  /\ Shown("RemoteLoadFallbackView")
  /\ Reload

CloseWelcome ==
  /\ page = "app" /\ modal
  /\ modal' = FALSE
  /\ seen' = IF seen = "denied" THEN seen ELSE "true"
  /\ greeted' = (seen # "denied")
  /\ UNCHANGED <<session, page, preloaded, path, query, chunk, layout, asked, refusal>>

\* ProfileMenu posts /logout; Edupass's end-session endpoint returns to /login.
SignOut ==
  /\ page = "app" /\ layout /\ preloaded.user = "User"
  /\ session' = NewSession
  /\ Get("/login", NoQuery, FALSE)
  /\ asked' = None /\ refusal' = None
  /\ UNCHANGED <<seen, greeted>>

\* The codes the login page has a message for.
LoginErrors == {"no_role", "multiple_roles", "unsupported_school_mk", "oauth2_callback_failed"}

\* A bug: a code of the server is missing from the table.
ToLoginErrorCodeOfThree(code) ==
  IF code \in LoginErrors \ {"multiple_roles"} THEN code ELSE "oauth2_callback_failed"

ToLoginErrorCode(code) == IF code \in LoginErrors THEN code ELSE "oauth2_callback_failed"

LoginError == IF query.error = None THEN None ELSE ToLoginErrorCode(query.error)

\* A bug: the link forgets the page to return to once a login has failed.
LoginHrefForgetful == IF query.error = None THEN query.returnTo ELSE None

LoginHref == query.returnTo

\* "Sign in with Edupass": the pending login takes the page to return to.
SignIn ==
  /\ Shown("LoginView")
  /\ session' = [session EXCEPT !.pending = IF LoginHref = None THEN "/" ELSE LoginHref]
  /\ page' = "edupass"
  /\ UNCHANGED <<preloaded, path, query, chunk, layout, modal, seen, history>>

(***************************************************************************)
(* The callback, to which Edupass returns the teacher: it takes the        *)
(* pending login, and fails if there is none.                              *)
(***************************************************************************)
CallbackSignsIn ==
  /\ page = "edupass" /\ session.pending # None
  /\ session' = [user |-> TRUE, pending |-> None]
  /\ Get(session.pending, NoQuery, TRUE)
  /\ asked' = None /\ refusal' = None
  /\ UNCHANGED <<seen, greeted>>

CallbackRefuses(error) ==
  /\ page = "edupass"
  /\ session.pending = None => error = "oauth2_callback_failed"
  /\ LET returnTo == IF session.pending = None THEN "/" ELSE session.pending
     IN  Get("/login", LoginQuery(error, returnTo), session.user)
  /\ refusal' = IF session.user THEN None ELSE error
  /\ session' = [session EXCEPT !.pending = None]
  /\ UNCHANGED <<seen, asked, greeted>>

\* The session expires, or ends in another tab; this tab does not notice.
EndSession ==
  /\ session # NewSession
  /\ session' = NewSession
  /\ asked' = IF page = "edupass" THEN None ELSE asked
  /\ UNCHANGED <<document, seen, refusal, greeted>>

Next ==
  \/ \E p \in Path, error \in Error \cup {None} : Visit(p, error)
  \/ \E k \in Chunk, outcome \in {"loaded", "failed"} : Settle(k, outcome)
  \/ \E p \in Path : Follow(p)
  \/ \E error \in ServerError : CallbackRefuses(error)
  \/ Reload \/ TryAgain \/ CloseWelcome \/ SignOut \/ SignIn \/ CallbackSignsIn \/ EndSession

Spec == Init /\ [][Next]_vars

\* The browser ends every fetch, one way or the other.
FairSpec ==
  Spec /\ \A k \in Chunk : WF_vars(\E outcome \in {"loaded", "failed"} : Settle(k, outcome))

-----------------------------------------------------------------------------
\* Every variable holds values of its kind; only the login page has a query.
TypeOK ==
  /\ session \in [user : BOOLEAN, pending : Path \cup {None}]
  /\ page \in {"app", "blank", "edupass"}
  /\ preloaded \in {PreloadedState(FALSE), PreloadedState(TRUE)}
  /\ path \in Path
  /\ query \in [error : Error \cup {None}, returnTo : Path \cup {None}]
  /\ path # "/login" => query = NoQuery
  /\ chunk \in [Chunk -> {"none", "loading", "loaded", "failed"}]
  /\ layout \in BOOLEAN /\ modal \in BOOLEAN
  /\ seen \in {"true", "absent", "denied"}
  /\ asked \in Path \cup {None} /\ refusal \in ServerError \cup {None} /\ greeted \in BOOLEAN

\* A remote that fails takes its own section down and nothing else: the page
\* goes blank only when one of the host's own chunks could not be fetched
\* (App.tsx, the ErrorBoundary of every section).
SectionsFailAlone == page = "blank" => \E k \in OwnChunk : chunk[k] = "failed"

\* RootLayout, whose links and menu are for the signed-in, is mounted only in a
\* document made for a teacher, whichever way the teacher got to it (the
\* routes of App.tsx have no guard of their own; the server's RequireAuth does).
LayoutKnowsTheTeacher == layout => preloaded.user = "User"

\* The login page explains a refusal by the message of the very code the
\* server refused with, through every reload (LoginView.tsx:10, "Must match
\* the loginErr* constants").
ExplainsTheRefusal ==
  refusal # None /\ page = "app" /\ path = "/login" => LoginError = refusal

\* The welcome is not shown again once it has been closed, in this document or
\* a later one, if local storage can be written (WelcomeModal.tsx).
WelcomeOnce == greeted => ~modal

\* Signing in lands on the page the teacher was turned away from, after any
\* number of refused attempts and reloads of the login page, in one tab.  It
\* says nothing of a session that ends while the teacher is at Edupass: the page
\* asked for is then forgotten, and the next redirect to login is a new start.
ReturnsWhereAsked ==
  [][page = "edupass" /\ page' = "app" /\ preloaded'.user = "User"
       => path' = IF asked = None THEN "/" ELSE asked]_vars

\* Whatever is needed to show the page has been fetched, or could not be.
Settled == page = "app" => \A k \in Wants(path, chunk) : chunk[k] \in {"loaded", "failed"}

\* A step to another path or a new document, which fetches everything again.
Navigates ==
  \/ path' # path
  \/ page' # page
  \/ \E k \in Chunk : chunk[k] # "none" /\ chunk'[k] \in {"none", "loading"} \ {chunk[k]}

\* A teacher who stays on a page sees it in the end, or sees that it failed:
\* no fetch is waited for that was never started (React.lazy, Suspense).
PagesSettle == []<><<Navigates>>_vars \/ <>[]Settled

-----------------------------------------------------------------------------
\* The inductive invariant behind the safety properties (proved in HostAppProofs).
Target(p) == IF p = None THEN "/" ELSE p

\* Where a teacher is, with whom the server takes them for.
RightDocument ==
  /\ path # "/login" => preloaded.user = "User"
  /\ path = "/login" => ~session.user
  /\ page = "edupass" => path = "/login"
  /\ layout => path \in Section \cup {"/"}

\* The page to return to travels from the query to the pending login and back.
ReturnKept ==
  /\ query.returnTo # "/login" /\ session.pending # "/login"
  /\ path = "/login" /\ page # "edupass" => Target(query.returnTo) = Target(asked)
  /\ page = "edupass" => /\ session.pending # None => session.pending = Target(asked)
                         /\ session.pending = None => asked = None

RefusalKept == refusal # None => path = "/login" /\ query.error = refusal

\* Once closed, the welcome has left its mark where the layout looks for it.
GreetingKept == greeted => seen = "true" /\ ~modal

HostInv == TypeOK /\ SectionsFailAlone /\ RightDocument /\ ReturnKept /\ RefusalKept /\ GreetingKept
=============================================================================
