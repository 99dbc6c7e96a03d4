# Formal models of teacher-workspace

TLA+ models of teacher-workspace: its server (`server/`: the sessions, the store
they are kept in, signing in with Edupass and signing out, the pages, the remote
backends, the response writers, and the rules by which a login is accepted), its
host application (`apps/host/`: the documents, views and chunks of one browser
tab, the sidebar and the docked drawers) and its mock Edupass
(`apps/mock-edupass/`). TLC checks the models on small instances; TLAPS proves
their safety properties for every size. Every definition is translated
from the source; `PROJECT.json` maps each to its lines.

    tlc -workers 2 -config SessionSignIn.cfg MCSessionServer.tla
    tlapm SessionServerProofs.tla

## The system

teacher-workspace is a Go server with a React host application. A browser loads
a page, signs in through Edupass (OpenID Connect), and the page's scripts call
remote backends through the server. Its parts, the state they keep, and what
makes them correct:

| Part | State | Operations | Interacts with | Correct when |
|---|---|---|---|---|
| `session/session.go` | one session: ID, CSRF token, user, data, destroyed, storedID | New, Load, Commit, SetUser, Destroy, Set, GetAndDelete | the store, by one or two calls per Commit | an ID is never anyone else's, never comes back after its end |
| `session/store.go` | entries by ID with a TTL | Get, Create, Update, Delete | every request, concurrently | each call is atomic; Create writes where nothing is, Update where something is |
| `session/memstore` | a map, a mutex | the same | goroutines, the clock | implements the contract; TTLs hold to the instant |
| `session/valkeystore` | a Valkey server | the same | the network | implements the contract, except that a failed call may take effect |
| `middleware/session.go` | one session and one response writer per request | load, commit once before the final headers, Set-Cookie | session, store, browser | a cookie names a stored ID; a failed commit replaces the answer |
| `middleware/requireauth.go`, `csrf.go` | none | let a request through or not | session | nothing happens for a user the page does not show |
| `handler/auth.go` | the pending login, in the session | login, logout, authEdupass, authEdupassCallback | Edupass, session | a completed login is used once; a refused one signs nobody in |
| `handler/index.go`, `handler.go` | none | routes, pages with the preloaded state | session | the page's user and token are the session's |
| `handler/proxy.go` | none | a signed token and a forwarded request | remote backends | the token names the session's user |
| `middleware/requestlog.go`, `requestid.go` | one response writer per request | status, size, duration, panics | every handler | the log tells what was sent |
| `cmd/tw/main.go` | the process | configuration, start, shutdown | all | requests finish, or are cut off after a timeout |
| `config`, `dotenv` | settings | defaults, .env files, environment, validation | main | precedence; nothing invalid starts |
| `random` | none | Base58, Base62 | session, auth | uniform, ends |
| `apps/host` documents and views | the path, what React.lazy knows of each chunk, the welcome | load, follow a link, retry, sign in, sign out | server, remotes, local storage | a failing remote leaves the host standing; the layout has a teacher; the teacher lands where they were going |
| `apps/host` sidebar | open, tablet and mobile state, two cookies, the count of docked drawers | toggle, resize, collapse for drawers and restore | drawers, cookies, media queries | a preference is the one in force; what a drawer collapsed it gives back |
| `apps/host` docked drawers | open, width, drag, registration with parent and page | open, close, drag, unmount | sidebar, page, owners | one open under each parent; the page makes room; no count drifts |
| `apps/host` UI kit, `rsbuild.config.ts` | none | styled parts, bundling | | |
| `apps/mock-edupass` | a registered client, a browser session, codes, a signing key | configure, authorize, interact, token, keys, restart | server, in development | signs in as asked; turns away no client that fits its settings; a restart costs one login |

What is hard here: requests of one browser run concurrently, each on its own
copy of the session, and write back whole copies; the cookie they came with may
be older than the session another of them has just ended; the store can fail,
and with Valkey a command that failed may still be executed, after others; an
entry can expire, and the process can end, between any two steps; answers reach
the browser in any order or not at all; and pages stay open while users sign out
and others sign in. In the browser, React renders later than it is asked to:
handlers are closures of an older render, drawers, sidebar and media queries are
rendered in different commits, and every cleanup of a commit runs before its
effects; chunks arrive late or never, wherever the teacher has gone since.
`PROJECT.json` lists these hazards at their lines, with the
properties that cover them.

## The modules

    SessionLife          abstract: what becomes of an ID
       ^ implemented by
    SessionServer ---- extends ---- Session
       ^                            one session's pure operations
       |-- MCSessionServer          instances for TLC
       |-- SessionServerProofs      theorems: types, and the core
              ^-- SignedInProofs        theorems: what becomes of logins

    SessionStore         abstract: the contract of session/store.go
       ^ implemented by
    MemStore --- MCMemStore
       ^-- MemStoreProofs         theorems

    SessionAnswer        abstract: what is promised of one response
       ^ implemented by
    ResponseWriter --- MCResponseWriter
       ^-- ResponseWriterProofs   theorems

    EdupassLogin ---- extends ---- ReturnTo
       ^                           safeReturnTo, and the browser after it
       |-- MCEdupassLogin ---- extends ---- EdupassAccounts
       |-- EdupassLoginProofs               the mock's 20 accounts
              theorems                          ^
                                            MockEdupass --- MCMockEdupass
                                                ^-- MockEdupassProofs   theorems

    DockedDrawers ---- extends ---- Sidebar
       |-- MCDockedDrawers          SidebarProvider
       |-- DockedDrawersProofs      theorems

    HostApp --- MCHostApp
       ^-- HostAppProofs          theorems

**Session** holds the fields of the Go struct and one operator per method.
An ID and a CSRF token are always drawn together, so one key stands for both;
the four values of a pending login are always set and taken together, so one
attempt stands for the four.

**SessionServer** is the core. Requests occupy slots (`Req`); `pc` says how far
each has got:

| pc | Reached by | In the code |
|---|---|---|
| arrived | Browse, SubmitApi, ReturnFromEdupass | the request and its cookie reach the middleware |
| loaded | LoadSession, NewSession | `session.Load`, or `session.New` for nothing or an undecodable entry |
| handled | HandleIndex/Login/Logout/Api/AuthEdupass, CallbackRefuses, CallbackSignsIn | the handler; it changes the session in memory only |
| superseding | CommitCreate | Create has written the new ID, Delete of the old one is to come |
| answered | CommitDestroyed, CommitCreate, CommitUpdate, DeleteSuperseded, LoadFails | the headers are sent |
| idle | Deliver, LoseResponse, Disconnect, Restart | |

Each store call is one atomic step (the contract, which MemStore is checked to
implement); everything between two store calls of a request is local to it, so
other requests, expiry and restarts interleave exactly at the store calls. With
`Provider = "valkey"` any call may fail: the command goes to `late`, from where
it takes effect at any later time or never. The browser's cookie jar, its open
pages and Edupass are the environment. `drawn`, `birth`, `ended` and
`completed` are history variables: nothing the code does depends on the last
three, and `drawn` expresses that random draws are fresh.

**SessionLife** says what the session layer promises: an ID begins once, with an
identity (user and token) it keeps as long as it lives, and once ended it never
lives again. SessionServer maps `life` and `who` to its store and its history.

**SessionStore** is the contract of `session.Store`: a call takes effect at one
instant between its start and its return, and any entry may expire. **MemStore**
takes the checks, the mutex, the lookup and the write apart, with the two readings
of the clock. The context and the arguments are checked once, before Lock, so a call
that waits for the mutex can no longer give up. A write is mapped to the instant of the lookup that permits it, because
the entry found may expire before it is replaced.

**ResponseWriter** takes the answer of one request apart, which SessionServer
sends in one step. A handler writes through `sessionResponseWriter`, that one
through `requestLogResponseWriter`, and that one through net/http's. The
response is a record that each layer's methods transform, nested as the Go
methods call each other; an action is a method of the outer writer with all it
calls. Headers are abstracted to whose they are, bodies to who wrote them. What
a handler does otherwise is its environment: it sets headers, changes the
session, panics, and ReverseProxy clears the headers after a 1xx. HEAD, 204 and
304 answers, which have no body, are not told apart.

**SessionAnswer** is the promise they keep together, without writers and headers:
the session is committed at most once, as it is at that instant; the answer,
with the commit or after it, has the cookie exactly if the session was saved; a
commit that failed is answered at once, by an error that nothing is mixed into
then or later; and without a session there is only an error or nothing. The
refinement reads the answer off the headers and bytes that were sent.

**EdupassLogin** takes the rules of one login apart, which SessionServer has as
two outcomes: a callback signs in or it refuses. The twelve checks of
`authEdupassCallback` all refuse alike, so one action stands for them and the
login says which of them it passes. The loops of `resolveEdupassGroups` take one
step per entry and one per attribute candidate, with the variables of the Go
function. An entry is the sequence of its segments between underscores, so that
the infixes `_ROLE_` and `_ATTR_` are segments with a neighbour on either side.
The properties do not follow the loops: they compare what comes out with what
the documented format of the entries grants. What Go code does not do is an
input: whether a check passes, and which groups the ID token claims.

**ReturnTo** has `safeReturnTo` as an operator on sequences of the characters it
or a browser tells apart. Escapes are characters of their own, decoded by
`Unescaped` as `url.Parse` decodes them. A path is split at the numbered positions
of its separators (`Starts`, `Nth`), and its segments are resolved by a recursive
function, so that both can be proved about. The other half is external: what
net/http does to a header's value and a browser to a URL (trimming, tabs,
backslashes, dot segments), which says where the redirect lands.

**HostApp** is one browser tab: the documents the server answers with (GET and
the redirect that may answer it, as `RequireAuth` and the login page decide),
the views that `App.tsx` routes to, and the login page's part in signing in.
What React.lazy knows of each chunk is a map that lasts as long as the document:
a fetch is started when something is first rendered and settles once, wherever
the teacher has gone since. A failure outside the ErrorBoundary of a section
leaves a blank page. The server's session is two values, whether there is a user
and the path of a pending login; what can become of it is SessionServer's.

**Sidebar** and **DockedDrawers** follow React's order of events. A state is kept
twice: with every update applied (`nav`, `want`) and as last rendered
(`navShown`, `shown`), which is what handlers, being closures, read. `Commit`
renders any component whose media query has changed and every one with an
update; `Effects` then runs what has new dependencies, every cleanup before
any new effect; events come after that, but possibly before the updates of
effects are rendered. `ran` is what the effects last ran with. The sidebar's
`onDockedOpenChange` is taken for a whole flush of effects; of several drawers
that open in one flush any may run last. Base UI's drawer is external: it offers
a close to the owner, who may cancel it (`Stubborn`), and keeps a closed popup
in the page until its animation ends (`Exit`). `dockedOver` and `spared` are
history variables.

**MockEdupass** is the mock and the Teacher Workspace that signs a developer in
with it: `loadConfig` on every kind of setting, the interactions by which it picks
an account, client authentication, and restarts, between which only the browser
and Teacher Workspace remember anything. The authorization code flow is
oidc-provider's and go-oidc's, modelled from how both programs use them.
**EdupassAccounts** has the mock's accounts, which EdupassLogin's run signs in
with: the accounts of the mock, the rules of the server and the table of the
mock's README must agree.

## The runs

| Run | Question | Instance | Distinct states |
|---|---|---|---|
| SessionSignIn | Does a completed login leave nothing of its pending login behind, does each session that is signed in have a login of its own, granted to its user, and does an ended session stay ended? | 2 requests, 3 keys, 1 user, 2 attempts, memory | 897 k |
| SessionFaults | With a failing store: SessionLife, cookies, the inductive invariant, and does every request end? | 2 requests, 3 keys of which 1 old entry, 1 user, 1 attempt, Valkey, 1 late command | 433 k |
| SessionPages | Does a backend act for the user the page shows, with concurrent requests on every route? | 2 requests, 3 keys, 1 user, 1 attempt, memory, every route | 2.7 M |
| SessionStaleUpdate | Is the pending login cleared by a refused callback too? (violated) | 2 requests, 2 keys, 1 user, 1 attempt, memory | |
| MemStore | Contract, TTLs, and does every call return? | 2 callers, 1 ID, 2 data, TTLs 0 and 1, clock to 1 | 382 k |
| ResponseWriter | SessionAnswer (one commit, a fitting answer) and a log that agrees, for every order of writes? | statuses 101, 103, 200, 302, 500, 2 changes to the session | 5 k |
| EdupassLogin | Who is signed in, as what, what is refused and reported, where the redirect lands, and does each mock account do as documented? | 3,398 short return paths, 1,562 single entries, 7,381 lists of up to 4 of 9 entries, up to 2 failing checks, 20 accounts | 105 k |
| ReturnToTrimmed | Does the redirect land on exactly the path that was checked? (violated) | the same paths | |
| DockedDrawers | Counts, padding, exclusivity, the sidebar and its cookies, the cursor | 2 drawers side by side, 1 inside the first, windows of 700, 1000 and 1300 px, 2 widths and a drag for the first, one owner that cancels closes | 1.3 M |
| NavGivesWay | Does the sidebar stay collapsed while a drawer is docked? (violated) | 2 drawers, 1300 px | |
| HostApp | Failures, the layout, refusals, the welcome, the page to return to, and does every view settle? | 3 sections, 1 dead link, every order of chunks and failures | 23 k |
| MockEdupass | Whom a developer signs in as, which clients are turned away, what a restart breaks | 54 environments, 2 clients, 4 values of `account`, up to 3 logins and 2 boots | 6.3 M |

**Bounds.** Slots are reused, so a bound on `Req` is a bound on what is in
flight together, not on how many requests there are. Sessions are bounded by
`Key`: every new session and every sign-in takes one, and `Headroom` keeps the
browser from sending a request for which no key or attempt would be left, so
that no request is stuck for lack of them. Three keys are an anonymous session, the
signed-in one after it and one to come. With one user, pages still outlive the
session they were made in, and two sessions could still come of one login; that
pages cannot act for another user either, and that nobody is signed in as one, is
proved for any number of users (`BackendsActAsShown`, `UsersSignInAsGranted`).
`LateMax` bounds the commands whose outcome is open. The symmetric runs check
safety only. MemStore's one ID is enough: calls on different IDs share only the
mutex. Its clock allows an entry to be created, replaced, expire and be created
again. ResponseWriter has one status of each kind the code tells apart, and two
changes let the session differ between the first write and the return; its run
does not check for deadlock, since a response ends.
EdupassLogin's lists hold two roles, an MK role, a global one, attributes at two
schools and a malformed entry, in every order and with repeats; four entries are
enough for two roles, or a role with two attributes and a fourth that competes
with them. Its single entries have up to five segments, one more than a good
one. Its paths have up to three characters of all kinds, or a slash and up to
four of those that make dot segments; `MaxLength` is 5 in place of 1024 bytes. A
login ends, so its runs do not check for deadlock.
DockedDrawers has one window of each layout; an edge can be dragged in the widest
only. `MaxQueued` bounds by one how many components may
still await a render when an event comes: with none, handlers would never be
stale. Only the closed panels that hold another drawer or the pointer linger
(`Lingers`), since the end of any other's animation changes nothing. It follows one
pointer in one tab, and no caller sets `push` itself. HostApp has one tab, too: a
session may end in another, but nobody signs in there. It leaves out the browser's
Back within a document, and that React may keep showing the old view while a new one
loads. MockEdupass has every
kind of setting that `loadConfig` tells apart, and as many logins and boots as let a
second login meet the memory of a first and a third one a new key.
DockedDrawers and MockEdupass do not check for deadlock: a drawer need not be
touched again, and the logins are bounded. Nor does MemStore: when every caller
waits and the clock has stopped nothing is left to happen, but that is the very
state EveryCallReturns rules out, and it names the calls that are stuck.

**Fairness.** SessionFaults (EveryRequestEnds) assumes weak fairness of a
request's own steps: net/http runs each in its goroutine, the store client gives
every call an outcome, and the network delivers an answer or fails. Nobody is
assumed to send, log in or restart. MemStore (EveryCallReturns) assumes that a
goroutine runs on, and strong fairness of Lock: a `sync.Mutex` hands itself over to a
waiter that has waited for a millisecond. Nothing is assumed of a mutex that is kept:
one path that returned without unlocking would leave the others waiting for ever. HostApp (PagesSettle) assumes that the
browser ends every fetch, one way or the other; nothing is assumed of the
teacher.

**The violated runs.** SessionStaleUpdate: the doc of `authEdupassCallback` (`handler/auth.go:173`)
says that success and failure alike clear the pending login. On failure the
entry stays under its ID, and Update replaces it whole: a request that loaded it
earlier and commits later puts the pending login back. SessionSignIn shows that
this cannot happen after a success.

ReturnToTrimmed: the doc of `safeReturnTo` (`handler/auth.go:432`) says that a
redirect to its result lands on exactly that path on this site. A path that ends
in a space is accepted as it is, and loses the space on its way: `/a/.. ` passes
the check for dot segments and lands on `/`. The redirect stays on this site
(LandsOnThisSite), so what is lost is only the exact path.

NavGivesWay: a comment in `drawer.tsx` (line 279) says that the nav gets out of
the way for as long as a docked panel is open. When one docked drawer closes and
another opens in the same commit, the cleanup of the first expands the sidebar,
and the effect of the second still reads `collapsed` from a ref that only the
next render updates: the sidebar stays expanded beside the open panel.

**Other divergences met**, too small for a run of their own:

- A reload while a drawer is docked leaves `sidebar_state` false: the drawers'
  collapse is remembered as if it were the teacher's.
- The widest drag leaves the page 312 px, not `MIN_PAGE_WIDTH`: the panel's inset
  is not counted, nor is the sidebar's rail, and a width is not clamped again when
  the window shrinks.
- Two siblings can stay open if one is opened again between the request to close it
  and the next commit; OneUnderEachParent excepts it (`spared`).
- With two pointers, each on a handle of its own, the page keeps the `col-resize`
  cursor if the handle held first is let go first: the other restores what it found
  (`drawer.tsx:392-405`). CursorGivenBack is of one pointer.
- From tablet to desktop, the sidebar is left expanded if the drawer's media query
  is rendered first.
- The sidebar's Meetings link has no route and leads to the not-found view
  (`PUBLIC_HIDE_PG_FEATURES` hides it; the model is of the build that does not).
- After a deploy, a chunk of the host that is gone blanks the page until a reload.
- The mock's README says that without `?account` it signs in as the first account;
  a browser session it remembers comes first. It also says that it exits if a
  certificate and a certificate file are both set: it looks only when the method
  uses a certificate.

## What is proved

`tlapm` checks all proofs from nothing. The assumptions are the named ASSUMEs
of the modules (sentinels are no values; a memory store has no old entries; TTLs
are integers; statuses are those net/http accepts; drawers are finitely many and
nest once; sections, dead links and the host's own chunks are different things; a
setting is a text or a kind of file, and Teacher Workspace has a secret or a key),
and what SessionServer assumes: fresh draws and atomic store calls.

Of SessionServer:

- `TypeCorrect`: TypeOK and RequestsReady (a request has whatever its next step reads).
- `Invariant`: IInv. None of the properties below is inductive: that Update
  restores nothing holds because a session's ID was born with the session's own
  identity, and that Create gives nobody else's ID away holds because at most
  one request or late command can still create it. IInv says so: entries,
  sessions in requests, late updates, cookies and pages all agree with the
  identity their ID was *born* with (BornAsStored, SessionsBorn, LateCommands,
  AnswersFit, PagesStand), an ID not yet born has one creator (OneCreator,
  NoRivals, FreshKeys), and an ended ID has been born and has no entry
  (EndedForGood). The proof has one lemma per group of actions.
- `EndedStaysDead`, `BackendsActAsShown`, `CookiesNameStored`: from IInv.
- `SessionLayerImplementsLife`: every step maps to a step of SessionLife or to
  none, given IInv.
- `PendingStaysAtHome`, `SignedInCleared` (SignedInProofs): SignedInStaysCleared
  needs PendingInv on top of IInv. Until somebody has signed in with it, a pending
  login is held under one ID only (PendingAtHome): by requests that loaded that ID,
  its entry, late commands for it, and the callback that took it. When a sign-in
  with it has committed, that ID has ended; by EndedForGood it has no entry, and
  nothing that still holds the login can write one.
- `LoginsStayGranted`, `UsersSignInAsGranted` (SignedInProofs): that no two sessions
  have the same login's user says nothing of sessions yet to be stored, so
  GrantInv speaks of whoever an ID stands for (StandsAs): by its birth, by a request
  that will create it, or by a late command that may. Each such ID has a login of
  its own, granted to that user and redeemed. Only the callback that signs in makes
  an ID stand for a user; the ID is new, and the login it redeems was granted until
  then, so that no other ID has it. A login once redeemed must stay so: a redirect that
  is still on its way to the browser could ask Edupass for it again, if it were
  not sent once, for a login nobody knows yet (AskedOnce).

These hold for any number of requests, keys, users, attempts and late commands,
and for both providers.

Of MemStore, for any number of callers, IDs, data and TTLs:

- `StoreTypeOK`, `TTLAlwaysHonoured`: from MInv, which adds to the types that the
  caller between Lock and the end of its call, and only that one, holds the
  mutex (Mutex), that it has passed the argument checks (CallReady), that Create
  is about to write only where it has left nothing (Vacant), and that an entry
  expires no sooner than its TTL after the call that wrote it and no later than
  its TTL after that call returned (SpanKept).
- `MemStoreImplementsContract`: given MInv, Lookup is the instant at which Get,
  Create and Update take effect, Lock and Finish change nothing the contract
  sees, and a tick lets entries expire. Finish is the delicate step: what it
  stores is alive because a checked TTL is positive.

Of ResponseWriter, for any statuses and any number of changes:

- `RWInvariant`: RWInv. That what is sent fits the commit (AnswerFitsCommit) needs
  what the headers not yet sent must hold: no cookie before the commit, and afterwards
  the cookie exactly if the session was saved (Uncommitted, Committed). Before the
  status nothing is written, and the error only after a commit or a load that
  failed (Answered).
- `ResponseTypeOK`, `LogAgreesAlways`: from RWInv.
- `WritersKeepPromise`: every step maps to a step of SessionAnswer or to none, given
  RWInv. A write either commits, and then the answer it sends, if it sends one, is one
  of that outcome; or it comes after a commit, and then it sends the first answer or
  leaves the one sent as it is, whatever is added to its body.

Of EdupassLogin, for every groups claim, whatever its length, and for any sets of
schools, MK schools, role codes and attribute codes of the documented shape:

- `LoginInvariant`: LInv, which says of the entries and candidates gone through
  (Seen, Looked) what the properties say of all: the roles kept are those they
  grant, each once (Found). It rests on lemmas about the format: an entry put
  together from location and code is split into them, and what is split into
  them was put together from them (SplitOfEntry, EntryOfSplit).
- `UsersAreAsGranted`, `RefusalsNameReasons`, `UnusedReported`, `LoginTypeOK`:
  from LInv at the end.
- `RedirectsLandHere`: LandsOnThisSite, for every path to return to, of any length.
  The argument is about texts, not steps. A safe path (Safe) begins with one slash
  and has no tab, backslash or dot segment in it. Trimming therefore takes nothing off
  its front, no tab is dropped, a browser sees the separators that the code sees
  (SafeLandsHere), and no segment is one of dots, encoded or not
  (UnescapedDots), so that resolving returns the segments as they are
  (ResolvedWithoutDots). What is first, last or k-th in a text is found as the
  least or the greatest of a set of positions (Least, Greatest, NthPosition).

Of DockedDrawers, for any number of drawers, nested once, any windows, widths and
drags, and any number of components awaiting a render:

- `DockedTypes`, `SidebarCountsTheDocked`: together, since the count stays a natural
  number only because it is the number of drawers whose last effect docked them. A
  flush of effects takes away those that leave and adds those that join, and
  the difference is exactly what `ran` gains and loses.
- `DockingsAreClean`: from DockedInv, which adds to these that a drawer is painted
  for the window its effects run in and only while it is mounted (PaintedInv), and
  what a docking keeps true while it lasts: one over an expanded sidebar holds the
  provider's `dockedCollapsedSidebar`, and one over a collapsed sidebar never
  finds it expanded in a render (DockingInv).
- `PreferencesRemembered`, `CursorAlwaysGivenBack`: inductive as they stand, or
  nearly.
- `PageAlwaysMakesRoom`, `AlwaysOneUnderEachParent`: from GroupInv, which speaks of
  what the effects last ran with rather than of what is shown. Each drawer has
  registered the room it took then (PaddingInv), the registry holds those that were
  open then (RegisteredInv), and of two open beside each other one is being
  closed, or was spared (ExclusiveInv). A flush keeps the last: the last drawer of
  a group to open finds all the others registered. In a settled page
  the effects have run with what owners and window ask (SettledRan), and the
  properties follow.

Of HostApp, for any sections and dead links:

- `HostInvariant`: HostInv, which says where a teacher can be with whom the server
  takes them for (RightDocument: anything but the login page is a teacher's
  document, and whoever is on the login page or at Edupass is signed out), where
  the page to return to is kept (ReturnKept: in the query, then in the pending
  login, then in the query again), and that a refusal and a closed welcome
  leave their mark (RefusalKept, GreetingKept). What a request for a page ends
  in is two lemmas, for teachers and for strangers.
- `HostTypeOK`, `SectionsAlone`, `LayoutIsForTeachers`, `RefusalsExplained`,
  `WelcomedOnce`, `ReturnsAsAsked`: from HostInv.

Of MockEdupass, for any environments, secrets, certificates and clients, any values of
`account`, and any number of logins and boots:

- `MockInvariant`: MockInv. The mock that is up was accepted with its environment and
  has registered what that says (UpAsConfigured); a prompt is shown only to a login
  that meant it (PromptedAsMeant: a browser that remembers an account is sent to the
  login prompt only if the login asks for one); and whatever is issued is for whom
  its login means, signed with a key no older than that login (IssuedAsMeant).
- `MockTypeOK`, `DeveloperSignsInAsAsked`, `OnlyTheRegisteredClient`,
  `OnlyRestartsLoseKeys`: from MockInv. For the third, the registered secret is
  shown to be the file's up to its last character that is no newline
  (StripOfFile), and a client fits the environment exactly if it holds what was
  registered (FitsTheRegistered).

Model-checked only:

- Liveness (EveryRequestEnds, EveryCallReturns, PagesSettle), which is out of the
  prover's reach, as is ENABLED.
- AccountsAsDocumented, which compares three concrete tables, one of them in the MC
  module: there is nothing to generalise.

Induction over data is out of reach as well, since the library's induction theorems
take an operator. Where a proof needs it over numbers, it takes the least
counterexample instead (WFMin). Sums and other folds are never unfolded:
PageMakesRoom compares the sums of two functions, which are shown to be equal.

## What is not modelled

- Random draws that repeat: an ID or token is taken to be new. Commit's "ID
  already taken" is in the model and is reached by a Create whose late twin got
  there first, or not at all.
- A Valkey failover that loses acknowledged writes; nothing in the code
  addresses it.
- A method that CSRF does not check (GET, HEAD, OPTIONS) on `/api/` acts for the
  session's user whatever page sent it, so ActsAsShown is about the others.
- The order of writes inside SessionServer: its answers are sent whole.
  ResponseWriter has it for one request.
- The OAuth and JWT libraries: a login says which checks pass. A claim or code
  with unusual bytes in it is no different from an unrecognized one.
- Token masking, JSON, cookies' attributes, logging, templates and styles.
- Static assets and the development server's proxy: no state.
- The Valkey store's own argument checks and key prefix: the first are the memory
  store's, the second keeps other programs' keys apart.
- The proxy's claims, forwarded headers and error answers: stateless.
- The order of start and shutdown in `main.go`, sequential code around net/http;
  what requests see of it, a restart at any point, is in SessionServer.
- Configuration and dotenv: sequential code without interleaving, and what goes
  wrong stops the start. Random: how often a character is drawn is a matter of
  probabilities.
- Session TTL against cookie Max-Age: an entry may expire at any time in
  SessionServer, which covers every timing.
- The UI kit (`components/ui` but for the sidebar and the drawer): styled wrappers
  that keep no state of their own. What views look like, and the drawers that are
  not docked, which cover the page and register with nothing. No view of the host
  renders a docked drawer yet: DockedDrawers models the component for any page
  that does.
- `rsbuild.config.ts`: bundler settings.
