---------------------------- MODULE SessionServer ----------------------------
(***************************************************************************)
(* Sign-in, sign-out and the session store under concurrent requests of    *)
(* one browser: the session middleware (middleware/session.go) around the  *)
(* handlers of handler/auth.go, index.go and proxy.go, the store they share*)
(* and the browser and Edupass they talk to.                               *)
(*                                                                         *)
(* A request takes these steps, and any other request may take its own in  *)
(* between: it arrives with the cookie the browser held, loads a session,  *)
(* is handled (in memory only), commits in one store call, or in two when  *)
(* the ID changed, and is answered.  Answers reach the browser in any      *)
(* order or not at all.                                                    *)
(*                                                                         *)
(* Bounds: a request slot is reused, so the number of requests is not      *)
(* bounded, only how many are in flight; Headroom stops the browser from   *)
(* sending what the remaining keys and attempts could not serve; LateMax   *)
(* bounds the store commands whose outcome is not known yet.               *)
(***************************************************************************)
EXTENDS Session, FiniteSets, Integers

CONSTANTS Req,         \* request slots: what may be in flight at once
          Routes,      \* the routes a run exercises
          Provider,    \* TW_SESSION_STORE_PROVIDER
          Legacy,      \* IDs of entries of an older release
          LateMax      \* store commands with an unknown outcome, at most

AllRoutes == {"index", "login", "logout", "authEdupass", "callback", "api"}

ASSUME ConfigAssumption == /\ Routes \subseteq AllRoutes
                           /\ Provider \in {"memory", "valkey"}
                           /\ Legacy \subseteq Key
                           /\ Provider = "memory" => Legacy = {}
                           /\ LateMax \in Nat

VARIABLES
  store,      \* the entry under each key: a snapshot, Undecodable or None
  late,       \* commands that failed at the client and may still take effect
  pc,         \* how far each request has got
  call,       \* what each request asks
  sess,       \* the session of each request, once loaded
  superseded, \* the ID Commit has still to delete
  resp,       \* what each request will answer
  jar,        \* the session cookie the browser holds
  pages,      \* the pages the browser has open: token and user shown
  edupass,    \* what Edupass and the browser have made of each attempt
  grantee,    \* the user Edupass issued a code for
  drawn,      \* history: keys returned by random so far
  birth,      \* history: the identity each ID was first stored with
  ended,      \* history: IDs whose deletion the store has confirmed
  completed   \* history: attempts a callback took and committed

requestVars == <<pc, call, sess, superseded, resp>>
storeVars   == <<store, late, birth>>
browserVars == <<jar, pages>>
edupassVars == <<edupass, grantee>>
historyVars == <<ended, completed>>
vars == <<requestVars, storeVars, browserVars, edupassVars, drawn, historyVars>>

-----------------------------------------------------------------------------
(* Requests, answers and pages. *)

Page == [token : Key, user : User \cup {None}]

NoCall == [route |-> "none", cookie |-> None, attempt |-> None, page |-> None]

Call == [route : AllRoutes \cup {"none"}, cookie : Key \cup {None},
         attempt : Attempt \cup {None}, page : Page \cup {None}]

(* cookie: whether Set-Cookie carries the session's ID, expires the cookie or *)
(* is absent.  asks: the attempt of a redirect to Edupass.  took: the pending *)
(* login a callback took.  acts: the user named to a remote backend.          *)
Resp == [cookie : {"none", "session", "expired"}, page : Page \cup {None},
         asks : Attempt \cup {None}, took : Attempt \cup {None},
         acts : User \cup {None}]

Blank == [cookie |-> "none", page |-> None, asks |-> None, took |-> None, acts |-> None]

ASSUME PagesAreNotNone == None \notin Page

Command == [op : {"create", "update"}, id : Key, data : Snapshot]
           \cup [op : {"delete"}, id : Key, data : {None}]

Live(id) == store[id] \in Snapshot

-----------------------------------------------------------------------------
TypeOK ==
  /\ store \in [Key -> Snapshot \cup {None, Undecodable}]
  /\ late \subseteq Command
  /\ pc \in [Req -> {"idle", "arrived", "loaded", "handled", "superseding", "answered"}]
  /\ call \in [Req -> Call]
  /\ sess \in [Req -> Session \cup {None}]
  /\ superseded \in [Req -> Key \cup {None}]
  /\ resp \in [Req -> Resp]
  /\ jar \in Key \cup {None}
  /\ pages \subseteq Page
  /\ edupass \in [Attempt -> {"unused", "minted", "asked", "granted", "denied", "redeemed"}]
  /\ grantee \in [Attempt -> User \cup {None}]
  /\ drawn \subseteq Key
  /\ birth \in [Key -> Identity \cup {None}]
  /\ ended \subseteq Key
  /\ completed \in [Attempt -> {"no", "refused", "signedIn"}]

Init ==
  /\ store = [k \in Key |-> IF k \in Legacy THEN Undecodable ELSE None]
  /\ late = {}
  /\ pc = [r \in Req |-> "idle"]
  /\ call = [r \in Req |-> NoCall]
  /\ sess = [r \in Req |-> None]
  /\ superseded = [r \in Req |-> None]
  /\ resp = [r \in Req |-> Blank]
  /\ jar \in Legacy \cup {None}
  /\ pages = {}
  /\ edupass = [a \in Attempt |-> "unused"]
  /\ grantee = [a \in Attempt |-> None]
  /\ drawn = Legacy
  /\ birth = [k \in Key |-> None]
  /\ ended = {}
  /\ completed = [a \in Attempt |-> "no"]

-----------------------------------------------------------------------------
(* The browser sends requests. *)

MayDraw == {r \in Req : \/ pc[r] = "arrived"
                        \/ pc[r] = "loaded" /\ call[r].route = "callback"}
MayAsk  == {r \in Req : pc[r] \in {"arrived", "loaded"} /\ call[r].route = "authEdupass"}

(* The bound: every request in flight can still draw its key and its attempt. *)
Headroom(route) ==
  /\ Cardinality(MayDraw) < Cardinality(Key \ drawn)
  /\ route = "authEdupass" =>
       Cardinality(MayAsk) < Cardinality({a \in Attempt : edupass[a] = "unused"})

Send(r, c) ==
  /\ pc[r] = "idle"
  /\ c.route \in Routes
  /\ Headroom(c.route)
  /\ pc' = [pc EXCEPT ![r] = "arrived"]
  /\ call' = [call EXCEPT ![r] = c]
  /\ UNCHANGED <<sess, superseded, resp, storeVars, browserVars, edupassVars, drawn,
                 historyVars>>

(* A navigation, the sign-out form or the "log in with Edupass" link. *)
Browse(r, route) ==
  /\ route \in {"index", "login", "logout", "authEdupass"}
  /\ Send(r, [NoCall EXCEPT !.route = route, !.cookie = jar])

(* A script of an open page calls a remote backend with the page's token, by  *)
(* a method CSRF checks.  (A GET loads, authenticates and commits like index.)*)
SubmitApi(r, page) ==
  /\ page \in pages
  /\ Send(r, [NoCall EXCEPT !.route = "api", !.cookie = jar, !.page = page])

(* Edupass's redirect back, followed once, or again by a reload. *)
ReturnFromEdupass(r, a) ==
  /\ edupass[a] \in {"granted", "denied", "redeemed"}
  /\ Send(r, [NoCall EXCEPT !.route = "callback", !.cookie = jar, !.attempt = a])

(* The cookie's Max-Age passes, or the user clears their cookies. *)
DropCookie ==
  /\ jar # None
  /\ jar' = None
  /\ UNCHANGED <<requestVars, storeVars, pages, edupassVars, drawn, historyVars>>

-----------------------------------------------------------------------------
(* The session middleware loads a session. *)

(* The entry under the cookie's ID; the store has none under an empty ID. *)
Entry(r) == IF call[r].cookie = None THEN None ELSE store[call[r].cookie]

LoadSession(r) ==
  /\ pc[r] = "arrived"
  /\ Entry(r) \in Snapshot
  /\ sess' = [sess EXCEPT ![r] = Loaded(call[r].cookie, Entry(r))]
  /\ pc' = [pc EXCEPT ![r] = "loaded"]
  /\ UNCHANGED <<call, superseded, resp, storeVars, browserVars, edupassVars, drawn,
                 historyVars>>

(* No cookie, no entry, or one that cannot be decoded. *)
NewSession(r) ==
  /\ pc[r] = "arrived"
  /\ Entry(r) \notin Snapshot
  /\ \E k \in Key \ drawn :
       /\ sess' = [sess EXCEPT ![r] = New(k)]
       /\ drawn' = drawn \cup {k}
  /\ pc' = [pc EXCEPT ![r] = "loaded"]
  /\ UNCHANGED <<call, superseded, resp, storeVars, browserVars, edupassVars, historyVars>>

(* The store fails to load: a 500 without a cookie. *)
LoadFails(r) ==
  /\ pc[r] = "arrived"
  /\ Provider = "valkey"
  /\ pc' = [pc EXCEPT ![r] = "answered"]
  /\ UNCHANGED <<call, sess, superseded, resp, storeVars, browserVars, edupassVars, drawn,
                 historyVars>>

Forget(r) ==
  /\ pc' = [pc EXCEPT ![r] = "idle"]
  /\ call' = [call EXCEPT ![r] = NoCall]
  /\ sess' = [sess EXCEPT ![r] = None]
  /\ superseded' = [superseded EXCEPT ![r] = None]
  /\ resp' = [resp EXCEPT ![r] = Blank]

(* The client leaves before the session loads: nothing is written. *)
Disconnect(r) ==
  /\ pc[r] = "arrived"
  /\ Forget(r)
  /\ UNCHANGED <<storeVars, browserVars, edupassVars, drawn, historyVars>>

-----------------------------------------------------------------------------
(* The handlers change the session in memory and choose an answer. *)

Asks(r, route) == pc[r] = "loaded" /\ call[r].route = route

Handle(r, route, s, answer) ==
  /\ Asks(r, route)
  /\ sess' = [sess EXCEPT ![r] = s]
  /\ resp' = [resp EXCEPT ![r] = answer]
  /\ pc' = [pc EXCEPT ![r] = "handled"]
  /\ UNCHANGED <<call, superseded, storeVars, browserVars, historyVars>>

PageOf(s) == [token |-> s.csrf, user |-> s.user]

(* A page that cannot be rendered is a 500, which commits like any answer.     *)
Rendered(r) == {None, PageOf(sess[r])}

(* The middleware before the handlers: what it lets through. *)
RequireAuth(r) == IsAuthenticated(sess[r])

CSRF(r) == VerifyCSRFToken(sess[r], call[r].page.token)

(* Without a user, a redirect to the login page. *)
HandleIndex(r) ==
  /\ Asks(r, "index")
  /\ \E page \in IF RequireAuth(r) THEN Rendered(r) ELSE {None} :
       Handle(r, "index", sess[r], [Blank EXCEPT !.page = page])
  /\ UNCHANGED <<edupassVars, drawn>>

(* A user who is logged in already is sent on to where they came from. *)
HandleLogin(r) ==
  /\ Asks(r, "login")
  /\ \E page \in IF IsAuthenticated(sess[r]) THEN {None} ELSE Rendered(r) :
       Handle(r, "login", sess[r], [Blank EXCEPT !.page = page])
  /\ UNCHANGED <<edupassVars, drawn>>

HandleLogout(r) ==
  /\ Handle(r, "logout", Destroy(sess[r]), Blank)
  /\ UNCHANGED <<edupassVars, drawn>>

(* The proxy names the session's user to the remote backend, or finds no such  *)
(* backend.  The backend acts before the session commits.                      *)
HandleApi(r) ==
  /\ Asks(r, "api")
  /\ \E acts \in IF RequireAuth(r) /\ CSRF(r) THEN {None, sess[r].user} ELSE {None} :
       Handle(r, "api", sess[r], [Blank EXCEPT !.acts = acts])
  /\ UNCHANGED <<edupassVars, drawn>>

(* A new attempt replaces the session's pending login. *)
HandleAuthEdupass(r) ==
  \E a \in Attempt :
    /\ edupass[a] = "unused"
    /\ edupass' = [edupass EXCEPT ![a] = "minted"]
    /\ Handle(r, "authEdupass", SetPending(sess[r], a), [Blank EXCEPT !.asks = a])
    /\ UNCHANGED <<grantee, drawn>>

(* Every failing path of the callback: no pending login, a state of another   *)
(* attempt, an error from Edupass, an exchange that fails (having used up the *)
(* code or not, for instance because the client left), or a token without the *)
(* claims or the one base role the session needs.                             *)
CallbackRefuses(r) ==
  LET a == call[r].attempt IN
  /\ Handle(r, "callback", TakePending(sess[r]), [Blank EXCEPT !.took = sess[r].pending])
  /\ \/ UNCHANGED edupass
     \/ /\ sess[r].pending = a
        /\ edupass[a] = "granted"
        /\ edupass' = [edupass EXCEPT ![a] = "redeemed"]
  /\ UNCHANGED <<grantee, drawn>>

(* A bug: a code that another callback has used up signs in as well. *)
CallbackSignsInAgain(r) ==
  LET a == call[r].attempt IN
  /\ Asks(r, "callback")
  /\ sess[r].pending = a
  /\ edupass[a] \in {"granted", "redeemed"}
  /\ edupass' = [edupass EXCEPT ![a] = "redeemed"]
  /\ \E k \in Key \ drawn :
       /\ Handle(r, "callback", SetUser(sess[r], k, grantee[a]), [Blank EXCEPT !.took = a])
       /\ drawn' = drawn \cup {k}
  /\ UNCHANGED grantee

(* The attempt is the session's own, Edupass gives a token for its code once, *)
(* and the token passes every check.                                          *)
CallbackSignsIn(r) ==
  LET a == call[r].attempt IN
  /\ Asks(r, "callback")
  /\ sess[r].pending = a
  /\ edupass[a] = "granted"
  /\ edupass' = [edupass EXCEPT ![a] = "redeemed"]
  /\ \E k \in Key \ drawn :
       /\ Handle(r, "callback", SetUser(sess[r], k, grantee[a]), [Blank EXCEPT !.took = a])
       /\ drawn' = drawn \cup {k}
  /\ UNCHANGED grantee

-----------------------------------------------------------------------------
(* The middleware commits the session just before the headers are sent, and   *)
(* adds the cookie if that succeeds.                                          *)

Answer(r, answer) ==
  /\ pc' = [pc EXCEPT ![r] = "answered"]
  /\ resp' = [resp EXCEPT ![r] = answer]

WithCookie(r, kind) == [resp[r] EXCEPT !.cookie = kind]

(* The callback's outcome, once the store has confirmed it. *)
Completes(r, outcome) ==
  completed' = IF resp[r].took = None THEN completed
               ELSE [completed EXCEPT ![resp[r].took] = outcome]

(* A bug: the error is logged and the cookie is set all the same. *)
CommitFailsUnnoticed(r, command) ==
  /\ Provider = "valkey"
  /\ Cardinality(late) < LateMax
  /\ late' = late \cup {command}
  /\ Answer(r, WithCookie(r, "session"))
  /\ UNCHANGED <<sess, superseded, store, birth, ended, completed>>

(* The store call returns an error, so the answer becomes a 500 without a      *)
(* cookie.  The command may still take effect, later or never.                 *)
CommitFails(r, command) ==
  /\ Provider = "valkey"
  /\ Cardinality(late) < LateMax
  /\ late' = late \cup {command}
  /\ Answer(r, Blank)
  /\ UNCHANGED <<sess, superseded, store, birth, ended, completed>>

Deletes(id) == store' = [store EXCEPT ![id] = None]

(* Commit of a destroyed session.  Delete does nothing for an empty ID. *)
CommitDestroyed(r) ==
  /\ pc[r] = "handled"
  /\ sess[r].destroyed
  /\ LET id == sess[r].storedID IN
     \/ /\ id = None
        /\ Answer(r, WithCookie(r, "expired"))
        /\ UNCHANGED <<sess, superseded, storeVars, historyVars>>
     \/ /\ id # None
        /\ Deletes(id)
        /\ ended' = ended \cup {id}
        /\ Answer(r, WithCookie(r, "expired"))
        /\ UNCHANGED <<sess, superseded, late, birth, completed>>
     \/ /\ id # None
        /\ CommitFails(r, [op |-> "delete", id |-> id, data |-> None])
  /\ UNCHANGED <<call, browserVars, edupassVars, drawn>>

(* Commit of a session whose ID has changed: Create, which fails if the ID is  *)
(* taken, then Delete of the superseded entry, if there is one.                *)
CommitCreate(r) ==
  /\ pc[r] = "handled"
  /\ ~sess[r].destroyed
  /\ sess[r].id # sess[r].storedID
  /\ LET id == sess[r].id IN
     \/ IF store[id] = None
        THEN /\ store' = [store EXCEPT ![id] = SnapshotOf(sess[r])]
             /\ birth' = [birth EXCEPT ![id] = IdentityOf(sess[r])]
             /\ superseded' = [superseded EXCEPT ![r] = sess[r].storedID]
             /\ sess' = [sess EXCEPT ![r] = Created(sess[r])]
             /\ IF sess[r].storedID = None
                THEN /\ Answer(r, WithCookie(r, "session"))
                     /\ Completes(r, "refused")
                ELSE /\ pc' = [pc EXCEPT ![r] = "superseding"]
                     /\ UNCHANGED <<resp, completed>>
             /\ UNCHANGED <<late, ended>>
        ELSE /\ Answer(r, Blank)
             /\ UNCHANGED <<sess, superseded, storeVars, historyVars>>
     \/ CommitFails(r, [op |-> "create", id |-> id, data |-> SnapshotOf(sess[r])])
  /\ UNCHANGED <<call, browserVars, edupassVars, drawn>>

(* The superseded entry is deleted on a best-effort basis: a failure leaves    *)
(* it to its TTL, and the session is committed all the same.                   *)
DeleteSuperseded(r) ==
  /\ pc[r] = "superseding"
  /\ Answer(r, WithCookie(r, "session"))
  /\ \/ /\ Deletes(superseded[r])
        /\ ended' = ended \cup {superseded[r]}
        /\ Completes(r, "signedIn")
        /\ UNCHANGED late
     \/ /\ Provider = "valkey"
        /\ Cardinality(late) < LateMax
        /\ late' = late \cup {[op |-> "delete", id |-> superseded[r], data |-> None]}
        /\ UNCHANGED <<store, historyVars>>
  /\ UNCHANGED <<call, sess, superseded, birth, browserVars, edupassVars, drawn>>

(* Two bugs: Update writes whether or not there is an entry, and the request   *)
(* waits for its entry to come back.                                           *)
CommitUpdateUpserting(r) ==
  /\ pc[r] = "handled"
  /\ ~sess[r].destroyed
  /\ sess[r].id = sess[r].storedID
  /\ store' = [store EXCEPT ![sess[r].id] = SnapshotOf(sess[r])]
  /\ Answer(r, WithCookie(r, "session"))
  /\ Completes(r, "refused")
  /\ UNCHANGED <<sess, superseded, late, birth, ended, call, browserVars, edupassVars, drawn>>

CommitUpdateWaiting(r) == CommitUpdateUpserting(r) /\ store[sess[r].id] # None

(* Commit of a session under the ID it was loaded with: Update, which writes   *)
(* nothing and sends no cookie if the entry is gone.                           *)
CommitUpdate(r) ==
  /\ pc[r] = "handled"
  /\ ~sess[r].destroyed
  /\ sess[r].id = sess[r].storedID
  /\ LET id == sess[r].id IN
     \/ IF store[id] # None
        THEN /\ store' = [store EXCEPT ![id] = SnapshotOf(sess[r])]
             /\ Answer(r, WithCookie(r, "session"))
             /\ Completes(r, "refused")
             /\ UNCHANGED <<sess, superseded, late, birth, ended>>
        ELSE /\ Answer(r, resp[r])
             /\ UNCHANGED <<sess, superseded, storeVars, historyVars>>
     \/ CommitFails(r, [op |-> "update", id |-> id, data |-> SnapshotOf(sess[r])])
  /\ UNCHANGED <<call, browserVars, edupassVars, drawn>>

-----------------------------------------------------------------------------
(* Answers travel to the browser. *)

Deliver(r) ==
  /\ pc[r] = "answered"
  /\ jar' = CASE resp[r].cookie = "session" -> sess[r].id
              [] resp[r].cookie = "expired" -> None
              [] OTHER -> jar
  /\ pages' = pages \cup ({resp[r].page} \ {None})
  /\ edupass' = IF resp[r].asks = None THEN edupass
                ELSE [edupass EXCEPT ![resp[r].asks] = "asked"]
  /\ Forget(r)
  /\ UNCHANGED <<storeVars, grantee, drawn, historyVars>>

LoseResponse(r) ==
  /\ pc[r] = "answered"
  /\ Forget(r)
  /\ UNCHANGED <<storeVars, browserVars, edupassVars, drawn, historyVars>>

(* The user logs in at Edupass or declines. *)
EdupassGrants(a, u) ==
  /\ edupass[a] = "asked"
  /\ edupass' = [edupass EXCEPT ![a] = "granted"]
  /\ grantee' = [grantee EXCEPT ![a] = u]
  /\ UNCHANGED <<requestVars, storeVars, browserVars, drawn, historyVars>>

EdupassDenies(a) ==
  /\ edupass[a] = "asked"
  /\ edupass' = [edupass EXCEPT ![a] = "denied"]
  /\ UNCHANGED <<requestVars, storeVars, browserVars, grantee, drawn, historyVars>>

-----------------------------------------------------------------------------
(* The store and the process. *)

(* A command whose reply was lost takes effect after all. *)
LateEffect(c) ==
  /\ c \in late
  /\ late' = late \ {c}
  /\ CASE c.op = "delete" -> /\ store' = [store EXCEPT ![c.id] = None]
                             /\ UNCHANGED birth
       [] c.op = "update" /\ store[c.id] # None ->
                             /\ store' = [store EXCEPT ![c.id] = c.data]
                             /\ UNCHANGED birth
       [] c.op = "create" /\ store[c.id] = None ->
                             /\ store' = [store EXCEPT ![c.id] = c.data]
                             /\ birth' = [birth EXCEPT ![c.id] = [csrf |-> c.data.csrf,
                                                                  user |-> c.data.user]]
       [] OTHER -> UNCHANGED <<store, birth>>
  /\ UNCHANGED <<requestVars, browserVars, edupassVars, drawn, historyVars>>

LateLost(c) ==
  /\ c \in late
  /\ late' = late \ {c}
  /\ UNCHANGED <<requestVars, store, birth, browserVars, edupassVars, drawn, historyVars>>

(* The TTL of an entry passes. *)
Expire(id) ==
  /\ store[id] # None
  /\ store' = [store EXCEPT ![id] = None]
  /\ UNCHANGED <<requestVars, late, birth, browserVars, edupassVars, drawn, historyVars>>

(* The process ends, by a deployment or a crash, and starts again.  Requests   *)
(* still inside it die; the memory provider's entries die with them.           *)
Dying(r) == pc[r] # "answered"

Restart ==
  /\ pc' = [r \in Req |-> IF Dying(r) THEN "idle" ELSE pc[r]]
  /\ call' = [r \in Req |-> IF Dying(r) THEN NoCall ELSE call[r]]
  /\ sess' = [r \in Req |-> IF Dying(r) THEN None ELSE sess[r]]
  /\ superseded' = [r \in Req |-> IF Dying(r) THEN None ELSE superseded[r]]
  /\ resp' = [r \in Req |-> IF Dying(r) THEN Blank ELSE resp[r]]
  /\ store' = IF Provider = "memory" THEN [k \in Key |-> None] ELSE store
  /\ UNCHANGED <<late, birth, browserVars, edupassVars, drawn, historyVars>>

-----------------------------------------------------------------------------
Sending(r) == \/ \E route \in Routes : Browse(r, route)
              \/ \E page \in pages : SubmitApi(r, page)
              \/ \E a \in Attempt : ReturnFromEdupass(r, a)

Loading(r) == LoadSession(r) \/ NewSession(r) \/ LoadFails(r) \/ Disconnect(r)

Handling(r) == \/ HandleIndex(r) \/ HandleLogin(r) \/ HandleLogout(r) \/ HandleApi(r)
               \/ HandleAuthEdupass(r) \/ CallbackRefuses(r) \/ CallbackSignsIn(r)

Committing(r) == \/ CommitDestroyed(r) \/ CommitCreate(r)
                 \/ DeleteSuperseded(r) \/ CommitUpdate(r)

Answering(r) == Deliver(r) \/ LoseResponse(r)

Environment == \/ DropCookie
               \/ \E a \in Attempt, u \in User : EdupassGrants(a, u)
               \/ \E a \in Attempt : EdupassDenies(a)
               \/ \E c \in late : LateEffect(c) \/ LateLost(c)
               \/ \E id \in Key : Expire(id)
               \/ Restart

Next == \/ \E r \in Req : \/ Sending(r) \/ Loading(r) \/ Handling(r)
                          \/ Committing(r) \/ Answering(r)
        \/ Environment

Spec == Init /\ [][Next]_vars

(* net/http runs every request to its end; the network delivers or fails.     *)
(* Nobody has to send a request, log in or restart the process.               *)
Fairness == \A r \in Req : WF_vars(Loading(r) \/ Handling(r) \/ Committing(r) \/ Answering(r))

FairSpec == Spec /\ Fairness

-----------------------------------------------------------------------------
(* Properties. *)

(* An ID whose sign-out, or whose replacement at sign-in, the store confirmed *)
(* never has an entry again, whatever requests, late commands or restarts     *)
(* follow: Update must not bring back what Delete removed (session.go:112,    *)
(* middleware/session.go:115-121).                                            *)
EndedIsDead == \A id \in ended : store[id] = None

(* The layer keeps the promise of SessionLife: no ID begins twice, lives on   *)
(* after its end or changes whom it stands for.  An ID that somebody knew     *)
(* before a sign-in never stands for the user (SetUser, session.go:237-248).  *)
life == [id \in Key |-> IF Live(id) THEN "live"
                        ELSE IF birth[id] = None /\ id \notin Legacy THEN "unborn"
                        ELSE "dead"]

who == [id \in Key |-> IF Live(id) THEN [csrf |-> store[id].csrf, user |-> store[id].user]
                                   ELSE birth[id]]

Life == INSTANCE SessionLife WITH ID <- Key, Who <- Identity, Nobody <- None

ImplementsLife == Life!LifeSpec

(* By a method CSRF checks, a remote backend acts for the user the page shows, *)
(* however long ago the page was delivered and whoever has signed in or out    *)
(* since (requireauth.go, csrf.go:48, proxy.go:69): a stale page's token       *)
(* verifies under no other user's session.                                     *)
ActsAsShown == \A r \in Req : resp[r].acts # None => resp[r].acts = call[r].page.user

(* A Set-Cookie names an ID that was stored, with the user and token of the   *)
(* session that answered; so a page is delivered with a cookie its token      *)
(* verifies under (middleware/session.go:114-150).                            *)
CookieNamesStored ==
  \A r \in Req : pc[r] = "answered" /\ resp[r].cookie = "session" =>
    /\ birth[sess[r].id] = IdentityOf(sess[r])
    /\ resp[r].page # None => birth[sess[r].id].csrf = resp[r].page.token

PendingIn(a) == {id \in Key : Live(id) /\ store[id].pending = a}

(* Once a sign-in has committed and its old entry is deleted, no live entry   *)
(* holds its pending login, though requests that loaded it may still commit   *)
(* (auth.go:173, session.go:147-152).                                         *)
SignedInStaysCleared == \A a \in Attempt : completed[a] = "signedIn" => PendingIn(a) = {}

(* A session has the user that Edupass granted to a login, and no two have the *)
(* same login's: two callbacks of it in flight, late creations and repeated    *)
(* answers included, it signs in one ID (auth.go:266-296, session.go:237-248). *)
SignedIn == {id \in Key : Live(id) /\ store[id].user # None}

SignedInAsGranted ==
  \E login \in [SignedIn -> Attempt] :
    /\ \A i, j \in SignedIn : login[i] = login[j] => i = j
    /\ \A id \in SignedIn : /\ edupass[login[id]] = "redeemed"
                            /\ grantee[login[id]] = store[id].user

(* What auth.go:173-174 says of every callback, refused ones too: the pending *)
(* login is cleared, so a repeated callback finds none.                       *)
NoPendingAfterCallback == \A a \in Attempt : completed[a] # "no" => PendingIn(a) = {}

(* Every request is answered, lost or killed, whatever its session meets in   *)
(* the store: no outcome leaves it without a next step.                       *)
EveryRequestEnds == \A r \in Req : pc[r] # "idle" ~> pc[r] = "idle"

-----------------------------------------------------------------------------
(* The inductive invariant behind EndedIsDead, ImplementsLife, ActsAsShown and *)
(* CookieNamesStored (proved in SessionServerProofs).                          *)

InServer(r) == pc[r] \in {"loaded", "handled", "superseding"}

(* What a request has at each point: a session from loading to its answer,     *)
(* no answer before it is handled, and what its handler reads.                 *)
RequestsReady ==
  \A r \in Req :
    /\ InServer(r) => sess[r] # None
    /\ pc[r] = "answered" /\ resp[r].cookie = "session" => sess[r] # None
    /\ pc[r] \in {"idle", "arrived", "loaded"} => resp[r] = Blank
    /\ pc[r] = "superseding" => superseded[r] # None
    /\ call[r].route = "callback" => call[r].attempt # None
    /\ call[r].route = "api" => call[r].page # None

TypeInv == TypeOK /\ RequestsReady

(* The request will create its ID's entry. *)
Creating(r) == pc[r] \in {"loaded", "handled"} /\ sess[r].id # sess[r].storedID

(* Drawn for one session and not stored yet. *)
Unborn(k) == k \in drawn \ Legacy /\ birth[k] = None /\ store[k] = None

(* Who stands behind a token. *)
Stands(k, u) == birth[k] = [csrf |-> k, user |-> u]

(* A key nobody has drawn has no past, and only old entries cannot be decoded. *)
FreshKeys == /\ Legacy \subseteq drawn
             /\ \A k \in Key \ drawn : birth[k] = None /\ store[k] = None
             /\ \A k \in Legacy : birth[k] = None /\ store[k] \in {None, Undecodable}
             /\ \A k \in Key \ Legacy : store[k] # Undecodable

(* An entry keeps the identity its ID was born with. *)
BornAsStored == \A k \in Key : Live(k) => Stands(k, store[k].user) /\ store[k].csrf = k

(* A session in a request is either waiting to be born, or the ID it was       *)
(* loaded or created under was born with its identity.                         *)
SessionBorn(r) ==
  /\ InServer(r) => sess[r].csrf = sess[r].id
  /\ InServer(r) /\ sess[r].id = sess[r].storedID /\ ~sess[r].destroyed =>
       Stands(sess[r].id, sess[r].user)
  /\ InServer(r) /\ sess[r].storedID # None => birth[sess[r].storedID] # None
  /\ pc[r] = "superseding" => /\ birth[superseded[r]] # None
                              /\ sess[r].id = sess[r].storedID /\ ~sess[r].destroyed
  /\ Creating(r) => Unborn(sess[r].id)
  /\ pc[r] = "loaded" => ~sess[r].destroyed
  /\ pc[r] = "loaded" /\ Creating(r) => sess[r].user = None

SessionsBorn == \A r \in Req : SessionBorn(r)

(* Two sessions waiting to be born have different IDs. *)
OneCreator == \A r, q \in Req : Creating(r) /\ Creating(q) /\ sess[r].id = sess[q].id => r = q

(* A late update cannot change an identity, a late creation is of an ID that  *)
(* was not born ...                                                            *)
LateCommand(c) ==
  /\ c.op # "delete" => c.data.csrf = c.id
  /\ c.op = "update" => Stands(c.id, c.data.user)
  /\ c.op = "create" => Unborn(c.id)

LateCommands == \A c \in late : LateCommand(c)

(* ... and is the only one of that ID, in a request or late.                   *)
NoRivals ==
  \A c \in late : c.op = "create" =>
    /\ \A r \in Req : Creating(r) => sess[r].id # c.id
    /\ \A d \in late : d.op = "create" /\ d.id = c.id => d = c

EndedForGood == \A id \in ended : birth[id] # None /\ store[id] = None

(* Tokens shown in pages, and the pages that requests quote. *)
PagesStand ==
  /\ \A p \in pages : Stands(p.token, p.user)
  /\ \A r \in Req :
       /\ call[r].page # None => Stands(call[r].page.token, call[r].page.user)
       /\ resp[r].acts # None => call[r].page # None /\ resp[r].acts = call[r].page.user

(* What an answer carries fits the session it comes from. *)
AnswerFit(r) ==
  /\ resp[r].page # None => /\ sess[r] # None
                            /\ resp[r].page = PageOf(sess[r])
                            /\ ~sess[r].destroyed
  /\ resp[r].cookie = "session" => /\ sess[r] # None
                                   /\ Stands(sess[r].id, sess[r].user)
                                   /\ sess[r].csrf = sess[r].id
  /\ pc[r] = "answered" /\ resp[r].page # None => Stands(resp[r].page.token, resp[r].page.user)

AnswersFit == \A r \in Req : AnswerFit(r)

IInv == /\ TypeInv /\ FreshKeys /\ BornAsStored /\ SessionsBorn /\ OneCreator
        /\ LateCommands /\ NoRivals /\ EndedForGood /\ PagesStand /\ AnswersFit

-----------------------------------------------------------------------------
(* The inductive invariant behind SignedInStaysCleared (proved in              *)
(* SignedInProofs).  A pending login belongs to one session: a is in the entry *)
(* of id, may still come to be there, or was when a request took it that is    *)
(* signing in.                                                                 *)
HeldBy(r, a, id) ==
  \/ InServer(r) /\ sess[r].id = id /\ sess[r].pending = a
  \/ /\ resp[r].took = a
     /\ \/ pc[r] = "handled" /\ sess[r].storedID = id /\ sess[r].id # id
        \/ pc[r] = "superseding" /\ superseded[r] = id

HeldAt(a, id) ==
  \/ Live(id) /\ store[id].pending = a
  \/ \E c \in late : c.op # "delete" /\ c.id = id /\ c.data.pending = a
  \/ \E r \in Req : HeldBy(r, a, id)

PendingAtHome(a) ==
  /\ \A i, j \in Key : HeldAt(a, i) /\ HeldAt(a, j) => i = j
  /\ completed[a] = "signedIn" => \A id \in Key : HeldAt(a, id) => id \in ended
  /\ edupass[a] = "unused" => completed[a] # "signedIn" /\ \A id \in Key : ~HeldAt(a, id)

(* A session's ID changes no sooner than its handler signs in. *)
LoadedUnderItsID ==
  \A r \in Req : pc[r] = "loaded" => sess[r].storedID \in {None, sess[r].id}

PendingInv == LoadedUnderItsID /\ \A a \in Attempt : PendingAtHome(a)

-----------------------------------------------------------------------------
(* The inductive invariant behind SignedInAsGranted (proved in                 *)
(* SignedInProofs): each ID that is signed in, is about to be or has been has  *)
(* a login of its own, redeemed by the user it stands for.                     *)
StandsAs(id, u) ==
  \/ birth[id] # None /\ birth[id].user = u
  \/ \E r \in Req : Creating(r) /\ sess[r].id = id /\ sess[r].user = u
  \/ \E c \in late : c.op = "create" /\ c.id = id /\ c.data.user = u

Grants(login) ==
  /\ \A i, j \in Key : login[i] = login[j] /\ login[i] # None => i = j
  /\ \A id \in Key : login[id] # None => edupass[login[id]] = "redeemed"
  /\ \A id \in Key, u \in User : StandsAs(id, u) =>
                                  login[id] # None /\ grantee[login[id]] = u

(* A redirect to Edupass is on its way once, before Edupass knows of it.       *)
AskedOnce ==
  \A r \in Req : resp[r].asks # None =>
    /\ edupass[resp[r].asks] = "minted"
    /\ \A q \in Req : resp[q].asks = resp[r].asks => q = r

GrantInv == AskedOnce /\ \E login \in [Key -> Attempt \cup {None}] : Grants(login)
=============================================================================
