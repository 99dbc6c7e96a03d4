------------------------- MODULE SessionServerProofs -------------------------
(***************************************************************************)
(* Safety of SessionServer for every number of requests, keys, users and   *)
(* attempts, under either store provider and any number of late commands.  *)
(* First the types; then IInv is inductive, and the safety properties and  *)
(* the refinement of SessionLife follow from it.                           *)
(***************************************************************************)
EXTENDS SessionServer, TLAPS

USE NoneIsNoValue, SentinelsAreNoRecords, PagesAreNotNone,
    ConfigAssumption

-----------------------------------------------------------------------------
(* What the session operators return is a session. *)
LEMMA StartOps ==
  ASSUME NEW k \in Key
  PROVE  New(k) \in Session /\ \A snap \in Snapshot : Loaded(k, snap) \in Session
  BY DEF Session, Snapshot, New, Loaded

LEMMA HandlerOps ==
  ASSUME NEW s \in Session
  PROVE  /\ Destroy(s) \in Session
         /\ TakePending(s) \in Session
         /\ \A a \in Attempt : SetPending(s, a) \in Session
         /\ \A k \in Key, u \in User \cup {None} : SetUser(s, k, u) \in Session
  BY DEF Session, SetUser, Destroy, SetPending, TakePending

LEMMA CommitOps ==
  ASSUME NEW s \in Session
  PROVE  /\ Created(s) \in Session
         /\ SnapshotOf(s) \in Snapshot
         /\ IdentityOf(s) \in Identity
  BY DEF Session, Snapshot, Identity, Created, SnapshotOf, IdentityOf

LEMMA InitType == Init => TypeOK
  BY DEF Init, TypeOK, Call, NoCall, Resp, Blank, AllRoutes

LEMMA ForgetType ==
  ASSUME TypeOK, NEW r \in Req, Forget(r)
  PROVE  /\ pc' \in [Req -> {"idle", "arrived", "loaded", "handled", "superseding", "answered"}]
         /\ call' \in [Req -> Call]
         /\ sess' \in [Req -> Session \cup {None}]
         /\ superseded' \in [Req -> Key \cup {None}]
         /\ resp' \in [Req -> Resp]
  BY DEF TypeOK, Forget, Call, NoCall, Resp, Blank, AllRoutes

LEMMA SendingType == ASSUME TypeOK, NEW r \in Req, Sending(r) PROVE TypeOK'
<1>1. ASSUME NEW c \in Call, Send(r, c) PROVE TypeOK'
  BY <1>1 DEF TypeOK, Send, storeVars, browserVars, edupassVars, historyVars
<1>2. ASSUME NEW route \in Routes, Browse(r, route) PROVE TypeOK'
  <2>1. [NoCall EXCEPT !.route = route, !.cookie = jar] \in Call
    BY <1>2 DEF Browse, NoCall, Call, AllRoutes, TypeOK
  <2>. QED BY <1>1, <1>2, <2>1 DEF Browse
<1>3. ASSUME NEW page \in pages, SubmitApi(r, page) PROVE TypeOK'
  <2>1. [NoCall EXCEPT !.route = "api", !.cookie = jar, !.page = page] \in Call
    BY <1>3 DEF SubmitApi, NoCall, Call, AllRoutes, TypeOK
  <2>. QED BY <1>1, <1>3, <2>1 DEF SubmitApi
<1>4. ASSUME NEW a \in Attempt, ReturnFromEdupass(r, a) PROVE TypeOK'
  <2>1. [NoCall EXCEPT !.route = "callback", !.cookie = jar, !.attempt = a] \in Call
    BY <1>4 DEF ReturnFromEdupass, NoCall, Call, AllRoutes, TypeOK
  <2>. QED BY <1>1, <1>4, <2>1 DEF ReturnFromEdupass
<1>. QED BY <1>2, <1>3, <1>4 DEF Sending

LEMMA LoadingType == ASSUME TypeOK, NEW r \in Req, Loading(r) PROVE TypeOK'
<1>1. CASE LoadSession(r)
  <2>1. call[r].cookie \in Key /\ Entry(r) \in Snapshot
    BY <1>1 DEF LoadSession, Entry, TypeOK, Call
  <2>2. Loaded(call[r].cookie, Entry(r)) \in Session
    BY <2>1, StartOps
  <2>. QED BY <1>1, <2>2 DEF LoadSession, TypeOK, storeVars, browserVars, edupassVars,
                             historyVars
<1>2. CASE NewSession(r)
  <2>1. PICK k \in Key \ drawn : /\ sess' = [sess EXCEPT ![r] = New(k)]
                                 /\ drawn' = drawn \cup {k}
    BY <1>2 DEF NewSession
  <2>2. New(k) \in Session
    BY DEF New, Session
  <2>. QED BY <1>2, <2>1, <2>2 DEF NewSession, TypeOK, storeVars, browserVars,
                                   edupassVars, historyVars
<1>3. CASE LoadFails(r)
  BY <1>3 DEF LoadFails, TypeOK, storeVars, browserVars, edupassVars, historyVars
<1>4. CASE Disconnect(r)
  BY <1>4, ForgetType DEF Disconnect, TypeOK, storeVars, browserVars, edupassVars, historyVars
<1>. QED BY <1>1, <1>2, <1>3, <1>4 DEF Loading

(* Whatever it decides, a handler leaves a session and a well-formed answer.   *)
LEMMA HandleType ==
  ASSUME TypeOK, NEW r \in Req, NEW route, NEW s \in Session, NEW answer \in Resp,
         Handle(r, route, s, answer)
  PROVE  /\ sess' \in [Req -> Session \cup {None}]
         /\ resp' \in [Req -> Resp]
         /\ pc' \in [Req -> {"idle", "arrived", "loaded", "handled", "superseding", "answered"}]
         /\ UNCHANGED <<call, superseded, store, late, birth, jar, pages, ended, completed>>
  BY DEF TypeOK, Handle, storeVars, browserVars, historyVars

LEMMA Answers ==
  ASSUME NEW p \in Page \cup {None}, NEW a \in Attempt \cup {None}, NEW u \in User \cup {None}
  PROVE  /\ Blank \in Resp
         /\ [Blank EXCEPT !.page = p] \in Resp
         /\ [Blank EXCEPT !.asks = a] \in Resp
         /\ [Blank EXCEPT !.took = a] \in Resp
         /\ [Blank EXCEPT !.acts = u] \in Resp
  BY DEF Blank, Resp

(* A handler keeps the session a session.                                      *)
LEMMA HandlingHandles ==
  ASSUME TypeInv, NEW r \in Req, Handling(r)
  PROVE  \E s \in Session, answer \in Resp : Handle(r, call[r].route, s, answer)
<1>. USE DEF TypeInv
<1>l. pc[r] = "loaded"
  BY DEF Handling, HandleIndex, HandleLogin, HandleLogout, HandleApi, HandleAuthEdupass,
         CallbackRefuses, CallbackSignsIn, Handle, Asks
<1>s. sess[r] \in Session
  BY <1>l DEF TypeOK, RequestsReady, InServer
<1>f. /\ sess[r].user \in User \cup {None}
      /\ sess[r].pending \in Attempt \cup {None}
      /\ PageOf(sess[r]) \in Page
  BY <1>s DEF PageOf, Page, Session
<1>r. ASSUME NEW route, NEW s, NEW answer, Handle(r, route, s, answer)
      PROVE  Handle(r, call[r].route, s, answer)
  BY <1>r DEF Handle, Asks
<1>1. CASE HandleIndex(r) \/ HandleLogin(r)
  <2>1. PICK page \in Rendered(r) : Handle(r, call[r].route, sess[r], [Blank EXCEPT !.page = page])
    BY <1>1 DEF HandleIndex, HandleLogin, Rendered, Handle, Asks
  <2>2. [Blank EXCEPT !.page = page] \in Resp
    BY <1>f, Answers DEF Rendered
  <2>. QED BY <2>1, <2>2, <1>s, <1>r
<1>3. CASE HandleLogout(r)
  BY <1>3, <1>s, <1>r, HandlerOps, Answers DEF HandleLogout
<1>4. CASE HandleApi(r)
  <2>1. PICK acts \in {None, sess[r].user} :
          Handle(r, "api", sess[r], [Blank EXCEPT !.acts = acts])
    BY <1>4 DEF HandleApi
  <2>2. [Blank EXCEPT !.acts = acts] \in Resp
    BY <1>f, Answers
  <2>. QED BY <2>1, <2>2, <1>s, <1>r
<1>5. CASE HandleAuthEdupass(r)
  <2>1. PICK a \in Attempt : Handle(r, "authEdupass", SetPending(sess[r], a), [Blank EXCEPT !.asks = a])
    BY <1>5 DEF HandleAuthEdupass
  <2>2. SetPending(sess[r], a) \in Session /\ [Blank EXCEPT !.asks = a] \in Resp
    BY <1>s, HandlerOps, Answers
  <2>. QED BY <2>1, <2>2, <1>r
<1>6. CASE CallbackRefuses(r)
  <2>1. TakePending(sess[r]) \in Session /\ [Blank EXCEPT !.took = sess[r].pending] \in Resp
    BY <1>s, <1>f, HandlerOps, Answers
  <2>. QED BY <1>6, <2>1, <1>r DEF CallbackRefuses
<1>7. CASE CallbackSignsIn(r)
  <2>. DEFINE a == call[r].attempt
  <2>1. PICK k \in Key : Handle(r, "callback", SetUser(sess[r], k, grantee[a]), [Blank EXCEPT !.took = a])
    BY <1>7 DEF CallbackSignsIn
  <2>2. a \in Attempt /\ grantee[a] \in User \cup {None}
    BY <1>7 DEF TypeOK, RequestsReady, Call, CallbackSignsIn, Asks
  <2>3. SetUser(sess[r], k, grantee[a]) \in Session /\ [Blank EXCEPT !.took = a] \in Resp
    BY <2>2, <1>s, HandlerOps, Answers
  <2>. QED BY <2>1, <2>3, <1>r
<1>. QED BY <1>1, <1>3, <1>4, <1>5, <1>6, <1>7 DEF Handling

LEMMA HandlingType ==
  ASSUME TypeInv, NEW r \in Req, Handling(r) PROVE TypeOK'
<1>1. PICK s \in Session, answer \in Resp : Handle(r, call[r].route, s, answer)
  BY HandlingHandles
<1>2. UNCHANGED drawn \/ \E k \in Key : drawn' = drawn \cup {k}
  BY DEF Handling, HandleIndex, HandleLogin, HandleLogout, HandleApi, HandleAuthEdupass,
         CallbackRefuses, CallbackSignsIn
<1>3. /\ UNCHANGED grantee
      /\ edupass' \in [Attempt -> {"unused", "minted", "asked", "granted", "denied", "redeemed"}]
  BY DEF TypeInv, TypeOK, Handling, HandleIndex, HandleLogin, HandleLogout, HandleApi, HandleAuthEdupass,
         CallbackRefuses, CallbackSignsIn, edupassVars
<1>. QED BY <1>1, <1>2, <1>3, HandleType DEF TypeInv, TypeOK

(* A fault leaves a well-formed command behind.                                *)
LEMMA CommitFailsType ==
  ASSUME TypeOK, NEW r \in Req, NEW command \in Command, CommitFails(r, command)
  PROVE  /\ late' \subseteq Command
         /\ pc' \in [Req -> {"idle", "arrived", "loaded", "handled", "superseding", "answered"}]
         /\ resp' \in [Req -> Resp]
         /\ UNCHANGED <<sess, superseded, store, birth, ended, completed>>
  BY Answers DEF TypeOK, CommitFails, Answer

LEMMA CookieAnswers ==
  ASSUME TypeOK, NEW r \in Req
  PROVE  WithCookie(r, "session") \in Resp /\ WithCookie(r, "expired") \in Resp
  BY DEF TypeOK, WithCookie, Resp

LEMMA CompletesType ==
  ASSUME TypeOK, NEW r \in Req, NEW o \in {"refused", "signedIn"}, Completes(r, o)
  PROVE  completed' \in [Attempt -> {"no", "refused", "signedIn"}]
  BY DEF TypeOK, Completes

LEMMA CommittingType ==
  ASSUME TypeInv, NEW r \in Req, Committing(r) PROVE TypeOK'
<1>. USE DEF TypeInv
<1>l. pc[r] \in {"handled", "superseding"}
  BY DEF Committing, CommitDestroyed, CommitCreate, CommitUpdate, DeleteSuperseded
<1>s. sess[r] \in Session
  BY <1>l DEF TypeOK, RequestsReady, InServer
<1>o. sess[r].id \in Key /\ sess[r].storedID \in Key \cup {None}
  BY <1>s DEF Session
<1>1. CASE CommitDestroyed(r)
  <2>. DEFINE id == sess[r].storedID
  <2>1. CASE id = None /\ Answer(r, WithCookie(r, "expired"))
             /\ UNCHANGED <<sess, superseded, storeVars, historyVars>>
    BY <1>1, <2>1, CookieAnswers
       DEF CommitDestroyed, TypeOK, Answer, browserVars, edupassVars, historyVars, storeVars
  <2>2. CASE /\ id # None /\ Deletes(id) /\ ended' = ended \cup {id}
             /\ Answer(r, WithCookie(r, "expired"))
             /\ UNCHANGED <<sess, superseded, late, birth, completed>>
    BY <1>1, <1>o, <2>2, CookieAnswers
       DEF CommitDestroyed, TypeOK, Answer, Deletes, browserVars, edupassVars
  <2>3. CASE id # None /\ CommitFails(r, [op |-> "delete", id |-> id, data |-> None])
    <3>1. [op |-> "delete", id |-> id, data |-> None] \in Command
      BY <1>o, <2>3 DEF Command
    <3>. QED BY <1>1, <2>3, <3>1, CommitFailsType DEF CommitDestroyed, TypeOK, browserVars,
                                                      edupassVars
  <2>. QED BY <1>1, <2>1, <2>2, <2>3 DEF CommitDestroyed
<1>2. CASE CommitCreate(r)
  <2>. DEFINE id == sess[r].id
  <2>1. CASE /\ store[id] = None
             /\ store' = [store EXCEPT ![id] = SnapshotOf(sess[r])]
             /\ birth' = [birth EXCEPT ![id] = IdentityOf(sess[r])]
             /\ superseded' = [superseded EXCEPT ![r] = sess[r].storedID]
             /\ sess' = [sess EXCEPT ![r] = Created(sess[r])]
             /\ IF sess[r].storedID = None
                THEN /\ Answer(r, WithCookie(r, "session"))
                     /\ Completes(r, "refused")
                ELSE /\ pc' = [pc EXCEPT ![r] = "superseding"]
                     /\ UNCHANGED <<resp, completed>>
             /\ UNCHANGED <<late, ended>>
    <3>1. /\ store' \in [Key -> Snapshot \cup {None, Undecodable}]
          /\ birth' \in [Key -> Identity \cup {None}]
          /\ superseded' \in [Req -> Key \cup {None}]
          /\ sess' \in [Req -> Session \cup {None}]
      BY <1>s, <1>o, <2>1, CommitOps DEF TypeOK
    <3>2. /\ pc' \in [Req -> {"idle", "arrived", "loaded", "handled", "superseding", "answered"}]
          /\ resp' \in [Req -> Resp]
          /\ completed' \in [Attempt -> {"no", "refused", "signedIn"}]
      BY <2>1, CookieAnswers, CompletesType DEF TypeOK, Answer
    <3>. QED BY <1>2, <2>1, <3>1, <3>2 DEF CommitCreate, TypeOK, browserVars, edupassVars
  <2>2. CASE Answer(r, Blank) /\ UNCHANGED <<sess, superseded, storeVars, historyVars>>
    BY <1>2, <2>2, Answers
       DEF CommitCreate, TypeOK, Answer, browserVars, edupassVars, storeVars, historyVars
  <2>3. CASE CommitFails(r, [op |-> "create", id |-> id, data |-> SnapshotOf(sess[r])])
    <3>1. [op |-> "create", id |-> id, data |-> SnapshotOf(sess[r])] \in Command
      BY <1>s, <1>o, CommitOps DEF Command
    <3>. QED BY <1>2, <2>3, <3>1, CommitFailsType DEF CommitCreate, TypeOK, browserVars,
                                                      edupassVars
  <2>. QED BY <1>2, <2>1, <2>2, <2>3 DEF CommitCreate
<1>3. CASE DeleteSuperseded(r)
  <2>1. superseded[r] \in Key
    BY <1>3 DEF DeleteSuperseded, TypeOK, TypeInv, RequestsReady
  <2>2. [op |-> "delete", id |-> superseded[r], data |-> None] \in Command
    BY <2>1 DEF Command
  <2>3. /\ store' \in [Key -> Snapshot \cup {None, Undecodable}]
        /\ late' \subseteq Command
        /\ ended' \subseteq Key
        /\ completed' \in [Attempt -> {"no", "refused", "signedIn"}]
    BY <1>3, <2>1, <2>2, CompletesType DEF DeleteSuperseded, Deletes, TypeOK, historyVars
  <2>. QED BY <1>3, <2>3, CookieAnswers DEF DeleteSuperseded, Answer, TypeOK, browserVars,
                                            edupassVars
<1>4. CASE CommitUpdate(r)
  <2>. DEFINE id == sess[r].id
  <2>1. CASE /\ store' = [store EXCEPT ![id] = SnapshotOf(sess[r])]
             /\ Answer(r, WithCookie(r, "session"))
             /\ Completes(r, "refused")
             /\ UNCHANGED <<sess, superseded, late, birth, ended>>
    BY <1>4, <1>s, <1>o, <2>1, CommitOps, CookieAnswers, CompletesType
       DEF CommitUpdate, TypeOK, Answer, browserVars, edupassVars
  <2>2. CASE Answer(r, resp[r]) /\ UNCHANGED <<sess, superseded, storeVars, historyVars>>
    BY <1>4, <2>2 DEF CommitUpdate, TypeOK, Answer, browserVars, edupassVars, storeVars,
                      historyVars
  <2>3. CASE CommitFails(r, [op |-> "update", id |-> id, data |-> SnapshotOf(sess[r])])
    <3>1. [op |-> "update", id |-> id, data |-> SnapshotOf(sess[r])] \in Command
      BY <1>s, <1>o, CommitOps DEF Command
    <3>. QED BY <1>4, <2>3, <3>1, CommitFailsType DEF CommitUpdate, TypeOK, browserVars,
                                                      edupassVars
  <2>. QED BY <1>4, <2>1, <2>2, <2>3 DEF CommitUpdate
<1>. QED BY <1>1, <1>2, <1>3, <1>4 DEF Committing

LEMMA AnsweringType == ASSUME TypeInv, NEW r \in Req, Answering(r) PROVE TypeOK'
<1>1. CASE Deliver(r)
  <2>1. jar' \in Key \cup {None}
    <3>1. CASE resp[r].cookie = "session"
      BY <1>1, <3>1 DEF Deliver, TypeInv, TypeOK, RequestsReady, Session
    <3>2. CASE resp[r].cookie # "session"
      BY <1>1, <3>2 DEF Deliver, TypeInv, TypeOK
    <3>. QED BY <3>1, <3>2
  <2>2. pages' \subseteq Page
    BY <1>1 DEF Deliver, TypeInv, TypeOK, Resp
  <2>3. edupass' \in [Attempt -> {"unused", "minted", "asked", "granted", "denied", "redeemed"}]
    BY <1>1 DEF Deliver, TypeInv, TypeOK, Resp
  <2>. QED BY <1>1, <2>1, <2>2, <2>3, ForgetType
           DEF Deliver, TypeInv, TypeOK, storeVars, historyVars
<1>2. CASE LoseResponse(r)
  BY <1>2, ForgetType DEF LoseResponse, TypeInv, TypeOK, storeVars, browserVars, edupassVars,
                          historyVars
<1>. QED BY <1>1, <1>2 DEF Answering

LEMMA EnvironmentType ==
  ASSUME TypeOK, Environment
  PROVE  TypeOK'
<1>1. CASE DropCookie
  BY <1>1 DEF DropCookie, TypeOK, requestVars, storeVars, edupassVars, historyVars
<1>2. ASSUME NEW a \in Attempt, NEW u \in User, EdupassGrants(a, u) PROVE TypeOK'
  BY <1>2 DEF EdupassGrants, TypeOK, requestVars, storeVars, browserVars, historyVars
<1>3. ASSUME NEW a \in Attempt, EdupassDenies(a) PROVE TypeOK'
  BY <1>3 DEF EdupassDenies, TypeOK, requestVars, storeVars, browserVars, historyVars
<1>4. ASSUME NEW c \in late, LateEffect(c) PROVE TypeOK'
  <2>1. c \in Command
    BY DEF TypeOK
  <2>2. CASE c.op = "delete"
    BY <1>4, <2>1, <2>2 DEF LateEffect, TypeOK, Command, requestVars, browserVars,
                            edupassVars, historyVars
  <2>3. CASE c.op # "delete"
    <3>1. c.data \in Snapshot /\ c.id \in Key
      BY <2>1, <2>3 DEF Command
    <3>2. [csrf |-> c.data.csrf, user |-> c.data.user] \in Identity
      BY <3>1 DEF Snapshot, Identity
    <3>3. /\ store' \in [Key -> Snapshot \cup {None, Undecodable}]
          /\ birth' \in [Key -> Identity \cup {None}]
      BY <1>4, <2>3, <3>1, <3>2 DEF LateEffect, TypeOK
    <3>. QED BY <1>4, <3>3 DEF LateEffect, TypeOK, requestVars, browserVars, edupassVars,
                               historyVars
  <2>. QED BY <2>2, <2>3
<1>5. ASSUME NEW c \in late, LateLost(c) PROVE TypeOK'
  BY <1>5 DEF LateLost, TypeOK, requestVars, browserVars, edupassVars, historyVars
<1>6. ASSUME NEW id \in Key, Expire(id) PROVE TypeOK'
  BY <1>6 DEF Expire, TypeOK, requestVars, browserVars, edupassVars, historyVars
<1>7. CASE Restart
  BY <1>7 DEF Restart, TypeOK, Call, NoCall, Resp, Blank, AllRoutes, browserVars, edupassVars,
              historyVars
<1>. QED BY <1>1, <1>2, <1>3, <1>4, <1>5, <1>6, <1>7 DEF Environment

(* No step leaves a request without what its next step reads.                  *)
LEMMA ReadyStep == ASSUME TypeInv, TypeOK', [Next]_vars PROVE RequestsReady'
<1>. USE DEF TypeInv, RequestsReady, InServer
<1>1. ASSUME NEW r \in Req, Sending(r) PROVE RequestsReady'
  <2>1. /\ pc[r] = "idle" /\ pc' = [pc EXCEPT ![r] = "arrived"]
        /\ UNCHANGED <<sess, superseded, resp>>
    BY <1>1 DEF Sending, Browse, SubmitApi, ReturnFromEdupass, Send
  <2>2. /\ call'[r].route = "callback" => call'[r].attempt # None
        /\ call'[r].route = "api" => call'[r].page # None
        /\ \A q \in Req \ {r} : call'[q] = call[q]
    <3>1. ASSUME NEW route \in Routes, Browse(r, route)
          PROVE  /\ call'[r].route \notin {"callback", "api"}
                 /\ \A q \in Req \ {r} : call'[q] = call[q]
      BY <3>1 DEF Browse, Send, NoCall, TypeOK
    <3>2. CASE \E page \in pages : SubmitApi(r, page)
      BY <3>2 DEF SubmitApi, Send, NoCall, TypeOK
    <3>3. CASE \E a \in Attempt : ReturnFromEdupass(r, a)
      BY <3>3 DEF ReturnFromEdupass, Send, NoCall, TypeOK
    <3>. QED BY <1>1, <3>1, <3>2, <3>3 DEF Sending
  <2>. QED BY <2>1, <2>2 DEF TypeOK
<1>2. ASSUME NEW r \in Req, LoadSession(r) PROVE RequestsReady'
  <2>1. Loaded(call[r].cookie, Entry(r)) # None
    BY <1>2, StartOps DEF LoadSession, Entry, TypeOK, Call
  <2>. QED BY <1>2, <2>1 DEF LoadSession, TypeOK
<1>3. ASSUME NEW r \in Req, NewSession(r) PROVE RequestsReady'
  <2>1. \A k \in Key : New(k) # None
    BY StartOps
  <2>. QED BY <1>3, <2>1 DEF NewSession, TypeOK
<1>4. ASSUME NEW r \in Req, LoadFails(r) PROVE RequestsReady'
  BY <1>4 DEF LoadFails, TypeOK, Blank
<1>5. ASSUME NEW r \in Req, Disconnect(r) \/ Answering(r) PROVE RequestsReady'
  BY <1>5 DEF Disconnect, Answering, Deliver, LoseResponse, Forget, TypeOK, NoCall
<1>6. ASSUME NEW r \in Req, Handling(r) PROVE RequestsReady'
  <2>1. PICK s \in Session, answer \in Resp : Handle(r, call[r].route, s, answer)
    BY <1>6, HandlingHandles
  <2>. QED BY <2>1 DEF Handle, TypeOK
<1>7. ASSUME NEW r \in Req, CommitDestroyed(r) PROVE RequestsReady'
  BY <1>7 DEF CommitDestroyed, CommitFails, Answer, WithCookie, Blank, TypeOK, storeVars
<1>8. ASSUME NEW r \in Req, CommitCreate(r) PROVE RequestsReady'
  <2>1. Created(sess[r]) # None
    BY <1>8, CommitOps DEF CommitCreate, TypeOK
  <2>. QED BY <1>8, <2>1 DEF CommitCreate, CommitFails, Answer, WithCookie, Blank, TypeOK,
                             storeVars
<1>9. ASSUME NEW r \in Req, DeleteSuperseded(r) PROVE RequestsReady'
  BY <1>9 DEF DeleteSuperseded, Answer, WithCookie, TypeOK
<1>10. ASSUME NEW r \in Req, CommitUpdate(r) PROVE RequestsReady'
  BY <1>10 DEF CommitUpdate, CommitFails, Answer, WithCookie, Blank, TypeOK, storeVars
<1>11. CASE Restart
  BY <1>11 DEF Restart, Dying, NoCall, TypeOK
<1>12. CASE UNCHANGED requestVars
  BY <1>12 DEF requestVars
<1>13. ASSUME Environment, ~Restart PROVE UNCHANGED requestVars
  BY <1>13 DEF Environment, DropCookie, EdupassGrants, EdupassDenies, LateEffect, LateLost,
               Expire
<1>. QED BY <1>1, <1>2, <1>3, <1>4, <1>5, <1>6, <1>7, <1>8, <1>9, <1>10, <1>11, <1>12, <1>13
         DEF Next, Loading, Committing, vars

LEMMA TypeStep == TypeInv /\ [Next]_vars => TypeInv'
<1>. SUFFICES ASSUME TypeInv, [Next]_vars PROVE TypeInv'
  OBVIOUS
<1>1. TypeOK'
  <2>1. CASE Next
    BY <2>1, SendingType, LoadingType, HandlingType, CommittingType, AnsweringType,
       EnvironmentType DEF Next, TypeInv
  <2>2. CASE UNCHANGED vars
    BY <2>2 DEF vars, requestVars, storeVars, browserVars, edupassVars, historyVars, TypeInv,
                TypeOK
  <2>. QED BY <2>1, <2>2
<1>. QED BY <1>1, ReadyStep DEF TypeInv

LEMMA InitReady == Init => TypeInv
  BY InitType DEF Init, TypeInv, RequestsReady, InServer, NoCall

(* The variables keep their types, and every request has what its next step    *)
(* reads: a handler never runs without a session, and Commit never deletes an  *)
(* ID it did not load.                                                         *)
THEOREM TypeCorrect == Spec => [](TypeOK /\ RequestsReady)
<1>1. TypeInv => TypeOK /\ RequestsReady
  BY DEF TypeInv
<1>. QED BY InitReady, TypeStep, <1>1, PTL DEF Spec

-----------------------------------------------------------------------------
LEMMA InitInv == Init => IInv
<1>. SUFFICES ASSUME Init PROVE IInv
  OBVIOUS
<1>1. TypeInv
  BY InitReady
<1>2. FreshKeys /\ BornAsStored /\ EndedForGood
  BY DEF Init, FreshKeys, BornAsStored, EndedForGood, Live, Stands
<1>3. SessionsBorn /\ OneCreator /\ LateCommands /\ NoRivals
  BY DEF Init, SessionsBorn, SessionBorn, OneCreator, LateCommands, NoRivals, InServer, Creating
<1>4. PagesStand /\ AnswersFit
  BY DEF Init, PagesStand, AnswersFit, AnswerFit, NoCall, Blank
<1>. QED BY <1>1, <1>2, <1>3, <1>4 DEF IInv

(* Who stands behind a born ID is somebody. *)
LEMMA BornIsSome ==
  ASSUME NEW k \in Key, NEW u \in User \cup {None}, Stands(k, u)
  PROVE  birth[k] # None
<1>1. [csrf |-> k, user |-> u] \in Identity
  BY DEF Identity
<1>. QED BY <1>1 DEF Stands

(* A step that changes no entry and draws no key. *)
StoreQuiet == UNCHANGED <<store, birth, late, drawn, ended>>

LEMMA QuietStore ==
  ASSUME IInv, StoreQuiet
  PROVE  FreshKeys' /\ BornAsStored' /\ EndedForGood'
  BY DEF IInv, StoreQuiet, FreshKeys, BornAsStored, EndedForGood, Live, Stands

(* One request moves on without changing an entry or its own identity. *)
LEMMA QuietSessions ==
  ASSUME IInv, StoreQuiet, TypeInv',
         \A q \in Req : InServer(q)' =>
            /\ InServer(q)
            /\ \/ pc'[q] = pc[q] /\ sess'[q] = sess[q] /\ superseded'[q] = superseded[q]
               \/ /\ pc'[q] = "handled" /\ pc[q] = "loaded"
                  /\ sess'[q].id = sess[q].id /\ sess'[q].csrf = sess[q].csrf
                  /\ sess'[q].storedID = sess[q].storedID
                  /\ sess'[q].destroyed \/ sess'[q].user = sess[q].user
  PROVE  SessionsBorn' /\ OneCreator' /\ LateCommands' /\ NoRivals'
<1>1. \A q \in Req : Creating(q)' => Creating(q) /\ sess'[q].id = sess[q].id
  BY DEF IInv, InServer, Creating
<1>2. ASSUME NEW q \in Req PROVE SessionBorn(q)'
  <2>1. SessionBorn(q)
    BY DEF IInv, SessionsBorn
  <2>2. (Creating(q) => Unborn(sess[q].id))'
    BY <1>1, <2>1 DEF SessionBorn, StoreQuiet, Unborn
  <2>. QED BY <2>1, <2>2 DEF SessionBorn, StoreQuiet, Stands, InServer, Creating
<1>3. OneCreator'
  BY <1>1 DEF IInv, OneCreator
<1>4. LateCommands'
  BY DEF IInv, LateCommands, LateCommand, Unborn, Stands, StoreQuiet
<1>5. NoRivals'
  BY <1>1 DEF IInv, NoRivals, StoreQuiet
<1>. QED BY <1>2, <1>3, <1>4, <1>5 DEF SessionsBorn

LEMMA SendingInv == ASSUME IInv, NEW r \in Req, Sending(r), TypeInv' PROVE IInv'
<1>. USE DEF TypeInv, TypeOK
<1>1. /\ StoreQuiet /\ UNCHANGED <<sess, superseded, resp, pages>>
      /\ pc[r] = "idle" /\ pc' = [pc EXCEPT ![r] = "arrived"]
      /\ \A q \in Req \ {r} : call'[q] = call[q]
  <2>1. PICK c : Send(r, c)
    BY DEF Sending, Browse, SubmitApi, ReturnFromEdupass
  <2>2. StoreQuiet /\ UNCHANGED <<sess, superseded, resp, pages>>
    BY <2>1 DEF Send, StoreQuiet, storeVars, browserVars, historyVars
  <2>3. pc[r] = "idle" /\ pc' = [pc EXCEPT ![r] = "arrived"] /\ call' = [call EXCEPT ![r] = c]
    BY <2>1 DEF Send
  <2>4. call \in [Req -> Call]
    BY DEF IInv
  <2>. QED BY <2>2, <2>3, <2>4
<1>2. call'[r].page # None => call'[r].page \in pages
  <2>1. ASSUME NEW route \in Routes, Browse(r, route) PROVE call'[r].page = None
    BY <2>1 DEF Browse, Send, NoCall, IInv
  <2>2. ASSUME NEW page \in pages, SubmitApi(r, page) PROVE call'[r].page \in pages
    BY <2>2 DEF SubmitApi, Send, NoCall, IInv
  <2>3. ASSUME NEW a \in Attempt, ReturnFromEdupass(r, a) PROVE call'[r].page = None
    BY <2>3 DEF ReturnFromEdupass, Send, NoCall, IInv
  <2>. QED BY <2>1, <2>2, <2>3 DEF Sending
<1>3. SessionsBorn' /\ OneCreator' /\ LateCommands' /\ NoRivals'
  BY <1>1, QuietSessions DEF InServer, IInv
<1>4. PagesStand'
  BY <1>1, <1>2 DEF IInv, PagesStand, Stands, StoreQuiet, RequestsReady, Blank
<1>5. AnswersFit'
  BY <1>1 DEF IInv, AnswersFit, AnswerFit, Stands, StoreQuiet, RequestsReady, Blank
<1>. QED BY <1>1, <1>3, <1>4, <1>5, QuietStore DEF IInv

LEMMA LoadingInv == ASSUME IInv, NEW r \in Req, Loading(r), TypeInv' PROVE IInv'
<1>. USE DEF TypeInv, TypeOK
<1>1. CASE LoadSession(r)
  <2>. DEFINE id == call[r].cookie
  <2>1. /\ StoreQuiet /\ UNCHANGED <<superseded, resp, call, pages>>
        /\ pc[r] = "arrived" /\ pc' = [pc EXCEPT ![r] = "loaded"]
        /\ sess' = [sess EXCEPT ![r] = Loaded(id, store[id])]
        /\ id \in Key /\ Live(id)
    <3>1. id \in Key /\ Entry(r) = store[id] /\ Live(id)
      BY <1>1 DEF LoadSession, Entry, Live, IInv, Call
    <3>. QED BY <1>1, <3>1 DEF LoadSession, StoreQuiet, storeVars, browserVars, historyVars
  <2>2. /\ Stands(id, store[id].user) /\ store[id].csrf = id /\ birth[id] # None
    BY <2>1, BornIsSome DEF IInv, BornAsStored, Live, Snapshot
  <2>3. /\ sess'[r].id = id /\ sess'[r].csrf = id /\ sess'[r].user = store[id].user
        /\ sess'[r].storedID = id /\ ~sess'[r].destroyed
    BY <2>1, <2>2 DEF Loaded, IInv
  <2>4. \A q \in Req : Creating(q)' => q # r /\ Creating(q) /\ sess'[q].id = sess[q].id
    BY <2>1, <2>3 DEF Creating, IInv
  <2>5. ASSUME NEW q \in Req PROVE SessionBorn(q)'
    <3>1. CASE q = r
      BY <2>1, <2>2, <2>3, <2>4, <3>1 DEF SessionBorn, StoreQuiet, Stands, InServer, IInv
    <3>2. CASE q # r
      <4>1. pc'[q] = pc[q] /\ sess'[q] = sess[q] /\ superseded'[q] = superseded[q]
        BY <2>1, <3>2 DEF IInv
      <4>. QED BY <2>1, <4>1 DEF SessionBorn, SessionsBorn, StoreQuiet, Unborn, Stands,
                                 InServer, Creating, IInv
    <3>. QED BY <3>1, <3>2
  <2>6. OneCreator' /\ LateCommands' /\ NoRivals'
    BY <2>1, <2>4 DEF OneCreator, LateCommands, LateCommand, NoRivals, IInv, StoreQuiet,
                      Unborn, Stands
  <2>7. PagesStand'
    BY <2>1 DEF PagesStand, IInv, StoreQuiet, Stands
  <2>8. AnswersFit'
    <3>1. ASSUME NEW q \in Req PROVE AnswerFit(q)'
      <4>1. AnswerFit(q)
        BY DEF IInv, AnswersFit
      <4>2. CASE q = r
        BY <2>1, <4>2 DEF AnswerFit, IInv, RequestsReady, Blank
      <4>3. CASE q # r
        <5>1. pc'[q] = pc[q] /\ sess'[q] = sess[q]
          BY <2>1, <4>3 DEF IInv
        <5>. QED BY <2>1, <4>1, <5>1 DEF AnswerFit, StoreQuiet, Stands
      <4>. QED BY <4>2, <4>3
    <3>. QED BY <3>1 DEF AnswersFit
  <2>. QED BY <2>1, <2>5, <2>6, <2>7, <2>8, QuietStore DEF IInv, SessionsBorn
<1>2. CASE NewSession(r)
  <2>1. PICK k \in Key \ drawn : /\ sess' = [sess EXCEPT ![r] = New(k)]
                                 /\ drawn' = drawn \cup {k}
    BY <1>2 DEF NewSession
  <2>2. /\ UNCHANGED <<store, birth, late, ended, superseded, resp, call, pages>>
        /\ pc[r] = "arrived" /\ pc' = [pc EXCEPT ![r] = "loaded"]
    BY <1>2 DEF NewSession, storeVars, browserVars, historyVars
  <2>3. /\ sess'[r].id = k /\ sess'[r].csrf = k /\ sess'[r].user = None
        /\ sess'[r].storedID = None /\ ~sess'[r].destroyed
    BY <2>1 DEF New, IInv
  <2>4. \A q \in Req \ {r} : /\ pc'[q] = pc[q] /\ sess'[q] = sess[q]
                             /\ superseded'[q] = superseded[q]
                             /\ Creating(q)' <=> Creating(q)
    BY <2>1, <2>2 DEF IInv, Creating
  <2>5. Unborn(k)'
    BY <2>1, <2>2 DEF IInv, FreshKeys, Unborn
  <2>6. ASSUME NEW j, Unborn(j) PROVE Unborn(j)' /\ j # k
    BY <2>1, <2>2, <2>6 DEF Unborn
  <2>7. ASSUME NEW q \in Req PROVE SessionBorn(q)'
    <3>1. CASE q = r
      BY <2>2, <2>3, <2>5, <3>1 DEF SessionBorn, InServer, IInv
    <3>2. CASE q # r
      <4>1. Creating(q) => (Unborn(sess[q].id))'
        BY <2>4, <2>6, <3>2 DEF IInv, SessionsBorn, SessionBorn
      <4>. QED BY <2>2, <2>4, <3>2, <4>1 DEF SessionBorn, SessionsBorn, Stands, InServer, IInv
    <3>. QED BY <3>1, <3>2
  <2>8. OneCreator'
    <3>1. \A q \in Req \ {r} : Creating(q) => sess[q].id # k
      BY <2>6 DEF IInv, SessionsBorn, SessionBorn
    <3>. QED BY <2>3, <2>4, <3>1 DEF IInv, OneCreator
  <2>9. LateCommands'
    BY <2>2, <2>6 DEF IInv, LateCommands, LateCommand, Stands
  <2>10. NoRivals'
    <3>1. \A c \in late : c.op = "create" => c.id # k
      BY <2>6 DEF IInv, LateCommands, LateCommand
    <3>. QED BY <2>2, <2>3, <2>4, <3>1 DEF IInv, NoRivals
  <2>11. FreshKeys' /\ BornAsStored' /\ EndedForGood'
    BY <2>1, <2>2 DEF IInv, FreshKeys, BornAsStored, EndedForGood, Live, Stands
  <2>12. PagesStand' /\ AnswersFit'
    BY <2>2, <2>4 DEF PagesStand, AnswersFit, AnswerFit, IInv, Stands, RequestsReady, Blank
  <2>. QED BY <2>7, <2>8, <2>9, <2>10, <2>11, <2>12 DEF IInv, SessionsBorn
<1>3. CASE LoadFails(r)
  <2>1. /\ StoreQuiet /\ UNCHANGED <<sess, superseded, resp, pages, call>>
        /\ pc[r] = "arrived" /\ pc' = [pc EXCEPT ![r] = "answered"]
    BY <1>3 DEF LoadFails, StoreQuiet, storeVars, browserVars, historyVars
  <2>2. SessionsBorn' /\ OneCreator' /\ LateCommands' /\ NoRivals'
    BY <2>1, QuietSessions DEF InServer, IInv
  <2>3. PagesStand' /\ AnswersFit'
    BY <2>1 DEF PagesStand, AnswersFit, AnswerFit, IInv, Stands, StoreQuiet, RequestsReady, Blank
  <2>. QED BY <2>1, <2>2, <2>3, QuietStore DEF IInv
<1>4. CASE Disconnect(r)
  <2>1. /\ StoreQuiet /\ UNCHANGED pages /\ Forget(r)
    BY <1>4 DEF Disconnect, StoreQuiet, storeVars, browserVars, historyVars
  <2>2. SessionsBorn' /\ OneCreator' /\ LateCommands' /\ NoRivals'
    BY <2>1, QuietSessions DEF Forget, InServer, IInv
  <2>3. PagesStand' /\ AnswersFit'
    BY <2>1 DEF Forget, PagesStand, AnswersFit, AnswerFit, IInv, Stands, StoreQuiet, Blank, NoCall
  <2>. QED BY <2>1, <2>2, <2>3, QuietStore DEF IInv
<1>. QED BY <1>1, <1>2, <1>3, <1>4 DEF Loading

(* What any handler but a successful callback does to its session.             *)
SameIdentity(s, t) == /\ s.id = t.id /\ s.csrf = t.csrf /\ s.storedID = t.storedID
                      /\ s.destroyed \/ s.user = t.user

(* What any handler's answer carries.                                          *)
AnswerFits(r, s, answer) ==
  /\ answer.cookie = "none"
  /\ answer.page # None => answer.page = PageOf(s) /\ ~s.destroyed
  /\ answer.acts # None => call[r].page # None /\ answer.acts = call[r].page.user

LEMMA HandleKeeps ==
  ASSUME IInv, NEW r \in Req, Handling(r), ~CallbackSignsIn(r)
  PROVE  /\ StoreQuiet
         /\ \E s \in Session, answer \in Resp :
              /\ Handle(r, call[r].route, s, answer)
              /\ SameIdentity(s, sess[r])
              /\ AnswerFits(r, s, answer)
<1>. USE DEF TypeInv
<1>l. pc[r] = "loaded"
  BY DEF Handling, HandleIndex, HandleLogin, HandleLogout, HandleApi, HandleAuthEdupass,
         CallbackRefuses, CallbackSignsIn, Handle, Asks
<1>s. sess[r] \in Session
  BY <1>l DEF IInv, TypeOK, RequestsReady, InServer
<1>d. SessionBorn(r) /\ ~sess[r].destroyed
  BY <1>l DEF IInv, SessionsBorn, SessionBorn
<1>f. /\ sess[r].user \in User \cup {None}
      /\ sess[r].pending \in Attempt \cup {None}
      /\ PageOf(sess[r]) \in Page
  BY <1>s DEF PageOf, Page, Session
<1>r. ASSUME NEW route, NEW s, NEW answer, Handle(r, route, s, answer)
      PROVE  Handle(r, call[r].route, s, answer)
  BY <1>r DEF Handle, Asks
<1>q. StoreQuiet
  BY DEF Handling, HandleIndex, HandleLogin, HandleLogout, HandleApi, HandleAuthEdupass,
         CallbackRefuses, Handle, StoreQuiet, storeVars, historyVars
<1>b. ASSUME NEW s PROVE AnswerFits(r, s, Blank)
  BY DEF AnswerFits, Blank
<1>o. SameIdentity(sess[r], sess[r])
  BY DEF SameIdentity
<1>1. CASE HandleIndex(r) \/ HandleLogin(r)
  <2>1. PICK page \in Rendered(r) : Handle(r, call[r].route, sess[r], [Blank EXCEPT !.page = page])
    BY <1>1 DEF HandleIndex, HandleLogin, Rendered, Handle, Asks
  <2>2. [Blank EXCEPT !.page = page] \in Resp
    BY <1>f, Answers DEF Rendered
  <2>3. AnswerFits(r, sess[r], [Blank EXCEPT !.page = page])
    BY <1>d DEF AnswerFits, Blank, Rendered
  <2>. QED BY <2>1, <2>2, <2>3, <1>q, <1>s, <1>r, <1>o
<1>3. CASE HandleLogout(r)
  <2>1. SameIdentity(Destroy(sess[r]), sess[r])
    BY <1>s DEF SameIdentity, Destroy, Session
  <2>. QED BY <1>3, <2>1, <1>q, <1>s, <1>r, <1>b, HandlerOps, Answers DEF HandleLogout
<1>4. CASE HandleApi(r)
  <2>. DEFINE p == call[r].page
  <2>1. PICK acts \in {None, sess[r].user} :
          /\ Handle(r, "api", sess[r], [Blank EXCEPT !.acts = acts])
          /\ acts # None => IsAuthenticated(sess[r]) /\ VerifyCSRFToken(sess[r], p.token)
    BY <1>4 DEF HandleApi, RequireAuth, CSRF
  <2>2. [Blank EXCEPT !.acts = acts] \in Resp
    BY <1>f, Answers
  <2>3. acts # None => p # None /\ acts = p.user
    <3>1. p # None /\ Stands(p.token, p.user)
      BY <2>1 DEF Handle, Asks, IInv, RequestsReady, PagesStand
    <3>2. acts # None => sess[r].id = p.token
      BY <1>l, <1>d, <2>1 DEF SessionBorn, VerifyCSRFToken, InServer
    <3>3. acts # None => Stands(sess[r].id, sess[r].user)
      BY <1>l, <1>d, <2>1 DEF SessionBorn, InServer, Creating, IsAuthenticated
    <3>. QED BY <2>1, <3>1, <3>2, <3>3 DEF Stands
  <2>4. AnswerFits(r, sess[r], [Blank EXCEPT !.acts = acts])
    BY <2>3 DEF AnswerFits, Blank
  <2>. QED BY <2>1, <2>2, <2>4, <1>q, <1>s, <1>r, <1>o
<1>5. CASE HandleAuthEdupass(r)
  <2>1. PICK a \in Attempt : Handle(r, "authEdupass", SetPending(sess[r], a), [Blank EXCEPT !.asks = a])
    BY <1>5 DEF HandleAuthEdupass
  <2>2. SetPending(sess[r], a) \in Session /\ [Blank EXCEPT !.asks = a] \in Resp
    BY <1>s, HandlerOps, Answers
  <2>3. SameIdentity(SetPending(sess[r], a), sess[r])
    BY <1>s DEF SameIdentity, SetPending, Session
  <2>4. AnswerFits(r, SetPending(sess[r], a), [Blank EXCEPT !.asks = a])
    BY DEF AnswerFits, Blank
  <2>. QED BY <2>1, <2>2, <2>3, <2>4, <1>q, <1>r
<1>6. CASE CallbackRefuses(r)
  <2>1. TakePending(sess[r]) \in Session /\ [Blank EXCEPT !.took = sess[r].pending] \in Resp
    BY <1>s, <1>f, HandlerOps, Answers
  <2>2. SameIdentity(TakePending(sess[r]), sess[r])
    BY <1>s DEF SameIdentity, TakePending, Session
  <2>3. AnswerFits(r, TakePending(sess[r]), [Blank EXCEPT !.took = sess[r].pending])
    BY DEF AnswerFits, Blank
  <2>. QED BY <1>6, <2>1, <2>2, <2>3, <1>q, <1>r DEF CallbackRefuses
<1>. QED BY <1>1, <1>3, <1>4, <1>5, <1>6 DEF Handling

LEMMA HandlingInv == ASSUME IInv, NEW r \in Req, Handling(r), TypeInv' PROVE IInv'
<1>. USE DEF TypeInv, TypeOK
<1>1. CASE ~CallbackSignsIn(r)
  <2>1. PICK s \in Session, answer \in Resp : /\ Handle(r, call[r].route, s, answer)
                                             /\ SameIdentity(s, sess[r])
                                             /\ AnswerFits(r, s, answer)
    BY <1>1, HandleKeeps
  <2>2. /\ StoreQuiet /\ UNCHANGED <<call, superseded, pages>>
        /\ pc[r] = "loaded" /\ pc' = [pc EXCEPT ![r] = "handled"]
        /\ sess' = [sess EXCEPT ![r] = s] /\ resp' = [resp EXCEPT ![r] = answer]
    BY <1>1, <2>1, HandleKeeps DEF Handle, Asks, browserVars
  <2>3. SessionsBorn' /\ OneCreator' /\ LateCommands' /\ NoRivals'
    BY <2>1, <2>2, QuietSessions DEF SameIdentity, InServer, IInv
  <2>4. PagesStand'
    BY <2>1, <2>2 DEF PagesStand, IInv, StoreQuiet, Stands, AnswerFits
  <2>5. AnswersFit'
    BY <2>1, <2>2 DEF AnswersFit, AnswerFit, IInv, StoreQuiet, Stands, AnswerFits
  <2>. QED BY <2>2, <2>3, <2>4, <2>5, QuietStore DEF IInv
<1>2. CASE CallbackSignsIn(r)
  <2>. DEFINE a == call[r].attempt
  <2>1. PICK k \in Key \ drawn :
          /\ Handle(r, "callback", SetUser(sess[r], k, grantee[a]), [Blank EXCEPT !.took = a])
          /\ drawn' = drawn \cup {k}
    BY <1>2 DEF CallbackSignsIn
  <2>2. /\ UNCHANGED <<store, birth, late, ended, superseded, call, pages>>
        /\ pc[r] = "loaded" /\ pc' = [pc EXCEPT ![r] = "handled"]
        /\ sess' = [sess EXCEPT ![r] = SetUser(sess[r], k, grantee[a])]
        /\ resp' = [resp EXCEPT ![r] = [Blank EXCEPT !.took = a]]
    BY <2>1 DEF Handle, Asks, storeVars, browserVars, historyVars
  <2>3. sess[r] \in Session /\ SessionBorn(r)
    BY <2>2 DEF IInv, RequestsReady, InServer, SessionsBorn
  <2>4. /\ sess'[r].id = k /\ sess'[r].csrf = k
        /\ sess'[r].storedID = sess[r].storedID /\ ~sess'[r].destroyed
    BY <2>2, <2>3 DEF SetUser, IInv, Session, SessionBorn
  <2>5. \A q \in Req \ {r} : /\ pc'[q] = pc[q] /\ sess'[q] = sess[q]
                             /\ superseded'[q] = superseded[q]
                             /\ Creating(q)' <=> Creating(q)
    BY <2>2 DEF IInv, Creating
  <2>6. Unborn(k)'
    BY <2>1, <2>2 DEF IInv, FreshKeys, Unborn
  <2>7. ASSUME NEW j, Unborn(j) PROVE Unborn(j)' /\ j # k
    BY <2>1, <2>2, <2>7 DEF Unborn
  <2>8. sess[r].storedID # None => birth[sess[r].storedID] # None /\ sess[r].storedID # k
    BY <2>1, <2>2, <2>3 DEF SessionBorn, InServer, IInv, FreshKeys
  <2>9. ASSUME NEW q \in Req PROVE SessionBorn(q)'
    <3>1. CASE q = r
      BY <2>2, <2>4, <2>6, <2>8, <3>1 DEF SessionBorn, InServer, IInv
    <3>2. CASE q # r
      <4>1. Creating(q) => (Unborn(sess[q].id))'
        BY <2>5, <2>7, <3>2 DEF IInv, SessionsBorn, SessionBorn
      <4>. QED BY <2>2, <2>5, <3>2, <4>1 DEF SessionBorn, SessionsBorn, Stands, InServer, IInv
    <3>. QED BY <3>1, <3>2
  <2>10. OneCreator'
    <3>1. \A q \in Req \ {r} : Creating(q) => sess[q].id # k
      BY <2>7 DEF IInv, SessionsBorn, SessionBorn
    <3>. QED BY <2>4, <2>5, <3>1 DEF IInv, OneCreator
  <2>11. LateCommands'
    BY <2>2, <2>7 DEF IInv, LateCommands, LateCommand, Stands
  <2>12. NoRivals'
    <3>1. \A c \in late : c.op = "create" => c.id # k
      BY <2>7 DEF IInv, LateCommands, LateCommand
    <3>. QED BY <2>2, <2>4, <2>5, <3>1 DEF IInv, NoRivals
  <2>13. FreshKeys' /\ BornAsStored' /\ EndedForGood'
    BY <2>1, <2>2 DEF IInv, FreshKeys, BornAsStored, EndedForGood, Live, Stands
  <2>14. PagesStand' /\ AnswersFit'
    BY <2>2, <2>5 DEF PagesStand, AnswersFit, AnswerFit, IInv, Stands, Blank
  <2>. QED BY <2>9, <2>10, <2>11, <2>12, <2>13, <2>14 DEF IInv, SessionsBorn
<1>. QED BY <1>1, <1>2

(* Facts about a request in the server, used by every commit.                  *)
LEMMA InServerFacts ==
  ASSUME IInv, NEW r \in Req, InServer(r)
  PROVE  /\ sess[r] \in Session /\ sess[r].id \in Key /\ sess[r].user \in User \cup {None}
         /\ sess[r].storedID \in Key \cup {None}
         /\ sess[r].csrf = sess[r].id
         /\ sess[r].id = sess[r].storedID /\ ~sess[r].destroyed =>
               Stands(sess[r].id, sess[r].user) /\ birth[sess[r].id] # None
         /\ sess[r].storedID # None => birth[sess[r].storedID] # None
         /\ Creating(r) => Unborn(sess[r].id)
<1>1. sess[r] \in Session /\ SessionBorn(r)
  BY DEF IInv, TypeInv, TypeOK, RequestsReady, InServer, SessionsBorn
<1>2. sess[r].id \in Key /\ sess[r].user \in User \cup {None} /\ sess[r].storedID \in Key \cup {None}
  BY <1>1 DEF Session
<1>. QED BY <1>1, <1>2, BornIsSome DEF SessionBorn

(* A request leaves the server, in a step that changes the identity of no born *)
(* ID and gives birth to no ID that another request will create.               *)
LEMMA Leaves ==
  ASSUME IInv, NEW r \in Req, TypeInv',
         \A q \in Req \ {r} : /\ pc'[q] = pc[q] /\ sess'[q] = sess[q]
                              /\ superseded'[q] = superseded[q],
         ~InServer(r)',
         \A j \in Key : birth[j] # None => birth'[j] = birth[j],
         \A q \in Req \ {r} : (Creating(q) => Unborn(sess[q].id))'
  PROVE  SessionsBorn' /\ OneCreator'
<1>1. ASSUME NEW q \in Req PROVE SessionBorn(q)'
  <2>1. CASE q = r
    BY <2>1 DEF SessionBorn, InServer, Creating
  <2>2. CASE q # r /\ InServer(q)
    <3>1. /\ sess[q].id \in Key /\ sess[q].user \in User \cup {None}
          /\ sess[q].storedID \in Key \cup {None}
          /\ sess[q].id = sess[q].storedID /\ ~sess[q].destroyed =>
                Stands(sess[q].id, sess[q].user) /\ birth[sess[q].id] # None
      BY <2>2, InServerFacts
    <3>2. SessionBorn(q)
      BY DEF IInv, SessionsBorn
    <3>3. pc[q] = "superseding" => superseded[q] \in Key
      BY DEF IInv, TypeInv, TypeOK, RequestsReady
    <3>. QED BY <2>2, <3>1, <3>2, <3>3 DEF SessionBorn, Stands, InServer, Creating
  <2>3. CASE q # r /\ ~InServer(q)
    BY <2>3 DEF SessionBorn, InServer, Creating
  <2>. QED BY <2>1, <2>2, <2>3
<1>2. OneCreator'
  <2>1. ASSUME NEW q \in Req, Creating(q)' PROVE Creating(q) /\ sess'[q] = sess[q]
    BY <2>1 DEF InServer, Creating
  <2>. QED BY <2>1 DEF IInv, OneCreator
<1>. QED BY <1>1, <1>2 DEF SessionsBorn

(* Removing entries disturbs nothing, and ends only IDs that were born.        *)
Removes == /\ store' \in [Key -> Snapshot \cup {None, Undecodable}]
           /\ \A k \in Key : store'[k] \in {store[k], None}
           /\ UNCHANGED <<birth, drawn>>
           /\ \A k \in ended' : k \in ended \/ (birth[k] # None /\ store'[k] = None)

LEMMA RemovesStore ==
  ASSUME IInv, ended' \subseteq Key, Removes
  PROVE  /\ FreshKeys' /\ BornAsStored' /\ EndedForGood'
         /\ \A k \in Key : Unborn(k) => Unborn(k)'
<1>. USE DEF Removes
<1>1. FreshKeys'
  BY DEF IInv, FreshKeys
<1>2. BornAsStored'
  BY DEF IInv, BornAsStored, Live, Stands
<1>3. EndedForGood'
  BY DEF IInv, EndedForGood, TypeInv, TypeOK
<1>4. \A k \in Key : Unborn(k) => Unborn(k)'
  BY DEF Unborn
<1>. QED BY <1>1, <1>2, <1>3, <1>4

(* A removal while one request leaves the server, or none moves.               *)
LEMMA RemovesLate ==
  ASSUME IInv, TypeInv', Removes, late' \subseteq late \cup {c \in Command : c.op = "delete"},
         \A q \in Req : Creating(q)' => Creating(q) /\ sess'[q] = sess[q]
  PROVE  LateCommands' /\ NoRivals'
<1>1. \A k \in Key : Unborn(k) => Unborn(k)'
  BY RemovesStore DEF TypeInv, TypeOK
<1>2. \A c \in late' : c.op # "delete" => c \in late /\ c.id \in Key
  BY DEF IInv, TypeInv, TypeOK, Command
<1>3. LateCommands'
  BY <1>1, <1>2 DEF IInv, LateCommands, LateCommand, Removes, Stands
<1>4. NoRivals'
  BY <1>2 DEF IInv, NoRivals
<1>. QED BY <1>3, <1>4

LEMMA CommitDestroyedInv ==
  ASSUME IInv, NEW r \in Req, CommitDestroyed(r), TypeInv' PROVE IInv'
<1>. DEFINE id == sess[r].storedID
<1>. USE DEF TypeInv, TypeOK
<1>1. /\ pc[r] = "handled" /\ sess[r].destroyed /\ InServer(r)
      /\ id \in Key \cup {None} /\ (id # None => birth[id] # None)
  BY InServerFacts DEF CommitDestroyed, InServer
<1>2. resp[r].page = None
  BY <1>1 DEF IInv, AnswersFit, AnswerFit
<1>3. /\ pc' = [pc EXCEPT ![r] = "answered"]
      /\ \E answer \in {Blank, WithCookie(r, "expired")} : resp' = [resp EXCEPT ![r] = answer]
      /\ UNCHANGED <<sess, superseded, birth, drawn, call, pages>>
      /\ late' \subseteq late \cup {c \in Command : c.op = "delete"}
  <2>1. id # None => [op |-> "delete", id |-> id, data |-> None] \in {c \in Command : c.op = "delete"}
    BY <1>1 DEF Command
  <2>. QED BY <2>1 DEF CommitDestroyed, CommitFails, Answer, storeVars, browserVars
<1>4. Removes
  BY <1>1 DEF CommitDestroyed, CommitFails, Removes, Deletes, storeVars, historyVars, IInv
<1>5. SessionsBorn' /\ OneCreator'
  <2>1. \A q \in Req \ {r} : (Creating(q) => Unborn(sess[q].id))'
    <3>1. ASSUME NEW q \in Req \ {r}, Creating(q)' PROVE Unborn(sess[q].id)'
      <4>1. Creating(q) /\ InServer(q) /\ sess'[q] = sess[q]
        BY <1>3, <3>1 DEF Creating, InServer, IInv
      <4>. QED BY <1>4, <4>1, InServerFacts, RemovesStore
    <3>. QED BY <3>1
  <2>. QED BY <1>3, <2>1, Leaves DEF InServer, IInv
<1>6. LateCommands' /\ NoRivals'
  BY <1>3, <1>4, RemovesLate DEF Creating, IInv
<1>9. /\ resp'[r].cookie # "session" /\ resp'[r].page = None
      /\ resp'[r].acts \in {resp[r].acts, None}
      /\ \A q \in Req \ {r} : resp'[q] = resp[q]
  BY <1>2, <1>3 DEF WithCookie, Blank, IInv, Resp
<1>7. PagesStand'
  BY <1>3, <1>9 DEF PagesStand, IInv, Stands
<1>8. AnswersFit'
  BY <1>3, <1>9 DEF AnswersFit, AnswerFit, IInv, Stands
<1>. QED BY <1>4, <1>5, <1>6, <1>7, <1>8, RemovesStore DEF IInv

LEMMA DeleteSupersededInv ==
  ASSUME IInv, NEW r \in Req, DeleteSuperseded(r), TypeInv' PROVE IInv'
<1>. DEFINE id == superseded[r]
<1>. USE DEF TypeInv, TypeOK
<1>1. /\ pc[r] = "superseding" /\ InServer(r) /\ id \in Key /\ birth[id] # None
      /\ sess[r] \in Session /\ sess[r].csrf = sess[r].id
      /\ Stands(sess[r].id, sess[r].user)
  <2>1. pc[r] = "superseding" /\ InServer(r)
    BY DEF DeleteSuperseded, InServer
  <2>. QED BY <2>1, InServerFacts DEF IInv, SessionsBorn, SessionBorn, RequestsReady
<1>3. /\ pc' = [pc EXCEPT ![r] = "answered"]
      /\ resp' = [resp EXCEPT ![r] = WithCookie(r, "session")]
      /\ UNCHANGED <<sess, superseded, birth, drawn, call, pages>>
      /\ late' \subseteq late \cup {c \in Command : c.op = "delete"}
  <2>1. [op |-> "delete", id |-> id, data |-> None] \in {c \in Command : c.op = "delete"}
    BY <1>1 DEF Command
  <2>. QED BY <2>1 DEF DeleteSuperseded, Answer, browserVars
<1>4. Removes
  BY <1>1 DEF DeleteSuperseded, Removes, Deletes, historyVars, IInv
<1>5. SessionsBorn' /\ OneCreator'
  <2>1. \A q \in Req \ {r} : (Creating(q) => Unborn(sess[q].id))'
    <3>1. ASSUME NEW q \in Req \ {r}, Creating(q)' PROVE Unborn(sess[q].id)'
      <4>1. Creating(q) /\ InServer(q) /\ sess'[q] = sess[q]
        BY <1>3, <3>1 DEF Creating, InServer, IInv
      <4>. QED BY <1>4, <4>1, InServerFacts, RemovesStore
    <3>. QED BY <3>1
  <2>. QED BY <1>3, <2>1, Leaves DEF InServer, IInv
<1>6. LateCommands' /\ NoRivals'
  BY <1>3, <1>4, RemovesLate DEF Creating, IInv
<1>7. PagesStand'
  BY <1>3 DEF PagesStand, IInv, Stands, WithCookie
<1>8. AnswersFit'
  BY <1>1, <1>3 DEF AnswersFit, AnswerFit, IInv, Stands, WithCookie, PageOf
<1>. QED BY <1>4, <1>5, <1>6, <1>7, <1>8, RemovesStore DEF IInv

(* The creation of an ID nobody else will create.                              *)
LEMMA Birth ==
  ASSUME IInv, NEW s \in Session, s.csrf = s.id, Unborn(s.id), TypeInv',
         store' = [store EXCEPT ![s.id] = SnapshotOf(s)],
         birth' = [birth EXCEPT ![s.id] = IdentityOf(s)],
         UNCHANGED <<drawn, ended>>
  PROVE  /\ FreshKeys' /\ BornAsStored' /\ EndedForGood'
         /\ birth'[s.id] = [csrf |-> s.id, user |-> s.user]
         /\ \A j \in Key : birth[j] # None => birth'[j] = birth[j]
         /\ \A j \in Key \ {s.id} : Unborn(j) => Unborn(j)'
<1>. USE DEF TypeInv, TypeOK
<1>1. s.id \in Key /\ s.id \in drawn /\ s.id \notin Legacy
  BY DEF Session, Unborn
<1>2. /\ store'[s.id] = SnapshotOf(s) /\ SnapshotOf(s) \in Snapshot
      /\ birth'[s.id] = [csrf |-> s.id, user |-> s.user]
      /\ \A j \in Key \ {s.id} : store'[j] = store[j] /\ birth'[j] = birth[j]
  BY <1>1, CommitOps DEF IdentityOf, IInv
<1>3. FreshKeys'
  BY <1>1, <1>2 DEF IInv, FreshKeys
<1>4. BornAsStored'
  BY <1>2 DEF IInv, BornAsStored, Live, Stands, SnapshotOf
<1>5. EndedForGood'
  BY <1>1, <1>2 DEF IInv, EndedForGood, Unborn
<1>. QED BY <1>1, <1>2, <1>3, <1>4, <1>5 DEF Stands, Unborn

LEMMA CommitFailsInv ==
  ASSUME IInv, NEW r \in Req, TypeInv', pc[r] = "handled", UNCHANGED <<drawn, call, pages>>,
         NEW command \in Command, CommitFails(r, command),
         LateCommand(command), command.op = "create" => Creating(r) /\ command.id = sess[r].id
  PROVE  IInv'
<1>. USE DEF TypeInv, TypeOK
<1>1. /\ pc' = [pc EXCEPT ![r] = "answered"]
      /\ resp' = [resp EXCEPT ![r] = Blank]
      /\ UNCHANGED <<sess, superseded, store, birth, drawn, ended>>
      /\ late' = late \cup {command}
  BY DEF CommitFails, Answer
<1>2. FreshKeys' /\ BornAsStored' /\ EndedForGood'
  BY <1>1 DEF IInv, FreshKeys, BornAsStored, EndedForGood, Live, Stands
<1>3. \A q \in Req : Creating(q)' => q # r /\ Creating(q) /\ sess'[q] = sess[q]
  BY <1>1 DEF Creating, IInv
<1>4. SessionsBorn' /\ OneCreator'
  <2>1. \A q \in Req \ {r} : (Creating(q) => Unborn(sess[q].id))'
    BY <1>1, <1>3 DEF IInv, SessionsBorn, SessionBorn, Unborn
  <2>. QED BY <1>1, <2>1, Leaves DEF InServer, IInv
<1>5. LateCommands'
  BY <1>1 DEF IInv, LateCommands, LateCommand, Stands, Unborn
<1>6. NoRivals'
  BY <1>1, <1>3 DEF IInv, NoRivals, OneCreator
<1>7. PagesStand' /\ AnswersFit'
  BY <1>1 DEF PagesStand, AnswersFit, AnswerFit, IInv, Stands, Blank
<1>. QED BY <1>2, <1>4, <1>5, <1>6, <1>7 DEF IInv

LEMMA CommitUpdateInv ==
  ASSUME IInv, NEW r \in Req, CommitUpdate(r), TypeInv' PROVE IInv'
<1>. DEFINE id == sess[r].id
<1>. USE DEF TypeInv, TypeOK
<1>1. /\ pc[r] = "handled" /\ InServer(r) /\ sess[r] \in Session /\ id \in Key
      /\ sess[r].csrf = id /\ Stands(id, sess[r].user) /\ birth[id] # None
  BY InServerFacts DEF CommitUpdate, InServer
<1>2. UNCHANGED <<drawn, call, pages>>
  BY DEF CommitUpdate, browserVars
<1>3. CASE CommitFails(r, [op |-> "update", id |-> id, data |-> SnapshotOf(sess[r])])
  <2>. DEFINE c == [op |-> "update", id |-> id, data |-> SnapshotOf(sess[r])]
  <2>1. c \in Command
    BY <1>1, CommitOps DEF Command
  <2>2. LateCommand(c)
    BY <1>1 DEF LateCommand, SnapshotOf
  <2>. HIDE DEF c
  <2>3. c.op # "create"
    BY DEF c
  <2>. QED BY <1>1, <1>2, <1>3, <2>1, <2>2, <2>3, CommitFailsInv DEF c
<1>4. CASE /\ pc' = [pc EXCEPT ![r] = "answered"]
           /\ \/ /\ store[id] # None
                 /\ store' = [store EXCEPT ![id] = SnapshotOf(sess[r])]
                 /\ resp' = [resp EXCEPT ![r] = WithCookie(r, "session")]
              \/ UNCHANGED <<store, resp>>
           /\ UNCHANGED <<sess, superseded, late, birth, ended>>
  <2>1. FreshKeys' /\ BornAsStored' /\ EndedForGood'
    <3>1. id \notin Legacy /\ id \in drawn
      BY <1>1 DEF IInv, FreshKeys
    <3>2. /\ \A j \in Key : j # id => store'[j] = store[j]
          /\ store'[id] \in {store[id], SnapshotOf(sess[r])}
          /\ store[id] = None => store'[id] = None
      BY <1>1, <1>4 DEF IInv
    <3>6. SnapshotOf(sess[r]) \in Snapshot
      BY <1>1, CommitOps
    <3>7. \A j \in Key \ Legacy : store'[j] # Undecodable
      BY <3>2, <3>6 DEF IInv, FreshKeys
    <3>3. FreshKeys'
      BY <1>2, <1>4, <3>1, <3>2, <3>7 DEF IInv, FreshKeys
    <3>4. BornAsStored'
      BY <1>1, <1>4, <3>2 DEF IInv, BornAsStored, Live, Stands, SnapshotOf
    <3>5. EndedForGood'
      BY <1>4, <3>2 DEF IInv, EndedForGood
    <3>. QED BY <3>3, <3>4, <3>5
  <2>2. \A j \in Key : Unborn(j) => Unborn(j)'
    BY <1>1, <1>2, <1>4 DEF Unborn, IInv
  <2>3. \A q \in Req : Creating(q)' => q # r /\ Creating(q) /\ sess'[q] = sess[q]
    BY <1>4 DEF Creating, IInv
  <2>4. SessionsBorn' /\ OneCreator'
    <3>1. \A q \in Req \ {r} : (Creating(q) => Unborn(sess[q].id))'
      <4>1. ASSUME NEW q \in Req, Creating(q)' PROVE Unborn(sess[q].id)'
        <5>1. Creating(q) /\ InServer(q) /\ sess'[q] = sess[q]
          BY <2>3, <4>1 DEF Creating, InServer
        <5>. QED BY <2>2, <5>1, InServerFacts
      <4>. QED BY <4>1
    <3>. QED BY <1>4, <3>1, Leaves DEF InServer, IInv
  <2>5. LateCommands'
    BY <1>4, <2>2 DEF IInv, LateCommands, LateCommand, Stands, Command
  <2>6. NoRivals'
    BY <1>4, <2>3 DEF IInv, NoRivals
  <2>7. /\ resp'[r].page = resp[r].page /\ resp'[r].acts = resp[r].acts
        /\ \A q \in Req \ {r} : resp'[q] = resp[q]
    BY <1>4 DEF WithCookie, IInv, Resp
  <2>8. PagesStand'
    BY <1>2, <1>4, <2>7 DEF PagesStand, IInv, Stands
  <2>9. AnswersFit'
    <3>1. ASSUME NEW q \in Req PROVE AnswerFit(q)'
      <4>1. AnswerFit(q) /\ sess'[q] = sess[q] /\ birth' = birth
        BY <1>4 DEF IInv, AnswersFit
      <4>2. CASE q = r
        <5>1. resp'[r].cookie \in {resp[r].cookie, "session"} /\ resp'[r].page = resp[r].page
          BY <1>4, <2>7 DEF WithCookie, IInv, Resp
        <5>. QED BY <1>1, <4>1, <4>2, <5>1 DEF AnswerFit, Stands, PageOf
      <4>3. CASE q # r
        <5>1. resp'[q] = resp[q] /\ pc'[q] = pc[q]
          BY <1>4, <2>7, <4>3 DEF IInv
        <5>. QED BY <4>1, <5>1 DEF AnswerFit, Stands
      <4>. QED BY <4>2, <4>3
    <3>. QED BY <3>1 DEF AnswersFit
  <2>. QED BY <2>1, <2>4, <2>5, <2>6, <2>8, <2>9 DEF IInv
<1>5. \/ CommitFails(r, [op |-> "update", id |-> id, data |-> SnapshotOf(sess[r])])
      \/ /\ pc' = [pc EXCEPT ![r] = "answered"]
         /\ \/ /\ store[id] # None
               /\ store' = [store EXCEPT ![id] = SnapshotOf(sess[r])]
               /\ resp' = [resp EXCEPT ![r] = WithCookie(r, "session")]
            \/ UNCHANGED <<store, resp>>
         /\ UNCHANGED <<sess, superseded, late, birth, ended>>
  BY DEF CommitUpdate, Answer, storeVars, historyVars, IInv
<1>. QED BY <1>3, <1>4, <1>5

LEMMA CommitCreateInv ==
  ASSUME IInv, NEW r \in Req, CommitCreate(r), TypeInv' PROVE IInv'
<1>. DEFINE id == sess[r].id
            old == sess[r].storedID
<1>. USE DEF TypeInv, TypeOK
<1>1. /\ pc[r] = "handled" /\ InServer(r) /\ Creating(r) /\ ~sess[r].destroyed
      /\ sess[r] \in Session /\ id \in Key /\ sess[r].csrf = id /\ Unborn(id)
      /\ old \in Key \cup {None} /\ (old # None => birth[old] # None)
  BY InServerFacts DEF CommitCreate, InServer, Creating
<1>2. UNCHANGED <<drawn, call, pages>>
  BY DEF CommitCreate, browserVars
<1>3. CASE CommitFails(r, [op |-> "create", id |-> id, data |-> SnapshotOf(sess[r])])
  <2>. DEFINE c == [op |-> "create", id |-> id, data |-> SnapshotOf(sess[r])]
  <2>1. c \in Command /\ c.id = id
    BY <1>1, CommitOps DEF Command
  <2>2. LateCommand(c)
    BY <1>1 DEF LateCommand, SnapshotOf
  <2>. HIDE DEF c
  <2>. QED BY <1>1, <1>2, <1>3, <2>1, <2>2, CommitFailsInv DEF c
<1>4. CASE /\ store' = [store EXCEPT ![id] = SnapshotOf(sess[r])]
           /\ birth' = [birth EXCEPT ![id] = IdentityOf(sess[r])]
           /\ superseded' = [superseded EXCEPT ![r] = old]
           /\ sess' = [sess EXCEPT ![r] = Created(sess[r])]
           /\ \/ /\ pc' = [pc EXCEPT ![r] = "answered"]
                 /\ resp' = [resp EXCEPT ![r] = WithCookie(r, "session")]
              \/ /\ old # None /\ pc' = [pc EXCEPT ![r] = "superseding"]
                 /\ UNCHANGED resp
           /\ UNCHANGED <<late, ended>>
  <2>1. /\ FreshKeys' /\ BornAsStored' /\ EndedForGood'
        /\ birth'[id] = [csrf |-> id, user |-> sess[r].user]
        /\ \A j \in Key : birth[j] # None => birth'[j] = birth[j]
        /\ \A j \in Key \ {id} : Unborn(j) => Unborn(j)'
    BY <1>1, <1>2, <1>4, Birth
  <2>2. /\ sess'[r].id = id /\ sess'[r].storedID = id /\ sess'[r].csrf = id
        /\ sess'[r].user = sess[r].user /\ ~sess'[r].destroyed /\ sess'[r] \in Session
        /\ PageOf(sess[r])' = PageOf(sess[r])
    BY <1>1, <1>4, CommitOps DEF Created, Session, IInv, PageOf
  <2>3. \A q \in Req \ {r} : /\ pc'[q] = pc[q] /\ sess'[q] = sess[q]
                             /\ superseded'[q] = superseded[q]
    BY <1>4 DEF IInv
  <2>4. ASSUME NEW q \in Req, Creating(q)'
        PROVE  /\ q # r /\ Creating(q) /\ sess'[q] = sess[q] /\ sess[q].id \in Key \ {id}
    <3>1. q # r
      BY <2>2, <2>4 DEF Creating
    <3>2. Creating(q) /\ InServer(q) /\ sess'[q] = sess[q]
      BY <2>3, <2>4, <3>1 DEF Creating, InServer
    <3>. QED BY <1>1, <3>1, <3>2, InServerFacts DEF IInv, OneCreator
  <2>5. ASSUME NEW q \in Req PROVE SessionBorn(q)'
    <3>1. CASE q = r
      <4>1. birth'[id] # None
        <5>1. [csrf |-> id, user |-> sess[r].user] \in Identity
          BY <1>1 DEF Identity, Session
        <5>. QED BY <2>1, <5>1
      <4>2. pc'[r] = "superseding" => superseded'[r] = old /\ old # None /\ birth'[old] # None
        BY <1>1, <1>4, <2>1 DEF IInv
      <4>3. pc'[r] \in {"answered", "superseding"}
        BY <1>4 DEF IInv
      <4>. QED BY <2>1, <2>2, <3>1, <4>1, <4>2, <4>3 DEF SessionBorn, InServer, Creating, Stands
    <3>2. CASE q # r /\ InServer(q)
      <4>1. /\ sess[q].id \in Key /\ sess[q].user \in User \cup {None}
            /\ sess[q].storedID \in Key \cup {None}
            /\ sess[q].id = sess[q].storedID /\ ~sess[q].destroyed =>
                  Stands(sess[q].id, sess[q].user) /\ birth[sess[q].id] # None
        BY <3>2, InServerFacts
      <4>2. SessionBorn(q)
        BY DEF IInv, SessionsBorn
      <4>3. pc[q] = "superseding" => superseded[q] \in Key
        BY DEF IInv, RequestsReady
      <4>4. (Creating(q) => Unborn(sess[q].id))'
        BY <1>1, <2>1, <2>4, <3>2, InServerFacts
      <4>. QED BY <2>1, <2>3, <3>2, <4>1, <4>2, <4>3, <4>4 DEF SessionBorn, Stands, InServer,
                                                                Creating
    <3>3. CASE q # r /\ ~InServer(q)
      BY <2>3, <3>3 DEF SessionBorn, InServer, Creating
    <3>. QED BY <3>1, <3>2, <3>3
  <2>6. OneCreator'
    BY <2>4 DEF IInv, OneCreator
  <2>7. \A c \in late : c.op = "create" => c.id # id
    BY <1>1 DEF IInv, NoRivals
  <2>8. LateCommands'
    <3>1. ASSUME NEW c \in late PROVE LateCommand(c)'
      <4>1. LateCommand(c) /\ c.id \in Key
        BY DEF IInv, LateCommands, Command
      <4>2. c.op = "create" => Unborn(c.id)'
        BY <2>1, <2>7, <4>1 DEF LateCommand
      <4>3. c.op = "update" => birth[c.id] # None
        <5>1. c.op = "update" => c.data.user \in User \cup {None}
          BY DEF IInv, Command, Snapshot
        <5>. QED BY <4>1, <5>1, BornIsSome DEF LateCommand
      <4>. QED BY <2>1, <4>1, <4>2, <4>3 DEF LateCommand, Stands
    <3>. QED BY <1>4, <3>1 DEF LateCommands
  <2>9. NoRivals'
    BY <1>4, <2>4 DEF IInv, NoRivals
  <2>10. /\ resp'[r].page = resp[r].page /\ resp'[r].acts = resp[r].acts
         /\ resp'[r].cookie = "session" => pc'[r] = "answered" \/ resp[r].cookie = "session"
         /\ \A q \in Req \ {r} : resp'[q] = resp[q]
    BY <1>4 DEF WithCookie, IInv, Resp
  <2>11. ASSUME NEW k, NEW u, Stands(k, u), k \in Key, u \in User \cup {None} PROVE Stands(k, u)'
    BY <2>1, <2>11, BornIsSome DEF Stands
  <2>12. PagesStand'
    <3>1. ASSUME NEW p \in pages PROVE Stands(p.token, p.user)'
      BY <2>11 DEF IInv, PagesStand, Page
    <3>2. ASSUME NEW q \in Req, call[q].page # None
          PROVE Stands(call[q].page.token, call[q].page.user)'
      <4>1. /\ call[q].page.token \in Key /\ call[q].page.user \in User \cup {None}
            /\ Stands(call[q].page.token, call[q].page.user)
        BY <1>2, <3>2 DEF IInv, PagesStand, Page, Call
      <4>2. Stands(call[q].page.token, call[q].page.user)' <=>
              birth'[call[q].page.token] = [csrf |-> call[q].page.token, user |-> call[q].page.user]
        BY <1>2 DEF Stands
      <4>. QED BY <2>1, <4>1, <4>2, BornIsSome DEF Stands
    <3>. QED BY <1>2, <2>10, <3>1, <3>2 DEF IInv, PagesStand
  <2>13. AnswersFit'
    <3>1. ASSUME NEW q \in Req \ {r} PROVE AnswerFit(q)'
      <4>1. AnswerFit(q)
        BY DEF IInv, AnswersFit
      <4>2. sess[q] # None => sess[q].id \in Key /\ sess[q].user \in User \cup {None}
        BY DEF IInv, Session
      <4>3. resp[q].page # None => resp[q].page.token \in Key /\ resp[q].page.user \in User \cup {None}
        BY DEF IInv, Resp, Page
      <4>4. resp[q].cookie = "session" => Stands(sess[q].id, sess[q].user)'
        BY <4>1, <4>2, <2>3, <2>11 DEF AnswerFit
      <4>5. pc[q] = "answered" /\ resp[q].page # None => Stands(resp[q].page.token, resp[q].page.user)'
        BY <4>1, <4>3, <2>10, <2>11 DEF AnswerFit
      <4>6. PageOf(sess[q])' = PageOf(sess[q])
        BY <2>3 DEF PageOf
      <4>. QED BY <4>1, <4>4, <4>5, <4>6, <2>3, <2>10 DEF AnswerFit
    <3>2. AnswerFit(r)'
      <4>1. AnswerFit(r)
        BY DEF IInv, AnswersFit
      <4>2. Stands(sess[r].id, sess[r].user)'
        BY <2>1, <2>2 DEF Stands
      <4>3. resp[r].page # None => Stands(resp[r].page.token, resp[r].page.user)'
        BY <1>1, <2>1, <2>10, <4>1 DEF AnswerFit, PageOf, Stands
      <4>. QED BY <2>2, <2>10, <4>1, <4>2, <4>3 DEF AnswerFit
    <3>. QED BY <3>1, <3>2 DEF AnswersFit
  <2>. QED BY <2>1, <2>5, <2>6, <2>8, <2>9, <2>12, <2>13 DEF IInv, SessionsBorn
<1>5. \/ CommitFails(r, [op |-> "create", id |-> id, data |-> SnapshotOf(sess[r])])
      \/ /\ store' = [store EXCEPT ![id] = SnapshotOf(sess[r])]
         /\ birth' = [birth EXCEPT ![id] = IdentityOf(sess[r])]
         /\ superseded' = [superseded EXCEPT ![r] = old]
         /\ sess' = [sess EXCEPT ![r] = Created(sess[r])]
         /\ \/ /\ pc' = [pc EXCEPT ![r] = "answered"]
               /\ resp' = [resp EXCEPT ![r] = WithCookie(r, "session")]
            \/ /\ old # None /\ pc' = [pc EXCEPT ![r] = "superseding"]
               /\ UNCHANGED resp
         /\ UNCHANGED <<late, ended>>
  BY <1>1 DEF CommitCreate, Answer, Unborn
<1>. QED BY <1>3, <1>4, <1>5

LEMMA CommittingInv == ASSUME IInv, NEW r \in Req, Committing(r), TypeInv' PROVE IInv'
  BY CommitDestroyedInv, CommitCreateInv, DeleteSupersededInv, CommitUpdateInv DEF Committing

LEMMA AnsweringInv == ASSUME IInv, NEW r \in Req, Answering(r), TypeInv' PROVE IInv'
<1>. USE DEF TypeInv, TypeOK
<1>1. /\ StoreQuiet /\ Forget(r) /\ pc[r] = "answered"
      /\ pages' \subseteq pages \cup ({resp[r].page} \ {None})
  BY DEF Answering, Deliver, LoseResponse, StoreQuiet, storeVars, browserVars, historyVars
<1>2. SessionsBorn' /\ OneCreator' /\ LateCommands' /\ NoRivals'
  BY <1>1, QuietSessions DEF Forget, InServer, IInv
<1>3. ASSUME NEW p \in pages' PROVE Stands(p.token, p.user)
  BY <1>1 DEF IInv, PagesStand, AnswersFit, AnswerFit
<1>4. PagesStand'
  BY <1>1, <1>3 DEF Forget, PagesStand, IInv, Stands, StoreQuiet, Blank, NoCall
<1>5. AnswersFit'
  BY <1>1 DEF Forget, AnswersFit, AnswerFit, IInv, Stands, StoreQuiet, Blank
<1>. QED BY <1>1, <1>2, <1>4, <1>5, QuietStore DEF IInv

(* A step of the store alone that changes the identity of no born ID and gives *)
(* birth to none that a request will create.                                   *)
LEMMA StandingStill ==
  ASSUME IInv, TypeInv', UNCHANGED <<requestVars, pages>>,
         \A j \in Key : birth[j] # None => birth'[j] = birth[j],
         \A q \in Req : Creating(q) => Unborn(sess[q].id)'
  PROVE  SessionsBorn' /\ OneCreator' /\ PagesStand' /\ AnswersFit'
<1>. USE DEF TypeInv, TypeOK
<1>1. UNCHANGED <<pc, call, sess, superseded, resp, pages>>
  BY DEF requestVars
<1>2. \A k \in Key, u \in User \cup {None} : Stands(k, u) => Stands(k, u)'
  BY BornIsSome DEF Stands
<1>3. ASSUME NEW q \in Req PROVE SessionBorn(q)'
  <2>1. CASE InServer(q)
    <3>1. /\ sess[q].id \in Key /\ sess[q].user \in User \cup {None}
          /\ sess[q].storedID \in Key \cup {None}
          /\ sess[q].id = sess[q].storedID /\ ~sess[q].destroyed =>
                Stands(sess[q].id, sess[q].user) /\ birth[sess[q].id] # None
      BY <2>1, InServerFacts
    <3>2. SessionBorn(q)
      BY DEF IInv, SessionsBorn
    <3>3. pc[q] = "superseding" => superseded[q] \in Key
      BY DEF IInv, RequestsReady
    <3>. QED BY <1>1, <2>1, <3>1, <3>2, <3>3 DEF SessionBorn, Stands, InServer, Creating
  <2>2. CASE ~InServer(q)
    BY <1>1, <2>2 DEF SessionBorn, InServer, Creating
  <2>. QED BY <2>1, <2>2
<1>4. OneCreator'
  BY <1>1 DEF IInv, OneCreator, Creating
<1>5. PagesStand'
  <2>1. ASSUME NEW p \in pages PROVE Stands(p.token, p.user)'
    BY <1>2 DEF IInv, PagesStand, Page
  <2>2. ASSUME NEW q \in Req, call[q].page # None
        PROVE  Stands(call[q].page.token, call[q].page.user)'
    <3>1. /\ call[q].page.token \in Key /\ call[q].page.user \in User \cup {None}
          /\ Stands(call[q].page.token, call[q].page.user)
      BY <2>2 DEF IInv, PagesStand, Page, Call
    <3>. QED BY <1>1, <3>1, BornIsSome DEF Stands
  <2>. QED BY <1>1, <2>1, <2>2 DEF IInv, PagesStand
<1>6. AnswersFit'
  <2>1. ASSUME NEW q \in Req PROVE AnswerFit(q)'
    <3>1. AnswerFit(q)
      BY DEF IInv, AnswersFit
    <3>2. resp[q].cookie = "session" => sess[q].id \in Key /\ sess[q].user \in User \cup {None}
      BY <3>1 DEF IInv, Session, AnswerFit
    <3>3. resp[q].page # None => resp[q].page.token \in Key /\ resp[q].page.user \in User \cup {None}
      BY DEF IInv, Resp, Page
    <3>4. resp[q].cookie = "session" => Stands(sess[q].id, sess[q].user)'
      BY <1>1, <3>1, <3>2, BornIsSome DEF AnswerFit, Stands
    <3>5. pc[q] = "answered" /\ resp[q].page # None => Stands(resp[q].page.token, resp[q].page.user)'
      BY <1>1, <3>1, <3>3, BornIsSome DEF AnswerFit, Stands
    <3>. QED BY <1>1, <3>1, <3>4, <3>5 DEF AnswerFit, PageOf
  <2>. QED BY <2>1 DEF AnswersFit
<1>. QED BY <1>3, <1>4, <1>5, <1>6 DEF SessionsBorn

LEMMA LateEffectInv == ASSUME IInv, NEW c \in late, LateEffect(c), TypeInv' PROVE IInv'
<1>. USE DEF TypeInv, TypeOK
<1>1. /\ UNCHANGED <<requestVars, pages, drawn, ended, pc, sess>> /\ late' = late \ {c}
      /\ c \in Command /\ c.id \in Key /\ LateCommand(c)
  BY DEF LateEffect, requestVars, browserVars, historyVars, IInv, Command, LateCommands
<1>2. ASSUME Removes PROVE IInv'
  <2>1. \A k \in Key : Unborn(k) => Unborn(k)'
    BY <1>1, <1>2, RemovesStore DEF IInv
  <2>2. \A q \in Req : Creating(q) => Unborn(sess[q].id)'
    BY <1>1, <2>1, InServerFacts DEF Creating, InServer
  <2>3. SessionsBorn' /\ OneCreator' /\ PagesStand' /\ AnswersFit'
    BY <1>1, <1>2, <2>2, StandingStill DEF Removes
  <2>4. LateCommands' /\ NoRivals'
    BY <1>1, <1>2, RemovesLate DEF Creating, IInv
  <2>. QED BY <1>1, <1>2, <2>3, <2>4, RemovesStore DEF IInv
<1>3. CASE UNCHANGED <<store, birth>>
  <2>1. Removes
    BY <1>1, <1>3 DEF Removes, IInv
  <2>. QED BY <1>2, <2>1
<1>4. CASE c.op = "delete"
  <2>1. Removes
    BY <1>1, <1>4 DEF LateEffect, Removes, IInv
  <2>. QED BY <1>2, <2>1
<1>5. CASE c.op = "update" /\ store[c.id] # None
  <2>1. /\ store' = [store EXCEPT ![c.id] = c.data] /\ UNCHANGED birth
        /\ c.data \in Snapshot /\ c.data.csrf = c.id /\ Stands(c.id, c.data.user)
    BY <1>1, <1>5 DEF LateEffect, LateCommand, Command
  <2>2. c.data.user \in User \cup {None} /\ birth[c.id] # None
    BY <1>1, <2>1, BornIsSome DEF Snapshot
  <2>3. \A j \in Key : j # c.id => store'[j] = store[j]
    BY <2>1 DEF IInv
  <2>4. store'[c.id] = c.data
    BY <1>1, <2>1 DEF IInv
  <2>5. FreshKeys'
    BY <1>1, <2>1, <2>2, <2>3 DEF IInv, FreshKeys
  <2>6. BornAsStored'
    BY <2>1, <2>3, <2>4 DEF IInv, BornAsStored, Live, Stands
  <2>7. EndedForGood'
    BY <1>1, <1>5, <2>1, <2>3 DEF IInv, EndedForGood
  <2>8. \A j \in Key : Unborn(j) => Unborn(j)'
    BY <1>1, <2>1, <2>2, <2>3 DEF Unborn
  <2>9. \A q \in Req : Creating(q) => Unborn(sess[q].id)'
    BY <1>1, <2>8, InServerFacts DEF Creating, InServer
  <2>10. SessionsBorn' /\ OneCreator' /\ PagesStand' /\ AnswersFit'
    BY <1>1, <2>1, <2>9, StandingStill
  <2>11. LateCommands'
    <3>1. ASSUME NEW d \in late' PROVE LateCommand(d)'
      <4>1. d \in late /\ d \in Command /\ d.id \in Key /\ LateCommand(d)
        BY <1>1 DEF IInv, LateCommands, Command
      <4>2. Unborn(d.id) => Unborn(d.id)'
        BY <2>8, <4>1
      <4>. QED BY <2>1, <4>1, <4>2 DEF LateCommand, Stands
    <3>. QED BY <3>1 DEF LateCommands
  <2>12. NoRivals'
    BY <1>1 DEF IInv, NoRivals, Creating
  <2>. QED BY <2>5, <2>6, <2>7, <2>10, <2>11, <2>12 DEF IInv
<1>6. CASE c.op = "create" /\ store[c.id] = None
  <2>. DEFINE s == [id |-> c.id, csrf |-> c.data.csrf, user |-> c.data.user,
                    pending |-> c.data.pending, destroyed |-> FALSE, storedID |-> None]
  <2>1. /\ store' = [store EXCEPT ![c.id] = c.data]
        /\ birth' = [birth EXCEPT ![c.id] = [csrf |-> c.data.csrf, user |-> c.data.user]]
        /\ c.data \in Snapshot /\ c.data.csrf = c.id /\ Unborn(c.id)
    BY <1>1, <1>6 DEF LateEffect, LateCommand, Command
  <2>2. /\ s \in Session /\ s.id = c.id /\ s.csrf = c.id
        /\ SnapshotOf(s) = c.data /\ IdentityOf(s) = [csrf |-> c.data.csrf, user |-> c.data.user]
    BY <1>1, <2>1 DEF Session, Snapshot, SnapshotOf, IdentityOf
  <2>. HIDE DEF s
  <2>3. /\ FreshKeys' /\ BornAsStored' /\ EndedForGood'
        /\ \A j \in Key : birth[j] # None => birth'[j] = birth[j]
        /\ \A j \in Key \ {c.id} : Unborn(j) => Unborn(j)'
    BY <1>1, <2>1, <2>2, Birth
  <2>4. \A q \in Req : Creating(q) => sess[q].id # c.id
    BY <1>6 DEF IInv, NoRivals
  <2>5. \A q \in Req : Creating(q) => Unborn(sess[q].id)'
    BY <1>1, <2>3, <2>4, InServerFacts DEF Creating, InServer
  <2>6. SessionsBorn' /\ OneCreator' /\ PagesStand' /\ AnswersFit'
    BY <1>1, <2>3, <2>5, StandingStill
  <2>7. \A d \in late' : d.op = "create" => d.id # c.id
    BY <1>1, <1>6 DEF IInv, NoRivals
  <2>8. LateCommands'
    <3>1. ASSUME NEW d \in late' PROVE LateCommand(d)'
      <4>1. LateCommand(d) /\ d.id \in Key /\ d \in Command
        BY <1>1 DEF IInv, LateCommands, Command
      <4>2. d.op = "create" => Unborn(d.id)'
        BY <2>3, <2>7, <4>1 DEF LateCommand
      <4>3. d.op = "update" => birth[d.id] # None
        <5>1. d.op = "update" => d.data.user \in User \cup {None}
          BY <4>1 DEF Command, Snapshot
        <5>. QED BY <4>1, <5>1, BornIsSome DEF LateCommand
      <4>. QED BY <2>3, <4>1, <4>2, <4>3 DEF LateCommand, Stands
    <3>. QED BY <3>1 DEF LateCommands
  <2>9. NoRivals'
    BY <1>1 DEF IInv, NoRivals, Creating
  <2>. QED BY <2>3, <2>6, <2>8, <2>9 DEF IInv
<1>. QED BY <1>3, <1>4, <1>5, <1>6 DEF LateEffect

LEMMA EnvironmentInv == ASSUME IInv, Environment, TypeInv' PROVE IInv'
<1>. USE DEF TypeInv, TypeOK
<1>1. ASSUME StoreQuiet, UNCHANGED <<requestVars, pages>> PROVE IInv'
  <2>1. SessionsBorn' /\ OneCreator' /\ LateCommands' /\ NoRivals'
    <3>1. \A q \in Req : InServer(q)' => /\ InServer(q) /\ pc'[q] = pc[q]
                                         /\ sess'[q] = sess[q] /\ superseded'[q] = superseded[q]
      BY <1>1 DEF requestVars, InServer
    <3>. QED BY <1>1, <3>1, QuietSessions
  <2>2. PagesStand' /\ AnswersFit'
    BY <1>1 DEF PagesStand, AnswersFit, AnswerFit, IInv, Stands, StoreQuiet, requestVars, PageOf
  <2>. QED BY <1>1, <2>1, <2>2, QuietStore DEF IInv
<1>2. CASE DropCookie
  BY <1>1, <1>2 DEF DropCookie, StoreQuiet, storeVars, historyVars
<1>3. CASE \E a \in Attempt, u \in User : EdupassGrants(a, u)
  BY <1>1, <1>3 DEF EdupassGrants, StoreQuiet, storeVars, historyVars, browserVars
<1>4. CASE \E a \in Attempt : EdupassDenies(a)
  BY <1>1, <1>4 DEF EdupassDenies, StoreQuiet, storeVars, historyVars, browserVars
(* Nothing but removals, while requests and pages stand still or die. *)
<1>5. ASSUME Removes, UNCHANGED <<pages, ended>>, late' \subseteq late,
             \A q \in Req : \/ ~InServer(q)' /\ pc'[q] # "answered" /\ call'[q] = NoCall
                                /\ resp'[q] = Blank
                            \/ /\ pc'[q] = pc[q] /\ sess'[q] = sess[q] /\ call'[q] = call[q]
                               /\ superseded'[q] = superseded[q] /\ resp'[q] = resp[q]
      PROVE  IInv'
  <2>1. \A k \in Key : Unborn(k) => Unborn(k)'
    BY <1>5, RemovesStore
  <2>2. ASSUME NEW q \in Req, Creating(q)'
        PROVE Creating(q) /\ sess'[q] = sess[q] /\ Unborn(sess[q].id)'
    <3>1. Creating(q) /\ InServer(q) /\ sess'[q] = sess[q]
      BY <1>5, <2>2 DEF Creating, InServer
    <3>. QED BY <2>1, <3>1, InServerFacts
  <2>3. SessionsBorn'
    <3>1. ASSUME NEW q \in Req PROVE SessionBorn(q)'
      BY <1>5, <2>2 DEF IInv, SessionsBorn, SessionBorn, Removes, Stands, InServer, Creating
    <3>. QED BY <3>1 DEF SessionsBorn
  <2>4. OneCreator'
    BY <2>2 DEF IInv, OneCreator
  <2>5. LateCommands' /\ NoRivals'
    BY <1>5, <2>2, RemovesLate
  <2>6. PagesStand'
    BY <1>5 DEF IInv, PagesStand, Removes, Stands, NoCall, Blank
  <2>7. AnswersFit'
    BY <1>5 DEF IInv, AnswersFit, AnswerFit, Removes, Stands, Blank, PageOf
  <2>. QED BY <1>5, <2>3, <2>4, <2>5, <2>6, <2>7, RemovesStore DEF IInv
<1>6. CASE \E c \in late : LateEffect(c)
  BY <1>6, LateEffectInv
<1>7. CASE \E c \in late : LateLost(c)
  <2>1. Removes
    BY <1>7 DEF LateLost, Removes, historyVars, IInv
  <2>. QED BY <1>5, <1>7, <2>1 DEF LateLost, requestVars, browserVars, historyVars
<1>8. CASE \E id \in Key : Expire(id)
  <2>1. Removes
    BY <1>8 DEF Expire, Removes, historyVars, IInv
  <2>. QED BY <1>5, <1>8, <2>1 DEF Expire, requestVars, browserVars, historyVars
<1>9. CASE Restart
  <2>1. Removes
    BY <1>9 DEF Restart, Removes, historyVars, IInv
  <2>. QED BY <1>5, <1>9, <2>1 DEF Restart, Dying, InServer, browserVars, historyVars
<1>. QED BY <1>2, <1>3, <1>4, <1>6, <1>7, <1>8, <1>9 DEF Environment

LEMMA InvStep == IInv /\ [Next]_vars => IInv'
<1>. SUFFICES ASSUME IInv, [Next]_vars PROVE IInv'
  OBVIOUS
<1>1. TypeInv'
  BY TypeStep DEF IInv
<1>2. CASE Next
  BY <1>1, <1>2, SendingInv, LoadingInv, HandlingInv, CommittingInv, AnsweringInv,
     EnvironmentInv DEF Next
<1>3. CASE UNCHANGED vars
  <2>1. /\ StoreQuiet /\ UNCHANGED <<pages, requestVars, pc, sess, superseded, call, resp>>
    BY <1>3 DEF vars, StoreQuiet, storeVars, browserVars, historyVars, requestVars
  <2>2. \A q \in Req : Creating(q) => Unborn(sess[q].id)'
    BY <2>1 DEF IInv, SessionsBorn, SessionBorn, Unborn, StoreQuiet
  <2>3. SessionsBorn' /\ OneCreator' /\ PagesStand' /\ AnswersFit'
    BY <1>1, <2>1, <2>2, StandingStill DEF StoreQuiet
  <2>4. LateCommands' /\ NoRivals'
    BY <2>1 DEF IInv, LateCommands, LateCommand, NoRivals, Creating, Unborn, Stands, StoreQuiet
  <2>. QED BY <1>1, <2>1, <2>3, <2>4, QuietStore DEF IInv
<1>. QED BY <1>2, <1>3

(* IInv holds in every reachable state.                                        *)
THEOREM Invariant == Spec => []IInv
  BY InitInv, InvStep, PTL DEF Spec

(* An ID whose deletion the store confirmed, at sign-out or sign-in, never has *)
(* an entry again: a request that loaded it earlier cannot restore it.         *)
THEOREM EndedStaysDead == Spec => []EndedIsDead
<1>1. IInv => EndedIsDead
  BY DEF IInv, EndedForGood, EndedIsDead
<1>. QED BY Invariant, <1>1, PTL

(* A backend acts only for the user that the page with the verified token      *)
(* shows, whoever has signed in since the page was delivered.                  *)
THEOREM BackendsActAsShown == Spec => []ActsAsShown
<1>1. IInv => ActsAsShown
  BY DEF IInv, PagesStand, ActsAsShown
<1>. QED BY Invariant, <1>1, PTL

(* A session cookie is sent only for a stored ID, with the identity it was     *)
(* stored with, and with a page whose token verifies under it.                 *)
THEOREM CookiesNameStored == Spec => []CookieNamesStored
<1>1. ASSUME IInv PROVE CookieNamesStored
  <2>1. ASSUME NEW r \in Req, resp[r].cookie = "session"
        PROVE  /\ birth[sess[r].id] = IdentityOf(sess[r])
               /\ resp[r].page # None => birth[sess[r].id].csrf = resp[r].page.token
    <3>1. AnswerFit(r)
      BY <1>1 DEF IInv, AnswersFit
    <3>. QED BY <2>1, <3>1 DEF AnswerFit, Stands, IdentityOf, PageOf
  <2>. QED BY <2>1 DEF CookieNamesStored
<1>. QED BY Invariant, <1>1, PTL

-----------------------------------------------------------------------------
(* The refinement of SessionLife.  Every step either begins one ID or only     *)
(* ends IDs; what an ID stands for is what it was born as.                     *)

Begins(id) == /\ Unborn(id) /\ store'[id] \in Snapshot
              /\ birth'[id] \in Identity
              /\ \A k \in Key \ {id} : store'[k] = store[k] /\ birth'[k] = birth[k]

OnlyEnds == /\ UNCHANGED birth
            /\ \A k \in Key : \/ store'[k] \in {store[k], None}
                              \/ Live(k) /\ store'[k] \in Snapshot

LEMMA WhoIsBirth == IInv => who = birth
<1>. SUFFICES ASSUME IInv PROVE who = birth
  OBVIOUS
<1>1. \A k \in Key : Live(k) => birth[k] = [csrf |-> store[k].csrf, user |-> store[k].user]
  BY DEF IInv, BornAsStored, Stands
<1>. QED BY <1>1 DEF who, IInv, TypeInv, TypeOK

LEMMA WhoIsBirthNext == (IInv => who = birth)'
  BY WhoIsBirth, PTL

LEMMA CommitShape ==
  ASSUME IInv, TypeInv', NEW r \in Req, Committing(r)
  PROVE  OnlyEnds \/ \E id \in Key : Begins(id)
<1>. USE DEF TypeInv, TypeOK
<1>1. CASE CommitDestroyed(r)
  BY <1>1 DEF CommitDestroyed, CommitFails, Deletes, OnlyEnds, IInv, storeVars
<1>2. CASE DeleteSuperseded(r)
  BY <1>2 DEF DeleteSuperseded, Deletes, OnlyEnds, IInv
<1>3. CASE CommitUpdate(r)
  <2>. DEFINE id == sess[r].id
  <2>1. /\ sess[r] \in Session /\ id \in Key /\ birth[id] # None
    BY <1>3, InServerFacts DEF CommitUpdate, InServer
  <2>2. store[id] # None => Live(id)
    BY <2>1 DEF Live, IInv, FreshKeys
  <2>3. SnapshotOf(sess[r]) \in Snapshot
    BY <2>1, CommitOps
  <2>. QED BY <1>3, <2>1, <2>2, <2>3 DEF CommitUpdate, CommitFails, OnlyEnds, IInv, storeVars
<1>4. CASE CommitCreate(r)
  <2>. DEFINE id == sess[r].id
  <2>1. /\ sess[r] \in Session /\ id \in Key /\ Unborn(id)
    BY <1>4, InServerFacts DEF CommitCreate, InServer, Creating
  <2>2. SnapshotOf(sess[r]) \in Snapshot /\ IdentityOf(sess[r]) \in Identity
    BY <2>1, CommitOps
  <2>3. CASE UNCHANGED <<store, birth>>
    BY <2>3 DEF OnlyEnds
  <2>4. CASE /\ store' = [store EXCEPT ![id] = SnapshotOf(sess[r])]
             /\ birth' = [birth EXCEPT ![id] = IdentityOf(sess[r])]
    <3>1. Begins(id)
      BY <2>1, <2>2, <2>4 DEF Begins, IInv
    <3>. QED BY <2>1, <3>1
  <2>. QED BY <1>4, <2>3, <2>4 DEF CommitCreate, CommitFails, storeVars
<1>. QED BY <1>1, <1>2, <1>3, <1>4 DEF Committing

LEMMA LateShape ==
  ASSUME IInv, TypeInv', NEW c \in late, LateEffect(c)
  PROVE  OnlyEnds \/ \E id \in Key : Begins(id)
<1>. USE DEF TypeInv, TypeOK
<1>1. c \in Command /\ c.id \in Key /\ LateCommand(c)
  BY DEF IInv, Command, LateCommands
<1>2. CASE UNCHANGED <<store, birth>>
  BY <1>2 DEF OnlyEnds
<1>3. CASE c.op = "delete"
  BY <1>1, <1>3 DEF LateEffect, OnlyEnds, IInv
<1>4. CASE c.op = "update" /\ store[c.id] # None
  <2>1. /\ store' = [store EXCEPT ![c.id] = c.data] /\ UNCHANGED birth
        /\ c.data \in Snapshot /\ Stands(c.id, c.data.user)
    BY <1>1, <1>4 DEF LateEffect, LateCommand, Command
  <2>2. c.data.user \in User \cup {None} /\ birth[c.id] # None
    BY <1>1, <2>1, BornIsSome DEF Snapshot
  <2>3. Live(c.id)
    BY <1>1, <1>4, <2>2 DEF Live, IInv, FreshKeys
  <2>. QED BY <1>1, <2>1, <2>3 DEF OnlyEnds, IInv
<1>5. CASE c.op = "create" /\ store[c.id] = None
  <2>1. /\ store' = [store EXCEPT ![c.id] = c.data]
        /\ birth' = [birth EXCEPT ![c.id] = [csrf |-> c.data.csrf, user |-> c.data.user]]
        /\ c.data \in Snapshot /\ Unborn(c.id)
    BY <1>1, <1>5 DEF LateEffect, LateCommand, Command
  <2>2. [csrf |-> c.data.csrf, user |-> c.data.user] \in Identity
    BY <2>1 DEF Snapshot, Identity
  <2>3. Begins(c.id)
    BY <1>1, <2>1, <2>2 DEF Begins, IInv
  <2>. QED BY <1>1, <2>3
<1>. QED BY <1>2, <1>3, <1>4, <1>5 DEF LateEffect

LEMMA StepShape ==
  ASSUME IInv, TypeInv', Next
  PROVE  OnlyEnds \/ \E id \in Key : Begins(id)
<1>1. CASE UNCHANGED <<store, birth>>
  BY <1>1 DEF OnlyEnds
<1>2. ASSUME NEW r \in Req, Sending(r) \/ Loading(r) \/ Handling(r) \/ Answering(r)
      PROVE  UNCHANGED <<store, birth>>
  BY <1>2 DEF Sending, Browse, SubmitApi, ReturnFromEdupass, Send, Loading, LoadSession,
              NewSession, LoadFails, Disconnect, Handling, HandleIndex, HandleLogin, HandleLogout,
              HandleApi, HandleAuthEdupass, CallbackRefuses, CallbackSignsIn, Handle, Answering,
              Deliver, LoseResponse, storeVars
<1>3. ASSUME Environment, ~\E c \in late : LateEffect(c) PROVE OnlyEnds
  <2>1. CASE \E id \in Key : Expire(id)
    BY <2>1 DEF Expire, OnlyEnds, IInv, TypeInv, TypeOK
  <2>2. CASE Restart
    BY <2>2 DEF Restart, OnlyEnds
  <2>3. CASE \/ DropCookie \/ \E a \in Attempt, u \in User : EdupassGrants(a, u)
             \/ \E a \in Attempt : EdupassDenies(a)
             \/ \E c \in late : LateLost(c)
    BY <2>3 DEF DropCookie, EdupassGrants, EdupassDenies, LateLost, storeVars, OnlyEnds
  <2>. QED BY <1>3, <2>1, <2>2, <2>3 DEF Environment
<1>. QED BY <1>1, <1>2, <1>3, CommitShape, LateShape DEF Next

(* The abstract state of one ID, spelt out.                                    *)
LEMMA LifeAt ==
  /\ life \in [Key -> {"unborn", "live", "dead"}]
  /\ \A k \in Key : /\ life[k] = "live" <=> Live(k)
                    /\ life[k] = "unborn" <=> ~Live(k) /\ birth[k] = None /\ k \notin Legacy
  BY DEF life

LEMMA LifeStep ==
  ASSUME IInv, IInv', Next
  PROVE  Life!LifeNext
<1>0. who = birth /\ who' = birth'
  BY WhoIsBirth, WhoIsBirthNext
<1>1. TypeOK /\ TypeOK'
  BY DEF IInv, TypeInv
<1>2. CASE OnlyEnds
  <2>. DEFINE ids == {k \in Key : Live(k) /\ ~Live(k)'}
  <2>1. \A k \in Key : Live(k) => birth[k] # None
    BY BornIsSome DEF IInv, BornAsStored, Live, Snapshot
  <2>2. \A k \in Key : life'[k] = IF k \in ids THEN "dead" ELSE life[k]
    <3>1. \A k \in Key : Live(k)' => Live(k)
      BY <1>2 DEF OnlyEnds, Live
    <3>. QED BY <1>2, <2>1, <3>1 DEF OnlyEnds, life
  <2>3. life' = [k \in Key |-> IF k \in ids THEN "dead" ELSE life[k]]
    BY <2>2 DEF life
  <2>4. \A k \in ids : life[k] = "live"
    BY LifeAt
  <2>5. Life!End(ids)
    BY <1>0, <1>2, <2>3, <2>4 DEF Life!End, OnlyEnds
  <2>6. ids \in SUBSET Key
    OBVIOUS
  <2>. QED BY <2>5, <2>6 DEF Life!LifeNext
<1>3. ASSUME NEW id \in Key, Begins(id) PROVE Life!LifeNext
  <2>1. life[id] = "unborn"
    BY <1>3 DEF life, Begins, Unborn, Live
  <2>2. life' = [life EXCEPT ![id] = "live"]
    BY <1>3 DEF life, Begins, Live
  <2>3. who' = [who EXCEPT ![id] = birth'[id]]
    BY <1>0, <1>1, <1>3 DEF Begins, TypeOK
  <2>4. Life!Begin(id, birth'[id])
    BY <2>1, <2>2, <2>3 DEF Life!Begin
  <2>. QED BY <1>3, <2>4 DEF Life!LifeNext, Begins
<1>. QED BY <1>2, <1>3, StepShape DEF IInv

(* The session layer, with its requests, store, lost replies and restarts,     *)
(* implements SessionLife: an ID begins once, with the identity it keeps, and  *)
(* never lives after it has ended.                                             *)
THEOREM SessionLayerImplementsLife == Spec => ImplementsLife
<1>1. Init => Life!LifeInit
  BY DEF Init, Life!LifeInit, life, who, Live
<1>2. IInv /\ IInv' /\ [Next]_vars => [Life!LifeNext]_<<life, who>>
  <2>. SUFFICES ASSUME IInv, IInv', [Next]_vars PROVE [Life!LifeNext]_<<life, who>>
    OBVIOUS
  <2>1. CASE Next
    BY <2>1, LifeStep
  <2>2. CASE UNCHANGED vars
    BY <2>2 DEF vars, storeVars, life, who, Live
  <2>. QED BY <2>1, <2>2
<1>. QED BY <1>1, <1>2, Invariant, PTL DEF Spec, ImplementsLife, Life!LifeSpec, Life!lifeVars
=============================================================================
