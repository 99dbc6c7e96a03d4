--------------------------- MODULE SignedInProofs ---------------------------
(***************************************************************************)
(* What becomes of logins in SessionServer, for every number of requests,  *)
(* keys, users and attempts and either store provider.                     *)
(*                                                                         *)
(* SignedInStaysCleared: a pending login is only ever held under one ID.   *)
(* When the sign-in that took it has committed, that ID has ended, and by  *)
(* EndedForGood an ended ID has no entry: requests that still hold the     *)
(* pending login cannot bring it back.                                     *)
(*                                                                         *)
(* SignedInAsGranted: an ID comes to stand for a user in one step only,    *)
(* the callback that signs in, which draws it and redeems a login for it.  *)
(***************************************************************************)
EXTENDS SessionServerProofs

USE NoneIsNoValue, SentinelsAreNoRecords, ConfigAssumption

(* What keeps a pending login at home: it is held under no ID that it was not  *)
(* held under before.                                                          *)
Shrinks(a) == \A id \in Key : HeldAt(a, id)' => HeldAt(a, id)

LEMMA ShrunkAtHome ==
  ASSUME NEW a \in Attempt, PendingAtHome(a), Shrinks(a), ended \subseteq ended',
         completed'[a] = "signedIn" => completed[a] = "signedIn",
         edupass'[a] = "unused" => edupass[a] = "unused"
  PROVE  PendingAtHome(a)'
  BY DEF PendingAtHome, Shrinks

(* A request's step leaves the other requests where they are. *)
OnlyMoves(r) ==
  \A q \in Req \ {r} : /\ pc'[q] = pc[q] /\ sess'[q] = sess[q]
                       /\ superseded'[q] = superseded[q] /\ resp'[q] = resp[q]

LEMMA OthersHold ==
  ASSUME NEW r \in Req, OnlyMoves(r), NEW a, NEW id, NEW q \in Req \ {r}, HeldBy(q, a, id)'
  PROVE  HeldBy(q, a, id)
  BY DEF OnlyMoves, HeldBy, InServer

(* A step of r that changes neither the entries nor the late commands: only    *)
(* what r itself comes to hold matters.                                        *)
LEMMA QuietMove ==
  ASSUME NEW r \in Req, OnlyMoves(r), UNCHANGED <<store, late>>, NEW a,
         \A id \in Key : HeldBy(r, a, id)' => HeldAt(a, id)
  PROVE  Shrinks(a)
<1>. SUFFICES ASSUME NEW id \in Key, HeldAt(a, id)' PROVE HeldAt(a, id)
  BY DEF Shrinks
<1>1. CASE (Live(id) /\ store[id].pending = a)'
  BY <1>1 DEF HeldAt, Live
<1>2. CASE (\E c \in late : c.op # "delete" /\ c.id = id /\ c.data.pending = a)'
  BY <1>2 DEF HeldAt
<1>3. ASSUME NEW q \in Req, HeldBy(q, a, id)' PROVE HeldAt(a, id)
  <2>1. CASE q = r
    BY <1>3, <2>1
  <2>2. CASE q # r
    BY <1>3, <2>2, OthersHold DEF HeldAt
  <2>. QED BY <2>1, <2>2
<1>. QED BY <1>1, <1>2, <1>3 DEF HeldAt

(* A step of r that commits what r holds, at once or late, or deletes. *)
LEMMA CommitMove ==
  ASSUME NEW r \in Req, OnlyMoves(r), NEW a,
         \A id \in Key : (Live(id) /\ store[id].pending = a)' =>
                            (Live(id) /\ store[id].pending = a) \/ HeldBy(r, a, id),
         \A c \in late' \ late : c.op = "delete" \/ c.data.pending # a \/ HeldBy(r, a, c.id),
         \A id \in Key : HeldBy(r, a, id)' => HeldBy(r, a, id)
  PROVE  Shrinks(a)
<1>. SUFFICES ASSUME NEW id \in Key, HeldAt(a, id)' PROVE HeldAt(a, id)
  BY DEF Shrinks
<1>1. CASE (Live(id) /\ store[id].pending = a)'
  BY <1>1 DEF HeldAt
<1>2. ASSUME NEW c \in late', c.op # "delete", c.id = id, c.data.pending = a PROVE HeldAt(a, id)
  BY <1>2 DEF HeldAt
<1>3. ASSUME NEW q \in Req, HeldBy(q, a, id)' PROVE HeldAt(a, id)
  <2>1. CASE q = r
    BY <1>3, <2>1 DEF HeldAt
  <2>2. CASE q # r
    BY <1>3, <2>2, OthersHold DEF HeldAt
  <2>. QED BY <2>1, <2>2
<1>. QED BY <1>1, <1>2, <1>3 DEF HeldAt

(* At first nobody has asked for a login. *)
LEMMA InitPending == Init => PendingInv
<1>. SUFFICES ASSUME Init PROVE PendingInv
  OBVIOUS
<1>1. ASSUME NEW a \in Attempt, NEW id \in Key PROVE ~HeldAt(a, id)
  BY DEF Init, HeldAt, HeldBy, InServer, Live
<1>. QED BY <1>1 DEF PendingInv, LoadedUnderItsID, PendingAtHome, Init

(* Requests arrive and load: what a session brings along is in its entry.      *)
LEMMA SendingPending ==
  ASSUME IInv, PendingInv, NEW r \in Req, Sending(r) PROVE PendingInv'
<1>. USE DEF IInv, TypeInv, TypeOK
<1>1. /\ UNCHANGED <<store, late, ended, completed, edupass, sess, superseded, resp>>
      /\ pc' = [pc EXCEPT ![r] = "arrived"]
  <2>1. PICK c : Send(r, c)
    BY DEF Sending, Browse, SubmitApi, ReturnFromEdupass
  <2>. QED BY <2>1 DEF Send, storeVars, edupassVars, historyVars
<1>2. OnlyMoves(r)
  BY <1>1 DEF OnlyMoves
<1>3. ASSUME NEW a \in Attempt PROVE PendingAtHome(a)'
  <2>1. \A id \in Key : ~HeldBy(r, a, id)'
    BY <1>1 DEF HeldBy, InServer
  <2>2. Shrinks(a)
    BY <1>1, <1>2, <2>1, QuietMove
  <2>. QED BY <1>1, <2>2, ShrunkAtHome DEF PendingInv
<1>4. LoadedUnderItsID'
  BY <1>1 DEF PendingInv, LoadedUnderItsID
<1>. QED BY <1>3, <1>4 DEF PendingInv

LEMMA LoadingPending ==
  ASSUME IInv, PendingInv, NEW r \in Req, Loading(r) PROVE PendingInv'
<1>. USE DEF IInv, TypeInv, TypeOK
<1>1. UNCHANGED <<store, late, ended, completed, edupass>>
  BY DEF Loading, LoadSession, NewSession, LoadFails, Disconnect, storeVars, edupassVars,
         historyVars
<1>2. OnlyMoves(r)
  BY DEF Loading, LoadSession, NewSession, LoadFails, Disconnect, Forget, OnlyMoves
<1>3. pc[r] = "arrived" /\ resp[r] = Blank
  BY DEF Loading, LoadSession, NewSession, LoadFails, Disconnect, RequestsReady
<1>4. /\ \A a \in Attempt, id \in Key : HeldBy(r, a, id)' => HeldAt(a, id)
      /\ pc'[r] = "loaded" => sess'[r].storedID \in {None, sess'[r].id}
  <2>1. CASE LoadSession(r)
    <3>. DEFINE k == call[r].cookie
    <3>1. k \in Key /\ Live(k) /\ Entry(r) = store[k]
      BY <2>1 DEF LoadSession, Entry, Live, Call
    <3>2. pc'[r] = "loaded" /\ sess'[r] = Loaded(k, store[k]) /\ resp'[r] = Blank
      BY <1>3, <2>1, <3>1 DEF LoadSession
    <3>3. /\ sess'[r].id = k /\ sess'[r].storedID = k /\ sess'[r].pending = store[k].pending
      BY <3>2 DEF Loaded
    <3>. QED BY <3>1, <3>2, <3>3 DEF HeldBy, HeldAt, Blank
  <2>2. CASE NewSession(r)
    <3>1. PICK k \in Key : sess' = [sess EXCEPT ![r] = New(k)]
      BY <2>2 DEF NewSession
    <3>2. pc'[r] = "loaded" /\ sess'[r] = New(k) /\ resp'[r] = Blank
      BY <1>3, <2>2, <3>1 DEF NewSession
    <3>. QED BY <3>2 DEF HeldBy, New, Blank
  <2>3. CASE LoadFails(r) \/ Disconnect(r)
    <3>1. pc'[r] \in {"answered", "idle"}
      BY <2>3 DEF LoadFails, Disconnect, Forget
    <3>. QED BY <3>1 DEF HeldBy, InServer
  <2>. QED BY <2>1, <2>2, <2>3 DEF Loading
<1>5. ASSUME NEW a \in Attempt PROVE PendingAtHome(a)'
  <2>1. Shrinks(a)
    BY <1>1, <1>2, <1>4, QuietMove
  <2>. QED BY <1>1, <2>1, ShrunkAtHome DEF PendingInv
<1>6. LoadedUnderItsID'
  BY <1>2, <1>4 DEF PendingInv, LoadedUnderItsID, OnlyMoves
<1>. QED BY <1>5, <1>6 DEF PendingInv

(* What every handler but two does to the pending login: it keeps it, or takes *)
(* or discards it.                                                             *)
LEMMA HandlerKeepsPending ==
  ASSUME IInv, NEW r \in Req, Handling(r), ~CallbackSignsIn(r), ~HandleAuthEdupass(r)
  PROVE  /\ \E s, answer : /\ Handle(r, call[r].route, s, answer)
                           /\ s.id = sess[r].id /\ s.storedID = sess[r].storedID
                           /\ s.pending \in {None, sess[r].pending}
         /\ \A a \in Attempt : edupass'[a] = "unused" => edupass[a] = "unused"
<1>. USE DEF IInv, TypeInv, TypeOK
<1>1. pc[r] = "loaded" /\ sess[r] \in Session
  BY DEF Handling, HandleIndex, HandleLogin, HandleLogout, HandleApi, CallbackRefuses, Handle,
         Asks, RequestsReady, InServer
<1>2. CASE HandleIndex(r) \/ HandleLogin(r) \/ HandleApi(r)
  BY <1>2 DEF HandleIndex, HandleLogin, HandleApi, Handle, Asks, edupassVars
<1>3. CASE HandleLogout(r)
  <2>1. Handle(r, call[r].route, Destroy(sess[r]), Blank) /\ UNCHANGED edupass
    BY <1>3 DEF HandleLogout, Handle, Asks, edupassVars
  <2>2. /\ Destroy(sess[r]).id = sess[r].id /\ Destroy(sess[r]).storedID = sess[r].storedID
        /\ Destroy(sess[r]).pending = None
    BY <1>1 DEF Destroy, Session
  <2>. QED BY <2>1, <2>2
<1>4. CASE CallbackRefuses(r)
  <2>1. Handle(r, call[r].route, TakePending(sess[r]), [Blank EXCEPT !.took = sess[r].pending])
    BY <1>4 DEF CallbackRefuses, Handle, Asks
  <2>2. /\ TakePending(sess[r]).id = sess[r].id
        /\ TakePending(sess[r]).storedID = sess[r].storedID
        /\ TakePending(sess[r]).pending = None
    BY <1>1 DEF TakePending, Session
  <2>3. \A a \in Attempt : edupass'[a] = "unused" => edupass[a] = "unused"
    BY <1>4 DEF CallbackRefuses
  <2>. QED BY <2>1, <2>2, <2>3
<1>. QED BY <1>2, <1>3, <1>4 DEF Handling

LEMMA HandlingPending ==
  ASSUME IInv, PendingInv, NEW r \in Req, Handling(r) PROVE PendingInv'
<1>. USE DEF IInv, TypeInv, TypeOK
<1>1. /\ pc[r] = "loaded" /\ sess[r] \in Session
      /\ sess[r].storedID \in {None, sess[r].id} /\ InServer(r)
  BY DEF Handling, HandleIndex, HandleLogin, HandleLogout, HandleApi, HandleAuthEdupass,
         CallbackRefuses, CallbackSignsIn, Handle, Asks, RequestsReady, InServer, PendingInv,
         LoadedUnderItsID
<1>2. ASSUME NEW route, NEW s, NEW answer, Handle(r, route, s, answer)
      PROVE  /\ OnlyMoves(r) /\ UNCHANGED <<store, late, ended, completed>>
             /\ pc'[r] = "handled" /\ sess'[r] = s /\ resp'[r] = answer
             /\ LoadedUnderItsID'
  <2>1. /\ pc' = [pc EXCEPT ![r] = "handled"] /\ sess' = [sess EXCEPT ![r] = s]
        /\ resp' = [resp EXCEPT ![r] = answer]
        /\ UNCHANGED <<superseded, store, late, ended, completed>>
    BY <1>2 DEF Handle, storeVars, historyVars
  <2>. QED BY <2>1 DEF OnlyMoves, PendingInv, LoadedUnderItsID
<1>3. CASE ~CallbackSignsIn(r) /\ ~HandleAuthEdupass(r)
  <2>1. PICK s, answer : /\ Handle(r, call[r].route, s, answer)
                         /\ s.id = sess[r].id /\ s.storedID = sess[r].storedID
                         /\ s.pending \in {None, sess[r].pending}
    BY <1>3, HandlerKeepsPending
  <2>2. ASSUME NEW a \in Attempt PROVE PendingAtHome(a)'
    <3>1. \A id \in Key : HeldBy(r, a, id)' => HeldBy(r, a, id)
      BY <1>1, <1>2, <2>1 DEF HeldBy
    <3>2. Shrinks(a)
      BY <1>2, <2>1, <3>1, QuietMove DEF HeldAt
    <3>. QED BY <1>2, <1>3, <2>1, <3>2, HandlerKeepsPending, ShrunkAtHome DEF PendingInv
  <2>. QED BY <1>2, <2>1, <2>2 DEF PendingInv
<1>4. CASE HandleAuthEdupass(r)
  <2>1. PICK b \in Attempt :
          /\ edupass[b] = "unused" /\ edupass' = [edupass EXCEPT ![b] = "minted"]
          /\ Handle(r, "authEdupass", SetPending(sess[r], b), [Blank EXCEPT !.asks = b])
    BY <1>4 DEF HandleAuthEdupass
  <2>2. /\ sess'[r].id = sess[r].id /\ sess'[r].pending = b /\ resp'[r].took = None
    BY <1>1, <1>2, <2>1 DEF SetPending, Session, Blank
  <2>3. \A a \in Attempt, id \in Key : HeldBy(r, a, id)' => a = b /\ id = sess[r].id
    BY <2>2 DEF HeldBy
  <2>4. ASSUME NEW a \in Attempt, a # b PROVE PendingAtHome(a)'
    <3>1. Shrinks(a)
      BY <1>2, <2>1, <2>3, <2>4, QuietMove
    <3>. QED BY <1>2, <2>1, <2>4, <3>1, ShrunkAtHome DEF PendingInv
  <2>5. PendingAtHome(b)'
    <3>1. \A id \in Key : ~HeldAt(b, id)
      BY <2>1 DEF PendingInv, PendingAtHome
    <3>2. ASSUME NEW id \in Key, HeldAt(b, id)' PROVE id = sess[r].id
      <4>1. \A q \in Req \ {r} : ~HeldBy(q, b, id)'
        BY <1>2, <2>1, <3>1, OthersHold DEF HeldAt
      <4>2. ~(Live(id) /\ store[id].pending = b)'
        BY <1>2, <2>1, <3>1 DEF HeldAt, Live
      <4>3. ~(\E c \in late : c.op # "delete" /\ c.id = id /\ c.data.pending = b)'
        BY <1>2, <2>1, <3>1 DEF HeldAt
      <4>. QED BY <2>3, <3>2, <4>1, <4>2, <4>3 DEF HeldAt
    <3>3. completed'[b] # "signedIn" /\ edupass'[b] = "minted"
      BY <1>2, <2>1 DEF PendingInv, PendingAtHome
    <3>. QED BY <3>2, <3>3 DEF PendingAtHome
  <2>. QED BY <1>2, <2>1, <2>4, <2>5 DEF PendingInv
<1>5. CASE CallbackSignsIn(r)
  <2>. DEFINE b == call[r].attempt
  <2>1. PICK k \in Key :
          Handle(r, "callback", SetUser(sess[r], k, grantee[b]), [Blank EXCEPT !.took = b])
    BY <1>5 DEF CallbackSignsIn
  <2>2. sess[r].pending = b /\ edupass' = [edupass EXCEPT ![b] = "redeemed"]
    BY <1>5 DEF CallbackSignsIn
  <2>3. /\ sess'[r].pending = None /\ sess'[r].storedID = sess[r].storedID
        /\ resp'[r].took = b
    <3>1. /\ SetUser(sess[r], k, grantee[b]).pending = None
          /\ SetUser(sess[r], k, grantee[b]).storedID = sess[r].storedID
      BY <1>1 DEF SetUser, Session
    <3>2. [Blank EXCEPT !.took = b].took = b
      BY DEF Blank
    <3>. QED BY <1>2, <2>1, <3>1, <3>2
  <2>4. ASSUME NEW a \in Attempt PROVE PendingAtHome(a)'
    <3>1. \A id \in Key : HeldBy(r, a, id)' => HeldBy(r, a, id)
      BY <1>1, <1>2, <2>1, <2>2, <2>3 DEF HeldBy
    <3>2. Shrinks(a)
      BY <1>2, <2>1, <3>1, QuietMove DEF HeldAt
    <3>. QED BY <1>2, <2>1, <2>2, <3>2, ShrunkAtHome DEF PendingInv
  <2>. QED BY <1>2, <2>1, <2>4 DEF PendingInv
<1>. QED BY <1>3, <1>4, <1>5

(* A failed call leaves a command behind, with what the session holds.         *)
LEMMA CommitFailsPending ==
  ASSUME IInv, PendingInv, NEW r \in Req, pc[r] = "handled", NEW c, CommitFails(r, c),
         c.op = "delete" \/ (c.id = sess[r].id /\ c.data.pending = sess[r].pending),
         UNCHANGED edupass
  PROVE  PendingInv'
<1>. USE DEF IInv, TypeInv, TypeOK
<1>1. /\ pc' = [pc EXCEPT ![r] = "answered"] /\ resp' = [resp EXCEPT ![r] = Blank]
      /\ late' = late \cup {c}
      /\ UNCHANGED <<sess, superseded, store, ended, completed>>
  BY DEF CommitFails, Answer
<1>2. OnlyMoves(r) /\ LoadedUnderItsID'
  BY <1>1 DEF OnlyMoves, PendingInv, LoadedUnderItsID
<1>3. ASSUME NEW a \in Attempt PROVE PendingAtHome(a)'
  <2>1. \A id \in Key : ~HeldBy(r, a, id)'
    BY <1>1 DEF HeldBy, InServer
  <2>2. \A d \in late' \ late : d.op = "delete" \/ d.data.pending # a \/ HeldBy(r, a, d.id)
    BY <1>1 DEF HeldBy, InServer
  <2>3. \A id \in Key : (Live(id) /\ store[id].pending = a)' => Live(id) /\ store[id].pending = a
    BY <1>1 DEF Live
  <2>4. Shrinks(a)
    BY <1>2, <2>1, <2>2, <2>3, CommitMove
  <2>. QED BY <1>1, <2>4, ShrunkAtHome DEF PendingInv
<1>. QED BY <1>2, <1>3 DEF PendingInv

LEMMA CommitDestroyedPending ==
  ASSUME IInv, PendingInv, NEW r \in Req, CommitDestroyed(r) PROVE PendingInv'
<1>. USE DEF IInv, TypeInv, TypeOK
<1>1. pc[r] = "handled" /\ UNCHANGED edupass
  BY DEF CommitDestroyed, edupassVars
<1>. DEFINE c == [op |-> "delete", id |-> sess[r].storedID, data |-> None]
<1>2. CASE CommitFails(r, c)
  <2>1. c.op = "delete"
    OBVIOUS
  <2>. HIDE DEF c
  <2>. QED BY <1>1, <1>2, <2>1, CommitFailsPending
<1>3. CASE ~CommitFails(r, c)
  <2>1. /\ pc' = [pc EXCEPT ![r] = "answered"]
        /\ resp' = [resp EXCEPT ![r] = WithCookie(r, "expired")]
        /\ store' = store \/ store' = [store EXCEPT ![sess[r].storedID] = None]
        /\ ended \subseteq ended'
        /\ UNCHANGED <<sess, superseded, late, completed>>
    BY <1>3 DEF CommitDestroyed, Answer, Deletes, storeVars, historyVars
  <2>2. OnlyMoves(r) /\ LoadedUnderItsID'
    BY <2>1 DEF OnlyMoves, PendingInv, LoadedUnderItsID
  <2>3. ASSUME NEW a \in Attempt PROVE PendingAtHome(a)'
    <3>1. \A id \in Key : ~HeldBy(r, a, id)'
      BY <2>1 DEF HeldBy, InServer
    <3>2. \A id \in Key : (Live(id) /\ store[id].pending = a)' => Live(id) /\ store[id].pending = a
      BY <2>1 DEF Live
    <3>3. Shrinks(a)
      BY <2>1, <2>2, <3>1, <3>2, CommitMove
    <3>. QED BY <1>1, <2>1, <3>3, ShrunkAtHome DEF PendingInv
  <2>. QED BY <2>2, <2>3 DEF PendingInv
<1>. QED BY <1>2, <1>3

(* A commit under the session's own ID puts what it holds in the entry.        *)
LEMMA CommitUpdatePending ==
  ASSUME IInv, PendingInv, NEW r \in Req, CommitUpdate(r) PROVE PendingInv'
<1>. USE DEF IInv, TypeInv, TypeOK
<1>. DEFINE id == sess[r].id
            c  == [op |-> "update", id |-> id, data |-> SnapshotOf(sess[r])]
<1>1. pc[r] = "handled" /\ UNCHANGED edupass /\ sess[r] \in Session /\ id \in Key
  BY DEF CommitUpdate, edupassVars, RequestsReady, InServer, Session
<1>2. CASE CommitFails(r, c)
  BY <1>1, <1>2, CommitFailsPending DEF SnapshotOf
<1>3. CASE ~CommitFails(r, c)
  <2>1. /\ pc' = [pc EXCEPT ![r] = "answered"]
        /\ \E answer : resp' = [resp EXCEPT ![r] = answer]
        /\ store' = store \/ store' = [store EXCEPT ![id] = SnapshotOf(sess[r])]
        /\ completed' = completed \/ Completes(r, "refused")
        /\ UNCHANGED <<sess, superseded, late, ended>>
    BY <1>3 DEF CommitUpdate, Answer, storeVars, historyVars
  <2>2. OnlyMoves(r) /\ LoadedUnderItsID'
    BY <2>1 DEF OnlyMoves, PendingInv, LoadedUnderItsID
  <2>3. ASSUME NEW a \in Attempt PROVE PendingAtHome(a)'
    <3>1. \A j \in Key : ~HeldBy(r, a, j)'
      BY <2>1 DEF HeldBy, InServer
    <3>2. \A j \in Key : (Live(j) /\ store[j].pending = a)' =>
                            (Live(j) /\ store[j].pending = a) \/ HeldBy(r, a, j)
      BY <1>1, <2>1 DEF Live, SnapshotOf, HeldBy, InServer
    <3>3. Shrinks(a)
      BY <2>1, <2>2, <3>1, <3>2, CommitMove
    <3>4. completed'[a] = "signedIn" => completed[a] = "signedIn"
      BY <2>1 DEF Completes
    <3>. QED BY <1>1, <2>1, <3>3, <3>4, ShrunkAtHome DEF PendingInv
  <2>. QED BY <2>2, <2>3 DEF PendingInv
<1>. QED BY <1>2, <1>3

(* A creation does the same, and remembers the ID that the sign-in gave up.    *)
LEMMA CommitCreatePending ==
  ASSUME IInv, PendingInv, NEW r \in Req, CommitCreate(r) PROVE PendingInv'
<1>. USE DEF IInv, TypeInv, TypeOK
<1>. DEFINE id == sess[r].id
            c  == [op |-> "create", id |-> id, data |-> SnapshotOf(sess[r])]
<1>1. /\ pc[r] = "handled" /\ UNCHANGED edupass /\ sess[r] \in Session /\ id \in Key
      /\ id # sess[r].storedID
  BY DEF CommitCreate, edupassVars, RequestsReady, InServer, Session
<1>2. CASE CommitFails(r, c)
  <2>1. c.id = sess[r].id /\ c.data.pending = sess[r].pending
    BY DEF SnapshotOf
  <2>. HIDE DEF c
  <2>. QED BY <1>1, <1>2, <2>1, CommitFailsPending
<1>3. CASE /\ pc' = [pc EXCEPT ![r] = "answered"] /\ resp' = [resp EXCEPT ![r] = Blank]
           /\ UNCHANGED <<sess, superseded, store, late, ended, completed>>
  <2>1. OnlyMoves(r) /\ LoadedUnderItsID'
    BY <1>3 DEF OnlyMoves, PendingInv, LoadedUnderItsID
  <2>2. ASSUME NEW a \in Attempt PROVE PendingAtHome(a)'
    <3>1. \A j \in Key : ~HeldBy(r, a, j)'
      BY <1>3 DEF HeldBy, InServer
    <3>2. Shrinks(a)
      BY <1>3, <2>1, <3>1, QuietMove
    <3>. QED BY <1>1, <1>3, <3>2, ShrunkAtHome DEF PendingInv
  <2>. QED BY <2>1, <2>2 DEF PendingInv
<1>4. CASE /\ store' = [store EXCEPT ![id] = SnapshotOf(sess[r])]
           /\ superseded' = [superseded EXCEPT ![r] = sess[r].storedID]
           /\ sess' = [sess EXCEPT ![r] = Created(sess[r])]
           /\ \/ \E answer : /\ pc' = [pc EXCEPT ![r] = "answered"]
                             /\ resp' = [resp EXCEPT ![r] = answer]
              \/ pc' = [pc EXCEPT ![r] = "superseding"] /\ UNCHANGED resp
           /\ completed' = completed \/ Completes(r, "refused")
           /\ UNCHANGED <<late, ended>>
  <2>1. OnlyMoves(r) /\ LoadedUnderItsID'
    BY <1>4 DEF OnlyMoves, PendingInv, LoadedUnderItsID
  <2>2. ASSUME NEW a \in Attempt PROVE PendingAtHome(a)'
    <3>1. ASSUME NEW j \in Key, HeldBy(r, a, j)' PROVE HeldBy(r, a, j)
      <4>1. sess'[r].id = id /\ sess'[r].pending = sess[r].pending
        BY <1>1, <1>4 DEF Created, Session
      <4>2. pc'[r] = "superseding" /\ resp'[r] = resp[r]
        BY <1>4, <3>1 DEF HeldBy, InServer
      <4>3. superseded'[r] = sess[r].storedID
        BY <1>4
      <4>. QED BY <1>1, <3>1, <4>1, <4>2, <4>3 DEF HeldBy, InServer
    <3>2. \A j \in Key : (Live(j) /\ store[j].pending = a)' =>
                            (Live(j) /\ store[j].pending = a) \/ HeldBy(r, a, j)
      BY <1>1, <1>4 DEF Live, SnapshotOf, HeldBy, InServer
    <3>3. Shrinks(a)
      BY <1>4, <2>1, <3>1, <3>2, CommitMove
    <3>4. completed'[a] = "signedIn" => completed[a] = "signedIn"
      BY <1>4 DEF Completes
    <3>. QED BY <1>1, <1>4, <3>3, <3>4, ShrunkAtHome DEF PendingInv
  <2>. QED BY <2>1, <2>2 DEF PendingInv
<1>5. \/ CommitFails(r, c)
      \/ IF store[id] = None
         THEN /\ store' = [store EXCEPT ![id] = SnapshotOf(sess[r])]
              /\ superseded' = [superseded EXCEPT ![r] = sess[r].storedID]
              /\ sess' = [sess EXCEPT ![r] = Created(sess[r])]
              /\ \/ /\ Answer(r, WithCookie(r, "session"))
                    /\ Completes(r, "refused")
                 \/ pc' = [pc EXCEPT ![r] = "superseding"] /\ UNCHANGED <<resp, completed>>
              /\ UNCHANGED <<late, ended>>
         ELSE /\ Answer(r, Blank)
              /\ UNCHANGED <<sess, superseded, storeVars, historyVars>>
  BY DEF CommitCreate
<1>. QED BY <1>2, <1>3, <1>4, <1>5 DEF Answer, storeVars, historyVars

(* The pending login of a completed sign-in was held under the ID that ends.   *)
LEMMA DeleteSupersededPending ==
  ASSUME IInv, PendingInv, NEW r \in Req, DeleteSuperseded(r) PROVE PendingInv'
<1>. USE DEF IInv, TypeInv, TypeOK
<1>. DEFINE old == superseded[r]
<1>1. /\ pc[r] = "superseding" /\ old \in Key
      /\ pc' = [pc EXCEPT ![r] = "answered"]
      /\ resp' = [resp EXCEPT ![r] = WithCookie(r, "session")]
      /\ UNCHANGED <<sess, superseded, edupass>>
  BY DEF DeleteSuperseded, Answer, edupassVars, RequestsReady
<1>2. OnlyMoves(r) /\ LoadedUnderItsID'
  BY <1>1 DEF OnlyMoves, PendingInv, LoadedUnderItsID
<1>3. \/ /\ store' = [store EXCEPT ![old] = None] /\ ended' = ended \cup {old}
         /\ Completes(r, "signedIn") /\ UNCHANGED late
      \/ /\ late' = late \cup {[op |-> "delete", id |-> old, data |-> None]}
         /\ UNCHANGED <<store, ended, completed>>
  BY DEF DeleteSuperseded, Deletes, historyVars
<1>4. ASSUME NEW a \in Attempt PROVE Shrinks(a)
  <2>1. \A id \in Key : ~HeldBy(r, a, id)'
    BY <1>1 DEF HeldBy, InServer
  <2>2. \A id \in Key : (Live(id) /\ store[id].pending = a)' => Live(id) /\ store[id].pending = a
    BY <1>3 DEF Live
  <2>3. \A c \in late' \ late : c.op = "delete"
    BY <1>3
  <2>. QED BY <1>2, <2>1, <2>2, <2>3, CommitMove
<1>5. ended \subseteq ended'
  BY <1>3
<1>6. ASSUME NEW a \in Attempt, resp[r].took # a \/ completed' = completed
      PROVE  PendingAtHome(a)'
  <2>1. completed'[a] = "signedIn" => completed[a] = "signedIn"
    BY <1>3, <1>6 DEF Completes
  <2>. QED BY <1>1, <1>4, <1>5, <2>1, ShrunkAtHome DEF PendingInv
<1>7. ASSUME NEW a \in Attempt, resp[r].took = a, completed' # completed
      PROVE  PendingAtHome(a)'
  <2>1. HeldAt(a, old) /\ old \in ended'
    BY <1>1, <1>3, <1>7 DEF HeldAt, HeldBy
  <2>2. \A id \in Key : HeldAt(a, id)' => id = old
    BY <1>1, <1>4, <2>1 DEF Shrinks, PendingInv, PendingAtHome
  <2>3. edupass'[a] # "unused"
    BY <1>1, <2>1 DEF PendingInv, PendingAtHome
  <2>. QED BY <2>1, <2>2, <2>3 DEF PendingAtHome
<1>. QED BY <1>2, <1>6, <1>7 DEF PendingInv

(* An answer takes its request, with what it held, off the server.             *)
LEMMA AnsweringPending ==
  ASSUME IInv, PendingInv, NEW r \in Req, Answering(r) PROVE PendingInv'
<1>. USE DEF IInv, TypeInv, TypeOK
<1>1. /\ Forget(r) /\ UNCHANGED <<store, late, ended, completed>>
      /\ \A a \in Attempt : edupass'[a] = "unused" => edupass[a] = "unused"
  BY DEF Answering, Deliver, LoseResponse, storeVars, edupassVars, historyVars
<1>2. OnlyMoves(r) /\ LoadedUnderItsID' /\ pc'[r] = "idle"
  BY <1>1 DEF OnlyMoves, Forget, PendingInv, LoadedUnderItsID
<1>3. ASSUME NEW a \in Attempt PROVE PendingAtHome(a)'
  <2>1. \A id \in Key : ~HeldBy(r, a, id)'
    BY <1>2 DEF HeldBy, InServer
  <2>2. Shrinks(a)
    BY <1>1, <1>2, <2>1, QuietMove
  <2>. QED BY <1>1, <2>2, ShrunkAtHome DEF PendingInv
<1>. QED BY <1>2, <1>3 DEF PendingInv

(* The environment: what a late command writes, it held already.               *)
LEMMA EnvironmentPending ==
  ASSUME IInv, PendingInv, Environment PROVE PendingInv'
<1>. USE DEF IInv, TypeInv, TypeOK
<1>1. /\ ended' = ended /\ completed' = completed
      /\ \A a \in Attempt : edupass'[a] = "unused" => edupass[a] = "unused"
  BY DEF Environment, DropCookie, EdupassGrants, EdupassDenies, LateEffect, LateLost, Expire,
         Restart, edupassVars, historyVars
<1>2. CASE Restart
  <2>1. /\ \A q \in Req : pc'[q] \in {"idle", "answered"}
        /\ store' = store \/ store' = [k \in Key |-> None]
        /\ late' = late
    BY <1>2 DEF Restart, Dying
  <2>2. ASSUME NEW a \in Attempt PROVE PendingAtHome(a)'
    <3>1. \A q \in Req, id \in Key : ~HeldBy(q, a, id)'
      BY <2>1 DEF HeldBy, InServer
    <3>2. \A id \in Key : (Live(id) /\ store[id].pending = a)' => Live(id) /\ store[id].pending = a
      BY <2>1 DEF Live
    <3>3. Shrinks(a)
      BY <2>1, <3>1, <3>2 DEF Shrinks, HeldAt
    <3>. QED BY <1>1, <3>3, ShrunkAtHome DEF PendingInv
  <2>. QED BY <2>1, <2>2 DEF PendingInv, LoadedUnderItsID
<1>3. CASE ~Restart
  <2>1. UNCHANGED <<pc, sess, superseded, resp>> /\ late' \subseteq late
    BY <1>3 DEF Environment, DropCookie, EdupassGrants, EdupassDenies, LateEffect, LateLost,
                Expire, requestVars, storeVars
  <2>2. \A id \in Key : \/ store'[id] \in {store[id], None}
                        \/ \E c \in late : c.op # "delete" /\ c.id = id /\ store'[id] = c.data
    <3>1. CASE UNCHANGED store
      BY <3>1
    <3>2. ASSUME NEW k \in Key, Expire(k) PROVE \A id \in Key : store'[id] \in {store[id], None}
      BY <3>2 DEF Expire
    <3>3. ASSUME NEW c \in late, LateEffect(c)
          PROVE  \A id \in Key : \/ store'[id] \in {store[id], None}
                                 \/ c.op # "delete" /\ c.id = id /\ store'[id] = c.data
      <4>1. \/ store' = [store EXCEPT ![c.id] = None]
            \/ c.op # "delete" /\ store' = [store EXCEPT ![c.id] = c.data]
            \/ store' = store
        BY <3>3 DEF LateEffect
      <4>. QED BY <4>1
    <3>. QED BY <1>3, <3>1, <3>2, <3>3
             DEF Environment, DropCookie, EdupassGrants, EdupassDenies, LateLost, storeVars
  <2>3. ASSUME NEW a \in Attempt PROVE PendingAtHome(a)'
    <3>1. ASSUME NEW id \in Key, (Live(id) /\ store[id].pending = a)' PROVE HeldAt(a, id)
      BY <2>2, <3>1 DEF HeldAt, Live
    <3>2. \A q \in Req, id \in Key : HeldBy(q, a, id)' => HeldBy(q, a, id)
      BY <2>1 DEF HeldBy, InServer
    <3>3. Shrinks(a)
      BY <2>1, <3>1, <3>2 DEF Shrinks, HeldAt
    <3>. QED BY <1>1, <3>3, ShrunkAtHome DEF PendingInv
  <2>. QED BY <2>1, <2>3 DEF PendingInv, LoadedUnderItsID
<1>. QED BY <1>2, <1>3

LEMMA PendingStep == IInv /\ PendingInv /\ [Next]_vars => PendingInv'
<1>. SUFFICES ASSUME IInv, PendingInv, [Next]_vars PROVE PendingInv'
  OBVIOUS
<1>1. ASSUME NEW r \in Req, Committing(r) PROVE PendingInv'
  BY <1>1, CommitDestroyedPending, CommitCreatePending, DeleteSupersededPending,
     CommitUpdatePending DEF Committing
<1>2. CASE Environment
  BY <1>2, EnvironmentPending
<1>3. CASE UNCHANGED vars
  BY <1>3 DEF vars, requestVars, storeVars, edupassVars, historyVars, PendingInv,
              LoadedUnderItsID, PendingAtHome, HeldAt, HeldBy, InServer, Live
<1>. QED BY <1>1, <1>2, <1>3, SendingPending, LoadingPending, HandlingPending, AnsweringPending
         DEF Next

(* A pending login is held under one ID only, and from when the sign-in that   *)
(* took it has committed that ID has ended (session.go:131-155).               *)
THEOREM PendingStaysAtHome == Spec => []PendingInv
  BY Invariant, InitPending, PendingStep, PTL DEF Spec

(* Once a sign-in has committed and its old entry is deleted, no live entry    *)
(* holds its pending login, whatever requests that loaded it still commit.     *)
THEOREM SignedInCleared == Spec => []SignedInStaysCleared
<1>1. IInv /\ PendingInv => SignedInStaysCleared
  <2>. SUFFICES ASSUME IInv, PendingInv, NEW a \in Attempt, completed[a] = "signedIn",
                       NEW id \in Key, Live(id), store[id].pending = a
                PROVE  FALSE
    BY DEF SignedInStaysCleared, PendingIn
  <2>1. id \in ended
    BY DEF PendingInv, PendingAtHome, HeldAt
  <2>. QED BY <2>1 DEF IInv, EndedForGood, Live
<1>. QED BY <1>1, Invariant, PendingStaysAtHome, PTL

-----------------------------------------------------------------------------
(* SignedInAsGranted. *)

(* What keeps the logins granted: no ID comes to stand for a user, and what    *)
(* has been redeemed stays so.                                                 *)
NoNewUser == \A id \in Key, u \in User : StandsAs(id, u)' => StandsAs(id, u)

Redeemed == \A a \in Attempt : edupass[a] = "redeemed" =>
                               edupass'[a] = "redeemed" /\ grantee'[a] = grantee[a]

LEMMA GrantKept ==
  ASSUME GrantInv, NoNewUser, Redeemed, AskedOnce'
  PROVE  GrantInv'
<1>1. PICK login \in [Key -> Attempt \cup {None}] : Grants(login)
  BY DEF GrantInv
<1>2. \A id \in Key : login[id] # None => login[id] \in Attempt /\ edupass[login[id]] = "redeemed"
  BY <1>1 DEF Grants
<1>3. Grants(login)'
  BY <1>1, <1>2 DEF Grants, NoNewUser, Redeemed
<1>. QED BY <1>3 DEF GrantInv

(* A step of r brings no user about that r's session did not have.             *)
LEMMA MoveKeepsUsers ==
  ASSUME NEW r \in Req, OnlyMoves(r),
         \A id \in Key, u \in User :
           /\ (birth[id] # None /\ birth[id].user = u)' => StandsAs(id, u)
           /\ (Creating(r) /\ sess[r].id = id /\ sess[r].user = u)' => StandsAs(id, u),
         \A c \in late' \ late, u \in User : c.op = "create" /\ c.data.user = u => StandsAs(c.id, u)
  PROVE  NoNewUser
<1>. SUFFICES ASSUME NEW id \in Key, NEW u \in User, StandsAs(id, u)' PROVE StandsAs(id, u)
  BY DEF NoNewUser
<1>1. CASE (birth[id] # None /\ birth[id].user = u)'
  BY <1>1
<1>2. ASSUME NEW q \in Req, (Creating(q) /\ sess[q].id = id /\ sess[q].user = u)'
      PROVE  StandsAs(id, u)
  <2>1. CASE q = r
    BY <1>2, <2>1
  <2>2. CASE q # r
    BY <1>2, <2>2 DEF OnlyMoves, Creating, StandsAs
  <2>. QED BY <2>1, <2>2
<1>3. ASSUME NEW c \in late', c.op = "create", c.id = id, c.data.user = u
      PROVE  StandsAs(id, u)
  BY <1>3 DEF StandsAs
<1>. QED BY <1>1, <1>2, <1>3 DEF StandsAs

LEMMA InitGrant == Init => GrantInv
<1>. SUFFICES ASSUME Init PROVE GrantInv
  OBVIOUS
<1>. DEFINE login == [id \in Key |-> None]
<1>1. login \in [Key -> Attempt \cup {None}]
  OBVIOUS
<1>2. ASSUME NEW id \in Key, NEW u \in User PROVE ~StandsAs(id, u)
  BY DEF Init, StandsAs, Creating
<1>3. Grants(login)
  BY <1>2 DEF Grants
<1>4. AskedOnce
  BY DEF Init, AskedOnce, Blank
<1>. QED BY <1>1, <1>3, <1>4 DEF GrantInv

(* Requests come and go, and load: the session at hand is that of an entry, or *)
(* is new.                                                                     *)
LEMMA QuietUsers ==
  ASSUME IInv, AskedOnce, NEW r \in Req, Sending(r) \/ Loading(r) \/ Answering(r)
  PROVE  NoNewUser /\ Redeemed /\ AskedOnce'
<1>. USE DEF IInv, TypeInv, TypeOK
<1>0. Blank.asks = None
  BY DEF Blank
<1>1. CASE Sending(r)
  <2>1. PICK c : Send(r, c)
    BY <1>1 DEF Sending, Browse, SubmitApi, ReturnFromEdupass
  <2>2. /\ OnlyMoves(r) /\ UNCHANGED <<birth, late>> /\ ~Creating(r)'
        /\ UNCHANGED <<edupass, grantee, resp>>
    BY <2>1 DEF Send, OnlyMoves, storeVars, edupassVars, Creating
  <2>. QED BY <2>2, MoveKeepsUsers DEF StandsAs, Redeemed, AskedOnce
<1>2. CASE Loading(r)
  <2>1. OnlyMoves(r) /\ UNCHANGED <<birth, late, edupass, grantee>> /\ resp'[r] = Blank
    BY <1>2 DEF Loading, LoadSession, NewSession, LoadFails, Disconnect, Forget, OnlyMoves,
                storeVars, edupassVars, RequestsReady
  <2>2. Redeemed /\ AskedOnce'
    BY <1>0, <2>1 DEF Redeemed, AskedOnce, OnlyMoves
  <2>3. CASE LoadSession(r)
    <3>1. sess'[r] = Loaded(call[r].cookie, Entry(r))
      BY <2>3 DEF LoadSession
    <3>2. ~Creating(r)'
      BY <3>1 DEF Creating, Loaded
    <3>. QED BY <2>1, <2>2, <3>2, MoveKeepsUsers DEF StandsAs
  <2>4. CASE NewSession(r)
    <3>1. PICK k \in Key : sess'[r] = New(k)
      BY <2>4 DEF NewSession
    <3>2. sess'[r].user = None
      BY <3>1 DEF New
    <3>. QED BY <2>1, <2>2, <3>2, MoveKeepsUsers DEF StandsAs
  <2>5. CASE LoadFails(r) \/ Disconnect(r)
    <3>1. ~Creating(r)'
      BY <2>5 DEF LoadFails, Disconnect, Forget, Creating
    <3>. QED BY <2>1, <2>2, <3>1, MoveKeepsUsers DEF StandsAs
  <2>. QED BY <1>2, <2>3, <2>4, <2>5 DEF Loading
<1>3. CASE Answering(r)
  <2>1. /\ OnlyMoves(r) /\ UNCHANGED <<birth, late, grantee>> /\ ~Creating(r)'
        /\ resp' = [resp EXCEPT ![r] = Blank]
    BY <1>3 DEF Answering, Deliver, LoseResponse, Forget, OnlyMoves, storeVars, edupassVars, Creating
  <2>2. edupass' = edupass \/ (resp[r].asks # None /\ edupass' = [edupass EXCEPT ![resp[r].asks] = "asked"])
    BY <1>3 DEF Answering, Deliver, LoseResponse, edupassVars
  <2>3. Redeemed
    BY <2>1, <2>2 DEF AskedOnce, Redeemed
  <2>4. \A q \in Req : resp'[q].asks # None => /\ q # r /\ resp'[q] = resp[q]
                                               /\ edupass'[resp[q].asks] = "minted"
    <3>. SUFFICES ASSUME NEW q \in Req, resp'[q].asks # None
                  PROVE  q # r /\ resp'[q] = resp[q] /\ edupass'[resp[q].asks] = "minted"
      OBVIOUS
    <3>1. q # r /\ resp'[q] = resp[q]
      BY <1>0, <2>1
    <3>2. /\ edupass[resp[q].asks] = "minted" /\ resp[q].asks \in Attempt
          /\ resp[r].asks # None => resp[q].asks # resp[r].asks
      BY <3>1 DEF AskedOnce, Resp
    <3>. QED BY <2>2, <3>1, <3>2
  <2>5. AskedOnce'
    BY <2>4 DEF AskedOnce
  <2>. QED BY <2>1, <2>3, <2>5, MoveKeepsUsers DEF StandsAs
<1>. QED BY <1>1, <1>2, <1>3

(* A handler keeps the user or drops it, except that of a callback that signs  *)
(* in; it asks Edupass for a login nobody has asked for.                       *)
KeepsUser(r, s, answer) == /\ pc[r] = "loaded"
                           /\ Handle(r, call[r].route, s, answer)
                           /\ s.id = sess[r].id /\ s.storedID = sess[r].storedID
                           /\ s.user \in {None, sess[r].user}
                           /\ ~HandleAuthEdupass(r) => answer.asks = None

LEMMA HandlerKeepsUser ==
  ASSUME IInv, NEW r \in Req, Handling(r), ~CallbackSignsIn(r)
  PROVE  \E s, answer : KeepsUser(r, s, answer)
<1>. USE DEF IInv, TypeInv, TypeOK, KeepsUser
<1>0. Blank.asks = None
  BY DEF Blank
<1>1. pc[r] = "loaded" /\ sess[r] \in Session
  BY DEF Handling, HandleIndex, HandleLogin, HandleLogout, HandleApi, HandleAuthEdupass,
         CallbackRefuses, Handle, Asks, RequestsReady, InServer
<1>2. CASE HandleIndex(r) \/ HandleLogin(r)
  <2>1. PICK page : Handle(r, call[r].route, sess[r], [Blank EXCEPT !.page = page])
    BY <1>2 DEF HandleIndex, HandleLogin, Handle, Asks
  <2>2. [Blank EXCEPT !.page = page].asks = None
    BY DEF Blank
  <2>. QED BY <1>1, <2>1, <2>2
<1>3. CASE HandleApi(r)
  <2>1. PICK acts : Handle(r, call[r].route, sess[r], [Blank EXCEPT !.acts = acts])
    BY <1>3 DEF HandleApi, Handle, Asks
  <2>2. [Blank EXCEPT !.acts = acts].asks = None
    BY DEF Blank
  <2>. QED BY <1>1, <2>1, <2>2
<1>4. CASE HandleLogout(r)
  <2>1. Handle(r, call[r].route, Destroy(sess[r]), Blank)
    BY <1>4 DEF HandleLogout, Handle, Asks
  <2>2. /\ Destroy(sess[r]).id = sess[r].id /\ Destroy(sess[r]).storedID = sess[r].storedID
        /\ Destroy(sess[r]).user = None
    BY <1>1 DEF Destroy, Session
  <2>. QED BY <1>0, <1>1, <2>1, <2>2
<1>5. CASE HandleAuthEdupass(r)
  <2>1. PICK b \in Attempt :
          Handle(r, call[r].route, SetPending(sess[r], b), [Blank EXCEPT !.asks = b])
    BY <1>5 DEF HandleAuthEdupass, Handle, Asks
  <2>2. /\ SetPending(sess[r], b).id = sess[r].id
        /\ SetPending(sess[r], b).storedID = sess[r].storedID
        /\ SetPending(sess[r], b).user = sess[r].user
    BY <1>1 DEF SetPending, Session
  <2>. QED BY <1>1, <1>5, <2>1, <2>2
<1>6. CASE CallbackRefuses(r)
  <2>1. Handle(r, call[r].route, TakePending(sess[r]), [Blank EXCEPT !.took = sess[r].pending])
    BY <1>6 DEF CallbackRefuses, Handle, Asks
  <2>2. /\ TakePending(sess[r]).id = sess[r].id
        /\ TakePending(sess[r]).storedID = sess[r].storedID
        /\ TakePending(sess[r]).user = sess[r].user
    BY <1>1 DEF TakePending, Session
  <2>3. [Blank EXCEPT !.took = sess[r].pending].asks = None
    BY DEF Blank
  <2>. QED BY <1>1, <2>1, <2>2, <2>3
<1>. QED BY <1>2, <1>3, <1>4, <1>5, <1>6 DEF Handling

LEMMA HandlingUsers ==
  ASSUME IInv, AskedOnce, NEW r \in Req, Handling(r), ~CallbackSignsIn(r)
  PROVE  NoNewUser /\ Redeemed /\ AskedOnce'
<1>1. PICK s, answer : KeepsUser(r, s, answer)
  BY HandlerKeepsUser
<1>. USE DEF IInv, TypeInv, TypeOK
<1>2. /\ pc[r] = "loaded" /\ pc' = [pc EXCEPT ![r] = "handled"]
      /\ sess' = [sess EXCEPT ![r] = s] /\ resp' = [resp EXCEPT ![r] = answer]
      /\ UNCHANGED <<superseded, birth, late>>
  BY <1>1 DEF KeepsUser, Handle, storeVars
<1>3. NoNewUser
  <2>1. OnlyMoves(r)
    BY <1>2 DEF OnlyMoves
  <2>2. ASSUME NEW id \in Key, NEW u \in User, (Creating(r) /\ sess[r].id = id /\ sess[r].user = u)'
        PROVE  Creating(r) /\ sess[r].id = id /\ sess[r].user = u
    BY <1>1, <1>2, <2>2 DEF KeepsUser, Creating
  <2>. QED BY <1>2, <2>1, <2>2, MoveKeepsUsers DEF StandsAs
<1>4. CASE HandleAuthEdupass(r)
  <2>1. PICK b \in Attempt :
          /\ edupass[b] = "unused" /\ edupass' = [edupass EXCEPT ![b] = "minted"]
          /\ Handle(r, "authEdupass", SetPending(sess[r], b), [Blank EXCEPT !.asks = b])
          /\ grantee' = grantee
    BY <1>4 DEF HandleAuthEdupass
  <2>2. resp' = [resp EXCEPT ![r] = [Blank EXCEPT !.asks = b]]
    BY <2>1 DEF Handle
  <2>3. resp'[r].asks = b /\ \A q \in Req : q # r => resp'[q] = resp[q] /\ resp[q].asks # b
    BY <2>1, <2>2 DEF AskedOnce, Blank
  <2>4. ASSUME NEW q \in Req, resp'[q].asks # None PROVE edupass'[resp'[q].asks] = "minted"
    <3>1. CASE q = r
      BY <2>1, <2>3, <3>1
    <3>2. CASE q # r
      <4>1. resp'[q] = resp[q] /\ edupass[resp[q].asks] = "minted" /\ resp[q].asks \in Attempt
        BY <2>3, <2>4, <3>2 DEF AskedOnce, Resp
      <4>. QED BY <2>1, <4>1
    <3>. QED BY <3>1, <3>2
  <2>5. AskedOnce'
    BY <2>3, <2>4 DEF AskedOnce
  <2>. QED BY <1>3, <2>1, <2>5 DEF Redeemed
<1>5. CASE ~HandleAuthEdupass(r)
  <2>1. /\ grantee' = grantee
        /\ edupass' = edupass \/ (\E a \in Attempt : /\ edupass[a] = "granted"
                                                   /\ edupass' = [edupass EXCEPT ![a] = "redeemed"])
    <3>1. CASE CallbackRefuses(r)
      BY <3>1 DEF CallbackRefuses, Session, Call, RequestsReady, Handle, Asks
    <3>. QED BY <1>5, <3>1 DEF Handling, HandleIndex, HandleLogin, HandleLogout, HandleApi,
                               edupassVars
  <2>2. \A q \in Req : resp'[q].asks # None => /\ q # r /\ resp'[q] = resp[q]
                                               /\ edupass'[resp[q].asks] = "minted"
    <3>. SUFFICES ASSUME NEW q \in Req, resp'[q].asks # None
                  PROVE  q # r /\ resp'[q] = resp[q] /\ edupass'[resp[q].asks] = "minted"
      OBVIOUS
    <3>1. q # r /\ resp'[q] = resp[q]
      BY <1>1, <1>2, <1>5 DEF KeepsUser
    <3>2. edupass[resp[q].asks] = "minted" /\ resp[q].asks \in Attempt
      BY <3>1 DEF AskedOnce, Resp
    <3>. QED BY <2>1, <3>1, <3>2
  <2>3. AskedOnce'
    BY <2>2 DEF AskedOnce
  <2>. QED BY <1>3, <2>1, <2>3 DEF Redeemed
<1>. QED BY <1>4, <1>5

(* A sign-in draws an ID that stands for nobody yet, and gives it the login    *)
(* that Edupass has just redeemed, which no other ID has.                      *)
LEMMA SignsInGrants ==
  ASSUME IInv, GrantInv, NEW r \in Req, CallbackSignsIn(r) PROVE GrantInv'
<1>. DEFINE a == call[r].attempt
<1>1. PICK k \in Key \ drawn :
        Handle(r, "callback", SetUser(sess[r], k, grantee[a]), [Blank EXCEPT !.took = a])
  BY DEF CallbackSignsIn
<1>2. PICK login \in [Key -> Attempt \cup {None}] : Grants(login)
  BY DEF GrantInv
<1>. USE DEF IInv, TypeInv, TypeOK
<1>3. /\ a \in Attempt /\ edupass[a] = "granted" /\ grantee' = grantee
      /\ edupass' = [edupass EXCEPT ![a] = "redeemed"]
      /\ pc[r] = "loaded" /\ sess[r] \in Session
  BY DEF CallbackSignsIn, Asks, RequestsReady, InServer, Call
<1>4. /\ OnlyMoves(r) /\ UNCHANGED <<birth, late>>
      /\ sess'[r] = SetUser(sess[r], k, grantee[a])
      /\ resp' = [resp EXCEPT ![r] = [Blank EXCEPT !.took = a]]
  BY <1>1 DEF Handle, OnlyMoves, storeVars
<1>5. sess'[r].id = k /\ sess'[r].user = grantee[a] /\ resp'[r].asks = None
  BY <1>3, <1>4 DEF SetUser, Session, Blank
<1>6. \A id \in Key : login[id] # a
  BY <1>2, <1>3 DEF Grants
<1>7. ASSUME NEW id \in Key, NEW u \in User, StandsAs(id, u)'
      PROVE  (id = k /\ u = grantee[a]) \/ (id # k /\ StandsAs(id, u))
  <2>1. CASE (birth[id] # None /\ birth[id].user = u)'
    BY <1>4, <2>1 DEF FreshKeys, StandsAs
  <2>2. ASSUME NEW q \in Req, (Creating(q) /\ sess[q].id = id /\ sess[q].user = u)'
        PROVE  (id = k /\ u = grantee[a]) \/ (id # k /\ StandsAs(id, u))
    <3>1. CASE q = r
      BY <1>5, <2>2, <3>1
    <3>2. CASE q # r
      <4>1. Creating(q) /\ sess[q].id = id /\ sess[q].user = u
        BY <1>4, <2>2, <3>2 DEF OnlyMoves, Creating
      <4>. QED BY <4>1 DEF SessionsBorn, SessionBorn, Unborn, StandsAs
    <3>. QED BY <3>1, <3>2
  <2>3. ASSUME NEW c \in late', c.op = "create", c.id = id, c.data.user = u
        PROVE  id # k /\ StandsAs(id, u)
    BY <1>4, <2>3 DEF LateCommands, LateCommand, Unborn, StandsAs
  <2>. QED BY <1>7, <2>1, <2>2, <2>3 DEF StandsAs
<1>8. PICK given \in [Key -> Attempt \cup {None}] :
        given[k] = a /\ \A id \in Key : id # k => given[id] = login[id]
  <2>1. [login EXCEPT ![k] = a] \in [Key -> Attempt \cup {None}]
    BY <1>3
  <2>. QED BY <2>1
<1>9. \A i, j \in Key : given[i] = given[j] /\ given[i] # None => i = j
  BY <1>2, <1>6, <1>8 DEF Grants
<1>10. \A id \in Key : given[id] # None => edupass'[given[id]] = "redeemed"
  <2>1. \A id \in Key : id # k /\ login[id] # None => login[id] \in Attempt /\ edupass[login[id]] = "redeemed"
    BY <1>2 DEF Grants
  <2>. QED BY <1>3, <1>8, <2>1
<1>11. ASSUME NEW id \in Key, NEW u \in User, StandsAs(id, u)'
       PROVE  given[id] # None /\ grantee'[given[id]] = u
  <2>1. CASE id = k
    BY <1>3, <1>7, <1>8, <1>11, <2>1
  <2>2. CASE id # k
    BY <1>2, <1>3, <1>7, <1>8, <1>11, <2>2 DEF Grants
  <2>. QED BY <2>1, <2>2
<1>12. Grants(given)'
  BY <1>9, <1>10, <1>11 DEF Grants
<1>13. ASSUME NEW q \in Req, resp'[q].asks # None
       PROVE  q # r /\ resp'[q] = resp[q] /\ edupass'[resp[q].asks] = "minted"
  <2>1. q # r /\ resp'[q] = resp[q]
    BY <1>4, <1>5, <1>13
  <2>2. edupass[resp[q].asks] = "minted" /\ resp[q].asks \in Attempt
    BY <1>13, <2>1 DEF GrantInv, AskedOnce, Resp
  <2>. QED BY <1>3, <2>1, <2>2
<1>14. AskedOnce'
  <2>1. AskedOnce
    BY DEF GrantInv
  <2>. QED BY <1>13, <2>1 DEF AskedOnce
<1>. QED BY <1>8, <1>12, <1>14 DEF GrantInv

(* What a commit creates, at once or late, stands for the user its session     *)
(* stood for while it waited to be created.                                    *)
LEMMA CommittingUsers ==
  ASSUME IInv, AskedOnce, NEW r \in Req, Committing(r)
  PROVE  NoNewUser /\ Redeemed /\ AskedOnce'
<1>. USE DEF IInv, TypeInv, TypeOK
<1>1. /\ UNCHANGED <<edupass, grantee>> /\ OnlyMoves(r)
      /\ pc[r] \in {"handled", "superseding"} /\ pc'[r] \in {"answered", "superseding"}
  BY DEF Committing, CommitDestroyed, CommitCreate, CommitUpdate, DeleteSuperseded, CommitFails,
         Answer, OnlyMoves, edupassVars
<1>2. resp'[r].asks \in {None, resp[r].asks}
  <2>1. resp'[r] \in {Blank, resp[r], WithCookie(r, "session"), WithCookie(r, "expired")}
    BY DEF Committing, CommitDestroyed, CommitCreate, CommitUpdate, DeleteSuperseded, CommitFails,
           Answer
  <2>2. \A kind : WithCookie(r, kind).asks = resp[r].asks
    BY DEF WithCookie, Resp
  <2>. QED BY <2>1, <2>2 DEF Blank
<1>3. AskedOnce'
  <2>1. \A q \in Req : resp'[q].asks \in {None, resp[q].asks}
    BY <1>1, <1>2 DEF OnlyMoves
  <2>. QED BY <1>1, <2>1 DEF AskedOnce
<1>4. ASSUME NEW id \in Key, NEW u \in User, (birth[id] # None /\ birth[id].user = u)'
      PROVE  StandsAs(id, u)
  <2>1. birth'[id] = birth[id] \/ (Creating(r) /\ id = sess[r].id /\ birth'[id] = IdentityOf(sess[r]))
    BY DEF Committing, CommitDestroyed, CommitCreate, CommitUpdate, DeleteSuperseded, CommitFails,
           storeVars, Creating
  <2>. QED BY <1>4, <2>1 DEF StandsAs, IdentityOf
<1>5. ~Creating(r)'
  BY <1>1 DEF Creating
<1>6. ASSUME NEW c \in late' \ late, NEW u \in User, c.op = "create", c.data.user = u
      PROVE  StandsAs(c.id, u)
  <2>1. /\ Creating(r)
        /\ c = [op |-> "create", id |-> sess[r].id, data |-> SnapshotOf(sess[r])]
    BY <1>6 DEF Committing, CommitDestroyed, CommitCreate, CommitUpdate, DeleteSuperseded,
                CommitFails, storeVars, Creating
  <2>. QED BY <1>6, <2>1 DEF StandsAs, SnapshotOf
<1>7. NoNewUser
  BY <1>1, <1>4, <1>5, <1>6, MoveKeepsUsers
<1>. QED BY <1>1, <1>3, <1>7 DEF Redeemed

(* Edupass answers what it was asked, and what the store does late it was told *)
(* to do before.                                                               *)
LEMMA EnvironmentUsers ==
  ASSUME IInv, AskedOnce, Environment
  PROVE  NoNewUser /\ Redeemed /\ AskedOnce'
<1>. USE DEF IInv, TypeInv, TypeOK
<1>0. Blank.asks = None
  BY DEF Blank
<1>1. CASE Restart
  <2>1. /\ UNCHANGED <<birth, late, edupass, grantee>>
        /\ \A q \in Req : pc'[q] \in {"idle", "answered"} /\ resp'[q] \in {Blank, resp[q]}
    BY <1>1 DEF Restart, Dying, edupassVars
  <2>2. \A q \in Req : ~Creating(q)'
    BY <2>1 DEF Creating
  <2>3. NoNewUser
    BY <2>1, <2>2 DEF NoNewUser, StandsAs
  <2>4. \A q \in Req : resp'[q].asks \in {None, resp[q].asks}
    BY <1>0, <2>1
  <2>5. AskedOnce'
    BY <2>1, <2>4 DEF AskedOnce
  <2>. QED BY <2>1, <2>3, <2>5 DEF Redeemed
<1>2. CASE ~Restart
  <2>1. UNCHANGED <<pc, sess, resp>> /\ late' \subseteq late
    BY <1>2 DEF Environment, DropCookie, EdupassGrants, EdupassDenies, LateEffect, LateLost,
                Expire, requestVars, storeVars
  <2>2. \/ UNCHANGED <<edupass, grantee>>
        \/ \E a \in Attempt : /\ edupass[a] = "asked" /\ edupass'[a] \in {"granted", "denied"}
                             /\ \A b \in Attempt \ {a} : edupass'[b] = edupass[b] /\ grantee'[b] = grantee[b]
    BY <1>2 DEF Environment, DropCookie, EdupassGrants, EdupassDenies, LateEffect, LateLost,
                Expire, edupassVars
  <2>3. Redeemed
    BY <2>2 DEF Redeemed
  <2>4. AskedOnce'
    <3>1. ASSUME NEW q \in Req, resp[q].asks # None PROVE edupass'[resp[q].asks] = "minted"
      BY <2>2, <3>1 DEF AskedOnce, Resp
    <3>. QED BY <2>1, <3>1 DEF AskedOnce
  <2>5. ASSUME NEW id \in Key, NEW u \in User, (birth[id] # None /\ birth[id].user = u)'
        PROVE  StandsAs(id, u)
    <3>1. \/ birth' = birth
          \/ \E c \in late : /\ c.op = "create"
                            /\ birth' = [birth EXCEPT ![c.id] = [csrf |-> c.data.csrf,
                                                                user |-> c.data.user]]
      BY <1>2 DEF Environment, DropCookie, EdupassGrants, EdupassDenies, LateEffect, LateLost,
                  Expire, storeVars
    <3>2. CASE birth' = birth
      BY <2>5, <3>2 DEF StandsAs
    <3>3. ASSUME NEW c \in late, c.op = "create",
                 birth' = [birth EXCEPT ![c.id] = [csrf |-> c.data.csrf, user |-> c.data.user]]
          PROVE  StandsAs(id, u)
      <4>1. birth'[id] = birth[id] \/ (id = c.id /\ birth'[id].user = c.data.user)
        BY <3>3
      <4>. QED BY <2>5, <3>3, <4>1 DEF StandsAs
    <3>. QED BY <3>1, <3>2, <3>3
  <2>6. NoNewUser
    <3>1. \A q \in Req : Creating(q)' <=> Creating(q)
      BY <2>1 DEF Creating
    <3>2. ASSUME NEW id \in Key, NEW u \in User, StandsAs(id, u)' PROVE StandsAs(id, u)
      <4>1. ASSUME NEW q \in Req, (Creating(q) /\ sess[q].id = id /\ sess[q].user = u)'
            PROVE  StandsAs(id, u)
        BY <2>1, <3>1, <4>1 DEF StandsAs
      <4>2. ASSUME NEW c \in late', c.op = "create", c.id = id, c.data.user = u
            PROVE  StandsAs(id, u)
        BY <2>1, <4>2 DEF StandsAs
      <4>. QED BY <2>5, <3>2, <4>1, <4>2 DEF StandsAs
    <3>. QED BY <3>2 DEF NoNewUser
  <2>. QED BY <2>3, <2>4, <2>6
<1>. QED BY <1>1, <1>2

LEMMA GrantStep == IInv /\ GrantInv /\ [Next]_vars => GrantInv'
<1>. SUFFICES ASSUME IInv, GrantInv, [Next]_vars PROVE GrantInv'
  OBVIOUS
<1>1. AskedOnce
  BY DEF GrantInv
<1>2. ASSUME NEW r \in Req, Sending(r) \/ Loading(r) \/ Answering(r) PROVE GrantInv'
  BY <1>1, <1>2, QuietUsers, GrantKept
<1>3. ASSUME NEW r \in Req, Handling(r), ~CallbackSignsIn(r) PROVE GrantInv'
  BY <1>1, <1>3, HandlingUsers, GrantKept
<1>4. ASSUME NEW r \in Req, Committing(r) PROVE GrantInv'
  BY <1>1, <1>4, CommittingUsers, GrantKept
<1>5. CASE Environment
  BY <1>1, <1>5, EnvironmentUsers, GrantKept
<1>6. CASE UNCHANGED vars
  <2>1. UNCHANGED <<birth, late, pc, sess, resp, edupass, grantee>>
    BY <1>6 DEF vars, requestVars, storeVars, edupassVars
  <2>. QED BY <2>1 DEF GrantInv, Grants, AskedOnce, StandsAs, Creating
<1>. QED BY <1>2, <1>3, <1>4, <1>5, <1>6, SignsInGrants DEF Next

(* Each ID that stands for a user, from when its request signs in until long   *)
(* after its entry is gone, has a login of its own, which Edupass granted to   *)
(* that user and redeemed (auth.go:266-296).                                   *)
THEOREM LoginsStayGranted == Spec => []GrantInv
  BY Invariant, InitGrant, GrantStep, PTL DEF Spec

(* A session has the user that Edupass granted to a login, and no two have the *)
(* same login's, whatever is in flight, repeated or late.                      *)
THEOREM UsersSignInAsGranted == Spec => []SignedInAsGranted
<1>1. IInv /\ GrantInv => SignedInAsGranted
  <2>. SUFFICES ASSUME IInv, GrantInv PROVE SignedInAsGranted
    OBVIOUS
  <2>1. PICK login \in [Key -> Attempt \cup {None}] : Grants(login)
    BY DEF GrantInv
  <2>2. ASSUME NEW id \in SignedIn
        PROVE  /\ id \in Key /\ login[id] \in Attempt
               /\ edupass[login[id]] = "redeemed" /\ grantee[login[id]] = store[id].user
    <3>1. id \in Key /\ store[id].user \in User /\ Live(id)
      BY <2>2 DEF SignedIn, Live, Snapshot
    <3>2. birth[id] # None /\ birth[id].user = store[id].user
      <4>1. Stands(id, store[id].user)
        BY <3>1 DEF IInv, BornAsStored
      <4>. QED BY <3>1, <4>1, BornIsSome DEF Stands
    <3>3. StandsAs(id, store[id].user)
      BY <3>2 DEF StandsAs
    <3>. QED BY <2>1, <3>1, <3>3 DEF Grants
  <2>. DEFINE own == [id \in SignedIn |-> login[id]]
  <2>3. own \in [SignedIn -> Attempt]
    BY <2>2
  <2>4. \A i, j \in SignedIn : own[i] = own[j] => i = j
    BY <2>1, <2>2, NoneIsNoValue DEF Grants
  <2>5. \A id \in SignedIn : edupass[own[id]] = "redeemed" /\ grantee[own[id]] = store[id].user
    BY <2>2
  <2>. QED BY <2>3, <2>4, <2>5 DEF SignedInAsGranted
<1>. QED BY <1>1, Invariant, LoginsStayGranted, PTL
=============================================================================
