------------------------------- MODULE Session -------------------------------
(***************************************************************************)
(* One client's session, as server/internal/session/session.go holds it    *)
(* between Load and Commit: the fields of the Go struct and the methods    *)
(* handlers call on it.  Everything here is a pure function of the session;*)
(* SessionServer runs these operators inside requests.                     *)
(*                                                                         *)
(* Abstractions.  An ID and a CSRF token are always drawn together (New,   *)
(* SetUser), so one draw from Key stands for both.  The four values of a   *)
(* pending login (state, nonce, code verifier, return_to) are always set   *)
(* and taken together, so one Attempt stands for the four.                 *)
(***************************************************************************)

CONSTANTS Key,          \* what random.Base58 may return
          User,         \* principals, after the role checks
          Attempt,      \* pending logins
          None,         \* nil, the empty ID, no entry
          Undecodable   \* an entry Load cannot read as a session

ASSUME NoneIsNoValue == None \notin Key \cup User \cup Attempt

(* What an ID stands for: fixed when the ID is drawn. *)
Identity == [csrf : Key, user : User \cup {None}]

(* The stored form.  Its "id" is the key it is stored under. *)
Snapshot == [csrf : Key, user : User \cup {None}, pending : Attempt \cup {None}]

Session == [id        : Key,
            csrf      : Key,
            user      : User \cup {None},
            pending   : Attempt \cup {None},
            destroyed : BOOLEAN,
            storedID  : Key \cup {None}]

(* Entries of an older release fail one of Load's checks and are never used. *)
ASSUME SentinelsAreNoRecords == /\ None \notin Identity \cup Snapshot \cup Session
                                /\ Undecodable \notin Snapshot \cup {None}

-----------------------------------------------------------------------------

New(k) == [id |-> k, csrf |-> k, user |-> None, pending |-> None,
           destroyed |-> FALSE, storedID |-> None]

(* Load's result for an entry it can decode. *)
Loaded(id, snap) == [id |-> id, csrf |-> snap.csrf, user |-> snap.user,
                     pending |-> snap.pending, destroyed |-> FALSE, storedID |-> id]

(* Three bugs of SetUser.  The token outlives the sign-in, so a page of the   *)
(* anonymous session keeps a valid one; the ID does, so whoever knew it before *)
(* is signed in with it; the data does, so the pending login can be repeated.  *)
SetUserKeepingToken(s, k, u) == [s EXCEPT !.id = k, !.user = u, !.pending = None]
SetUserKeepingID(s, k, u) == [s EXCEPT !.csrf = k, !.user = u, !.pending = None]
SetUserKeepingData(s, k, u) == [s EXCEPT !.id = k, !.csrf = k, !.user = u]

(* Signing in draws a new ID and a new token and discards the data. *)
SetUser(s, k, u) == [s EXCEPT !.id = k, !.csrf = k, !.user = u, !.pending = None]

(* A bug: the whole struct is zeroed, so its ID is lost. *)
DestroyZeroed(s) == [s EXCEPT !.id = None, !.user = None, !.pending = None, !.destroyed = TRUE]

(* Signing out detaches the user and discards the data; Commit removes the entry. *)
Destroy(s) == [s EXCEPT !.user = None, !.pending = None, !.destroyed = TRUE]

SetPending(s, a) == [s EXCEPT !.pending = a]

TakePending(s) == [s EXCEPT !.pending = None]

(* What Create leaves of the session: its new ID is the stored one. *)
Created(s) == [s EXCEPT !.storedID = s.id]

(* What Commit encodes. *)
SnapshotOf(s) == [csrf |-> s.csrf, user |-> s.user, pending |-> s.pending]

IdentityOf(s) == [csrf |-> s.csrf, user |-> s.user]

IsAuthenticated(s) == s.user # None

(* A token verifies against the session of the page that carries it, until   *)
(* SetUser draws a new one.                                                   *)
VerifyCSRFToken(s, token) == s.csrf = token
=============================================================================
