----------------------------- MODULE EdupassLogin -----------------------------
(***************************************************************************)
(* One login with Edupass, server/internal/handler/auth.go: the path to    *)
(* return to, the checks of authEdupassCallback, and the base role and     *)
(* attributes that resolveEdupassGroups finds in the groups claim, whose   *)
(* loops take one step per entry.  The login's place in the session is in  *)
(* SessionServer.                                                          *)
(*                                                                         *)
(* An entry is the sequence of its segments between underscores.           *)
(***************************************************************************)
EXTENDS ReturnTo, Integers

CONSTANTS Segment,    \* what stands between underscores
          Logins,     \* what a login may bring with it
          AppCode,    \* the segment that names this application
          School,     \* segments of four digits
          MK,         \* the schools of MOE Kindergarten
          RoleCode,   \* base roles, as segments
          AttrCode,   \* attributes, as segments
          None        \* no user, no redirect

(* What the callback checks, after the pending login and before the groups. *)
Check == {"state", "authorized", "assertion", "exchange", "idToken", "verified", "nonce",
          "issued", "claims", "id", "name", "email"}

ASSUME Inputs ==
  \A l \in Logins : /\ l.pending \in BOOLEAN        \* is there a pending login in the session
                    /\ l.returnTo \in Seq(Char)     \* what authEdupass was asked for
                    /\ l.passed \subseteq Check
                    /\ l.groups \in Seq(Seq(Segment))

ASSUME Codes ==
  /\ AppCode \notin {"ROLE", "ATTR"}
  /\ \A c \in RoleCode : c \in Seq(Segment) /\ Len(c) >= 2 /\ c[1] = "ROLE"
  /\ \A c \in AttrCode : /\ c \in Seq(Segment) /\ Len(c) >= 2 /\ c[1] = "ATTR"
                         /\ \A i \in 2..(Len(c) - 1) : c[i] # "ROLE"

User == [role : RoleCode, school : School, attributes : Seq(AttrCode)]

ASSUME NoneIsNoUser == None \notin User

VARIABLES
  pc,             \* where the callback is
  login,          \* what it was given
  returnTo,       \* the path of the pending login, taken from the session
  next,           \* the entry, or the candidate, that a loop looks at next
  roles,          \* the results of resolveEdupassGroups
  candidates,
  attributes,
  unrecognized,
  removedMKRole,
  user,           \* the user that the session is given
  redirect        \* the answer

groupVars == <<roles, candidates, attributes, unrecognized, removedMKRole>>
vars == <<pc, login, returnTo, next, groupVars, user, redirect>>

Init == /\ pc = "start"
        /\ login \in Logins
        /\ returnTo = <<"/">>
        /\ next = 1
        /\ roles = <<>> /\ candidates = <<>> /\ attributes = <<>> /\ unrecognized = <<>>
        /\ removedMKRole = FALSE
        /\ user = None /\ redirect = None

-----------------------------------------------------------------------------
(* authEdupass keeps the path in the session, and the callback takes it. *)
AuthEdupass ==
  /\ pc = "start"
  /\ pc' = "called"
  /\ returnTo' = IF login.pending THEN SafeReturnTo(login.returnTo, <<"/">>) ELSE <<"/">>
  /\ UNCHANGED <<login, next, groupVars, user, redirect>>

LoginURL(error) == [to |-> "/login", returnTo |-> returnTo, error |-> error]

Refuse ==
  /\ pc = "called"
  /\ ~login.pending \/ login.passed # Check
  /\ pc' = "done"
  /\ redirect' = LoginURL("oauth2_callback_failed")
  /\ UNCHANGED <<login, returnTo, next, groupVars, user>>

ReadGroups ==
  /\ pc = "called"
  /\ login.pending /\ login.passed = Check
  /\ pc' = "entries"
  /\ UNCHANGED <<login, returnTo, next, groupVars, user, redirect>>

-----------------------------------------------------------------------------
(* splitEdupassEntry: an infix stands between underscores. *)
Infixes(e, infix) == {i \in 2..(Len(e) - 1) : e[i] = infix}

Has(e, infix) == Infixes(e, infix) # {}

Split(e, infix) ==
  LET first == CHOOSE i \in Infixes(e, infix) : \A j \in Infixes(e, infix) : i <= j IN
  [location |-> e[1], app |-> SubSeq(e, 2, first - 1), code |-> SubSeq(e, first, Len(e))]

(* A bug: any location will do, the global X included. *)
RecognizedAnywhere(s, codes) == s.app = <<AppCode>> /\ s.code \in codes

Recognized(s, codes) == s.app = <<AppCode>> /\ s.code \in codes /\ s.location \in School

RoleEntry(e) == Has(e, "ROLE") /\ Recognized(Split(e, "ROLE"), RoleCode)
AttrEntry(e) == ~Has(e, "ROLE") /\ Has(e, "ATTR") /\ Recognized(Split(e, "ATTR"), AttrCode)

(* A bug: a role repeated is a second role. *)
KeepAlways(seq, x) == Append(seq, x)

Keep(seq, x) == IF Contains(seq, x) THEN seq ELSE Append(seq, x)

RoleOf(e) == LET s == Split(e, "ROLE") IN [location |-> s.location, code |-> s.code]

CandidateOf(e) == LET s == Split(e, "ATTR") IN [location |-> s.location, code |-> s.code, entry |-> e]

(* One entry of the claim. *)
KeepRole(e) ==
  /\ RoleEntry(e)
  /\ e[1] \notin MK
  /\ roles' = Keep(roles, RoleOf(e))
  /\ UNCHANGED <<candidates, unrecognized, removedMKRole>>

RemoveMKRole(e) ==
  /\ RoleEntry(e)
  /\ e[1] \in MK
  /\ unrecognized' = Append(unrecognized, e)
  /\ removedMKRole' = TRUE
  /\ UNCHANGED <<roles, candidates>>

KeepCandidate(e) ==
  /\ AttrEntry(e)
  /\ candidates' = Append(candidates, CandidateOf(e))
  /\ UNCHANGED <<roles, unrecognized, removedMKRole>>

Discard(e) ==
  /\ ~RoleEntry(e) /\ ~AttrEntry(e)
  /\ unrecognized' = Append(unrecognized, e)
  /\ UNCHANGED <<roles, candidates, removedMKRole>>

ResolveEntry ==
  /\ pc = "entries"
  /\ next <= Len(login.groups)
  /\ next' = next + 1
  /\ LET e == login.groups[next] IN KeepRole(e) \/ RemoveMKRole(e) \/ KeepCandidate(e) \/ Discard(e)
  /\ UNCHANGED <<pc, login, returnTo, attributes, user, redirect>>

EndEntries ==
  /\ pc = "entries"
  /\ next > Len(login.groups)
  /\ pc' = "attributes"
  /\ next' = 1
  /\ UNCHANGED <<login, returnTo, groupVars, user, redirect>>

(* A bug: the attributes of any of the roles are kept. *)
AtRoleAny(c) == \E i \in DOMAIN roles : c.location = roles[i].location

AtRole(c) == Len(roles) = 1 /\ c.location = roles[1].location

ResolveAttribute ==
  /\ pc = "attributes"
  /\ next <= Len(candidates)
  /\ next' = next + 1
  /\ LET c == candidates[next] IN
     \/ /\ AtRole(c)
        /\ attributes' = Keep(attributes, c.code)
        /\ UNCHANGED unrecognized
     \/ /\ ~AtRole(c)
        /\ unrecognized' = Append(unrecognized, c.entry)
        /\ UNCHANGED attributes
  /\ UNCHANGED <<pc, login, returnTo, roles, candidates, removedMKRole, user, redirect>>

(* A bug: an MK role that was set aside is reported even if others conflict. *)
RoleErrorMKFirst == IF removedMKRole THEN "unsupported_school_mk"
                    ELSE IF Len(roles) > 1 THEN "multiple_roles" ELSE "no_role"

RoleError == IF Len(roles) > 1 THEN "multiple_roles"
             ELSE IF removedMKRole THEN "unsupported_school_mk" ELSE "no_role"

Decide ==
  /\ pc = "attributes"
  /\ next > Len(candidates)
  /\ pc' = "done"
  /\ \/ /\ Len(roles) = 1
        /\ user' = [role |-> roles[1].code, school |-> roles[1].location, attributes |-> attributes]
        /\ redirect' = [to |-> "returnTo", returnTo |-> returnTo, error |-> None]
     \/ /\ Len(roles) # 1
        /\ redirect' = LoginURL(RoleError)
        /\ UNCHANGED user
  /\ UNCHANGED <<login, returnTo, next, groupVars>>

Next == \/ AuthEdupass \/ Refuse \/ ReadGroups
        \/ ResolveEntry \/ EndEntries \/ ResolveAttribute \/ Decide

Spec == Init /\ [][Next]_vars

-----------------------------------------------------------------------------
(* What Edupass grants, by the format of its entries, whatever their order and *)
(* number: <location>_<app>_<code> (auth.go:617-619).                          *)
EntryOf(location, code) == <<location, AppCode>> \o code

Claimed == ToSet(login.groups)

Granted == {g \in [location : School \ MK, code : RoleCode] : EntryOf(g.location, g.code) \in Claimed}

GrantedAtMK == \E l \in MK \cap School, c \in RoleCode : EntryOf(l, c) \in Claimed

Held(location) == {c \in AttrCode : EntryOf(location, c) \in Claimed}

Vouched == login.pending /\ login.passed = Check

(* Properties. *)

TypeOK ==
  /\ pc \in {"start", "called", "entries", "attributes", "done"}
  /\ next \in Nat \ {0}
  /\ roles \in Seq([location : School, code : RoleCode])
  /\ candidates \in Seq([location : School, code : AttrCode, entry : Seq(Segment)])
  /\ attributes \in Seq(AttrCode)
  /\ unrecognized \in Seq(Seq(Segment))
  /\ removedMKRole \in BOOLEAN
  /\ user \in User \cup {None}

(* The session gets a user exactly if everything was checked and Edupass       *)
(* grants one base role outside MK: that role, at its school, and the          *)
(* attributes held there, each once, in whatever order, with whatever repeats  *)
(* and among whatever else the entries come (auth.go:156-171, 593-602).        *)
UserAsGranted ==
  pc = "done" =>
    /\ user # None <=> Vouched /\ \E g \in Granted : Granted = {g}
    /\ user # None => /\ [location |-> user.school, code |-> user.role] \in Granted
                      /\ ToSet(user.attributes) = Held(user.school)
                      /\ IsInjective(user.attributes)

(* The login page tells a user without a role from one with several, and from  *)
(* one whose only roles are at MK schools (auth.go:161-165).                   *)
RefusalNamesReason ==
  pc = "done" /\ Vouched /\ user = None =>
    redirect.error = CASE Granted # {}                   -> "multiple_roles"
                       [] Granted = {} /\ GrantedAtMK    -> "unsupported_school_mk"
                       [] Granted = {} /\ ~GrantedAtMK   -> "no_role"

(* An entry is reported exactly if nothing came of it (auth.go:603-608).       *)
UnusedAreReported ==
  pc = "done" /\ Vouched =>
    ToSet(unrecognized) =
      Claimed \ UNION {{EntryOf(g.location, g.code)}
                        \cup {EntryOf(g.location, c) : c \in IF Granted = {g} THEN Held(g.location) ELSE {}}
                        : g \in Granted}

(* A redirect to the path to return to lands on exactly that path on this site *)
(* (auth.go:432-433).                                                          *)
LandsOnExactPath == Landing(returnTo) = Face(returnTo)

(* The same, but for a path that ends in a space: the header loses it, and the *)
(* redirect lands on another path of this site.                                *)
LandsOnThisSite == /\ Landing(returnTo) # Elsewhere
                   /\ returnTo[Len(returnTo)] # " " => LandsOnExactPath
=============================================================================
