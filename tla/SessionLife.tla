----------------------------- MODULE SessionLife -----------------------------
(***************************************************************************)
(* What the session layer promises, without requests, stores or browsers:  *)
(* an ID begins at most once, with the identity it keeps for as long as it *)
(* lives, and once it has ended it never lives again.  This is the promise *)
(* behind the contracts of Commit, SetUser and Destroy in session.go       *)
(* (lines 106-122, 234-252): signing in can only begin a new ID, so an ID  *)
(* somebody knew before the sign-in never becomes a signed-in one, and a   *)
(* request in flight at sign-out cannot restore the session.               *)
(***************************************************************************)
CONSTANTS ID,        \* session IDs
          Who,       \* the identities an ID can stand for
          Nobody     \* the identity of an ID that has not begun

VARIABLES life,      \* what has become of each ID
          who        \* the identity of each ID

lifeVars == <<life, who>>

LifeTypeOK == /\ life \in [ID -> {"unborn", "live", "dead"}]
              /\ who \in [ID -> Who \cup {Nobody}]

(* Entries of an older release cannot be used: their IDs are dead from the start. *)
LifeInit == /\ life \in [ID -> {"unborn", "dead"}]
            /\ who = [id \in ID |-> Nobody]

Begin(id, w) == /\ life[id] = "unborn"
                /\ life' = [life EXCEPT ![id] = "live"]
                /\ who' = [who EXCEPT ![id] = w]

(* A sign-out or a sign-in ends one ID, a restart may end them all. *)
End(ids) == /\ \A id \in ids : life[id] = "live"
            /\ life' = [id \in ID |-> IF id \in ids THEN "dead" ELSE life[id]]
            /\ UNCHANGED who

LifeNext == \/ \E id \in ID, w \in Who : Begin(id, w)
            \/ \E ids \in SUBSET ID : End(ids)

LifeSpec == LifeInit /\ [][LifeNext]_lifeVars
=============================================================================
