----------------------------- MODULE SessionStore -----------------------------
(***************************************************************************)
(* The contract of server/internal/session/store.go, which both providers  *)
(* promise: every call takes effect at one instant between its start and   *)
(* its return, on the one entry it names; a refused call changes nothing;  *)
(* and any entry may expire between calls.  (Which of the entries expire,  *)
(* and when, is TTLHonoured of the provider.)                              *)
(***************************************************************************)
CONSTANTS Caller, ID, Data, None,
          Call          \* records with the fields op, id and data

VARIABLES contents,   \* the entry under each ID
          asked,      \* the call each caller has under way
          answer      \* what it will return, once it has taken effect

contractVars == <<contents, asked, answer>>

ContractInit == /\ contents = [id \in ID |-> None]
                /\ asked = [p \in Caller |-> None]
                /\ answer = [p \in Caller |-> None]

Ask(p, c) == /\ asked[p] = None
             /\ asked' = [asked EXCEPT ![p] = c]
             /\ UNCHANGED <<contents, answer>>

Answers(p, result) == /\ asked[p] # None /\ answer[p] = None
                      /\ answer' = [answer EXCEPT ![p] = result]
                      /\ UNCHANGED asked

Refuse(p) == Answers(p, "error") /\ UNCHANGED contents

(* "nothing" is the nil that Get returns when there is no entry. *)
Get(p) == LET c == asked[p] IN
          /\ c.op = "get"
          /\ Answers(p, IF c.id \in ID /\ contents[c.id] # None THEN contents[c.id] ELSE "nothing")
          /\ UNCHANGED contents

Writes(p) == LET c == asked[p] IN
             /\ Answers(p, "true")
             /\ contents' = [contents EXCEPT ![c.id] = c.data]

(* Create writes where there is no entry, Update where there is one. *)
Create(p) == LET c == asked[p] IN
             /\ c.op = "create" /\ c.id \in ID
             /\ \/ contents[c.id] = None /\ Writes(p)
                \/ contents[c.id] # None /\ Answers(p, "false") /\ UNCHANGED contents

Update(p) == LET c == asked[p] IN
             /\ c.op = "update" /\ c.id \in ID
             /\ \/ contents[c.id] # None /\ Writes(p)
                \/ contents[c.id] = None /\ Answers(p, "false") /\ UNCHANGED contents

Delete(p) == LET c == asked[p] IN
             /\ c.op = "delete"
             /\ Answers(p, "done")
             /\ contents' = [id \in ID |-> IF id = c.id THEN None ELSE contents[id]]

Return(p) == /\ answer[p] # None
             /\ asked' = [asked EXCEPT ![p] = None]
             /\ answer' = [answer EXCEPT ![p] = None]
             /\ UNCHANGED contents

Expire(ids) == /\ contents' = [id \in ID |-> IF id \in ids THEN None ELSE contents[id]]
               /\ UNCHANGED <<asked, answer>>

ContractNext == \/ \E p \in Caller : \/ \E c \in Call : Ask(p, c)
                                     \/ Refuse(p)
                                     \/ asked[p] # None /\ (Get(p) \/ Create(p) \/ Update(p) \/ Delete(p))
                                     \/ Return(p)
                \/ \E ids \in SUBSET ID : Expire(ids)

ContractSpec == ContractInit /\ [][ContractNext]_contractVars
=============================================================================
