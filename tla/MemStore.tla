------------------------------- MODULE MemStore -------------------------------
(***************************************************************************)
(* The in-memory provider, server/internal/session/memstore/memstore.go,   *)
(* called by concurrent requests: one mutex, a map of entries with their   *)
(* expiry times, and entries freed only when a call looks at them.         *)
(*                                                                         *)
(* Create and Update read the clock twice: in lookup, to see whether the   *)
(* entry has expired, and when they stamp the entry they write.  Time may  *)
(* pass in between, so an entry can expire under the mutex of the call     *)
(* that found it alive.                                                    *)
(*                                                                         *)
(* Bound: the clock stops at MaxTime.                                      *)
(***************************************************************************)
EXTENDS Integers

CONSTANTS Caller,    \* goroutines calling the store
          ID,        \* session IDs
          Empty,     \* the empty ID
          Data,      \* encoded sessions
          TTL,       \* lifetimes passed to Create and Update
          MaxTime,   \* where the clock stops
          None       \* no call, no entry, no answer, no data

Words == {"error", "true", "false", "done", "nothing"}

ASSUME Distinct == /\ Empty \notin ID
                   /\ None \notin ID \cup Caller \cup Data \cup Words
                   /\ Data \cap Words = {}
ASSUME Times == TTL \subseteq Int /\ MaxTime \in Nat

Call == [op : {"get", "delete"}, id : ID \cup {Empty}, data : {None}, ttl : {0}]
        \cup [op : {"create", "update"}, id : ID \cup {Empty}, data : Data \cup {None}, ttl : TTL]

Entry == [data : Data, expiresAt : Int]

(* The last write of an entry: when it was called, when it returned. *)
Span == [by : Caller, called : Int, returned : Int \cup {None}, ttl : Int]

ASSUME NoneIsNoRecord == None \notin Call \cup Entry \cup Span \cup Int

VARIABLES
  now,       \* the clock
  entries,   \* the map, entries that have expired but are not freed included
  mu,        \* who holds the mutex
  pc,        \* how far each call has got
  asked,     \* the call each caller has under way
  answer,    \* what it will return, once decided
  began,     \* history: when it was called, or 0
  span       \* history: the last write of each entry, until it is deleted

vars == <<now, entries, mu, pc, asked, answer, began, span>>

TypeOK ==
  /\ now \in Int
  /\ entries \in [ID -> Entry \cup {None}]
  /\ mu \in Caller \cup {None}
  /\ pc \in [Caller -> {"idle", "called", "waiting", "locked", "looked", "returning"}]
  /\ asked \in [Caller -> Call \cup {None}]
  /\ answer \in [Caller -> Data \cup Words \cup {None}]
  /\ began \in [Caller -> Int]
  /\ span \in [ID -> Span \cup {None}]

Init == /\ now = 0
        /\ entries = [id \in ID |-> None]
        /\ mu = None
        /\ pc = [p \in Caller |-> "idle"]
        /\ asked = [p \in Caller |-> None]
        /\ answer = [p \in Caller |-> None]
        /\ began = [p \in Caller |-> 0]
        /\ span = [id \in ID |-> None]

-----------------------------------------------------------------------------
Start(p, c) ==
  /\ pc[p] = "idle"
  /\ pc' = [pc EXCEPT ![p] = "called"]
  /\ asked' = [asked EXCEPT ![p] = c]
  /\ began' = [began EXCEPT ![p] = now]
  /\ UNCHANGED <<now, entries, mu, answer, span>>

Writing(c) == c.op \in {"create", "update"}

(* A bug: an empty payload is not refused. *)
ValidAnyData(c) == Writing(c) => c.id # Empty /\ c.ttl > 0

Valid(c) == Writing(c) => c.id # Empty /\ c.data # None /\ c.ttl > 0

Decides(p, result, stage) ==
  /\ answer' = [answer EXCEPT ![p] = result]
  /\ pc' = [pc EXCEPT ![p] = stage]

(* The caller's context is done, or an argument is refused.  Both are looked   *)
(* at once, before Lock: a call that waits for the mutex cannot give up.       *)
Refuse(p) ==
  /\ pc[p] = "called"
  /\ Decides(p, "error", "returning")
  /\ UNCHANGED <<now, entries, mu, asked, began, span>>

(* There is never an entry under an empty ID. *)
SkipEmpty(p) ==
  /\ pc[p] = "called"
  /\ asked[p].id = Empty
  /\ ~Writing(asked[p])
  /\ Decides(p, IF asked[p].op = "get" THEN "nothing" ELSE "done", "returning")
  /\ UNCHANGED <<now, entries, mu, asked, began, span>>

(* The checks are passed, and the call goes on to Lock. *)
Admit(p) ==
  /\ pc[p] = "called"
  /\ asked[p].id # Empty
  /\ Valid(asked[p])
  /\ pc' = [pc EXCEPT ![p] = "waiting"]
  /\ UNCHANGED <<now, entries, mu, asked, answer, began, span>>

Lock(p) ==
  /\ pc[p] = "waiting"
  /\ mu = None
  /\ mu' = p
  /\ pc' = [pc EXCEPT ![p] = "locked"]
  /\ UNCHANGED <<now, entries, asked, answer, began, span>>

(* A bug: an entry is still there at the instant it expires. *)
OverdueAlive(id) == entries[id] # None /\ entries[id].expiresAt >= now

Alive(id) == entries[id] # None /\ entries[id].expiresAt > now

Found(c) == CASE c.op = "get"    -> IF Alive(c.id) THEN entries[c.id].data ELSE "nothing"
              [] c.op = "create" -> IF Alive(c.id) THEN "false" ELSE "true"
              [] c.op = "update" -> IF Alive(c.id) THEN "true" ELSE "false"

(* A bug: the mutex guards the map only, not lookup and write together. *)
LookupUnlocking(p) ==
  LET c == asked[p] IN
  /\ pc[p] = "locked"
  /\ c.op # "delete"
  /\ Decides(p, Found(c), "looked")
  /\ mu' = None
  /\ UNCHANGED <<now, entries, asked, began, span>>

(* Frees the entry if it has expired. *)
Lookup(p) ==
  LET c == asked[p] IN
  /\ pc[p] = "locked"
  /\ c.op # "delete"
  /\ Decides(p, Found(c), "looked")
  /\ entries' = [entries EXCEPT ![c.id] = IF Alive(c.id) THEN entries[c.id] ELSE None]
  /\ UNCHANGED <<now, mu, asked, began, span>>

Unlock(p) ==
  /\ mu' = None
  /\ pc' = [pc EXCEPT ![p] = "returning"]

Stores(p) ==
  LET c == asked[p] IN
  /\ answer[p] = "true"
  /\ entries' = [entries EXCEPT ![c.id] = [data |-> c.data, expiresAt |-> now + c.ttl]]
  /\ span' = [span EXCEPT ![c.id] = [by |-> p, called |-> began[p], returned |-> None,
                                     ttl |-> c.ttl]]

(* A bug: without the defer, an early return forgets to unlock. *)
FinishKeepingLock(p) ==
  /\ pc[p] = "looked"
  /\ \/ Stores(p) /\ Unlock(p)
     \/ /\ answer[p] # "true"
        /\ pc' = [pc EXCEPT ![p] = "returning"]
        /\ UNCHANGED <<entries, span, mu>>
  /\ UNCHANGED <<now, asked, answer, began>>

(* The write, if there is one to make, and the deferred unlock. *)
Finish(p) ==
  /\ pc[p] = "looked"
  /\ \/ Stores(p)
     \/ answer[p] # "true" /\ UNCHANGED <<entries, span>>
  /\ Unlock(p)
  /\ UNCHANGED <<now, asked, answer, began>>

DeleteEntry(p) ==
  LET c == asked[p] IN
  /\ pc[p] = "locked"
  /\ c.op = "delete"
  /\ entries' = [entries EXCEPT ![c.id] = None]
  /\ span' = [span EXCEPT ![c.id] = None]
  /\ answer' = [answer EXCEPT ![p] = "done"]
  /\ Unlock(p)
  /\ UNCHANGED <<now, asked, began>>

Return(p) ==
  /\ pc[p] = "returning"
  /\ pc' = [pc EXCEPT ![p] = "idle"]
  /\ asked' = [asked EXCEPT ![p] = None]
  /\ answer' = [answer EXCEPT ![p] = None]
  /\ span' = [id \in ID |-> IF span[id] # None /\ span[id].by = p /\ span[id].returned = None
                            THEN [span[id] EXCEPT !.returned = now] ELSE span[id]]
  /\ began' = [began EXCEPT ![p] = 0]
  /\ UNCHANGED <<now, entries, mu>>

Tick == /\ now < MaxTime
        /\ now' = now + 1
        /\ UNCHANGED <<entries, mu, pc, asked, answer, began, span>>

Working(p) == \/ Refuse(p) \/ SkipEmpty(p) \/ Admit(p) \/ Lock(p) \/ Lookup(p)
              \/ Finish(p) \/ DeleteEntry(p) \/ Return(p)

Next == \/ \E p \in Caller : Working(p) \/ \E c \in Call : Start(p, c)
        \/ Tick

Spec == Init /\ [][Next]_vars

(* A goroutine runs on, and sync.Mutex starves nobody who waits for it. *)
Fairness == \A p \in Caller : WF_vars(Working(p)) /\ SF_vars(Lock(p))

FairSpec == Spec /\ Fairness

-----------------------------------------------------------------------------
(* The instance of the contract.  A write takes effect when lookup permits it, *)
(* though it is stored later: the entry that was found may expire before that. *)
Pending(id) == mu # None /\ pc[mu] = "looked" /\ answer[mu] = "true" /\ asked[mu].id = id

contents == [id \in ID |-> IF Pending(id) THEN asked[mu].data
                          ELSE IF Alive(id) THEN entries[id].data ELSE None]

Contract == INSTANCE SessionStore

(* Calls under one mutex, expiring and lazily freed entries and two readings   *)
(* of the clock look like the contract of store.go: each call takes effect at  *)
(* once (store.go:8-11), so Update cannot restore what Delete removed.         *)
ImplementsContract == Contract!ContractSpec

(* An entry lives for its TTL, as its caller can tell: it is there until the   *)
(* TTL has passed since the call, and gone once it has passed since the return *)
(* (memstore.go:97-100, 160).                                                  *)
TTLHonoured ==
  \A id \in ID : span[id] # None =>
    /\ now < span[id].called + span[id].ttl => Alive(id)
    /\ span[id].returned # None /\ Alive(id) => now < span[id].returned + span[id].ttl

(* Every call returns, however many wait for the mutex: no path to a return    *)
(* keeps it, since the others would then wait for ever (memstore.go:64-65,     *)
(* 90-91, 120-121, 144-145).                                                   *)
EveryCallReturns == \A p \in Caller : pc[p] # "idle" ~> pc[p] = "idle"
=============================================================================
