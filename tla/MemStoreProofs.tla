---------------------------- MODULE MemStoreProofs ----------------------------
(***************************************************************************)
(* The memory store implements the contract of store.go and keeps the TTLs *)
(* it is given, for any number of callers, IDs, lifetimes and ticks.       *)
(***************************************************************************)
EXTENDS MemStore, TLAPS

(* The mutex is held from Lock to the end of the call, by one caller.          *)
Mutex == \A p \in Caller : pc[p] \in {"locked", "looked"} <=> mu = p

(* What a call has at each point, and that only checked calls wait for the     *)
(* mutex.                                                                      *)
CallReady(p) ==
  /\ asked[p] = None <=> pc[p] = "idle"
  /\ answer[p] = None <=> pc[p] \in {"idle", "called", "waiting", "locked"}
  /\ pc[p] \in {"waiting", "locked", "looked"} => asked[p].id \in ID /\ Valid(asked[p])
  /\ pc[p] = "looked" => asked[p].op # "delete"
  /\ pc[p] = "looked" /\ answer[p] = "true" => Writing(asked[p])
  /\ pc[p] # "idle" => began[p] <= now

(* The entry a call is about to create is not there. *)
Vacant(p) == pc[p] = "looked" /\ answer[p] = "true" /\ asked[p].op = "create" =>
               entries[asked[p].id] = None

(* When the entry of a write expires: no sooner than its TTL after the call    *)
(* began, no later than its TTL after the call returned.                       *)
SpanKept(id) ==
  span[id] # None =>
    /\ entries[id] = None => now >= span[id].called + span[id].ttl
    /\ entries[id] # None =>
         /\ entries[id].expiresAt >= span[id].called + span[id].ttl
         /\ entries[id].expiresAt <= (IF span[id].returned = None THEN now ELSE span[id].returned)
                                       + span[id].ttl

MInv == /\ TypeOK /\ Mutex
        /\ \A p \in Caller : CallReady(p) /\ Vacant(p)
        /\ \A id \in ID : SpanKept(id)

-----------------------------------------------------------------------------
LEMMA InitMInv == Init => MInv
BY Distinct DEF Init, MInv, TypeOK, Mutex, CallReady, Vacant, SpanKept

LEMMA Sentinels == /\ None \notin ID \cup Caller \cup Data \cup Words
                   /\ None \notin Call \cup Entry \cup Span \cup Int
                   /\ Empty \notin ID
BY Distinct, NoneIsNoRecord

LEMMA CallFields ==
  ASSUME NEW c \in Call
  PROVE  /\ c.op \in {"get", "delete", "create", "update"}
         /\ c.id \in ID \cup {Empty}
         /\ c.ttl \in Int
         /\ c.data \in Data \cup {None}
         /\ Writing(c) /\ Valid(c) => c.data \in Data /\ c.ttl > 0 /\ c.id \in ID
<1>1. c.op \in {"get", "delete", "create", "update"} /\ c.id \in ID \cup {Empty}
  BY DEF Call
<1>2. c.ttl \in Int
  <2>1. c.ttl \in TTL \cup {0}
    BY DEF Call
  <2>2. \A t \in TTL : t \in Int
    BY Times
  <2> QED BY <2>1, <2>2
<1>3. c.data \in Data \cup {None}
  BY DEF Call
<1> QED BY <1>1, <1>2, <1>3 DEF Writing, Valid

LEMMA StartInv ==
  ASSUME MInv, NEW p \in Caller, NEW c \in Call, Start(p, c) PROVE MInv'
BY Sentinels DEF Start, MInv, TypeOK, Mutex, CallReady, Vacant, SpanKept

(* A call that ends before it takes the mutex. *)
LEMMA QuickInv ==
  ASSUME MInv, NEW p \in Caller, Refuse(p) \/ SkipEmpty(p) PROVE MInv'
BY Sentinels DEF Refuse, SkipEmpty, Decides, Words, MInv, TypeOK, Mutex, CallReady, Vacant, SpanKept

LEMMA AdmitInv ==
  ASSUME MInv, NEW p \in Caller, Admit(p) PROVE MInv'
BY Sentinels, CallFields DEF Admit, MInv, TypeOK, Mutex, CallReady, Vacant, SpanKept

LEMMA LockInv ==
  ASSUME MInv, NEW p \in Caller, Lock(p) PROVE MInv'
BY Sentinels DEF Lock, MInv, TypeOK, Mutex, CallReady, Vacant, SpanKept

LEMMA TickInv == ASSUME MInv, Tick PROVE MInv'
BY Sentinels DEF Tick, MInv, TypeOK, Mutex, CallReady, Vacant, SpanKept, Span, Entry

(* Looking up frees an entry only when it has expired, and Create answers      *)
(* "true" only when it leaves none.                                            *)
LEMMA LookupInv ==
  ASSUME MInv, NEW p \in Caller, Lookup(p) PROVE MInv'
<1> DEFINE c == asked[p]
<1>1. c \in Call /\ c.id \in ID /\ Valid(c)
  BY Sentinels DEF Lookup, MInv, TypeOK, CallReady
<1>2. Found(c) \in Data \cup {"true", "false", "nothing"}
  BY <1>1, CallFields DEF Lookup, Found, Alive, MInv, TypeOK, Entry
<1>3. Found(c) = "true" => Writing(c)
  BY <1>1, CallFields, Distinct DEF Lookup, Found, Alive, MInv, TypeOK, Entry, Words, Writing
<1>4. Found(c) = "true" /\ c.op = "create" => ~Alive(c.id)
  BY DEF Found
<1> HIDE DEF c
<1>5. TypeOK'
  BY <1>1, <1>2 DEF c, Lookup, Decides, MInv, TypeOK, Words
<1>6. Mutex'
  BY DEF Lookup, Decides, MInv, TypeOK, Mutex
<1>7. ASSUME NEW q \in Caller PROVE CallReady(q)'
  BY <1>1, <1>2, <1>3, <1>7, Sentinels DEF c, Lookup, Decides, MInv, TypeOK, CallReady, Words
<1>8. ASSUME NEW q \in Caller PROVE Vacant(q)'
  BY <1>1, <1>4, <1>8, Sentinels DEF c, Lookup, Decides, MInv, TypeOK, Vacant, CallReady, Mutex
<1>9. ASSUME NEW id \in ID PROVE SpanKept(id)'
  BY <1>1, <1>9, Sentinels DEF c, Lookup, Decides, MInv, TypeOK, SpanKept, Alive, Span, Entry
<1> QED BY <1>5, <1>6, <1>7, <1>8, <1>9 DEF MInv

(* A write starts a new span; every other entry keeps its own. *)
LEMMA FinishInv ==
  ASSUME MInv, NEW p \in Caller, Finish(p) PROVE MInv'
<1> DEFINE c == asked[p]
           entry == [data |-> c.data, expiresAt |-> now + c.ttl]
           written == [by |-> p, called |-> began[p], returned |-> None, ttl |-> c.ttl]
<1>1. c \in Call /\ c.id \in ID /\ Valid(c) /\ began[p] \in Int /\ began[p] <= now /\ now \in Int
  BY Sentinels DEF Finish, MInv, TypeOK, CallReady
<1>2. answer[p] = "true" => Writing(c)
  BY DEF Finish, MInv, CallReady
<1>3. answer[p] = "true" => entry \in Entry /\ written \in Span /\ c.ttl \in Int
  BY <1>1, <1>2, CallFields DEF Entry, Span
<1>4. \/ /\ answer[p] = "true"
         /\ entries' = [entries EXCEPT ![c.id] = entry]
         /\ span' = [span EXCEPT ![c.id] = written]
      \/ entries' = entries /\ span' = span
  BY DEF Finish, Stores
<1>5. pc[p] = "looked" /\ mu' = None /\ pc' = [pc EXCEPT ![p] = "returning"] /\ UNCHANGED <<now, asked, answer, began>>
  BY DEF Finish, Unlock
<1>6. TypeOK'
  BY <1>1, <1>3, <1>4, <1>5 DEF MInv, TypeOK
<1>7. Mutex'
  BY <1>5, Sentinels DEF MInv, TypeOK, Mutex
<1>8. ASSUME NEW q \in Caller PROVE CallReady(q)'
  BY <1>5, <1>8 DEF MInv, TypeOK, CallReady
<1>9. ASSUME NEW q \in Caller PROVE Vacant(q)'
  BY <1>5, <1>7, <1>9, Sentinels DEF MInv, TypeOK, Vacant, Mutex
<1>10. ASSUME NEW id \in ID PROVE SpanKept(id)'
  <2>1. CASE answer[p] = "true" /\ entries' = [entries EXCEPT ![c.id] = entry]
             /\ span' = [span EXCEPT ![c.id] = written] /\ id = c.id
    <3>1. entries'[id] = entry /\ span'[id] = written
      BY <1>1, <2>1 DEF MInv, TypeOK
    <3>2. entry # None /\ written.returned = None /\ written.called = began[p]
          /\ written.ttl = c.ttl /\ entry.expiresAt = now + c.ttl /\ now' = now
      BY <1>3, <1>5, <2>1, Sentinels
    <3> HIDE DEF entry, written
    <3> QED BY <1>1, <1>3, <2>1, <3>1, <3>2 DEF SpanKept
  <2>2. CASE entries'[id] = entries[id] /\ span'[id] = span[id]
    BY <1>5, <2>2 DEF MInv, SpanKept
  <2> QED BY <1>1, <1>4, <2>1, <2>2 DEF MInv, TypeOK
<1> QED BY <1>6, <1>7, <1>8, <1>9, <1>10 DEF MInv

LEMMA DeleteEntryInv ==
  ASSUME MInv, NEW p \in Caller, DeleteEntry(p) PROVE MInv'
<1>1. asked[p].id \in ID /\ pc[p] = "locked"
  BY DEF DeleteEntry, MInv, CallReady
<1>2. TypeOK'
  BY <1>1 DEF DeleteEntry, Unlock, MInv, TypeOK, Words
<1>3. Mutex'
  BY <1>1, Sentinels DEF DeleteEntry, Unlock, MInv, TypeOK, Mutex
<1>4. ASSUME NEW q \in Caller PROVE CallReady(q)' /\ Vacant(q)'
  BY <1>1, <1>3, <1>4, Sentinels DEF DeleteEntry, Unlock, MInv, TypeOK, CallReady, Vacant, Mutex, Words
<1>5. ASSUME NEW id \in ID PROVE SpanKept(id)'
  BY <1>1, <1>5 DEF DeleteEntry, MInv, TypeOK, SpanKept
<1> QED BY <1>2, <1>3, <1>4, <1>5 DEF MInv

(* Returning closes the spans of the caller: their entries were stamped no     *)
(* later than now.                                                             *)
LEMMA ReturnInv ==
  ASSUME MInv, NEW p \in Caller, Return(p) PROVE MInv'
<1>1. pc[p] = "returning" /\ pc' = [pc EXCEPT ![p] = "idle"]
      /\ asked' = [asked EXCEPT ![p] = None] /\ answer' = [answer EXCEPT ![p] = None]
      /\ began' = [began EXCEPT ![p] = 0] /\ UNCHANGED <<now, entries, mu>>
  BY DEF Return
<1>2. ASSUME NEW id \in ID
      PROVE  \/ span'[id] = span[id]
             \/ /\ span[id] # None /\ span[id].returned = None
                /\ span'[id] = [span[id] EXCEPT !.returned = now]
  BY <1>2 DEF Return
<1>3. ASSUME NEW id \in ID, span[id] # None, span'[id] = [span[id] EXCEPT !.returned = now]
      PROVE  /\ span'[id] \in Span /\ span'[id] # None /\ span'[id].returned = now
             /\ span'[id].called = span[id].called /\ span'[id].ttl = span[id].ttl
  <2>1. span[id] \in Span /\ now \in Int
    BY <1>3 DEF MInv, TypeOK
  <2>2. [span[id] EXCEPT !.returned = now] \in Span
    BY <2>1 DEF Span
  <2> QED BY <1>3, <2>1, <2>2, Sentinels DEF Span
<1>4. span' \in [ID -> Span \cup {None}]
  <2>1. \A id \in ID : span'[id] \in Span \cup {None}
    BY <1>2, <1>3 DEF MInv, TypeOK
  <2> QED BY <2>1 DEF Return
<1>5. TypeOK'
  BY <1>1, <1>4 DEF MInv, TypeOK
<1>6. Mutex'
  BY <1>1 DEF MInv, TypeOK, Mutex
<1>7. ASSUME NEW q \in Caller PROVE CallReady(q)' /\ Vacant(q)'
  BY <1>1, <1>7 DEF MInv, TypeOK, CallReady, Vacant
<1>8. ASSUME NEW id \in ID PROVE SpanKept(id)'
  <2>1. CASE span'[id] = span[id]
    BY <1>1, <2>1 DEF MInv, SpanKept
  <2>2. CASE span[id] # None /\ span[id].returned = None /\ span'[id] = [span[id] EXCEPT !.returned = now]
    <3>1. now # None
      BY Sentinels DEF MInv, TypeOK
    <3> QED BY <1>1, <1>3, <2>2, <3>1 DEF MInv, SpanKept
  <2> QED BY <1>2, <2>1, <2>2
<1> QED BY <1>5, <1>6, <1>7, <1>8 DEF MInv

LEMMA NextMInv == ASSUME MInv, [Next]_vars PROVE MInv'
<1>1. CASE UNCHANGED vars
  BY <1>1 DEF vars, MInv, TypeOK, Mutex, CallReady, Vacant, SpanKept
<1>2. CASE Next
  BY <1>2, StartInv, QuickInv, AdmitInv, LockInv, LookupInv, FinishInv, DeleteEntryInv, ReturnInv, TickInv
     DEF Next, Working
<1> QED BY <1>1, <1>2

LEMMA MInvAlways == Spec => []MInv
BY InitMInv, NextMInv, PTL DEF Spec

-----------------------------------------------------------------------------
(* The store and its calls stay well typed. *)
THEOREM StoreTypeOK == Spec => []TypeOK
<1>1. MInv => TypeOK
  BY DEF MInv
<1> QED BY <1>1, MInvAlways, PTL

(* An entry is there until its TTL has passed since the call that wrote it,    *)
(* and gone once it has passed since that call returned.                       *)
THEOREM TTLAlwaysHonoured == Spec => []TTLHonoured
<1>1. MInv => TTLHonoured
  <2> SUFFICES ASSUME MInv, NEW id \in ID, span[id] # None
               PROVE  /\ now < span[id].called + span[id].ttl => Alive(id)
                      /\ span[id].returned # None /\ Alive(id) => now < span[id].returned + span[id].ttl
    BY DEF TTLHonoured
  <2>1. /\ now \in Int /\ span[id].called \in Int /\ span[id].ttl \in Int
        /\ span[id].returned # None => span[id].returned \in Int
        /\ entries[id] # None => entries[id].expiresAt \in Int
    BY DEF MInv, TypeOK, Span, Entry
  <2> QED BY <2>1 DEF MInv, SpanKept, Alive
<1> QED BY <1>1, MInvAlways, PTL

-----------------------------------------------------------------------------
(* The refinement.  What the contract sees of one entry: the data of a write   *)
(* already permitted, or the entry if it has not expired.                      *)
LEMMA ContentsAt ==
  ASSUME MInv, NEW id \in ID
  PROVE  /\ Pending(id) => contents[id] = asked[mu].data
         /\ ~Pending(id) /\ Alive(id) => contents[id] = entries[id].data /\ contents[id] # None
         /\ ~Pending(id) /\ ~Alive(id) => contents[id] = None
<1>1. Alive(id) => entries[id].data \in Data
  BY DEF Alive, MInv, TypeOK, Entry
<1> QED BY <1>1, Distinct DEF contents

(* The caller that holds the mutex knows the only write that may be pending.   *)
LEMMA HolderPends ==
  ASSUME MInv, NEW p \in Caller, pc[p] \in {"locked", "looked"}, NEW id \in ID
  PROVE  mu = p /\ (Pending(id) <=> pc[p] = "looked" /\ answer[p] = "true" /\ asked[p].id = id)
BY Sentinels DEF MInv, Mutex, Pending

(* What the contract's actions say of calls that are under way.                *)
LEMMA AskStep ==
  ASSUME MInv, NEW p \in Caller, NEW c \in Call, Start(p, c) PROVE Contract!ContractNext
<1>1. contents' = contents
  BY Sentinels DEF Start, MInv, TypeOK, Mutex, contents, Pending, Alive
<1>2. asked[p] = None
  BY DEF Start, MInv, CallReady
<1>3. Contract!Ask(p, c)
  BY <1>1, <1>2 DEF Start, Contract!Ask
<1> QED BY <1>3 DEF Contract!ContractNext

LEMMA QuickStep ==
  ASSUME MInv, NEW p \in Caller, Refuse(p) \/ SkipEmpty(p) PROVE Contract!ContractNext
<1>1. asked[p] \in Call /\ answer[p] = None /\ asked[p] # None /\ pc[p] = "called"
  BY Sentinels DEF Refuse, SkipEmpty, MInv, TypeOK, CallReady
<1>2. mu # p /\ UNCHANGED <<now, entries, mu, asked>>
  BY <1>1 DEF Refuse, SkipEmpty, MInv, Mutex
<1>3. \A q \in Caller : q # p => pc'[q] = pc[q] /\ answer'[q] = answer[q]
  BY DEF Refuse, SkipEmpty, Decides, MInv, TypeOK
<1>4. contents' = contents
  BY <1>2, <1>3 DEF MInv, TypeOK, contents, Pending, Alive
<1>5. CASE Refuse(p)
  BY <1>1, <1>2, <1>4, <1>5 DEF Refuse, Decides, Contract!Refuse, Contract!Answers, Contract!ContractNext
<1>6. CASE SkipEmpty(p)
  <2>1. asked[p].op \in {"get", "delete"} /\ asked[p].id \notin ID
    BY <1>1, <1>6, CallFields, Sentinels DEF SkipEmpty, Writing
  <2>2. asked[p].op = "get" => Contract!Get(p)
    BY <1>1, <1>2, <1>4, <1>6, <2>1 DEF SkipEmpty, Decides, Contract!Get, Contract!Answers
  <2>3. contents = [id \in ID |-> IF id = asked[p].id THEN None ELSE contents[id]]
    BY <2>1 DEF contents
  <2>4. asked[p].op = "delete" => Contract!Delete(p)
    BY <1>1, <1>2, <1>4, <1>6, <2>3 DEF SkipEmpty, Decides, Contract!Delete, Contract!Answers
  <2> QED BY <1>1, <2>1, <2>2, <2>4 DEF Contract!ContractNext
<1> QED BY <1>5, <1>6

LEMMA LookupStep ==
  ASSUME MInv, NEW p \in Caller, Lookup(p) PROVE Contract!ContractNext
<1> DEFINE c == asked[p]
<1>1. c \in Call /\ c.id \in ID /\ Valid(c) /\ c # None /\ answer[p] = None /\ pc[p] = "locked"
      /\ c.op # "delete" /\ mu = p
  BY Sentinels DEF Lookup, MInv, TypeOK, CallReady, Mutex
<1>2. mu' = p /\ asked' = asked /\ now' = now /\ answer' = [answer EXCEPT ![p] = Found(c)]
      /\ pc' = [pc EXCEPT ![p] = "looked"]
      /\ entries' = [entries EXCEPT ![c.id] = IF Alive(c.id) THEN entries[c.id] ELSE None]
  BY <1>1 DEF Lookup, Decides
<1>3. answer'[p] = Found(c) /\ pc'[p] = "looked"
  BY <1>2 DEF MInv, TypeOK
<1>4. \A id \in ID : Alive(id)' = Alive(id) /\ (Alive(id) => entries'[id] = entries[id])
  BY <1>1, <1>2 DEF MInv, TypeOK, Alive
<1>5. \A id \in ID : ~Pending(id)
  BY <1>1 DEF Pending
<1>6. \A id \in ID : Pending(id)' <=> Found(c) = "true" /\ id = c.id
  BY <1>1, <1>2, <1>3, Sentinels DEF Pending
<1>7. \A id \in ID : Alive(id) <=> contents[id] # None
  BY <1>5, ContentsAt
<1>8. \A id \in ID : Alive(id) => contents[id] = entries[id].data
  BY <1>5, ContentsAt
<1>9. contents' = [id \in ID |-> IF Found(c) = "true" /\ id = c.id THEN c.data ELSE contents[id]]
  <2>1. \A id \in ID : (IF Alive(id) THEN entries[id].data ELSE None) = contents[id]
    BY <1>5, ContentsAt
  <2>2. \A id \in ID : contents'[id] = IF Found(c) = "true" /\ id = c.id THEN c.data ELSE contents[id]
    BY <1>2, <1>4, <1>6, <2>1 DEF contents
  <2> QED BY <2>2 DEF contents
<1>10. Found(c) # "true" => contents' = contents
  BY <1>9 DEF contents
<1>11. Found(c) = "true" => contents' = [contents EXCEPT ![c.id] = c.data]
  BY <1>1, <1>9 DEF contents
<1>12. CASE c.op = "get"
  <2>1. Found(c) = (IF contents[c.id] # None THEN contents[c.id] ELSE "nothing")
    BY <1>1, <1>7, <1>8, <1>12 DEF Found
  <2>2. Found(c) # "true"
    BY <1>1, <1>12, Distinct DEF Found, Alive, MInv, TypeOK, Entry, Words
  <2>3. Contract!Get(p)
    BY <1>1, <1>2, <1>10, <1>12, <2>1, <2>2 DEF Contract!Get, Contract!Answers
  <2> QED BY <1>1, <2>3 DEF Contract!ContractNext
<1>13. CASE c.op = "create"
  <2>1. Found(c) = IF contents[c.id] # None THEN "false" ELSE "true"
    BY <1>1, <1>7, <1>13 DEF Found
  <2>2. Contract!Create(p)
    BY <1>1, <1>2, <1>10, <1>11, <1>13, <2>1 DEF Contract!Create, Contract!Writes, Contract!Answers
  <2> QED BY <1>1, <2>2 DEF Contract!ContractNext
<1>14. CASE c.op = "update"
  <2>1. Found(c) = IF contents[c.id] # None THEN "true" ELSE "false"
    BY <1>1, <1>7, <1>14 DEF Found
  <2>2. Contract!Update(p)
    BY <1>1, <1>2, <1>10, <1>11, <1>14, <2>1 DEF Contract!Update, Contract!Writes, Contract!Answers
  <2> QED BY <1>1, <2>2 DEF Contract!ContractNext
<1> QED BY <1>1, <1>12, <1>13, <1>14, CallFields

(* The entry stored is the one that was promised: its lifetime is positive, so *)
(* it is alive when Finish stamps it.                                          *)
LEMMA FinishStep ==
  ASSUME MInv, NEW p \in Caller, Finish(p) PROVE UNCHANGED <<contents, asked, answer>>
<1> DEFINE c == asked[p]
           entry == [data |-> c.data, expiresAt |-> now + c.ttl]
<1>1. pc[p] = "looked" /\ mu' = None /\ UNCHANGED <<now, asked, answer>>
  BY DEF Finish, Unlock
<1>2. c \in Call /\ c.id \in ID /\ Valid(c) /\ now \in Int /\ (answer[p] = "true" => Writing(c))
  BY <1>1, Sentinels DEF MInv, TypeOK, CallReady
<1>3. \A id \in ID : Pending(id) <=> answer[p] = "true" /\ id = c.id
  BY <1>1, HolderPends
<1>4. \A id \in ID : ~Pending(id)'
  BY <1>1 DEF Pending
<1>5. CASE answer[p] = "true"
  <2>1. c.data \in Data /\ c.ttl > 0 /\ c.ttl \in Int
    BY <1>2, <1>5, CallFields
  <2>2. entry # None /\ entry.expiresAt > now /\ entry.data = c.data
    BY <1>2, <2>1, Sentinels DEF Entry
  <2>3. entries' = [entries EXCEPT ![c.id] = entry]
    BY <1>5 DEF Finish, Stores
  <2> HIDE DEF entry
  <2>4. entries'[c.id] = entry /\ \A id \in ID : id # c.id => entries'[id] = entries[id]
    BY <1>2, <2>3 DEF MInv, TypeOK
  <2>5. \A id \in ID : Alive(id)' <=> id = c.id \/ Alive(id)
    BY <1>1, <2>2, <2>4 DEF Alive
  <2>6. mu = p
    BY <1>1, HolderPends, <1>2
  <2>7. ASSUME NEW id \in ID PROVE contents'[id] = contents[id]
    <3>1. contents'[id] = IF Alive(id)' THEN entries'[id].data ELSE None
      BY <1>4 DEF contents
    <3>2. CASE id = c.id
      <4>1. contents[id] = c.data
        BY <1>3, <1>5, <2>6, <3>2 DEF contents
      <4>2. contents'[id] = entry.data
        BY <2>4, <2>5, <3>1, <3>2
      <4> QED BY <2>2, <4>1, <4>2
    <3>3. CASE id # c.id
      <4>1. contents[id] = IF Alive(id) THEN entries[id].data ELSE None
        BY <1>3, <3>3 DEF contents
      <4> QED BY <2>4, <2>5, <3>1, <3>3, <4>1
    <3> QED BY <3>2, <3>3
  <2> QED BY <1>1, <2>7 DEF contents
<1>6. CASE answer[p] # "true"
  BY <1>1, <1>3, <1>4, <1>6 DEF Finish, Stores, contents, Alive
<1> QED BY <1>5, <1>6

LEMMA DeleteStep ==
  ASSUME MInv, NEW p \in Caller, DeleteEntry(p) PROVE Contract!ContractNext
<1> DEFINE c == asked[p]
<1>1. pc[p] = "locked" /\ c.op = "delete" /\ c.id \in ID /\ c # None /\ answer[p] = None /\ mu = p
  BY Sentinels DEF DeleteEntry, MInv, TypeOK, CallReady, Mutex
<1>2. mu' = None /\ now' = now /\ asked' = asked /\ answer' = [answer EXCEPT ![p] = "done"]
      /\ entries' = [entries EXCEPT ![c.id] = None]
  BY DEF DeleteEntry, Unlock
<1>3. \A id \in ID : ~Pending(id) /\ ~Pending(id)'
  BY <1>1, <1>2 DEF Pending
<1>4. \A id \in ID : /\ Alive(id)' <=> id # c.id /\ Alive(id)
                     /\ id # c.id => entries'[id] = entries[id]
  BY <1>1, <1>2 DEF MInv, TypeOK, Alive
<1>5. contents' = [id \in ID |-> IF id = c.id THEN None ELSE contents[id]]
  <2>1. ASSUME NEW id \in ID PROVE contents'[id] = IF id = c.id THEN None ELSE contents[id]
    <3>1. contents[id] = IF Alive(id) THEN entries[id].data ELSE None
      BY <1>3 DEF contents
    <3>2. contents'[id] = IF Alive(id)' THEN entries'[id].data ELSE None
      BY <1>3 DEF contents
    <3>3. Alive(id)' <=> id # c.id /\ Alive(id)
      BY <1>4
    <3>4. id # c.id => entries'[id] = entries[id]
      BY <1>4
    <3> QED BY <3>1, <3>2, <3>3, <3>4
  <2> QED BY <2>1 DEF contents
<1>6. Contract!Delete(p)
  BY <1>1, <1>2, <1>5 DEF Contract!Delete, Contract!Answers
<1> QED BY <1>1, <1>6 DEF Contract!ContractNext

LEMMA ReturnStep ==
  ASSUME MInv, NEW p \in Caller, Return(p) PROVE Contract!ContractNext
<1>1. pc[p] = "returning" /\ answer[p] # None /\ mu # p
  BY DEF Return, MInv, CallReady, Mutex
<1>2. \A q \in Caller : q # p => pc'[q] = pc[q] /\ answer'[q] = answer[q] /\ asked'[q] = asked[q]
  BY DEF Return, MInv, TypeOK
<1>3. contents' = contents
  BY <1>1, <1>2 DEF Return, MInv, TypeOK, contents, Pending, Alive
<1>4. Contract!Return(p)
  BY <1>1, <1>3 DEF Return, Contract!Return
<1> QED BY <1>4 DEF Contract!ContractNext

LEMMA AdmitStep ==
  ASSUME MInv, NEW p \in Caller, Admit(p) PROVE UNCHANGED <<contents, asked, answer>>
<1>1. mu # p /\ UNCHANGED <<now, entries, mu, asked, answer>>
  BY DEF Admit, MInv, Mutex
<1>2. \A q \in Caller : q # p => pc'[q] = pc[q]
  BY DEF Admit, MInv, TypeOK
<1> QED BY <1>1, <1>2 DEF MInv, TypeOK, contents, Pending, Alive

LEMMA LockStep ==
  ASSUME MInv, NEW p \in Caller, Lock(p) PROVE UNCHANGED <<contents, asked, answer>>
<1>1. \A id \in ID : ~Pending(id) /\ ~Pending(id)'
  BY Sentinels DEF Lock, Pending, MInv, TypeOK
<1> QED BY <1>1 DEF Lock, contents, Alive

(* A tick ends the entries whose time has come, but not a pending write.       *)
LEMMA TickStep == ASSUME MInv, Tick PROVE Contract!ContractNext
<1> DEFINE over == {id \in ID : ~Pending(id) /\ ~Alive(id)'}
<1>1. \A id \in ID : Pending(id)' = Pending(id)
  BY DEF Tick, Pending
<1>2. \A id \in ID : Alive(id)' => Alive(id)
  BY DEF Tick, Alive, MInv, TypeOK, Entry
<1>3. \A id \in ID : contents'[id] = IF id \in over THEN None ELSE contents[id]
  BY <1>1, <1>2 DEF Tick, contents
<1>4. contents' = [id \in ID |-> IF id \in over THEN None ELSE contents[id]]
  BY <1>3 DEF contents
<1>5. Contract!Expire(over)
  BY <1>4 DEF Tick, Contract!Expire
<1> QED BY <1>5 DEF Contract!ContractNext

LEMMA ContractStep ==
  MInv /\ [Next]_vars => [Contract!ContractNext]_<<contents, asked, answer>>
<1> SUFFICES ASSUME MInv, [Next]_vars PROVE [Contract!ContractNext]_<<contents, asked, answer>>
  OBVIOUS
<1>1. CASE UNCHANGED vars
  BY <1>1 DEF vars, contents, Pending, Alive
<1>2. CASE Next
  BY <1>2, AskStep, QuickStep, AdmitStep, LockStep, LookupStep, FinishStep, DeleteStep, ReturnStep, TickStep
     DEF Next, Working
<1> QED BY <1>1, <1>2

(* The memory store, with its mutex, expiry, lazy freeing and two readings of  *)
(* the clock, implements the contract of store.go.                             *)
THEOREM MemStoreImplementsContract == Spec => ImplementsContract
<1>1. Init => Contract!ContractInit
  BY DEF Init, Contract!ContractInit, contents, Pending, Alive
<1> QED BY <1>1, MInvAlways, ContractStep, PTL
        DEF Spec, ImplementsContract, Contract!ContractSpec, Contract!contractVars
=============================================================================
