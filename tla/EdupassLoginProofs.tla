-------------------------- MODULE EdupassLoginProofs --------------------------
(***************************************************************************)
(* The role, the attributes and the refusal of a login with Edupass, for   *)
(* every groups claim: the loops of resolveEdupassGroups find what the     *)
(* format of the entries grants.  Then where the redirect after it lands,  *)
(* for every path to return to.                                            *)
(***************************************************************************)
EXTENDS EdupassLogin, SequenceTheorems, FiniteSetTheorems, WellFoundedInduction, TLAPS

-----------------------------------------------------------------------------
(* A set of numbers has a least one: strings.Index finds the first infix. *)
LEMMA Least ==
  ASSUME NEW T, T \subseteq Nat, T # {}
  PROVE  \E i \in T : \A j \in T : i <= j
<1> DEFINE R == {ss \in Nat \X Nat : ss[1] < ss[2]}
<1>1. IsWellFoundedOn(R, Nat)
  BY NatLessThanWellFounded DEF OpToRel
<1> HIDE DEF R
<1>2. \E i \in T : \A j \in T : <<j, i>> \notin R
  BY <1>1, WFMin
<1>3. \A i \in T, j \in T : <<j, i>> \notin R => i <= j
  BY DEF R
<1> QED BY <1>2, <1>3

(* An entry put together from a location and a code is split into them. *)
LEMMA SplitOfEntry ==
  ASSUME NEW location, NEW infix, infix # AppCode,
         NEW code \in Seq(Segment), Len(code) >= 2, code[1] = infix
  PROVE  /\ Has(EntryOf(location, code), infix)
         /\ Split(EntryOf(location, code), infix)
              = [location |-> location, app |-> <<AppCode>>, code |-> code]
<1> DEFINE S == Segment \cup {location, AppCode}
           e == EntryOf(location, code)
<1>1. /\ e \in Seq(S) /\ Len(e) = Len(code) + 2
      /\ e[1] = location /\ e[2] = AppCode
      /\ \A i \in 1..Len(code) : e[i + 2] = code[i]
  <2>1. <<location, AppCode>> \in Seq(S) /\ code \in Seq(S)
    OBVIOUS
  <2> QED BY <2>1 DEF EntryOf
<1> HIDE DEF e
<1>2. 3 \in Infixes(e, infix) /\ \A j \in Infixes(e, infix) : 3 <= j
  BY <1>1 DEF Infixes
<1>3. (CHOOSE i \in Infixes(e, infix) : \A j \in Infixes(e, infix) : i <= j) = 3
  BY <1>2 DEF Infixes
<1>4. SubSeq(e, 2, 2) = <<AppCode>>
  <2>1. /\ SubSeq(e, 2, 2) \in Seq(S) /\ Len(SubSeq(e, 2, 2)) = 1
        /\ SubSeq(e, 2, 2)[1] = AppCode
    <3>1. \A i \in 2..2 : e[i] \in S
      BY <1>1
    <3> QED BY <1>1, <3>1, SubSeqProperties
  <2>2. /\ <<AppCode>> \in Seq(S) /\ Len(<<AppCode>>) = 1
        /\ <<AppCode>>[1] = AppCode
    OBVIOUS
  <2> DEFINE s == SubSeq(e, 2, 2)
             t == <<AppCode>>
  <2> HIDE DEF S, s, t
  <2>3. s \in Seq(S) /\ t \in Seq(S) /\ Len(s) = Len(t)
    BY <2>1, <2>2 DEF s, t
  <2>4. \A i \in 1..Len(s) : s[i] = t[i]
    <3>1. Len(s) = 1 /\ s[1] = t[1]
      BY <2>1, <2>2 DEF s, t
    <3> QED BY <3>1
  <2>5. s = t
    BY <2>3, <2>4, SeqEqual
  <2> QED BY <2>5 DEF s, t
<1>5. SubSeq(e, 3, Len(e)) = code
  <2>1. code \in Seq(S)
    OBVIOUS
  <2>2. \A i \in 3..Len(e) : e[i] \in S
    BY <1>1
  <2>3. /\ SubSeq(e, 3, Len(e)) \in Seq(S)
        /\ Len(SubSeq(e, 3, Len(e))) = Len(code)
        /\ \A i \in 1..Len(code) : SubSeq(e, 3, Len(e))[i] = e[3 + i - 1]
    BY <1>1, <2>2, SubSeqProperties
  <2>4. \A i \in 1..Len(code) : SubSeq(e, 3, Len(e))[i] = code[i]
    BY <1>1, <2>3
  <2> DEFINE s == SubSeq(e, 3, Len(e))
  <2> HIDE DEF S, s
  <2>5. s \in Seq(S) /\ Len(s) = Len(code) /\ \A i \in 1..Len(s) : s[i] = code[i]
    BY <2>3, <2>4 DEF s
  <2>6. s = code
    BY <2>1, <2>5, SeqEqual
  <2> QED BY <2>6 DEF s
<1>6. Split(e, infix) = [location |-> location, app |-> <<AppCode>>, code |-> code]
  <2> DEFINE first == CHOOSE i \in Infixes(e, infix) : \A j \in Infixes(e, infix) : i <= j
  <2>1. Split(e, infix)
          = [location |-> e[1], app |-> SubSeq(e, 2, first - 1), code |-> SubSeq(e, first, Len(e))]
    BY DEF Split
  <2>2. first = 3
    BY <1>3
  <2> HIDE DEF first
  <2>3. first - 1 = 2
    BY <2>2
  <2> QED BY <1>1, <1>4, <1>5, <2>1, <2>2, <2>3
<1>7. Has(e, infix)
  BY <1>2 DEF Has
<1> QED BY <1>6, <1>7 DEF e

(* An entry whose middle is the app code is put together from its parts. *)
LEMMA EntryOfSplit ==
  ASSUME NEW e \in Seq(Segment), NEW infix, Has(e, infix), Split(e, infix).app = <<AppCode>>
  PROVE  e = EntryOf(Split(e, infix).location, Split(e, infix).code)
<1> DEFINE i == CHOOSE i \in Infixes(e, infix) : \A j \in Infixes(e, infix) : i <= j
<1>1. i \in Infixes(e, infix)
  <2>1. Infixes(e, infix) \subseteq Nat /\ Infixes(e, infix) # {}
    BY DEF Infixes, Has
  <2>2. \E k \in Infixes(e, infix) : \A j \in Infixes(e, infix) : k <= j
    BY <2>1, Least
  <2> QED BY <2>2
<1>2. /\ Split(e, infix).location = e[1]
      /\ Split(e, infix).app = SubSeq(e, 2, i - 1)
      /\ Split(e, infix).code = SubSeq(e, i, Len(e))
  BY DEF Split
<1> HIDE DEF i
<1>3. i \in 2..(Len(e) - 1)
  BY <1>1 DEF Infixes
<1>4. Len(SubSeq(e, 2, i - 1)) = 1 /\ SubSeq(e, 2, i - 1)[1] = AppCode
  <2> DEFINE app == SubSeq(e, 2, i - 1)
  <2>1. app = <<AppCode>>
    BY <1>2
  <2> HIDE DEF app
  <2>2. Len(app) = 1 /\ app[1] = AppCode
    BY <2>1
  <2> QED BY <2>2 DEF app
<1>5. i = 3 /\ e[2] = AppCode
  <2>1. /\ 2 \in Int /\ i - 1 \in Int
        /\ \A k \in 2..(i - 1) : e[k] \in Segment
    BY <1>3, ElementOfSeq
  <2>2. /\ Len(SubSeq(e, 2, i - 1)) = i - 2
        /\ \A k \in 1..(i - 2) : SubSeq(e, 2, i - 1)[k] = e[k + 1]
    BY <1>3, <2>1, SubSeqProperties
  <2> QED BY <1>3, <1>4, <2>2
<1>6. e = <<e[1], AppCode>> \o SubSeq(e, 3, Len(e))
  <2> DEFINE t == SubSeq(e, 3, Len(e))
             h == <<e[1], AppCode>>
             S == Segment \cup {AppCode}
  <2>1. e \in Seq(S) /\ h \in Seq(S) /\ Len(h) = 2 /\ h[1] = e[1] /\ h[2] = e[2]
    BY <1>3, <1>5
  <2>2. t \in Seq(S) /\ Len(t) = Len(e) - 2 /\ \A k \in 1..(Len(e) - 2) : t[k] = e[k + 2]
    <3>1. \A k \in 3..Len(e) : e[k] \in S
      BY <2>1
    <3>2. 3 \in Int /\ Len(e) \in Int
      BY <1>3
    <3> HIDE DEF S
    <3>3. /\ t \in Seq(S) /\ Len(t) = IF 3 <= Len(e) THEN Len(e) - 3 + 1 ELSE 0
          /\ \A k \in 1..(Len(e) - 3 + 1) : t[k] = e[3 + k - 1]
      BY <3>1, <3>2, SubSeqProperties
    <3> QED BY <3>2, <3>3, <1>3, <1>5
  <2> HIDE DEF t, h, S
  <2>3. /\ h \o t \in Seq(S) /\ Len(h \o t) = Len(e)
        /\ \A k \in 1..Len(e) : (h \o t)[k] = IF k <= 2 THEN h[k] ELSE t[k - 2]
    <3>1. h \in Seq(S) /\ t \in Seq(S)
      BY <2>1, <2>2
    <3>2. /\ h \o t \in Seq(S)
          /\ Len(h \o t) = Len(h) + Len(t)
          /\ \A k \in 1 .. Len(h) + Len(t) :
               (h \o t)[k] = IF k <= Len(h) THEN h[k] ELSE t[k - Len(h)]
      BY ONLY <3>1, ConcatProperties
    <3>3. Len(h) + Len(t) = Len(e)
      BY <2>1, <2>2, <1>3
    <3> QED BY <2>1, <3>2, <3>3
  <2>4. \A k \in 1..Len(e) : (h \o t)[k] = e[k]
    BY <2>1, <2>2, <2>3
  <2>5. h \o t = e
    BY <2>1, <2>3, <2>4, SeqEqual
  <2> QED BY <2>5 DEF h, t
<1> QED BY <1>2, <1>5, <1>6 DEF EntryOf

(* What the loop takes for a base role is an entry made of a school and a role. *)
LEMMA RoleFormat ==
  ASSUME NEW e \in Seq(Segment), RoleEntry(e)
  PROVE  /\ RoleOf(e) \in [location : School, code : RoleCode]
         /\ e = EntryOf(RoleOf(e).location, RoleOf(e).code)
         /\ RoleOf(e).location = e[1]
<1>1. Has(e, "ROLE") /\ Recognized(Split(e, "ROLE"), RoleCode)
  BY DEF RoleEntry
<1>2. /\ Split(e, "ROLE").app = <<AppCode>>
      /\ Split(e, "ROLE").location \in School
      /\ Split(e, "ROLE").code \in RoleCode
  BY <1>1 DEF Recognized
<1>3. e = EntryOf(Split(e, "ROLE").location, Split(e, "ROLE").code)
  BY <1>1, <1>2, EntryOfSplit
<1>4. Split(e, "ROLE").location = e[1]
  BY DEF Split
<1>5. RoleOf(e) = [location |-> Split(e, "ROLE").location, code |-> Split(e, "ROLE").code]
  BY DEF RoleOf
<1> QED BY <1>2, <1>3, <1>4, <1>5

(* And every such entry is taken for that role. *)
LEMMA RoleEntries ==
  ASSUME NEW l \in School, NEW c \in RoleCode
  PROVE  /\ RoleEntry(EntryOf(l, c))
         /\ RoleOf(EntryOf(l, c)) = [location |-> l, code |-> c]
         /\ EntryOf(l, c)[1] = l
         /\ ~AttrEntry(EntryOf(l, c))
<1> DEFINE e == EntryOf(l, c)
<1>1. "ROLE" # AppCode /\ c \in Seq(Segment) /\ Len(c) >= 2 /\ c[1] = "ROLE"
  BY Codes
<1>2. Has(e, "ROLE") /\ Split(e, "ROLE") = [location |-> l, app |-> <<AppCode>>, code |-> c]
  BY <1>1, SplitOfEntry
<1>3. Split(e, "ROLE").location = e[1]
  BY DEF Split
<1> HIDE DEF e
<1>4. RoleEntry(e) /\ ~AttrEntry(e)
  BY <1>2 DEF RoleEntry, AttrEntry, Recognized
<1>5. RoleOf(e) = [location |-> l, code |-> c]
  BY <1>2 DEF RoleOf
<1>6. e[1] = l
  BY <1>2, <1>3
<1> QED BY <1>4, <1>5, <1>6 DEF e

(* The same for attributes. *)
LEMMA AttrFormat ==
  ASSUME NEW e \in Seq(Segment), AttrEntry(e)
  PROVE  /\ CandidateOf(e) \in [location : School, code : AttrCode, entry : {e}]
         /\ e = EntryOf(CandidateOf(e).location, CandidateOf(e).code)
<1>1. Has(e, "ATTR") /\ Recognized(Split(e, "ATTR"), AttrCode)
  BY DEF AttrEntry
<1>2. /\ Split(e, "ATTR").app = <<AppCode>>
      /\ Split(e, "ATTR").location \in School
      /\ Split(e, "ATTR").code \in AttrCode
  BY <1>1 DEF Recognized
<1>3. e = EntryOf(Split(e, "ATTR").location, Split(e, "ATTR").code)
  BY <1>1, <1>2, EntryOfSplit
<1>4. CandidateOf(e)
        = [location |-> Split(e, "ATTR").location, code |-> Split(e, "ATTR").code, entry |-> e]
  BY DEF CandidateOf
<1> QED BY <1>2, <1>3, <1>4

LEMMA AttrEntries ==
  ASSUME NEW l \in School, NEW c \in AttrCode
  PROVE  /\ AttrEntry(EntryOf(l, c))
         /\ ~RoleEntry(EntryOf(l, c))
         /\ CandidateOf(EntryOf(l, c)) = [location |-> l, code |-> c, entry |-> EntryOf(l, c)]
<1> DEFINE e == EntryOf(l, c)
           S == Segment \cup {l, AppCode}
<1>1. /\ "ATTR" # AppCode /\ "ROLE" # AppCode
      /\ c \in Seq(Segment) /\ Len(c) >= 2 /\ c[1] = "ATTR"
      /\ \A i \in 2..(Len(c) - 1) : c[i] # "ROLE"
  BY Codes
<1>2. Has(e, "ATTR") /\ Split(e, "ATTR") = [location |-> l, app |-> <<AppCode>>, code |-> c]
  BY <1>1, SplitOfEntry
<1>3. ~Has(e, "ROLE")
  <2>1. /\ Len(e) = Len(c) + 2 /\ e[2] = AppCode
        /\ \A i \in 1..Len(c) : e[i + 2] = c[i]
    <3>1. <<l, AppCode>> \in Seq(S) /\ c \in Seq(S)
      BY <1>1
    <3> QED BY <3>1 DEF EntryOf
  <2> HIDE DEF e
  <2> SUFFICES ASSUME NEW i \in 2..(Len(e) - 1), e[i] = "ROLE" PROVE FALSE
    BY DEF Has, Infixes
  <2>2. i # 2
    BY <1>1, <2>1
  <2>3. i - 2 \in 1..(Len(c) - 1) /\ e[i] = c[i - 2]
    <3>1. i - 2 \in 1..Len(c) /\ (i - 2) + 2 = i /\ i - 2 \in 1..(Len(c) - 1)
      BY <1>1, <2>1, <2>2
    <3> QED BY <2>1, <3>1
  <2> QED BY <1>1, <2>3
<1> HIDE DEF e
<1>4. AttrEntry(e) /\ ~RoleEntry(e)
  BY <1>2, <1>3 DEF RoleEntry, AttrEntry, Recognized
<1>5. CandidateOf(e) = [location |-> l, code |-> c, entry |-> e]
  BY <1>2 DEF CandidateOf
<1> QED BY <1>4, <1>5 DEF e

-----------------------------------------------------------------------------
(* What the entries of a set grant. *)
RolesIn(E) == {g \in [location : School \ MK, code : RoleCode] : EntryOf(g.location, g.code) \in E}

AtMKIn(E) == \E l \in MK \cap School, c \in RoleCode : EntryOf(l, c) \in E

CandidatesIn(E) == {c \in [location : School, code : AttrCode, entry : E] : c.entry = EntryOf(c.location, c.code)}

OfNoUse(e) == ~AttrEntry(e) /\ ~(RoleEntry(e) /\ e[1] \notin MK)

(* What one more entry adds. *)
LEMMA OneMore ==
  ASSUME NEW E, NEW e \in Seq(Segment)
  PROVE  /\ RolesIn(E \cup {e}) = RolesIn(E) \cup {RoleOf(x) : x \in {y \in {e} : RoleEntry(y) /\ y[1] \notin MK}}
         /\ AtMKIn(E \cup {e}) <=> AtMKIn(E) \/ (RoleEntry(e) /\ e[1] \in MK)
         /\ CandidatesIn(E \cup {e}) = CandidatesIn(E) \cup {CandidateOf(x) : x \in {y \in {e} : AttrEntry(y)}}
<1>1. ASSUME NEW g \in [location : School, code : RoleCode]
      PROVE  EntryOf(g.location, g.code) = e <=> RoleEntry(e) /\ g = RoleOf(e)
  <2>1. /\ g.location \in School /\ g.code \in RoleCode
        /\ g = [location |-> g.location, code |-> g.code]
    OBVIOUS
  <2>2. EntryOf(g.location, g.code) = e => RoleEntry(e) /\ g = RoleOf(e)
    BY <2>1, RoleEntries
  <2>3. RoleEntry(e) => e = EntryOf(RoleOf(e).location, RoleOf(e).code)
    BY RoleFormat
  <2> QED BY <2>2, <2>3
<1>2. RoleEntry(e) => RoleOf(e) \in [location : School, code : RoleCode] /\ RoleOf(e).location = e[1]
  BY RoleFormat
<1>3. RolesIn(E \cup {e}) = RolesIn(E) \cup {RoleOf(x) : x \in {y \in {e} : RoleEntry(y) /\ y[1] \notin MK}}
  <2>1. \A g \in [location : School \ MK, code : RoleCode] :
          EntryOf(g.location, g.code) = e <=> RoleEntry(e) /\ g = RoleOf(e)
    BY <1>1
  <2>2. RoleEntry(e) /\ e[1] \notin MK => RoleOf(e) \in [location : School \ MK, code : RoleCode]
    BY <1>2
  <2>3. \A g \in [location : School \ MK, code : RoleCode] : g.location \notin MK
    OBVIOUS
  <2> QED BY <1>2, <2>1, <2>2, <2>3 DEF RolesIn
<1>4. AtMKIn(E \cup {e}) <=> AtMKIn(E) \/ (RoleEntry(e) /\ e[1] \in MK)
  <2>1. ASSUME NEW l \in MK \cap School, NEW c \in RoleCode, EntryOf(l, c) = e
        PROVE  RoleEntry(e) /\ e[1] \in MK
    BY <2>1, RoleEntries
  <2>2. ASSUME RoleEntry(e), e[1] \in MK
        PROVE  \E l \in MK \cap School, c \in RoleCode : EntryOf(l, c) = e
    BY <2>2, RoleFormat
  <2> QED BY <2>1, <2>2 DEF AtMKIn
<1>5. CandidatesIn(E \cup {e}) = CandidatesIn(E) \cup {CandidateOf(x) : x \in {y \in {e} : AttrEntry(y)}}
  <2>1. ASSUME NEW c \in [location : School, code : AttrCode, entry : {e}], c.entry = EntryOf(c.location, c.code)
        PROVE  AttrEntry(e) /\ c = CandidateOf(e)
    <3>1. /\ c.location \in School /\ c.code \in AttrCode /\ EntryOf(c.location, c.code) = e
          /\ c = [location |-> c.location, code |-> c.code, entry |-> e]
      BY <2>1
    <3> QED BY <3>1, AttrEntries
  <2>2. ASSUME AttrEntry(e)
        PROVE  /\ CandidateOf(e) \in [location : School, code : AttrCode, entry : {e}]
               /\ CandidateOf(e).entry = EntryOf(CandidateOf(e).location, CandidateOf(e).code)
    BY <2>2, AttrFormat
  <2>3. \A c \in [location : School, code : AttrCode, entry : E \cup {e}] :
          \/ c \in [location : School, code : AttrCode, entry : E]
          \/ c \in [location : School, code : AttrCode, entry : {e}]
    OBVIOUS
  <2>4. /\ [location : School, code : AttrCode, entry : E] \subseteq [location : School, code : AttrCode, entry : E \cup {e}]
        /\ [location : School, code : AttrCode, entry : {e}] \subseteq [location : School, code : AttrCode, entry : E \cup {e}]
    OBVIOUS
  <2> QED BY <2>1, <2>2, <2>3, <2>4 DEF CandidatesIn
<1> QED BY <1>3, <1>4, <1>5

-----------------------------------------------------------------------------
(* Appending to a sequence, and keeping what is new to it. *)
LEMMA AppendAdds ==
  ASSUME NEW S, NEW seq \in Seq(S), NEW x \in S
  PROVE  Append(seq, x) \in Seq(S) /\ ToSet(Append(seq, x)) = ToSet(seq) \cup {x}
<1> DEFINE t == Append(seq, x)
<1>1. /\ t \in Seq(S) /\ Len(t) = Len(seq) + 1
      /\ DOMAIN t = 1..(Len(seq) + 1) /\ DOMAIN seq = 1..Len(seq) /\ Len(seq) \in Nat
      /\ \A i \in 1..Len(seq) : t[i] = seq[i]
      /\ t[Len(seq) + 1] = x
  OBVIOUS
<1> HIDE DEF t
<1>2. ToSet(t) = ToSet(seq) \cup {x}
  BY <1>1 DEF ToSet
<1> QED BY <1>1, <1>2 DEF t

LEMMA KeepAdds ==
  ASSUME NEW S, NEW seq \in Seq(S), NEW x \in S, IsInjective(seq)
  PROVE  /\ Keep(seq, x) \in Seq(S)
         /\ ToSet(Keep(seq, x)) = ToSet(seq) \cup {x}
         /\ IsInjective(Keep(seq, x))
<1>1. CASE Contains(seq, x)
  BY <1>1 DEF Keep, Contains, ToSet
<1>2. CASE ~Contains(seq, x)
  <2>1. Keep(seq, x) = Append(seq, x)
    BY <1>2 DEF Keep
  <2>2. IsInjective(Append(seq, x))
    BY <1>2 DEF Contains, IsInjective
  <2> QED BY <2>1, <2>2, AppendAdds
<1> QED BY <1>1, <1>2

-----------------------------------------------------------------------------
(* The inductive invariant. *)

(* The entries and the candidates that the loops have gone through. *)
Seen == CASE pc = "entries" -> {login.groups[i] : i \in 1..(next - 1)}
          [] pc = "attributes" \/ (pc = "done" /\ Vouched) -> Claimed
          [] OTHER -> {}

Looked == CASE pc = "attributes" -> {candidates[i] : i \in 1..(next - 1)}
            [] pc = "done" -> ToSet(candidates)
            [] OTHER -> {}

Place == /\ login \in Logins
         /\ pc \in {"start", "called"} => next = 1
         /\ pc = "entries" => next \in 1..(Len(login.groups) + 1)
         /\ pc = "attributes" => next \in 1..(Len(candidates) + 1)
         /\ pc \in {"entries", "attributes"} => Vouched

Found == /\ IsInjective(roles)
         /\ ToSet(roles) = RolesIn(Seen)
         /\ removedMKRole <=> AtMKIn(Seen)
         /\ ToSet(candidates) = CandidatesIn(Seen)
         /\ IsInjective(attributes)
         /\ ToSet(attributes) = {c.code : c \in {d \in Looked : AtRole(d)}}
         /\ ToSet(unrecognized) = {e \in Seen : OfNoUse(e)} \cup {c.entry : c \in {d \in Looked : ~AtRole(d)}}

Outcome == /\ pc = "done" /\ Vouched /\ Len(roles) = 1
                => user = [role |-> roles[1].code, school |-> roles[1].location, attributes |-> attributes]
           /\ pc = "done" /\ Vouched /\ Len(roles) # 1
                => user = None /\ redirect.error = RoleError
           /\ pc # "done" \/ ~Vouched => user = None

LInv == TypeOK /\ Place /\ Found /\ Outcome

LEMMA Nothing ==
  /\ RolesIn({}) = {} /\ CandidatesIn({}) = {} /\ ~AtMKIn({})
  /\ ToSet(<<>>) = {} /\ IsInjective(<<>>)
<1>1. RolesIn({}) = {} /\ ~AtMKIn({})
  BY DEF RolesIn, AtMKIn
<1>2. CandidatesIn({}) = {}
  BY DEF CandidatesIn
<1>3. ToSet(<<>>) = {} /\ IsInjective(<<>>)
  BY DEF ToSet, IsInjective
<1> QED BY <1>1, <1>2, <1>3

LEMMA InitLInv == Init => LInv
<1> SUFFICES ASSUME Init PROVE LInv
  OBVIOUS
<1> USE DEF Init
<1>1. TypeOK
  <2>1. roles \in Seq([location : School, code : RoleCode])
    BY EmptySeq
  <2>2. candidates \in Seq([location : School, code : AttrCode, entry : Seq(Segment)])
    BY EmptySeq
  <2>3. attributes \in Seq(AttrCode) /\ unrecognized \in Seq(Seq(Segment))
    BY EmptySeq
  <2>4. next \in Nat \ {0}
    OBVIOUS
  <2>5. removedMKRole \in BOOLEAN
    BY Zenon
  <2>6. pc \in {"start", "called", "entries", "attributes", "done"} /\ user \in User \cup {None}
    BY Zenon
  <2> QED BY ONLY <2>1, <2>2, <2>3, <2>4, <2>5, <2>6 DEF TypeOK
<1>2. Place
  BY DEF Place
<1>3. Found
  <2>1. Seen = {} /\ Looked = {}
    BY DEF Seen, Looked
  <2> QED BY <2>1, Nothing DEF Found
<1>4. Outcome
  BY DEF Outcome
<1> QED BY <1>1, <1>2, <1>3, <1>4 DEF LInv

(* The steps before the groups are read leave nothing seen. *)
LEMMA BeforeGroups ==
  ASSUME LInv, AuthEdupass \/ Refuse \/ ReadGroups
  PROVE  LInv'
<1>1. /\ UNCHANGED <<login, next, groupVars, user>>
      /\ pc \in {"start", "called"}
      /\ pc' \in {"called", "done", "entries"}
      /\ pc' = "done" => ~Vouched
      /\ pc' = "entries" => Vouched
      /\ Vouched' = Vouched
  BY DEF AuthEdupass, Refuse, ReadGroups, Vouched
<1>2. TypeOK'
  BY <1>1 DEF LInv, TypeOK, groupVars
<1>3. Place'
  BY <1>1 DEF LInv, Place
<1>4. Found'
  <2>1. Seen = {} /\ Looked = {}
    BY <1>1 DEF Seen, Looked
  <2>2. candidates = <<>>
    <3>1. ToSet(candidates) = {}
      BY <2>1, Nothing DEF LInv, Found
    <3>2. candidates \in Seq([location : School, code : AttrCode, entry : Seq(Segment)])
      BY DEF LInv, TypeOK
    <3>3. Len(candidates) \in Nat /\ DOMAIN candidates = 1..Len(candidates)
      BY <3>2
    <3>4. Len(candidates) = 0
      <4>1. ASSUME 1 \in DOMAIN candidates PROVE FALSE
        BY <3>1, <4>1 DEF ToSet
      <4> QED BY <3>3, <4>1
    <3> QED BY <3>2, <3>4, EmptySeq
  <2>3. Seen' = {}
    <3>1. next' = 1 /\ 1..(1 - 1) = {}
      BY <1>1 DEF LInv, Place
    <3>2. {login'.groups[i] : i \in 1..(next' - 1)} = {}
      BY <3>1
    <3> QED BY <1>1, <3>2 DEF Seen
  <2>4. Looked' = {}
    BY <1>1, <2>2, Nothing DEF Looked, groupVars
  <2>5. (\A d : AtRole(d)' <=> AtRole(d)) /\ \A e : OfNoUse(e)' <=> OfNoUse(e)
    BY <1>1 DEF AtRole, groupVars
  <2>6. /\ RolesIn({})' = RolesIn({}) /\ CandidatesIn({})' = CandidatesIn({})
        /\ AtMKIn({})' <=> AtMKIn({})
    BY DEF RolesIn, CandidatesIn, AtMKIn
  <2> QED BY <1>1, <2>1, <2>3, <2>4 DEF LInv, Found, groupVars
<1>5. Outcome'
  BY <1>1 DEF LInv, Outcome
<1> QED BY <1>2, <1>3, <1>4, <1>5 DEF LInv

(* One more entry. *)
LEMMA EntryStep ==
  ASSUME LInv, ResolveEntry
  PROVE  LInv'
<1> DEFINE e == login.groups[next]
<1>1. /\ pc = "entries" /\ next \in 1..Len(login.groups) /\ next' = next + 1
      /\ UNCHANGED <<pc, login, attributes, user>>
      /\ KeepRole(e) \/ RemoveMKRole(e) \/ KeepCandidate(e) \/ Discard(e)
      /\ Vouched' = Vouched
  <2>1. pc = "entries" /\ next \in 1..(Len(login.groups) + 1) /\ next <= Len(login.groups)
    BY DEF LInv, Place, ResolveEntry
  <2>2. Len(login.groups) \in Nat
    BY Inputs DEF LInv, Place
  <2> QED BY <2>1, <2>2 DEF ResolveEntry, Vouched
<1>2. login.groups \in Seq(Seq(Segment)) /\ e \in Seq(Segment)
  BY <1>1, Inputs, ElementOfSeq DEF LInv, Place
<1>3. Seen = {login.groups[i] : i \in 1..(next - 1)} /\ Looked = {} /\ Looked' = {}
  BY <1>1 DEF Seen, Looked
<1>4. Seen' = Seen \cup {e}
  <2>1. Seen' = {login.groups[i] : i \in 1..next}
    BY <1>1 DEF Seen
  <2>2. 1..next = 1..(next - 1) \cup {next}
    BY <1>1
  <2> QED BY <1>3, <2>1, <2>2
<1>5. /\ RolesIn(Seen') = RolesIn(Seen) \cup {RoleOf(x) : x \in {y \in {e} : RoleEntry(y) /\ y[1] \notin MK}}
      /\ AtMKIn(Seen') <=> AtMKIn(Seen) \/ (RoleEntry(e) /\ e[1] \in MK)
      /\ CandidatesIn(Seen') = CandidatesIn(Seen) \cup {CandidateOf(x) : x \in {y \in {e} : AttrEntry(y)}}
  BY <1>2, <1>4, OneMore
<1>6. /\ IsInjective(roles) /\ ToSet(roles) = RolesIn(Seen)
      /\ removedMKRole <=> AtMKIn(Seen)
      /\ ToSet(candidates) = CandidatesIn(Seen)
      /\ IsInjective(attributes) /\ ToSet(attributes) = {}
      /\ ToSet(unrecognized) = {x \in Seen : OfNoUse(x)}
  BY <1>3 DEF LInv, Found
<1>7. /\ roles \in Seq([location : School, code : RoleCode])
      /\ candidates \in Seq([location : School, code : AttrCode, entry : Seq(Segment)])
      /\ unrecognized \in Seq(Seq(Segment))
      /\ removedMKRole \in BOOLEAN
  BY DEF LInv, TypeOK
<1>8. RoleEntry(e) => ~AttrEntry(e)
  BY DEF RoleEntry, AttrEntry
<1> HIDE DEF e
<1>9. /\ roles' \in Seq([location : School, code : RoleCode])
      /\ IsInjective(roles') /\ ToSet(roles') = RolesIn(Seen')
  <2>1. CASE KeepRole(e)
    <3>1. RoleEntry(e) /\ e[1] \notin MK /\ roles' = Keep(roles, RoleOf(e))
      BY <2>1 DEF KeepRole
    <3>2. RoleOf(e) \in [location : School, code : RoleCode]
      BY <1>2, <3>1, RoleFormat
    <3>3. /\ roles' \in Seq([location : School, code : RoleCode])
          /\ IsInjective(roles') /\ ToSet(roles') = ToSet(roles) \cup {RoleOf(e)}
      <4> DEFINE S == [location : School, code : RoleCode]
      <4>1. roles \in Seq(S) /\ RoleOf(e) \in S /\ IsInjective(roles)
        BY <1>6, <1>7, <3>2
      <4> HIDE DEF S
      <4>2. /\ Keep(roles, RoleOf(e)) \in Seq(S)
            /\ ToSet(Keep(roles, RoleOf(e))) = ToSet(roles) \cup {RoleOf(e)}
            /\ IsInjective(Keep(roles, RoleOf(e)))
        BY <4>1, KeepAdds
      <4> QED BY <3>1, <4>2 DEF S
    <3> QED BY <1>5, <1>6, <3>1, <3>3
  <2>2. CASE RemoveMKRole(e) \/ KeepCandidate(e) \/ Discard(e)
    <3>1. roles' = roles /\ ~(RoleEntry(e) /\ e[1] \notin MK)
      BY <1>8, <2>2 DEF RemoveMKRole, KeepCandidate, Discard
    <3> QED BY <1>5, <1>6, <1>7, <3>1
  <2> QED BY <1>1, <2>1, <2>2
<1>10. removedMKRole' \in BOOLEAN /\ (removedMKRole' <=> AtMKIn(Seen'))
  <2>1. CASE RemoveMKRole(e)
    <3>1. RoleEntry(e) /\ e[1] \in MK /\ removedMKRole' = TRUE
      BY <2>1, Zenon DEF RemoveMKRole
    <3> QED BY <1>5, <3>1, Zenon
  <2>2. CASE KeepRole(e) \/ KeepCandidate(e) \/ Discard(e)
    <3>1. removedMKRole' = removedMKRole /\ ~(RoleEntry(e) /\ e[1] \in MK)
      BY <1>8, <2>2, Zenon DEF KeepRole, KeepCandidate, Discard
    <3> QED BY <1>5, <1>6, <1>7, <3>1, Zenon
  <2> QED BY <1>1, <2>1, <2>2
<1>11. /\ candidates' \in Seq([location : School, code : AttrCode, entry : Seq(Segment)])
       /\ ToSet(candidates') = CandidatesIn(Seen')
  <2>1. CASE KeepCandidate(e)
    <3>1. AttrEntry(e) /\ candidates' = Append(candidates, CandidateOf(e))
      BY <2>1 DEF KeepCandidate
    <3>2. CandidateOf(e) \in [location : School, code : AttrCode, entry : Seq(Segment)]
      BY <1>2, <3>1, AttrFormat
    <3>3. /\ candidates' \in Seq([location : School, code : AttrCode, entry : Seq(Segment)])
          /\ ToSet(candidates') = ToSet(candidates) \cup {CandidateOf(e)}
      <4> DEFINE S == [location : School, code : AttrCode, entry : Seq(Segment)]
      <4>1. candidates \in Seq(S) /\ CandidateOf(e) \in S
        BY <1>7, <3>2
      <4> HIDE DEF S
      <4>2. /\ Append(candidates, CandidateOf(e)) \in Seq(S)
            /\ ToSet(Append(candidates, CandidateOf(e))) = ToSet(candidates) \cup {CandidateOf(e)}
        BY <4>1, AppendAdds
      <4> QED BY <3>1, <4>2 DEF S
    <3> QED BY <1>5, <1>6, <3>1, <3>3
  <2>2. CASE KeepRole(e) \/ RemoveMKRole(e) \/ Discard(e)
    <3>1. candidates' = candidates /\ ~AttrEntry(e)
      BY <1>8, <2>2 DEF KeepRole, RemoveMKRole, Discard
    <3> QED BY <1>5, <1>6, <1>7, <3>1
  <2> QED BY <1>1, <2>1, <2>2
<1>12. /\ unrecognized' \in Seq(Seq(Segment))
       /\ ToSet(unrecognized') = {x \in Seen' : OfNoUse(x)}
  <2>1. CASE RemoveMKRole(e) \/ Discard(e)
    <3>1. OfNoUse(e) /\ unrecognized' = Append(unrecognized, e)
      BY <1>8, <2>1 DEF RemoveMKRole, Discard, OfNoUse
    <3>2. unrecognized' \in Seq(Seq(Segment)) /\ ToSet(unrecognized') = ToSet(unrecognized) \cup {e}
      BY <1>2, <1>7, <3>1, AppendAdds
    <3> QED BY <1>4, <1>6, <3>1, <3>2
  <2>2. CASE KeepRole(e) \/ KeepCandidate(e)
    <3>1. unrecognized' = unrecognized /\ ~OfNoUse(e)
      BY <2>2 DEF KeepRole, KeepCandidate, OfNoUse
    <3> QED BY <1>4, <1>6, <1>7, <3>1
  <2> QED BY <1>1, <2>1, <2>2
<1>13. TypeOK'
  <2>1. next' \in Nat \ {0} /\ attributes' \in Seq(AttrCode) /\ user' \in User \cup {None}
    BY <1>1 DEF LInv, TypeOK
  <2> QED BY <1>1, <1>9, <1>10, <1>11, <1>12, <2>1 DEF LInv, TypeOK
<1>14. Place'
  BY <1>1, <1>2 DEF LInv, Place
<1>15. Found'
  BY <1>1, <1>3, <1>6, <1>9, <1>10, <1>11, <1>12 DEF Found, OfNoUse
<1>16. Outcome'
  BY <1>1 DEF LInv, Outcome
<1> QED BY <1>13, <1>14, <1>15, <1>16 DEF LInv

(* After the last entry, every entry has been seen and no candidate. *)
LEMMA EntriesEnd ==
  ASSUME LInv, EndEntries
  PROVE  LInv'
<1>1. /\ pc = "entries" /\ pc' = "attributes" /\ next' = 1
      /\ UNCHANGED <<login, roles, candidates, attributes, unrecognized, removedMKRole, user>>
      /\ Vouched /\ Vouched' = Vouched
  BY DEF LInv, Place, EndEntries, groupVars, Vouched
<1>2. Seen' = Seen
  <2>1. login.groups \in Seq(Seq(Segment))
    BY Inputs DEF LInv, Place
  <2>2. next = Len(login.groups) + 1
    BY <2>1, <1>1 DEF LInv, Place, EndEntries
  <2>3. DOMAIN login.groups = 1..(next - 1)
    BY <2>1, <2>2
  <2> QED BY <1>1, <2>3 DEF Seen, Claimed, ToSet
<1>3. Looked = {} /\ Looked' = {}
  <2>1. {candidates'[i] : i \in 1..(next' - 1)} = {}
    <3>1. 1..(next' - 1) = {}
      BY <1>1
    <3> QED BY <3>1
  <2> QED BY <1>1, <2>1 DEF Looked
<1>4. TypeOK'
  BY <1>1 DEF LInv, TypeOK
<1>5. Place'
  <2>1. Len(candidates) \in Nat
    BY DEF LInv, TypeOK
  <2> QED BY <1>1, <2>1 DEF LInv, Place
<1>6. Found'
  BY <1>1, <1>2, <1>3 DEF LInv, Found, OfNoUse
<1>7. Outcome'
  BY <1>1 DEF LInv, Outcome
<1> QED BY <1>4, <1>5, <1>6, <1>7 DEF LInv

(* One more candidate. *)
LEMMA CandidateStep ==
  ASSUME LInv, ResolveAttribute
  PROVE  LInv'
<1> DEFINE c == candidates[next]
<1>1. /\ pc = "attributes" /\ next \in 1..Len(candidates) /\ next' = next + 1
      /\ UNCHANGED <<pc, login, roles, candidates, removedMKRole, user>>
      /\ \/ AtRole(c) /\ attributes' = Keep(attributes, c.code) /\ UNCHANGED unrecognized
         \/ ~AtRole(c) /\ unrecognized' = Append(unrecognized, c.entry) /\ UNCHANGED attributes
      /\ Vouched' = Vouched
  <2>1. pc = "attributes" /\ next \in 1..(Len(candidates) + 1) /\ next <= Len(candidates)
    BY DEF LInv, Place, ResolveAttribute
  <2>2. Len(candidates) \in Nat
    BY DEF LInv, TypeOK
  <2> QED BY <2>1, <2>2 DEF ResolveAttribute, Vouched
<1>2. c.code \in AttrCode /\ c.entry \in Seq(Segment)
  <2> DEFINE S == [location : School, code : AttrCode, entry : Seq(Segment)]
  <2>1. candidates \in Seq(S)
    BY DEF LInv, TypeOK
  <2> HIDE DEF S
  <2>2. c \in S
    BY <1>1, <2>1, ElementOfSeq
  <2> HIDE DEF c
  <2> QED BY <2>2 DEF S
<1>3. /\ Seen' = Seen
      /\ Looked = {candidates[i] : i \in 1..(next - 1)}
      /\ Looked' = {candidates[i] : i \in 1..next}
  BY <1>1 DEF Seen, Looked, Claimed
<1>4. Looked' = Looked \cup {c}
  <2>1. 1..next = 1..(next - 1) \cup {next}
    BY <1>1
  <2> QED BY <1>3, <2>1
<1>5. \A d : AtRole(d)' <=> AtRole(d)
  BY <1>1 DEF AtRole
<1>6. /\ IsInjective(attributes)
      /\ ToSet(attributes) = {d.code : d \in {x \in Looked : AtRole(x)}}
      /\ ToSet(unrecognized) = {x \in Seen : OfNoUse(x)} \cup {d.entry : d \in {x \in Looked : ~AtRole(x)}}
  BY DEF LInv, Found
<1>7. attributes \in Seq(AttrCode) /\ unrecognized \in Seq(Seq(Segment))
  BY DEF LInv, TypeOK
<1> HIDE DEF c
<1>8. /\ attributes' \in Seq(AttrCode)
      /\ IsInjective(attributes')
      /\ ToSet(attributes') = {d.code : d \in {x \in Looked' : AtRole(x)}}
  <2>1. CASE AtRole(c)
    <3>1. attributes' = Keep(attributes, c.code)
      BY <1>1, <2>1
    <3>2. /\ attributes' \in Seq(AttrCode) /\ IsInjective(attributes')
          /\ ToSet(attributes') = ToSet(attributes) \cup {c.code}
      BY <1>2, <1>6, <1>7, <3>1, KeepAdds
    <3> QED BY <1>4, <1>6, <2>1, <3>2
  <2>2. CASE ~AtRole(c)
    BY <1>1, <1>4, <1>6, <1>7, <2>2
  <2> QED BY <2>1, <2>2
<1>9. /\ unrecognized' \in Seq(Seq(Segment))
      /\ ToSet(unrecognized')
           = {x \in Seen : OfNoUse(x)} \cup {d.entry : d \in {x \in Looked' : ~AtRole(x)}}
  <2>1. CASE AtRole(c)
    BY <1>1, <1>4, <1>6, <1>7, <2>1
  <2>2. CASE ~AtRole(c)
    <3>1. unrecognized' = Append(unrecognized, c.entry)
      BY <1>1, <2>2
    <3>2. /\ unrecognized' \in Seq(Seq(Segment))
          /\ ToSet(unrecognized') = ToSet(unrecognized) \cup {c.entry}
      BY <1>2, <1>7, <3>1, AppendAdds
    <3> QED BY <1>4, <1>6, <2>2, <3>2
  <2> QED BY <2>1, <2>2
<1>10. TypeOK'
  BY <1>1, <1>8, <1>9 DEF LInv, TypeOK
<1>11. Place'
  <2>1. Len(candidates) \in Nat
    BY DEF LInv, TypeOK
  <2> QED BY <1>1, <2>1 DEF LInv, Place
<1>12. Found'
  <2>1. {d.code : d \in {x \in Looked' : AtRole(x)'}} = {d.code : d \in {x \in Looked' : AtRole(x)}}
    BY <1>5
  <2>2. {d.entry : d \in {x \in Looked' : ~AtRole(x)'}} = {d.entry : d \in {x \in Looked' : ~AtRole(x)}}
    BY <1>5
  <2> QED BY <1>1, <1>3, <1>8, <1>9, <2>1, <2>2 DEF LInv, Found, OfNoUse
<1>13. Outcome'
  BY <1>1 DEF LInv, Outcome
<1> QED BY <1>10, <1>11, <1>12, <1>13 DEF LInv

(* The answer. *)
LEMMA DecideStep ==
  ASSUME LInv, Decide
  PROVE  LInv'
<1>1. /\ pc = "attributes" /\ pc' = "done"
      /\ UNCHANGED <<login, next, roles, candidates, attributes, unrecognized, removedMKRole>>
      /\ Vouched /\ Vouched' = Vouched
  BY DEF LInv, Place, Decide, groupVars, Vouched
<1>2. candidates \in Seq([location : School, code : AttrCode, entry : Seq(Segment)])
  BY DEF LInv, TypeOK
<1>3. Seen' = Seen
  BY <1>1 DEF Seen, Claimed
<1>4. Looked' = Looked
  <2>1. next = Len(candidates) + 1 /\ DOMAIN candidates = 1..Len(candidates)
    <3>1. Len(candidates) \in Nat /\ DOMAIN candidates = 1..Len(candidates)
      BY <1>2
    <3> QED BY <1>1, <3>1 DEF LInv, Place, Decide
  <2>2. DOMAIN candidates = 1..(next - 1)
    BY <1>2, <2>1
  <2> QED BY <1>1, <2>2 DEF Looked, ToSet
<1>5. Place'
  BY <1>1 DEF LInv, Place
<1>6. Found'
  <2>1. \A d : AtRole(d)' <=> AtRole(d)
    BY <1>1 DEF AtRole
  <2> QED BY <1>1, <1>3, <1>4, <2>1 DEF LInv, Found, OfNoUse
<1>7. CASE Len(roles) = 1
  <2>1. user' = [role |-> roles[1].code, school |-> roles[1].location, attributes |-> attributes]
    BY <1>7 DEF Decide
  <2>2. roles[1].code \in RoleCode /\ roles[1].location \in School
    <3> DEFINE S == [location : School, code : RoleCode]
    <3>1. roles \in Seq(S)
      BY DEF LInv, TypeOK
    <3> HIDE DEF S
    <3>2. roles[1] \in S
      BY <1>7, <3>1, ElementOfSeq
    <3> QED BY <3>2 DEF S
  <2>3. user' \in User
    BY <2>1, <2>2 DEF LInv, TypeOK, User
  <2>4. TypeOK'
    BY <1>1, <2>3 DEF LInv, TypeOK
  <2>5. Outcome'
    BY <1>1, <1>7, <2>1 DEF Outcome
  <2> QED BY <1>5, <1>6, <2>4, <2>5 DEF LInv
<1>8. CASE Len(roles) # 1
  <2>1. redirect'.error = RoleError /\ user' = user
    BY <1>8 DEF Decide, LoginURL
  <2>2. user = None
    BY <1>1 DEF LInv, Outcome
  <2>3. RoleError' = RoleError
    BY <1>1 DEF RoleError
  <2>4. TypeOK'
    BY <1>1, <2>1 DEF LInv, TypeOK
  <2>5. Outcome'
    BY <1>1, <1>8, <2>1, <2>2, <2>3 DEF Outcome
  <2> QED BY <1>5, <1>6, <2>4, <2>5 DEF LInv
<1> QED BY <1>7, <1>8

-----------------------------------------------------------------------------
(* What the login has found holds in every state. *)
THEOREM LoginInvariant == Spec => []LInv
<1>1. LInv /\ [Next]_vars => LInv'
  <2> SUFFICES ASSUME LInv, [Next]_vars PROVE LInv'
    OBVIOUS
  <2>1. CASE AuthEdupass \/ Refuse \/ ReadGroups
    BY <2>1, BeforeGroups
  <2>2. CASE ResolveEntry
    BY <2>2, EntryStep
  <2>3. CASE EndEntries
    BY <2>3, EntriesEnd
  <2>4. CASE ResolveAttribute
    BY <2>4, CandidateStep
  <2>5. CASE Decide
    BY <2>5, DecideStep
  <2>6. CASE UNCHANGED vars
    <3>1. UNCHANGED <<pc, login, next, roles, candidates, attributes, unrecognized, removedMKRole, user, redirect>>
      BY <2>6 DEF vars, groupVars
    <3>2. Vouched' = Vouched /\ Seen' = Seen /\ Looked' = Looked /\ RoleError' = RoleError
      BY <3>1 DEF Vouched, Seen, Looked, Claimed, RoleError
    <3>3. \A d : AtRole(d)' <=> AtRole(d)
      BY <3>1 DEF AtRole
    <3>4. TypeOK' /\ Place' /\ Outcome'
      BY <3>1, <3>2 DEF LInv, TypeOK, Place, Outcome
    <3>5. Found'
      BY <3>1, <3>2, <3>3 DEF LInv, Found, OfNoUse
    <3> QED BY <3>4, <3>5 DEF LInv
  <2> QED BY <2>1, <2>2, <2>3, <2>4, <2>5, <2>6 DEF Next
<1> QED BY InitLInv, <1>1, PTL DEF Spec

(* The types of EdupassLogin. *)
THEOREM LoginTypeOK == Spec => []TypeOK
<1>1. LInv => TypeOK
  BY DEF LInv
<1> QED BY <1>1, LoginInvariant, PTL

-----------------------------------------------------------------------------
(* At the end, one role has been kept exactly if one is granted. *)
LEMMA KeptAsGranted ==
  ASSUME LInv, pc = "done", Vouched
  PROVE  /\ Len(roles) \in Nat
         /\ Len(roles) = 0 <=> Granted = {}
         /\ Len(roles) = 1 => /\ Granted = {roles[1]}
                              /\ roles[1] \in [location : School, code : RoleCode]
         /\ (\E g \in Granted : Granted = {g}) => Len(roles) = 1
<1> DEFINE S == [location : School, code : RoleCode]
<1>1. ToSet(roles) = Granted /\ IsInjective(roles)
  BY DEF LInv, Found, Seen, RolesIn, Granted
<1>2. roles \in Seq(S)
  BY DEF LInv, TypeOK
<1> HIDE DEF S
<1>3. Len(roles) \in Nat /\ DOMAIN roles = 1..Len(roles) /\ \A i \in 1..Len(roles) : roles[i] \in S
  BY <1>2, ElementOfSeq
<1>4. Granted = {roles[i] : i \in 1..Len(roles)}
  BY <1>1, <1>3 DEF ToSet
<1>5. Len(roles) = 0 => Granted = {}
  <2>1. Len(roles) = 0 => 1..Len(roles) = {}
    BY <1>3
  <2> QED BY <1>4, <2>1
<1>6. Len(roles) # 0 => roles[1] \in Granted
  BY <1>3, <1>4
<1>7. Len(roles) = 1 => Granted = {roles[1]} /\ roles[1] \in S
  <2> SUFFICES ASSUME Len(roles) = 1 PROVE Granted = {roles[1]} /\ roles[1] \in S
    OBVIOUS
  <2>1. \A i \in 1..Len(roles) : i = 1
    OBVIOUS
  <2> QED BY <1>3, <1>4, <1>6, <2>1
<1>8. ASSUME NEW g \in Granted, Granted = {g} PROVE Len(roles) = 1
  <2>1. Len(roles) # 0
    BY <1>5
  <2>2. ASSUME Len(roles) > 1 PROVE FALSE
    <3>1. 1 \in 1..Len(roles) /\ 2 \in 1..Len(roles)
      BY <1>3, <2>2
    <3>2. roles[1] = g /\ roles[2] = g
      BY <1>4, <1>8, <3>1
    <3>3. 1 = 2
      BY <1>1, <1>3, <3>1, <3>2 DEF IsInjective
    <3> QED BY <3>3
  <2> QED BY <1>3, <2>1, <2>2
<1> QED BY <1>3, <1>5, <1>6, <1>7, <1>8 DEF S

(* A user is signed in with what Edupass grants, for every groups claim. *)
THEOREM UsersAreAsGranted == Spec => []UserAsGranted
<1>1. LInv => UserAsGranted
  <2> SUFFICES ASSUME LInv, pc = "done" PROVE
         /\ user # None <=> Vouched /\ \E g \in Granted : Granted = {g}
         /\ user # None => /\ [location |-> user.school, code |-> user.role] \in Granted
                           /\ ToSet(user.attributes) = Held(user.school)
                           /\ IsInjective(user.attributes)
    BY DEF UserAsGranted
  <2>1. CASE ~(Vouched /\ Len(roles) = 1)
    BY <2>1, KeptAsGranted DEF LInv, Outcome
  <2>2. CASE Vouched /\ Len(roles) = 1
    <3>1. user = [role |-> roles[1].code, school |-> roles[1].location, attributes |-> attributes]
      BY <2>2 DEF LInv, Outcome
    <3>2. Granted = {roles[1]} /\ roles[1] \in [location : School, code : RoleCode]
      BY <2>2, KeptAsGranted
    <3>3. user # None
      <4>1. attributes \in Seq(AttrCode)
        BY DEF LInv, TypeOK
      <4>2. user \in User
        BY <3>1, <3>2, <4>1 DEF User
      <4> QED BY <4>2, NoneIsNoUser
    <3>4. [location |-> user.school, code |-> user.role] \in Granted
      BY <3>1, <3>2
    <3>5. ToSet(attributes) = Held(roles[1].location)
      <4>1. ToSet(attributes) = {c.code : c \in {d \in CandidatesIn(Claimed) : d.location = roles[1].location}}
        BY <2>2 DEF LInv, Found, Looked, Seen, AtRole
      <4>2. ASSUME NEW c \in Held(roles[1].location)
            PROVE  [location |-> roles[1].location, code |-> c, entry |-> EntryOf(roles[1].location, c)]
                     \in {d \in CandidatesIn(Claimed) : d.location = roles[1].location}
        BY <3>2 DEF Held, CandidatesIn
      <4>3. ASSUME NEW d \in CandidatesIn(Claimed), d.location = roles[1].location
            PROVE  d.code \in Held(roles[1].location)
        BY <4>3 DEF Held, CandidatesIn
      <4>4. Held(roles[1].location) \subseteq ToSet(attributes)
        <5> SUFFICES ASSUME NEW c \in Held(roles[1].location) PROVE c \in ToSet(attributes)
          OBVIOUS
        <5> DEFINE d == [location |-> roles[1].location, code |-> c, entry |-> EntryOf(roles[1].location, c)]
        <5>1. d.code = c
          OBVIOUS
        <5>2. d \in {x \in CandidatesIn(Claimed) : x.location = roles[1].location}
          BY <4>2
        <5> HIDE DEF d
        <5> QED BY <4>1, <5>1, <5>2
      <4> QED BY <4>1, <4>3, <4>4
    <3>6. IsInjective(attributes)
      BY DEF LInv, Found
    <3> QED BY <2>2, <3>1, <3>2, <3>3, <3>4, <3>5, <3>6
  <2> QED BY <2>1, <2>2
<1> QED BY <1>1, LoginInvariant, PTL

(* A refusal names its reason, for every groups claim. *)
THEOREM RefusalsNameReasons == Spec => []RefusalNamesReason
<1>1. LInv => RefusalNamesReason
  <2> SUFFICES ASSUME LInv, pc = "done", Vouched, user = None
               PROVE  redirect.error = CASE Granted # {}                -> "multiple_roles"
                                         [] Granted = {} /\ GrantedAtMK -> "unsupported_school_mk"
                                         [] Granted = {} /\ ~GrantedAtMK -> "no_role"
    BY DEF RefusalNamesReason
  <2>1. Len(roles) # 1
    <3>1. ASSUME Len(roles) = 1 PROVE user \in User
      <4>1. user = [role |-> roles[1].code, school |-> roles[1].location, attributes |-> attributes]
        BY <3>1 DEF LInv, Outcome
      <4>2. roles[1] \in [location : School, code : RoleCode]
        BY <3>1, KeptAsGranted
      <4> QED BY <4>1, <4>2 DEF LInv, TypeOK, User
    <3> QED BY <3>1, NoneIsNoUser
  <2>2. redirect.error = RoleError
    BY <2>1 DEF LInv, Outcome
  <2>3. removedMKRole <=> GrantedAtMK
    BY DEF LInv, Found, Seen, AtMKIn, GrantedAtMK
  <2>4. Len(roles) \in Nat /\ (Len(roles) = 0 <=> Granted = {})
    BY KeptAsGranted
  <2>5. CASE Granted # {}
    <3>1. RoleError = "multiple_roles"
      <4>1. Len(roles) # 0
        BY <2>4, <2>5
      <4>2. Len(roles) > 1
        <5> DEFINE n == Len(roles)
        <5>1. n \in Nat /\ n # 0 /\ n # 1
          BY <2>1, <2>4, <4>1
        <5> HIDE DEF n
        <5>2. n > 1
          BY ONLY <5>1
        <5> QED BY <5>2 DEF n
      <4> QED BY <4>2, Zenon DEF RoleError
    <3>2. (CASE Granted # {}                 -> "multiple_roles"
             [] Granted = {} /\ GrantedAtMK  -> "unsupported_school_mk"
             [] Granted = {} /\ ~GrantedAtMK -> "no_role") = "multiple_roles"
      BY <2>5
    <3> QED BY <2>2, <3>1, <3>2
  <2>6. CASE Granted = {}
    BY <2>2, <2>3, <2>4, <2>6 DEF RoleError
  <2> QED BY <2>5, <2>6
<1> QED BY <1>1, LoginInvariant, PTL

(* What is reported is what nothing came of, for every groups claim. *)
THEOREM UnusedReported == Spec => []UnusedAreReported
<1>1. LInv => UnusedAreReported
  <2> DEFINE Uses(g) == {EntryOf(g.location, g.code)}
                          \cup {EntryOf(g.location, c) : c \in IF Granted = {g} THEN Held(g.location) ELSE {}}
  <2> SUFFICES ASSUME LInv, pc = "done", Vouched
               PROVE  ToSet(unrecognized) = Claimed \ UNION {Uses(g) : g \in Granted}
    BY DEF UnusedAreReported
  <2>1. ToSet(unrecognized) = {e \in Claimed : OfNoUse(e)} \cup {c.entry : c \in {d \in CandidatesIn(Claimed) : ~AtRole(d)}}
    BY DEF LInv, Found, Looked, Seen
  <2>2. \A e \in Claimed : e \in Seq(Segment)
    <3>1. login.groups \in Seq(Seq(Segment))
      BY Inputs DEF LInv, Place
    <3> QED BY <3>1 DEF Claimed, ToSet
  <2>3. ASSUME NEW e \in Claimed
        PROVE  e \in ToSet(unrecognized) <=> OfNoUse(e) \/ (AttrEntry(e) /\ ~AtRole(CandidateOf(e)))
    <3>1. ASSUME NEW d \in CandidatesIn(Claimed), d.entry = e
          PROVE  AttrEntry(e) /\ d = CandidateOf(e)
      <4>1. /\ d.location \in School /\ d.code \in AttrCode /\ e = EntryOf(d.location, d.code)
            /\ d = [location |-> d.location, code |-> d.code, entry |-> e]
        BY <3>1 DEF CandidatesIn
      <4> QED BY <4>1, AttrEntries
    <3>2. ASSUME AttrEntry(e)
          PROVE  CandidateOf(e) \in CandidatesIn(Claimed) /\ CandidateOf(e).entry = e
      BY <2>2, <3>2, AttrFormat DEF CandidatesIn
    <3> QED BY <2>1, <3>1, <3>2
  <2>4. ASSUME NEW e \in Claimed
        PROVE  (RoleEntry(e) /\ e[1] \notin MK) <=> \E g \in Granted : e = EntryOf(g.location, g.code)
    <3>1. ASSUME RoleEntry(e), e[1] \notin MK
          PROVE  RoleOf(e) \in Granted /\ e = EntryOf(RoleOf(e).location, RoleOf(e).code)
      BY <2>2, <3>1, RoleFormat DEF Granted
    <3>2. ASSUME NEW g \in Granted, e = EntryOf(g.location, g.code)
          PROVE  RoleEntry(e) /\ e[1] \notin MK
      <4>1. g.location \in School /\ g.location \notin MK /\ g.code \in RoleCode
        BY DEF Granted
      <4> QED BY <3>2, <4>1, RoleEntries
    <3> QED BY <3>1, <3>2
  <2>5. ASSUME NEW e \in Claimed
        PROVE  (AttrEntry(e) /\ AtRole(CandidateOf(e)))
                 <=> \E g \in Granted : Granted = {g} /\ \E c \in Held(g.location) : e = EntryOf(g.location, c)
    <3>1. ASSUME AttrEntry(e), AtRole(CandidateOf(e))
          PROVE  /\ Granted = {roles[1]}
                 /\ CandidateOf(e).code \in Held(roles[1].location)
                 /\ e = EntryOf(roles[1].location, CandidateOf(e).code)
      <4>1. Len(roles) = 1 /\ CandidateOf(e).location = roles[1].location
        BY <3>1 DEF AtRole
      <4>2. Granted = {roles[1]}
        BY <4>1, KeptAsGranted
      <4>3. CandidateOf(e).code \in AttrCode /\ e = EntryOf(roles[1].location, CandidateOf(e).code)
        BY <2>2, <3>1, <4>1, AttrFormat
      <4> QED BY <4>2, <4>3 DEF Held
    <3>2. ASSUME NEW g \in Granted, Granted = {g}, NEW c \in Held(g.location), e = EntryOf(g.location, c)
          PROVE  AttrEntry(e) /\ AtRole(CandidateOf(e))
      <4>1. Len(roles) = 1 /\ roles[1] = g
        BY <3>2, KeptAsGranted
      <4>2. g.location \in School /\ c \in AttrCode
        BY DEF Granted, Held
      <4>3. AttrEntry(e) /\ CandidateOf(e).location = g.location
        BY <3>2, <4>2, AttrEntries
      <4> QED BY <4>1, <4>3 DEF AtRole
    <3> QED BY <3>1, <3>2
  <2>6. ASSUME NEW e
        PROVE  e \in UNION {Uses(g) : g \in Granted}
                 <=> \/ \E g \in Granted : e = EntryOf(g.location, g.code)
                     \/ \E g \in Granted : Granted = {g} /\ \E c \in Held(g.location) : e = EntryOf(g.location, c)
    <3>1. e \in UNION {Uses(g) : g \in Granted} <=> \E g \in Granted : e \in Uses(g)
      OBVIOUS
    <3>2. \A g : e \in Uses(g) <=> \/ e = EntryOf(g.location, g.code)
                                   \/ Granted = {g} /\ \E c \in Held(g.location) : e = EntryOf(g.location, c)
      OBVIOUS
    <3> QED BY <3>1, <3>2
  <2>7. ToSet(unrecognized) \subseteq Claimed
    BY <2>1 DEF CandidatesIn
  <2> HIDE DEF Uses
  <2>8. ASSUME NEW e \in Claimed
        PROVE  e \in ToSet(unrecognized) <=> e \notin UNION {Uses(g) : g \in Granted}
    <3>1. RoleEntry(e) => ~AttrEntry(e)
      BY DEF RoleEntry, AttrEntry
    <3>2. e \in ToSet(unrecognized)
            <=> ~(RoleEntry(e) /\ e[1] \notin MK) /\ ~(AttrEntry(e) /\ AtRole(CandidateOf(e)))
      BY <2>3, <3>1 DEF OfNoUse
    <3> QED BY <2>4, <2>5, <2>6, <3>2
  <2> QED BY <2>7, <2>8
<1> QED BY <1>1, LoginInvariant, PTL

-----------------------------------------------------------------------------
(***************************************************************************)
(* The path to return to, for every candidate and every allowed length.    *)
(* The texts are searched with numbered positions instead of folds, so     *)
(* that a least and a greatest position is all the induction it takes.     *)
(***************************************************************************)
(* A set of numbers with an upper bound has a greatest one. *)
LEMMA Greatest ==
  ASSUME NEW n \in Nat, NEW T, T \subseteq 0..n, T # {}
  PROVE  \E i \in T : \A j \in T : j <= i
<1> DEFINE R == {ss \in Nat \X Nat : ss[1] < ss[2]}
           U == {k \in 0..n : n - k \in T}
<1>1. IsWellFoundedOn(R, Nat)
  BY NatLessThanWellFounded DEF OpToRel
<1>2. U \subseteq Nat /\ U # {}
  <2>1. PICK t \in T : TRUE
    OBVIOUS
  <2>2. n - t \in 0..n /\ n - (n - t) = t
    BY <2>1
  <2> QED BY <2>1, <2>2
<1> HIDE DEF R, U
<1>3. PICK k \in U : \A j \in U : <<j, k>> \notin R
  BY <1>1, <1>2, WFMin
<1>4. \A j \in U : k <= j
  <2>1. \A i \in U, j \in U : <<j, i>> \notin R => i <= j
    BY <1>2 DEF R
  <2> QED BY <1>3, <2>1
<1>5. \A j \in T : n - j \in U
  BY DEF U
<1>6. n - k \in T /\ \A j \in T : j <= n - k
  <2>1. n - k \in T /\ k \in 0..n
    BY DEF U
  <2>2. ASSUME NEW j \in T PROVE j <= n - k
    <3>1. k <= n - j /\ j \in 0..n
      BY <1>4, <1>5
    <3> QED BY <3>1, <2>1
  <2> QED BY <2>1, <2>2
<1> QED BY <1>6

(* The counting of positions finds every one of them, in order. *)
LEMMA NthPosition ==
  ASSUME NEW n \in Nat, NEW S, S \subseteq 0..n, NEW k \in 1..Cardinality(S)
  PROVE  Nth(S, k) \in S /\ Cardinality({j \in S : j <= Nth(S, k)}) = k
<1> DEFINE U(i) == {j \in S : j <= i}
           T == {i \in 0..n : Cardinality(U(i)) >= k}
<1>1. IsFiniteSet(S) /\ \A i \in 0..n : IsFiniteSet(U(i)) /\ Cardinality(U(i)) \in Nat
  <2>1. IsFiniteSet(0..n)
    BY FS_Interval
  <2>2. IsFiniteSet(S)
    BY <2>1, FS_Subset
  <2>3. \A i : U(i) \subseteq S
    OBVIOUS
  <2> QED BY <2>2, <2>3, FS_Subset, FS_CardinalityType
<1>2. k \in Nat /\ k >= 1 /\ k <= Cardinality(S)
  BY <1>1, FS_CardinalityType
<1>3. n \in T
  <2>1. U(n) = S
    <3>1. \A j \in S : j <= n
      OBVIOUS
    <3> QED BY <3>1
  <2> QED BY <1>2, <2>1
<1>4. PICK i \in T : \A j \in T : i <= j
  <2>1. T \subseteq Nat
    OBVIOUS
  <2> HIDE DEF T
  <2> QED BY <1>3, <2>1, Least
<1>5. /\ i \in 0..n /\ Cardinality(U(i)) >= k
      /\ i # 0 => i - 1 \in 0..n /\ ~(Cardinality(U(i - 1)) >= k)
      /\ \A j \in S : j \in 0..n
  <2>1. i \in 0..n /\ Cardinality(U(i)) >= k
    BY <1>4
  <2>2. ASSUME i # 0 PROVE i - 1 \in 0..n /\ ~(i <= i - 1)
    BY <2>1, <2>2
  <2> HIDE DEF U
  <2>3. ASSUME i # 0, Cardinality(U(i - 1)) >= k PROVE FALSE
    BY <2>2, <2>3, <1>4
  <2> QED BY <2>1, <2>2, <2>3
<1> HIDE DEF T
<1>6. i \in S
  <2>1. CASE i = 0
    <3>1. 0 \notin S => U(0) = {}
      <4>1. \A j \in S : j <= 0 => j = 0
        BY <1>5
      <4> QED BY <4>1
    <3>2. Cardinality(U(0)) >= 1 /\ Cardinality(U(0)) \in Nat
      <4> HIDE DEF U
      <4> QED BY <1>1, <1>2, <1>5, <2>1
    <3> HIDE DEF U
    <3> QED BY <2>1, <3>1, <3>2, FS_EmptySet
  <2>2. CASE i # 0
    <3>1. i \notin S => U(i) = U(i - 1)
      <4>1. ASSUME i \notin S, NEW j \in S PROVE j <= i <=> j <= i - 1
        BY <1>5, <4>1
      <4> QED BY <4>1
    <3> HIDE DEF U
    <3> QED BY <1>5, <2>2, <3>1
  <2> QED BY <2>1, <2>2
<1>7. Cardinality(U(i)) = k
  <2>1. CASE i = 0
    <3>1. U(0) = {0}
      <4>1. \A j \in S : j <= 0 <=> j = 0
        BY <1>5
      <4> QED BY <1>6, <2>1, <4>1
    <3>2. Cardinality(U(i)) = 1
      BY <2>1, <3>1, FS_Singleton
    <3> HIDE DEF U
    <3> QED BY <1>2, <1>5, <3>2
  <2>2. CASE i # 0
    <3>1. i - 1 \in 0..n /\ ~(Cardinality(U(i - 1)) >= k)
      <4> HIDE DEF U
      <4> QED BY <1>5, <2>2
    <3>2. U(i) = U(i - 1) \cup {i} /\ i \notin U(i - 1)
      <4>1. ASSUME NEW j \in S PROVE j <= i <=> j <= i - 1 \/ j = i
        BY <1>5
      <4>2. ~(i <= i - 1)
        BY <1>5
      <4> QED BY <1>6, <4>1, <4>2
    <3>3. Cardinality(U(i)) = Cardinality(U(i - 1)) + 1
      <4>1. IsFiniteSet(U(i - 1))
        BY <1>1, <3>1
      <4> HIDE DEF U
      <4> QED BY <3>2, <4>1, FS_AddElement
    <3>4. Cardinality(U(i - 1)) \in Nat /\ ~(Cardinality(U(i - 1)) >= k)
      BY <1>1, <3>1
    <3> HIDE DEF U
    <3> QED BY <1>2, <1>5, <3>3, <3>4
  <2> QED BY <2>1, <2>2
<1> QED BY <1>6, <1>7 DEF Nth

LEMMA NthOfAll ==
  ASSUME NEW n \in Nat, NEW k \in 1..n
  PROVE  Cardinality(1..n) = n /\ Nth(1..n, k) = k
<1>1. Cardinality(1..n) = n
  BY FS_Interval
<1>2. Nth(1..n, k) \in 1..n /\ Cardinality({j \in 1..n : j <= Nth(1..n, k)}) = k
  <2> DEFINE S == 1..n
  <2>1. S \subseteq 0..n /\ k \in 1..Cardinality(S)
    BY <1>1
  <2> HIDE DEF S
  <2>2. Nth(S, k) \in S /\ Cardinality({j \in S : j <= Nth(S, k)}) = k
    BY <2>1, NthPosition
  <2> QED BY <2>2 DEF S
<1> DEFINE i == Nth(1..n, k)
<1>3. {j \in 1..n : j <= i} = 1..i
  <2> HIDE DEF i
  <2> QED BY <1>2 DEF i
<1>4. Cardinality(1..i) = i
  <2>1. i \in Nat
    BY <1>2
  <2> HIDE DEF i
  <2> QED BY <2>1, FS_Interval
<1> QED BY <1>1, <1>2, <1>3, <1>4

(* Before finds how far a text goes without any of the marks.                  *)
LEMMA BeforeMarks ==
  ASSUME NEW C, NEW s \in Seq(C), NEW marks
  PROVE  \E n \in 0..Len(s) : /\ Before(s, marks) = SubSeq(s, 1, n)
                              /\ \A i \in 1..n : s[i] \notin marks
                              /\ n < Len(s) => s[n + 1] \in marks
<1> DEFINE I == {i \in 1..Len(s) : s[i] \in marks}
<1>1. Before(s, marks)
        = LET i == IF I # {} THEN Min(I) ELSE 0 IN IF i = 0 THEN s ELSE SubSeq(s, 1, i - 1)
  BY DEF Before, SelectInSeq
<1>2. CASE I = {}
  <2>1. Before(s, marks) = s /\ s = SubSeq(s, 1, Len(s))
    BY <1>1, <1>2
  <2>2. \A i \in 1..Len(s) : s[i] \notin marks
    BY <1>2
  <2>3. Len(s) \in 0..Len(s) /\ ~(Len(s) < Len(s))
    OBVIOUS
  <2> QED BY <2>1, <2>2, <2>3
<1>3. CASE I # {}
  <2>1. I \subseteq Nat
    OBVIOUS
  <2>2. Min(I) \in I /\ \A j \in I : Min(I) <= j
    <3>1. \E i \in I : \A j \in I : i <= j
      <4> HIDE DEF I
      <4> QED BY <1>3, <2>1, Least
    <3> QED BY <3>1 DEF Min
  <2> DEFINE m == Min(I)
  <2>3. m \in 1..Len(s) /\ s[m] \in marks /\ \A j \in I : m <= j
    BY <2>2
  <2>4. Before(s, marks) = SubSeq(s, 1, m - 1)
    <3>1. Before(s, marks) = IF m = 0 THEN s ELSE SubSeq(s, 1, m - 1)
      BY <1>1, <1>3
    <3>2. m # 0
      BY <2>3
    <3> HIDE DEF m
    <3> QED BY <3>1, <3>2
  <2> HIDE DEF m
  <2>5. \A i \in 1..(m - 1) : s[i] \notin marks
    BY <2>3
  <2>6. m - 1 \in 0..Len(s) /\ m - 1 + 1 = m
    BY <2>3
  <2> QED BY <2>3, <2>4, <2>5, <2>6
<1> QED BY <1>2, <1>3

(* ... and whatever goes as far is what it finds.                              *)
LEMMA BeforeIs ==
  ASSUME NEW C, NEW s \in Seq(C), NEW marks, NEW n \in 0..Len(s),
         \A i \in 1..n : s[i] \notin marks,
         n < Len(s) => s[n + 1] \in marks
  PROVE  Before(s, marks) = SubSeq(s, 1, n)
<1>1. PICK m \in 0..Len(s) : /\ Before(s, marks) = SubSeq(s, 1, m)
                             /\ \A i \in 1..m : s[i] \notin marks
                             /\ m < Len(s) => s[m + 1] \in marks
  BY BeforeMarks
<1>2. ~(m < n)
  <2>1. ASSUME m < n PROVE m + 1 \in 1..n /\ m < Len(s)
    BY <2>1
  <2> QED BY <1>1, <2>1
<1>3. ~(n < m)
  <2>1. ASSUME n < m PROVE n + 1 \in 1..m /\ n < Len(s)
    BY <2>1
  <2> QED BY <1>1, <2>1
<1>4. m = n
  BY <1>2, <1>3
<1> QED BY <1>1, <1>4

(* Without a tab, nothing is dropped.                                          *)
LEMMA NoTabs ==
  ASSUME NEW C, NEW s \in Seq(C), \A i \in 1..Len(s) : s[i] # "tab"
  PROVE  WithoutTabs(s) = s
<1>1. {i \in DOMAIN s : s[i] # "tab"} = 1..Len(s)
  OBVIOUS
<1>2. Len(s) \in Nat
  OBVIOUS
<1>3. WithoutTabs(s) = [k \in 1..Len(s) |-> s[k]]
  <2>1. WithoutTabs(s) = [k \in 1..Cardinality(1..Len(s)) |-> s[Nth(1..Len(s), k)]]
    BY <1>1 DEF WithoutTabs
  <2>2. Cardinality(1..Len(s)) = Len(s)
    BY <1>2, FS_Interval
  <2>3. \A k \in 1..Len(s) : Nth(1..Len(s), k) = k
    BY <1>2, NthOfAll
  <2> QED BY <2>1, <2>2, <2>3
<1> QED BY <1>3

(* The segments are what stands after the starts of segments, and there is one. *)
LEMMA SegmentsOfPath ==
  ASSUME NEW C, NEW path \in Seq(C), NEW separators
  PROVE  LET segs == Segments(path, separators) IN
         /\ segs \in Seq(Seq(C)) /\ Len(segs) \in Nat \ {0}
         /\ \A k \in 1..Len(segs) :
              \E i \in Starts(path, separators) : segs[k] = SegmentAfter(path, separators, i)
<1> DEFINE starts == Starts(path, separators)
           n == Cardinality(starts)
           segs == Segments(path, separators)
<1>1. starts \subseteq 0..Len(path) /\ 0 \in starts
  BY DEF Starts
<1>2. n \in Nat /\ n # 0
  <2>1. IsFiniteSet(0..Len(path))
    BY FS_Interval
  <2> HIDE DEF starts
  <2>2. IsFiniteSet(starts)
    BY <1>1, <2>1, FS_Subset
  <2> QED BY <1>1, <2>2, FS_CardinalityType, FS_EmptySet
<1>3. segs = [k \in 1..n |-> SegmentAfter(path, separators, Nth(starts, k))]
  BY DEF Segments
<1>4. \A k \in 1..n : Nth(starts, k) \in starts
  <2>1. Len(path) \in Nat
    OBVIOUS
  <2> HIDE DEF starts
  <2> QED BY <1>1, <2>1, NthPosition
<1>5. \A i \in starts : SegmentAfter(path, separators, i) \in Seq(C)
  <2> SUFFICES ASSUME NEW i \in starts PROVE SegmentAfter(path, separators, i) \in Seq(C)
    OBVIOUS
  <2> DEFINE rest == SubSeq(path, i + 1, Len(path))
  <2>1. rest \in Seq(C)
    BY <1>1
  <2> HIDE DEF rest
  <2>2. PICK m \in 0..Len(rest) : Before(rest, separators) = SubSeq(rest, 1, m)
    BY <2>1, BeforeMarks
  <2>3. SubSeq(rest, 1, m) \in Seq(C)
    BY <2>1, <2>2
  <2> QED BY <2>2, <2>3 DEF SegmentAfter, rest
<1> HIDE DEF starts, n, segs
<1>6. segs \in Seq(Seq(C)) /\ Len(segs) = n
  BY <1>2, <1>3, <1>4, <1>5
<1> QED BY <1>2, <1>3, <1>4, <1>6 DEF starts, segs

(* A path without dot segments is resolved to itself: the browser goes through *)
(* its segments and keeps every one.                                           *)
LEMMA ResolvedWithoutDots ==
  ASSUME NEW C, NEW segs \in Seq(Seq(C)), Len(segs) >= 1,
         \A k \in 1..Len(segs) : Dots(segs[k]) \notin {1, 2}
  PROVE  Resolved(segs) = Tail(segs)
<1> DEFINE step(f, i) ==
             IF i = 1 THEN <<>>
             ELSE LET here == CASE Dots(segs[i]) = 2 -> IF f[i - 1] = <<>> THEN <<>> ELSE Front(f[i - 1])
                                [] Dots(segs[i]) = 1 -> f[i - 1]
                                [] OTHER             -> Append(f[i - 1], segs[i])
                  IN IF i = Len(segs) /\ Dots(segs[i]) \in {1, 2} THEN Append(here, <<>>) ELSE here
           path == CHOOSE f : f = [i \in DOMAIN segs |-> step(f, i)]
           kept == [i \in DOMAIN segs |-> SubSeq(segs, 2, i)]
<1>1. Resolved(segs) = path[Len(segs)]
  BY DEF Resolved
<1>2. \A f, i : i \in 1..Len(segs) => step(f, i) = IF i = 1 THEN <<>> ELSE Append(f[i - 1], segs[i])
  OBVIOUS
<1> HIDE DEF step
<1>3. DOMAIN segs = 1..Len(segs) /\ Len(segs) \in Nat
  OBVIOUS
<1>4. \A i \in 1..Len(segs) : i # 1 => SubSeq(segs, 2, i) = Append(SubSeq(segs, 2, i - 1), segs[i])
  <2> SUFFICES ASSUME NEW i \in 1..Len(segs), i # 1
               PROVE  SubSeq(segs, 2, i) = Append(SubSeq(segs, 2, i - 1), segs[i])
    OBVIOUS
  <2> DEFINE a == SubSeq(segs, 2, i)
             b == SubSeq(segs, 2, i - 1)
  <2>1. /\ a \in Seq(Seq(C)) /\ Len(a) = i - 1 /\ \A k \in 1..(i - 1) : a[k] = segs[k + 1]
        /\ b \in Seq(Seq(C)) /\ Len(b) = i - 2 /\ \A k \in 1..(i - 2) : b[k] = segs[k + 1]
    OBVIOUS
  <2> HIDE DEF a, b
  <2>2. /\ Append(b, segs[i]) \in Seq(Seq(C)) /\ Len(Append(b, segs[i])) = i - 1
        /\ \A k \in 1..(i - 1) : Append(b, segs[i])[k] = segs[k + 1]
    BY <2>1
  <2> DEFINE c == Append(b, segs[i])
  <2>3. Len(a) = Len(c) /\ \A k \in 1..Len(a) : a[k] = c[k]
    BY <2>1, <2>2
  <2> HIDE DEF c
  <2>4. a = c
    BY <2>1, <2>2, <2>3, SeqEqual DEF c
  <2> QED BY <2>4 DEF a, b, c
<1>5. SubSeq(segs, 2, 1) = <<>>
  OBVIOUS
<1>6. kept = [i \in DOMAIN segs |-> step(kept, i)]
  <2>1. \A i \in 1..Len(segs) : step(kept, i) = SubSeq(segs, 2, i)
    <3> SUFFICES ASSUME NEW i \in 1..Len(segs) PROVE step(kept, i) = SubSeq(segs, 2, i)
      OBVIOUS
    <3>1. i # 1 => kept[i - 1] = SubSeq(segs, 2, i - 1)
      BY <1>3
    <3> HIDE DEF kept
    <3>2. step(kept, i) = IF i = 1 THEN <<>> ELSE Append(kept[i - 1], segs[i])
      BY <1>2
    <3>3. i # 1 => SubSeq(segs, 2, i) = Append(SubSeq(segs, 2, i - 1), segs[i])
      BY <1>4
    <3> QED BY <1>5, <3>1, <3>2, <3>3
  <2> QED BY <1>3, <2>1
<1> HIDE DEF kept
<1>7. path = [i \in DOMAIN segs |-> step(path, i)]
  BY <1>6
<1> HIDE DEF path
<1>8. \A i \in 1..Len(segs) : path[i] = SubSeq(segs, 2, i)
  <2> DEFINE T == {i \in 1..Len(segs) : path[i] # SubSeq(segs, 2, i)}
  <2>1. SUFFICES ASSUME T # {} PROVE FALSE
    OBVIOUS
  <2>2. T \subseteq Nat
    OBVIOUS
  <2> HIDE DEF T
  <2>3. PICK i \in T : \A j \in T : i <= j
    BY <2>1, <2>2, Least
  <2>4. i \in 1..Len(segs) /\ path[i] # SubSeq(segs, 2, i)
    BY DEF T
  <2>5. path[i] = step(path, i)
    BY <1>3, <1>7, <2>4
  <2>6. CASE i = 1
    BY <1>2, <1>5, <2>4, <2>5, <2>6
  <2>7. CASE i # 1
    <3>1. i - 1 \in 1..Len(segs) /\ ~(i <= i - 1)
      BY <2>4, <2>7
    <3>2. path[i - 1] = SubSeq(segs, 2, i - 1)
      BY <2>3, <3>1 DEF T
    <3>3. step(path, i) = Append(path[i - 1], segs[i])
      BY <1>2, <2>4, <2>7
    <3>4. SubSeq(segs, 2, i) = Append(SubSeq(segs, 2, i - 1), segs[i])
      BY <1>4, <2>4, <2>7
    <3> QED BY <2>4, <2>5, <3>2, <3>3, <3>4
  <2> QED BY <2>6, <2>7
<1>9. Tail(segs) = SubSeq(segs, 2, Len(segs))
  BY TailIsSubSeq
<1>10. path[Len(segs)] = SubSeq(segs, 2, Len(segs))
  <2>1. Len(segs) \in 1..Len(segs)
    BY <1>3
  <2> QED BY <1>8, <2>1
<1> QED BY <1>1, <1>9, <1>10

(* A segment whose characters are dots, encoded or not, is one of dots once it *)
(* is unescaped.                                                               *)
LEMMA UnescapedDots ==
  ASSUME NEW path \in Seq(Char), NEW i \in Starts(path, {"/"}),
         Dots(SegmentAfter(path, {"/"}, i)) \in {1, 2}
  PROVE  /\ i \in Starts(Unescaped(path), {"/"})
         /\ SegmentAfter(Unescaped(path), {"/"}, i) \in {<<".">>, <<".", ".">>}
<1> DEFINE u == Unescaped(path)
           rest == SubSeq(path, i + 1, Len(path))
           urest == SubSeq(u, i + 1, Len(u))
<1>1. /\ u \in Seq(Char) /\ Len(u) = Len(path)
      /\ \A k \in 1..Len(path) : /\ path[k] \in {".", "%2e"} => u[k] = "."
                                 /\ path[k] = "/" => u[k] = "/"
  <2>1. Len(path) \in Nat /\ DOMAIN path = 1..Len(path)
    OBVIOUS
  <2>2. u = [k \in 1..Len(path) |-> CASE path[k] = "%2e" -> "." [] path[k] = "%2f" -> "/"
                                       [] path[k] = "%5c" -> "\\" [] OTHER -> path[k]]
    BY <2>1 DEF Unescaped
  <2>3. \A k \in 1..Len(path) : /\ u[k] \in Char
                                /\ path[k] \in {".", "%2e"} => u[k] = "."
                                /\ path[k] = "/" => u[k] = "/"
    <3> SUFFICES ASSUME NEW k \in 1..Len(path)
                 PROVE  /\ u[k] \in Char
                        /\ path[k] \in {".", "%2e"} => u[k] = "."
                        /\ path[k] = "/" => u[k] = "/"
      OBVIOUS
    <3>1. path[k] \in Char
      OBVIOUS
    <3>2. u[k] = CASE path[k] = "%2e" -> "." [] path[k] = "%2f" -> "/"
                   [] path[k] = "%5c" -> "\\" [] OTHER -> path[k]
      BY <2>2
    <3> HIDE DEF u
    <3> QED BY <3>1, <3>2 DEF Char, Plain, Escape
  <2> HIDE DEF u
  <2>4. u = [k \in 1..Len(path) |-> u[k]]
    BY <2>2
  <2>5. u \in Seq(Char) /\ Len(u) = Len(path)
    BY <2>1, <2>3, <2>4
  <2> QED BY <2>3, <2>5
<1>2. i \in 0..Len(path)
  BY DEF Starts
<1>3. i \in Starts(u, {"/"})
  BY <1>1 DEF Starts
<1> HIDE DEF u
<1>4. /\ rest \in Seq(Char) /\ Len(rest) = Len(path) - i
      /\ \A k \in 1..Len(rest) : rest[k] = path[i + k]
      /\ urest \in Seq(Char) /\ Len(urest) = Len(path) - i
      /\ \A k \in 1..Len(rest) : urest[k] = u[i + k]
  BY <1>1, <1>2
<1> HIDE DEF rest, urest
<1>5. PICK n \in 0..Len(rest) : /\ Before(rest, {"/"}) = SubSeq(rest, 1, n)
                                /\ \A k \in 1..n : rest[k] \notin {"/"}
                                /\ n < Len(rest) => rest[n + 1] \in {"/"}
  BY <1>4, BeforeMarks
<1>6. SegmentAfter(path, {"/"}, i) = SubSeq(rest, 1, n)
  BY <1>5 DEF SegmentAfter, rest
<1>7. n \in {1, 2} /\ \A k \in 1..n : rest[k] \in {".", "%2e"}
  <2> DEFINE seg == SubSeq(rest, 1, n)
  <2>1. Len(seg) = n /\ DOMAIN seg = 1..n /\ \A k \in 1..n : seg[k] = rest[k]
    BY <1>4
  <2> HIDE DEF seg
  <2>2. Dots(seg) \in {1, 2}
    BY <1>6 DEF seg
  <2>3. (\A k \in DOMAIN seg : seg[k] \in {".", "%2e"}) /\ Len(seg) \in {1, 2}
    BY <2>2 DEF Dots
  <2> QED BY <2>1, <2>3
<1>8. \A k \in 1..Len(rest) : i + k \in 1..Len(path)
  BY <1>2, <1>4
<1>9. \A k \in 1..n : urest[k] = "."
  <2> SUFFICES ASSUME NEW k \in 1..n PROVE urest[k] = "."
    OBVIOUS
  <2>1. k \in 1..Len(rest) /\ rest[k] \in {".", "%2e"}
    BY <1>4, <1>5, <1>7
  <2> QED BY <1>1, <1>4, <1>8, <2>1
<1>10. n < Len(urest) => urest[n + 1] = "/"
  <2> SUFFICES ASSUME n < Len(urest) PROVE urest[n + 1] = "/"
    OBVIOUS
  <2>1. n + 1 \in 1..Len(rest) /\ rest[n + 1] = "/"
    BY <1>4, <1>5
  <2> QED BY <1>1, <1>4, <1>8, <2>1
<1>11. Before(urest, {"/"}) = SubSeq(urest, 1, n)
  <2>1. n \in 0..Len(urest)
    BY <1>4, <1>5
  <2>2. \A k \in 1..n : urest[k] \notin {"/"}
    BY <1>9
  <2>3. n < Len(urest) => urest[n + 1] \in {"/"}
    BY <1>10
  <2>4. urest \in Seq(Char)
    BY <1>4
  <2> QED BY <2>1, <2>2, <2>3, <2>4, BeforeIs
<1>12. SubSeq(urest, 1, n) \in {<<".">>, <<".", ".">>}
  <2> DEFINE seg == SubSeq(urest, 1, n)
  <2>1. seg \in Seq(Char) /\ Len(seg) = n /\ \A k \in 1..n : seg[k] = urest[k]
    BY <1>4, <1>5
  <2> HIDE DEF seg
  <2>2. n = 1 => seg = <<".">>
    BY <1>9, <2>1
  <2>3. n = 2 => seg = <<".", ".">>
    BY <1>9, <2>1
  <2> QED BY <1>7, <2>2, <2>3 DEF seg
<1> QED BY <1>3, <1>11, <1>12 DEF SegmentAfter, u, urest

(* What makes a path safe, its length apart, so far as it bears on a redirect: *)
(* one slash at the start, and in the path no tab, backslash or dot segment.   *)
Safe(s) ==
  /\ s \in Seq(Char) /\ Len(s) >= 1 /\ s[1] = "/"
  /\ Len(s) >= 2 => s[2] \notin {"/", "\\"}
  /\ PathOf(s) \in Seq(Char)
  /\ \A k \in 1..Len(PathOf(s)) : PathOf(s)[k] \notin {"tab", "\\"}
  /\ \A k \in Starts(PathOf(s), {"/"}) : Dots(SegmentAfter(PathOf(s), {"/"}, k)) \notin {1, 2}

LEMMA SafeIsSafe ==
  ASSUME NEW s \in Seq(Char), ~Unsafe(s)
  PROVE  Safe(s)
<1> DEFINE path == PathOf(s)
           u == Unescaped(path)
<1>1. /\ IsPrefix(<<"/">>, s) /\ ~IsPrefix(<<"/", "/">>, s) /\ ~IsPrefix(<<"/", "\\">>, s)
      /\ Parses(s) /\ ~Contains(u, "\\")
      /\ ~\E i \in Starts(u, {"/"}) : SegmentAfter(u, {"/"}, i) \in {<<".">>, <<".", ".">>}
  BY DEF Unsafe
<1>2. Len(s) \in Nat
  OBVIOUS
<1>3. Len(s) >= 1 /\ s[1] = "/"
  <2>1. Len(s) >= 1 /\ SubSeq(<<"/">>, 1, 1) = SubSeq(s, 1, 1)
    BY <1>1 DEF IsPrefix
  <2>2. SubSeq(<<"/">>, 1, 1)[1] = "/" /\ SubSeq(s, 1, 1)[1] = s[1]
    BY <2>1
  <2> QED BY <2>1, <2>2
<1>4. ASSUME Len(s) >= 2, NEW c \in Char, s[2] = c PROVE IsPrefix(<<"/", c>>, s)
  <2> DEFINE p == <<"/", c>>
             a == SubSeq(s, 1, 2)
             b == SubSeq(p, 1, 2)
  <2>1. p \in Seq(Char) /\ Len(p) = 2 /\ p[1] = "/" /\ p[2] = c
    BY <1>3
  <2> HIDE DEF p
  <2>2. a \in Seq(Char) /\ Len(a) = 2 /\ a[1] = "/" /\ a[2] = c
    BY <1>2, <1>3, <1>4
  <2>3. b \in Seq(Char) /\ Len(b) = 2 /\ b[1] = "/" /\ b[2] = c
    BY <2>1
  <2> HIDE DEF a, b
  <2>4. Len(a) = Len(b) /\ \A i \in 1..Len(a) : a[i] = b[i]
    BY <2>2, <2>3
  <2>5. a = b
    BY <2>2, <2>3, <2>4, SeqEqual
  <2> QED BY <1>4, <2>1, <2>5 DEF IsPrefix, a, b, p
<1>5. Len(s) >= 2 => s[2] \notin {"/", "\\"}
  <2>1. "/" \in Char /\ "\\" \in Char
    BY DEF Char, Plain
  <2> QED BY <1>1, <1>4, <2>1
<1>6. PICK n \in 0..Len(s) : /\ path = SubSeq(s, 1, n)
                             /\ \A i \in 1..n : s[i] \notin {"?", "#"}
  BY BeforeMarks DEF PathOf
<1>7. PICK h \in 0..Len(s) : /\ Before(s, {"#"}) = SubSeq(s, 1, h)
                             /\ h < Len(s) => s[h + 1] \in {"#"}
  BY BeforeMarks
<1>8. n <= h
  <2>1. ASSUME h < n PROVE h + 1 \in 1..n /\ h < Len(s)
    BY <2>1
  <2> QED BY <1>6, <1>7, <2>1
<1> HIDE DEF path
<1>9. path \in Seq(Char) /\ Len(path) = n /\ \A k \in 1..n : path[k] = s[k]
  BY <1>6
<1>10. \A k \in 1..n : path[k] # "tab"
  <2> SUFFICES ASSUME NEW k \in 1..n, s[k] = "tab" PROVE FALSE
    BY <1>9
  <2>1. Len(SubSeq(s, 1, h)) = h /\ SubSeq(s, 1, h)[k] = s[k] /\ k \in 1..h
    BY <1>2, <1>8
  <2> QED BY <1>1, <1>7, <2>1 DEF Parses, Contains
<1>11. \A k \in 1..n : path[k] # "\\"
  <2> SUFFICES ASSUME NEW k \in 1..n, path[k] = "\\" PROVE FALSE
    OBVIOUS
  <2>1. u = [j \in 1..n |-> CASE path[j] = "%2e" -> "." [] path[j] = "%2f" -> "/"
                              [] path[j] = "%5c" -> "\\" [] OTHER -> path[j]]
    BY <1>9 DEF Unescaped
  <2>2. u[k] = "\\" /\ Len(u) = n
    BY <2>1
  <2> HIDE DEF u
  <2> QED BY <1>1, <2>2 DEF Contains
<1>12. \A k \in Starts(path, {"/"}) : Dots(SegmentAfter(path, {"/"}, k)) \notin {1, 2}
  BY <1>1, <1>9, UnescapedDots
<1> QED BY <1>3, <1>5, <1>9, <1>10, <1>11, <1>12 DEF Safe, path

(* The path itself is safe to return to, however short the allowed length.     *)
LEMMA RootIsSafe == Safe(<<"/">>)
<1> DEFINE s == <<"/">>
<1>1. s \in Seq(Char) /\ Len(s) = 1 /\ s[1] = "/"
  BY DEF Char, Plain
<1>2. PathOf(s) = s
  <2>1. \A i \in 1..1 : s[i] \notin {"?", "#"}
    OBVIOUS
  <2> HIDE DEF s
  <2>2. Before(s, {"?", "#"}) = SubSeq(s, 1, 1)
    BY <1>1, <2>1, BeforeIs
  <2>3. SubSeq(s, 1, 1) = s
    BY <1>1
  <2> QED BY <2>2, <2>3 DEF PathOf
<1> HIDE DEF s
<1>3. ASSUME NEW k \in Starts(s, {"/"}) PROVE Dots(SegmentAfter(s, {"/"}, k)) = 0
  <2>1. k \in {0, 1}
    BY <1>1 DEF Starts
  <2> DEFINE rest == SubSeq(s, k + 1, Len(s))
  <2>2. rest \in Seq(Char) /\ (k = 0 => Len(rest) = 1 /\ rest[1] = "/") /\ (k = 1 => Len(rest) = 0)
    <3>1. k = 0 => rest = SubSeq(s, 1, 1)
      BY <1>1
    <3>2. k = 1 => rest = SubSeq(s, 2, 1)
      BY <1>1
    <3>3. SubSeq(s, 1, 1) \in Seq(Char) /\ Len(SubSeq(s, 1, 1)) = 1 /\ SubSeq(s, 1, 1)[1] = "/"
      <4>1. SubSeq(s, 1, 1) = s
        BY <1>1
      <4> QED BY <1>1, <4>1
    <3>4. SubSeq(s, 2, 1) \in Seq(Char) /\ Len(SubSeq(s, 2, 1)) = 0
      BY <1>1
    <3> HIDE DEF rest
    <3> QED BY <2>1, <3>1, <3>2, <3>3, <3>4
  <2> HIDE DEF rest
  <2>3. 0 \in 0..Len(rest) /\ (0 < Len(rest) => rest[0 + 1] \in {"/"})
    BY <2>1, <2>2
  <2>4. Before(rest, {"/"}) = SubSeq(rest, 1, 0)
    BY <2>2, <2>3, BeforeIs
  <2> DEFINE seg == SubSeq(rest, 1, 0)
  <2>5. Len(seg) = 0
    BY <2>2
  <2> HIDE DEF seg
  <2>6. Dots(seg) = 0
    BY <2>5 DEF Dots
  <2> QED BY <2>4, <2>6 DEF SegmentAfter, rest, seg
<1>4. /\ \A k \in 1..Len(s) : s[k] \notin {"tab", "\\"}
      /\ \A k \in Starts(s, {"/"}) : Dots(SegmentAfter(s, {"/"}, k)) \notin {1, 2}
  BY <1>1, <1>3
<1>5. Len(s) >= 1 /\ ~(Len(s) >= 2)
  BY <1>1
<1>6. Safe(s)
  BY <1>1, <1>2, <1>4, <1>5, Zenon DEF Safe
<1> QED BY <1>6 DEF s

(* A redirect to a safe path stays here, and if the path does not end in a     *)
(* space it lands on exactly that path.                                        *)
LEMMA SafeLandsHere ==
  ASSUME NEW s, Safe(s)
  PROVE  /\ Landing(s) # Elsewhere
         /\ s[Len(s)] # " " => Landing(s) = Face(s)
<1> DEFINE kept == {i \in DOMAIN s : s[i] \notin {" ", "tab"}}
           m == Max(kept)
           t == Trimmed(s)
<1>1. s \in Seq(Char) /\ Len(s) \in Nat /\ Len(s) >= 1 /\ s[1] = "/"
  BY DEF Safe
<1>2. 1 \in kept /\ kept \subseteq 1..Len(s)
  <2>1. DOMAIN s = 1..Len(s) /\ 1 \in 1..Len(s)
    BY <1>1
  <2> QED BY <1>1, <2>1
<1>3. m \in kept /\ \A j \in kept : j <= m
  <2> HIDE DEF kept
  <2>1. \E i \in kept : \A j \in kept : j <= i
    <3>1. kept \subseteq 0..Len(s) /\ kept # {}
      BY <1>1, <1>2
    <3> QED BY <1>1, <3>1, Greatest
  <2>2. PICK i \in kept : \A j \in kept : j <= i
    BY <2>1
  <2>3. \A j \in kept : i >= j
    BY <1>2, <2>2
  <2>4. m \in kept /\ \A j \in kept : m >= j
    BY <2>2, <2>3 DEF Max
  <2> QED BY <1>2, <2>4
<1>4. Min(kept) = 1
  <2>1. \A j \in kept : 1 <= j
    <3> HIDE DEF kept
    <3> QED BY <1>2
  <2>2. \A x \in kept : (\A y \in kept : x <= y) => x = 1
    <3> HIDE DEF kept
    <3> QED BY <1>2, <2>1
  <2> HIDE DEF kept
  <2> QED BY <1>2, <2>1, <2>2 DEF Min
<1>5. m \in 1..Len(s) /\ t = SubSeq(s, 1, m)
  <2>1. m \in 1..Len(s)
    <3> HIDE DEF kept, m
    <3> QED BY <1>2, <1>3
  <2>2. kept # {}
    BY <1>2
  <2>3. t = IF kept = {} THEN <<>> ELSE SubSeq(s, Min(kept), Max(kept))
    BY DEF Trimmed
  <2> HIDE DEF kept, t
  <2> QED BY <1>4, <2>1, <2>2, <2>3
<1>6. \A i \in 1..Len(s) : s[i] \notin {" ", "tab"} => i <= m
  <2>1. \A i \in 1..Len(s) : s[i] \notin {" ", "tab"} => i \in kept
    <3>1. DOMAIN s = 1..Len(s)
      BY <1>1
    <3> QED BY <3>1
  <2> HIDE DEF kept, m
  <2> QED BY <1>3, <2>1
<1> HIDE DEF kept, m, t
<1>7. t \in Seq(Char) /\ Len(t) = m /\ \A i \in 1..m : t[i] = s[i]
  BY <1>1, <1>5
<1>8. PICK n \in 0..Len(s) : /\ PathOf(s) = SubSeq(s, 1, n)
                             /\ \A i \in 1..n : s[i] \notin {"?", "#"}
                             /\ n < Len(s) => s[n + 1] \in {"?", "#"}
  BY <1>1, BeforeMarks DEF PathOf
<1>9. PICK q \in 0..Len(t) : /\ PathOf(t) = SubSeq(t, 1, q)
                             /\ \A i \in 1..q : t[i] \notin {"?", "#"}
                             /\ q < Len(t) => t[q + 1] \in {"?", "#"}
  BY <1>7, BeforeMarks DEF PathOf
<1>10. q <= n /\ q <= m
  <2>1. ASSUME n < q PROVE n + 1 \in 1..q /\ n < Len(s) /\ t[n + 1] = s[n + 1]
    BY <1>5, <1>7, <2>1
  <2> QED BY <1>7, <1>8, <1>9, <2>1
<1>11. \A i \in 1..n : s[i] \notin {"tab", "\\"}
  <2>1. Len(PathOf(s)) = n /\ \A i \in 1..n : PathOf(s)[i] = s[i]
    BY <1>1, <1>8
  <2> QED BY <2>1 DEF Safe
<1> DEFINE path == SubSeq(t, 1, q)
<1>12. path \in Seq(Char) /\ Len(path) = q /\ \A i \in 1..q : path[i] = s[i]
  BY <1>7, <1>9, <1>10
<1> HIDE DEF path
<1>13. WithoutTabs(PathOf(Trimmed(s))) = path
  <2>1. \A i \in 1..Len(path) : path[i] # "tab"
    BY <1>10, <1>11, <1>12
  <2>2. WithoutTabs(path) = path
    BY <1>12, <2>1, NoTabs
  <2> QED BY <1>9, <2>2 DEF path, t
<1>14. ~(Len(path) >= 2 /\ {path[1], path[2]} \subseteq {"/", "\\"})
  BY <1>5, <1>10, <1>12 DEF Safe
<1>15. Landing(s) = Here(Resolved(Segments(path, {"/", "\\"})))
  BY <1>13, <1>14 DEF Landing
<1>16. Landing(s) # Elsewhere
  BY <1>15 DEF Here, Elsewhere
<1>17. ASSUME s[Len(s)] # " " PROVE Landing(s) = Face(s)
  <2>1. q = n
    <3>1. CASE n = Len(s)
      <4>1. s[n] \notin {" ", "tab"} /\ n \in 1..n
        <5>1. n \in 1..n
          BY <1>1, <3>1
        <5>2. s[n] # "tab"
          BY <1>11, <5>1
        <5> QED BY <1>17, <3>1, <5>1, <5>2
      <4>2. m = n
        <5>1. n <= m
          BY <1>6, <3>1, <4>1
        <5> QED BY <1>5, <3>1, <5>1
      <4>3. ~(q < n)
        <5>1. ASSUME q < n PROVE q + 1 \in 1..n /\ t[q + 1] = s[q + 1]
          BY <1>7, <4>2, <5>1
        <5> QED BY <1>7, <1>8, <1>9, <4>2, <5>1
      <4> QED BY <1>10, <4>3
    <3>2. CASE n < Len(s)
      <4>1. n + 1 <= m
        <5>1. n + 1 \in 1..Len(s)
          BY <3>2
        <5>2. s[n + 1] \notin {" ", "tab"}
          BY <1>8, <3>2
        <5> QED BY <1>6, <5>1, <5>2
      <4>2. ~(q < n)
        <5>1. ASSUME q < n PROVE q + 1 \in 1..n /\ t[q + 1] = s[q + 1] /\ q < Len(t)
          BY <1>5, <1>7, <4>1, <5>1
        <5> QED BY <1>8, <1>9, <5>1
      <4> QED BY <1>10, <4>2
    <3> QED BY <3>1, <3>2
  <2>2. path = PathOf(s)
    <3> DEFINE p == SubSeq(s, 1, n)
    <3>1. p \in Seq(Char) /\ Len(p) = n /\ \A i \in 1..n : p[i] = s[i]
      BY <1>1, <1>8
    <3> HIDE DEF p
    <3>2. Len(path) = Len(p) /\ \A i \in 1..Len(path) : path[i] = p[i]
      BY <1>12, <2>1, <3>1
    <3>3. path = p
      BY <1>12, <3>1, <3>2, SeqEqual
    <3> QED BY <1>8, <3>3 DEF p
  <2> DEFINE segs == Segments(path, {"/"})
  <2>3. Segments(path, {"/", "\\"}) = segs
    <3>1. \A i \in 1..Len(path) : path[i] # "\\"
      BY <1>11, <1>12, <2>1
    <3>2. Starts(path, {"/", "\\"}) = Starts(path, {"/"})
      BY <1>12, <3>1 DEF Starts
    <3>3. \A i \in 0..Len(path) : SegmentAfter(path, {"/", "\\"}, i) = SegmentAfter(path, {"/"}, i)
      <4> SUFFICES ASSUME NEW i \in 0..Len(path)
                   PROVE  SegmentAfter(path, {"/", "\\"}, i) = SegmentAfter(path, {"/"}, i)
        OBVIOUS
      <4> DEFINE rest == SubSeq(path, i + 1, Len(path))
      <4>1. rest \in Seq(Char) /\ \A k \in 1..Len(rest) : rest[k] # "\\"
        BY <1>12, <3>1
      <4> HIDE DEF rest
      <4>2. PICK j \in 0..Len(rest) : /\ Before(rest, {"/"}) = SubSeq(rest, 1, j)
                                      /\ \A k \in 1..j : rest[k] \notin {"/"}
                                      /\ j < Len(rest) => rest[j + 1] \in {"/"}
        BY <4>1, BeforeMarks
      <4>3. \A k \in 1..j : rest[k] \notin {"/", "\\"}
        BY <4>1, <4>2
      <4>4. Before(rest, {"/", "\\"}) = SubSeq(rest, 1, j)
        BY <4>1, <4>2, <4>3, BeforeIs
      <4> QED BY <4>2, <4>4 DEF SegmentAfter, rest
    <3> DEFINE starts == Starts(path, {"/"})
    <3>4. starts \subseteq 0..Len(path)
      BY <1>12 DEF Starts
    <3> HIDE DEF starts
    <3>5. \A k \in 1..Cardinality(starts) : Nth(starts, k) \in 0..Len(path)
      <4>1. Len(path) \in Nat
        BY <1>12
      <4> QED BY <3>4, <4>1, NthPosition
    <3>6. /\ Segments(path, {"/", "\\"})
               = [k \in 1..Cardinality(starts) |-> SegmentAfter(path, {"/", "\\"}, Nth(starts, k))]
          /\ segs = [k \in 1..Cardinality(starts) |-> SegmentAfter(path, {"/"}, Nth(starts, k))]
      BY <3>2 DEF Segments, starts
    <3> HIDE DEF segs
    <3> QED BY <3>3, <3>5, <3>6
  <2>4. /\ segs \in Seq(Seq(Char)) /\ Len(segs) \in Nat \ {0}
        /\ \A k \in 1..Len(segs) :
             \E i \in Starts(path, {"/"}) : segs[k] = SegmentAfter(path, {"/"}, i)
    BY <1>12, SegmentsOfPath
  <2> HIDE DEF segs
  <2>5. \A k \in 1..Len(segs) : Dots(segs[k]) \notin {1, 2}
    BY <2>2, <2>4 DEF Safe
  <2>6. Resolved(segs) = Tail(segs)
    <3>1. Len(segs) >= 1
      BY <2>4
    <3> QED BY <2>4, <2>5, <3>1, ResolvedWithoutDots
  <2> QED BY <1>15, <2>2, <2>3, <2>6 DEF Face, segs
<1> QED BY <1>16, <1>17

(* The callback redirects to the path that was asked for, or to the root.      *)
LEMMA ReturnsSafely == Spec => []Safe(returnTo)
<1>1. Init => Safe(returnTo)
  BY RootIsSafe DEF Init
<1>2. LInv /\ Safe(returnTo) /\ [Next]_vars => Safe(returnTo)'
  <2> SUFFICES ASSUME LInv, Safe(returnTo), [Next]_vars PROVE Safe(returnTo')
    BY DEF Safe
  <2>1. CASE AuthEdupass
    <3>1. login.returnTo \in Seq(Char)
      BY Inputs DEF LInv, Place
    <3> QED BY <2>1, <3>1, SafeIsSafe, RootIsSafe DEF AuthEdupass, SafeReturnTo
  <2>2. CASE UNCHANGED returnTo
    BY <2>2
  <2>3. AuthEdupass \/ UNCHANGED returnTo
    BY DEF Next, Refuse, ReadGroups, ResolveEntry, EndEntries, ResolveAttribute, Decide, vars
  <2> QED BY <2>1, <2>2, <2>3
<1> QED BY <1>1, <1>2, LoginInvariant, PTL DEF Spec

(* However a login is asked to return, its redirect never leaves the site, and *)
(* lands on exactly that path if it does not end in a space.                   *)
THEOREM RedirectsLandHere == Spec => []LandsOnThisSite
<1>1. Safe(returnTo) => LandsOnThisSite
  BY SafeLandsHere DEF LandsOnThisSite, LandsOnExactPath
<1> QED BY <1>1, ReturnsSafely, PTL
=============================================================================
