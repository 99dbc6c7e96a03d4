------------------------- MODULE ResponseWriterProofs -------------------------
(***************************************************************************)
(* Every order of writes of every handler: the theorems of ResponseWriter, *)
(* for any statuses and any number of changes to the session.              *)
(***************************************************************************)
EXTENDS ResponseWriter, TLAPS

(* Before the commit nothing has been sent, unless the session never loaded;  *)
(* after it, the headers to be sent tell its outcome.                          *)
Uncommitted ==
  outcome = "none" =>
    /\ pc \in {"loading", "serving", "panicked"} => rw.status = 0 /\ ~rw.taken /\ rw.body = {}
    /\ pc = "loading" => rw.header = {"initial"}
    /\ pc \in {"returning", "done"} => rw.header \subseteq {"initial", "plain"} /\ rw.body \subseteq {"error"}
    /\ "cookie" \notin rw.header

Committed ==
  /\ outcome = "saved" => "cookie" \in rw.header
  /\ outcome = "gone" => "cookie" \notin rw.header
  /\ outcome = "failed" => rw.status = 500
  /\ outcome # "none" => pc # "loading"

(* Nothing is written before the status is sent, an error is only written for  *)
(* a commit or a load that failed, and without a session no handler ran.       *)
Answered ==
  /\ rw.status = 0 => rw.sent = {} /\ rw.body = {}
  /\ outcome \in {"saved", "gone"} => "error" \notin rw.body
  /\ outcome = "none" /\ pc \notin {"serving", "panicked"} => version = 0

(* The answer that is sent fits what became of the session. *)
AnswerFitsCommit ==
  rw.status # 0 =>
    /\ outcome = "saved" => "cookie" \in rw.sent
    /\ outcome = "gone" => "cookie" \notin rw.sent
    /\ outcome = "failed" => rw.status = 500 /\ rw.sent = {"initial", "plain"} /\ rw.body = {"error"}
    /\ outcome = "none" => rw.sent \subseteq {"initial", "plain"} /\ rw.body \subseteq {"error"}

RWInv == TypeOK /\ Uncommitted /\ Committed /\ Answered /\ AnswerFitsCommit /\ LogAgrees

-----------------------------------------------------------------------------
(* What the layers do to a response. *)

IsStatus(s) == s \in 100..999

LEMMA NetTypes ==
  ASSUME NEW w \in Response, NEW s, IsStatus(s), NEW author \in {"handler", "error"}
  PROVE  /\ NetWriteHeader(w, s) \in Response
         /\ NetWrite(w, author) \in Response
         /\ \A granted \in BOOLEAN : NetHijack(w, granted) \in Response
<1>1. ASSUME NEW t, IsStatus(t) PROVE NetWriteHeader(w, t) \in Response
  <2>1. CASE ~w.taken /\ w.status = 0 /\ IsFinal(t)
    <3>1. t \in Statuses
      BY <1>1, <2>1 DEF Statuses, IsFinal, IsStatus
    <3>2. NetWriteHeader(w, t) = [w EXCEPT !.status = t, !.sent = w.header]
      BY <2>1 DEF NetWriteHeader
    <3>. QED BY <3>1, <3>2 DEF Response
  <2>. QED BY <2>1 DEF NetWriteHeader
<1>2. NetWrite(w, author) \in Response
  <2>1. NetWriteHeader(w, 200) \in Response /\ w.body \in SUBSET {"handler", "error"}
    BY <1>1 DEF IsStatus, Response
  <2>2. w.body \cup {author} \in SUBSET {"handler", "error"}
    BY <2>1
  <2>. QED BY <2>1, <2>2 DEF NetWrite, Response
<1>3. ASSUME NEW granted \in BOOLEAN PROVE NetHijack(w, granted) \in Response
  <2>1. w.taken \/ granted \in BOOLEAN
    BY DEF Response
  <2>. QED BY <2>1 DEF Response, NetHijack
<1>. QED BY <1>1, <1>2, <1>3

LEMMA LogTypes ==
  ASSUME NEW w \in Response, NEW s, IsStatus(s), NEW author \in {"handler", "error"}
  PROVE  /\ IsFinal(s) => SetStatus(w, s) \in Response
         /\ LogWriteHeader(w, s) \in Response
         /\ LogWrite(w, author) \in Response
         /\ LogFlush(w) \in Response
         /\ \A granted \in BOOLEAN : LogHijack(w, granted) \in Response
<1>1. ASSUME NEW v, IsStatus(v), IsFinal(v) PROVE SetStatus(w, v) \in Response
  BY <1>1 DEF Response, Statuses, IsFinal, IsStatus, SetStatus
<1>2. IsStatus(200) /\ IsFinal(200)
  BY DEF IsStatus, IsFinal
<1>3. LogWriteHeader(w, s) \in Response
  BY <1>1, NetTypes DEF LogWriteHeader
<1>4. LogWrite(w, author) \in Response /\ LogFlush(w) \in Response
  BY <1>1, <1>2, NetTypes DEF LogWrite, LogFlush
<1>5. ASSUME NEW granted \in BOOLEAN PROVE LogHijack(w, granted) \in Response
  <2>1. NetHijack(w, granted) \in Response
    BY NetTypes, <1>2
  <2>. QED BY <2>1 DEF LogHijack, Response
<1>. QED BY <1>1, <1>3, <1>4, <1>5

(* The log and net/http agree on a response.                                   *)
Agrees(w) == w.logged = w.status /\ w.logTaken = w.taken

(* Writing keeps them agreeing, the header map as it is, and an answer whose   *)
(* status is sent as it was sent.                                              *)
Follows(v, w) ==
  /\ Agrees(v)
  /\ v.header = w.header
  /\ w.status # 0 => v.status = w.status /\ v.sent = w.sent
  /\ v.status # 0 /\ w.status = 0 => v.sent = w.header
  /\ v.status = 0 => v.sent = w.sent /\ v.body = w.body
  /\ v.body \subseteq w.body \cup {"handler"}

LEMMA LogFollows ==
  ASSUME NEW w \in Response, Agrees(w), NEW s, IsStatus(s), NEW granted \in BOOLEAN
  PROVE  /\ Follows(LogWriteHeader(w, s), w)
         /\ Follows(LogWrite(w, "handler"), w)
         /\ Follows(LogFlush(w), w)
         /\ Follows(LogHijack(w, granted), w)
BY DEF Follows, Agrees, Response, Statuses, IsStatus, IsFinal, LogWriteHeader, LogWrite, LogFlush,
       LogHijack, SetStatus, NetWriteHeader, NetWrite, NetHijack

(* A plain error, on a response nothing has been sent of, is the whole answer. *)
LEMMA PlainAnswers ==
  ASSUME NEW w \in Response, Agrees(w), w.status = 0, ~w.taken, w.body = {}
  PROVE  /\ RenderPlain(w, 500) \in Response
         /\ Agrees(RenderPlain(w, 500))
         /\ RenderPlain(w, 500).status = 500
         /\ RenderPlain(w, 500).header = w.header \cup {"plain"}
         /\ RenderPlain(w, 500).sent = w.header \cup {"plain"}
         /\ RenderPlain(w, 500).body = {"error"}
<1>. DEFINE u == [w EXCEPT !.header = w.header \cup {"plain"}]
            v == LogWriteHeader(u, 500)
<1>0. IsStatus(500)
  BY DEF IsStatus
<1>1. /\ u \in Response /\ Agrees(u) /\ u.status = 0 /\ ~u.taken /\ u.body = {}
      /\ u.header = w.header \cup {"plain"}
  BY DEF Response, Owner, Agrees
<1>2. v \in Response
  BY <1>0, <1>1, LogTypes
<1>3. /\ v.status = 500 /\ v.logged = 500 /\ v.sent = u.header /\ v.header = u.header
      /\ ~v.taken /\ ~v.logTaken /\ v.body = {}
  BY <1>1 DEF LogWriteHeader, SetStatus, NetWriteHeader, IsFinal, Agrees, Response
<1>3a. v.taken = v.logTaken
  BY <1>1 DEF LogWriteHeader, SetStatus, NetWriteHeader, IsFinal, Agrees, Response
<1>4. RenderPlain(w, 500) = LogWrite(v, "error")
  BY DEF RenderPlain
<1>5. LogWrite(v, "error") = [v EXCEPT !.body = {"error"}]
  <2>. HIDE DEF v
  <2>1. SetStatus(v, 200) = v
    BY <1>3 DEF SetStatus
  <2>2. NetWriteHeader(v, 200) = v
    BY <1>3 DEF NetWriteHeader
  <2>3. v.body \cup {"error"} = {"error"}
    BY <1>3
  <2>. QED BY <1>3, <2>1, <2>2, <2>3 DEF LogWrite, NetWrite
<1>6. [v EXCEPT !.body = {"error"}] \in Response
  <2>. HIDE DEF v
  <2>. QED BY <1>2 DEF Response
<1>7. /\ RenderPlain(w, 500).status = v.status
      /\ RenderPlain(w, 500).logged = v.logged
      /\ RenderPlain(w, 500).taken = v.taken
      /\ RenderPlain(w, 500).logTaken = v.logTaken
      /\ RenderPlain(w, 500).header = v.header
      /\ RenderPlain(w, 500).sent = v.sent
      /\ RenderPlain(w, 500).body = {"error"}
  <2>. HIDE DEF v
  <2>. QED BY <1>2, <1>4, <1>5 DEF Response
<1>8. RenderPlain(w, 500) \in Response
  BY ONLY <1>4, <1>5, <1>6
<1>. HIDE DEF u, v
<1>9. /\ RenderPlain(w, 500).status = 500
      /\ RenderPlain(w, 500).logged = 500
      /\ RenderPlain(w, 500).taken = RenderPlain(w, 500).logTaken
  BY ONLY <1>3, <1>3a, <1>7
<1>10. Agrees(RenderPlain(w, 500))
  BY ONLY <1>9 DEF Agrees
<1>. QED BY ONLY <1>1, <1>3, <1>7, <1>8, <1>9, <1>10

-----------------------------------------------------------------------------
(* What finalising does to it. *)

(* A response and an outcome that fit, with the handler still running.         *)
Fits(w, o) ==
  /\ w \in Response
  /\ Agrees(w)
  /\ o = "saved" => "cookie" \in w.header /\ (w.status # 0 => "cookie" \in w.sent)
  /\ o = "gone" => "cookie" \notin w.header /\ (w.status # 0 => "cookie" \notin w.sent)
  /\ o = "failed" => w.status = 500 /\ w.sent = {"initial", "plain"} /\ w.body = {"error"}
  /\ w.status = 0 => w.sent = {} /\ w.body = {}
  /\ o # "failed" => "error" \notin w.body

LEMMA FinalisedFits ==
  ASSUME NEW w \in Response, Agrees(w), w.status = 0, ~w.taken, w.sent = {}, w.body = {},
         "cookie" \notin w.header, NEW o \in Outcome
  PROVE  Fits(Finalised(w, o), o)
<1>1. CASE o = "saved"
  <2>1. Finalised(w, o) = [w EXCEPT !.header = w.header \cup {"noStore", "cookie"}]
    BY <1>1 DEF Finalised
  <2>. QED BY <1>1, <2>1 DEF Fits, Agrees, Response, Owner
<1>2. CASE o = "gone"
  <2>1. Finalised(w, o) = [w EXCEPT !.header = w.header \cup {"noStore"}]
    BY <1>2 DEF Finalised
  <2>. QED BY <1>2, <2>1 DEF Fits, Agrees, Response, Owner
<1>3. CASE o = "failed"
  <2>. DEFINE u == [w EXCEPT !.header = {"initial"}]
  <2>1. Finalised(w, o) = RenderPlain(u, 500)
    BY <1>3 DEF Finalised
  <2>2. /\ u \in Response /\ Agrees(u) /\ u.status = 0 /\ ~u.taken /\ u.body = {}
        /\ u.header \cup {"plain"} = {"initial", "plain"}
    BY DEF Response, Owner, Agrees
  <2>. HIDE DEF u
  <2>. QED BY <1>3, <2>1, <2>2, PlainAnswers DEF Fits
<1>. QED BY <1>1, <1>2, <1>3 DEF Outcome

LEMMA AfterFits ==
  ASSUME RWInv, pc = "serving", NEW o, FinaliseOnce(o)
  PROVE  /\ Fits(After(o), o)
         /\ outcome' = o
         /\ o \in Outcome
         /\ saved' \in 0..MaxChanges
<1>1. CASE outcome = "none"
  <2>1. rw \in Response /\ Agrees(rw)
    BY DEF RWInv, TypeOK, LogAgrees, Agrees
  <2>. QED BY <1>1, <2>1, FinalisedFits
           DEF RWInv, TypeOK, Uncommitted, Answered, FinaliseOnce, After
<1>2. CASE outcome # "none"
  <2>1. o = outcome /\ outcome' = o /\ saved' = saved /\ After(o) = rw
    BY <1>2 DEF FinaliseOnce, After
  <2>2. o \in Outcome /\ saved \in 0..MaxChanges
    BY <1>2, <2>1 DEF RWInv, TypeOK, Outcome
  <2>3. Fits(rw, outcome)
    BY <1>2 DEF RWInv, TypeOK, Committed, Answered, AnswerFitsCommit, LogAgrees, Agrees, Fits
  <2>. QED BY <2>1, <2>2, <2>3
<1>. QED BY <1>1, <1>2

(* A step that leaves a fitting response while the handler runs or returns.    *)
LEMMA FitsInv ==
  ASSUME pc' \in {"serving", "returning"}, version' \in 0..MaxChanges, saved' \in 0..MaxChanges,
         outcome' \in Outcome, Fits(rw', outcome')
  PROVE  RWInv'
BY DEF Fits, Outcome, RWInv, TypeOK, Uncommitted, Committed, Answered, AnswerFitsCommit, LogAgrees, Agrees

(* Writing more keeps the response fitting, unless the commit failed, which    *)
(* the writer checks.                                                          *)
LEMMA FollowsFits ==
  ASSUME NEW w, NEW v \in Response, NEW o, Fits(w, o), Follows(v, w), o # "failed"
  PROVE  Fits(v, o)
BY DEF Fits, Follows

LEMMA RWInit == Init => RWInv
BY StatusAssumption DEF Init, RWInv, TypeOK, Response, Statuses, Owner, Uncommitted, Committed, Answered,
                        AnswerFitsCommit, LogAgrees

(* Every write of the handler, and its return, finalises and then writes no    *)
(* more than the layers below allow; informational statuses change nothing.    *)
Finalises == \E o \in Outcome : /\ FinaliseOnce(o)
                               /\ IF o = "failed" THEN rw' = After(o)
                                  ELSE rw' \in Response /\ Follows(rw', After(o))

Writing == \/ \E s \in Status : WriteHeader(s)
           \/ Write \/ Flush \/ Return
           \/ \E granted \in BOOLEAN : Hijack(granted)

LEMMA WritingShape ==
  ASSUME RWInv, Writing
  PROVE  /\ pc = "serving" /\ pc' \in {"serving", "returning"} /\ version' = version
         /\ Finalises \/ UNCHANGED <<pc, outcome, saved, rw>>
<1>v. pc = "serving" /\ pc' \in {"serving", "returning"} /\ version' = version
  BY DEF Writing, WriteHeader, Write, Flush, Return, Hijack, Serving
<1>t. (\A s \in Status : IsStatus(s)) /\ IsStatus(200)
  BY StatusAssumption DEF IsStatus
<1>1. ASSUME NEW o \in Outcome, FinaliseOnce(o), NEW w,
             rw' = IF o = "failed" THEN After(o) ELSE w,
             Fits(After(o), o) => w \in Response /\ Follows(w, After(o))
      PROVE  Finalises
  BY <1>1, <1>v, AfterFits DEF Finalises
<1>2. ASSUME NEW s \in Status, WriteHeader(s) PROVE Finalises \/ UNCHANGED <<pc, outcome, saved, rw>>
  <2>1. CASE IsFinal(s)
    <3>1. PICK o \in Outcome : /\ FinaliseOnce(o)
                               /\ rw' = IF o = "failed" THEN After(o)
                                        ELSE LogWriteHeader(After(o), s)
      BY <1>2, <2>1 DEF WriteHeader
    <3>. QED BY <3>1, <1>t, <1>1, LogTypes, LogFollows DEF Fits
  <2>2. CASE ~IsFinal(s)
    <3>1. LogWriteHeader(rw, s) = rw
      BY <2>2 DEF LogWriteHeader, NetWriteHeader
    <3>. QED BY <1>2, <2>2, <3>1 DEF WriteHeader, Serving
  <2>. QED BY <2>1, <2>2
<1>3. ASSUME Write PROVE Finalises
  <2>1. PICK o \in Outcome : /\ FinaliseOnce(o)
                             /\ rw' = IF o = "failed" THEN After(o) ELSE LogWrite(After(o), "handler")
    BY <1>3 DEF Write
  <2>. QED BY <2>1, <1>t, <1>1, LogTypes, LogFollows DEF Fits
<1>4. ASSUME Flush PROVE Finalises
  <2>1. PICK o \in Outcome : /\ FinaliseOnce(o)
                             /\ rw' = IF o = "failed" THEN After(o) ELSE LogFlush(After(o))
    BY <1>4 DEF Flush
  <2>. QED BY <2>1, <1>t, <1>1, LogTypes, LogFollows DEF Fits
<1>5. ASSUME NEW granted \in BOOLEAN, Hijack(granted) PROVE Finalises
  <2>1. PICK o \in Outcome : /\ FinaliseOnce(o)
                             /\ rw' = IF o = "failed" THEN After(o)
                                      ELSE LogHijack(After(o), granted)
    BY <1>5 DEF Hijack
  <2>. QED BY <2>1, <1>t, <1>1, LogTypes, LogFollows DEF Fits
<1>6. ASSUME Return PROVE Finalises
  <2>1. PICK o \in Outcome : FinaliseOnce(o) /\ rw' = After(o)
    BY <1>6 DEF Return
  <2>. QED BY <2>1, <1>1 DEF Fits, Follows
<1>. QED BY <1>v, <1>2, <1>3, <1>4, <1>5, <1>6 DEF Writing

(* What finalising leaves: an outcome, and a response that fits it.            *)
LEMMA FinalisesFits ==
  ASSUME RWInv, pc = "serving", Finalises
  PROVE  /\ outcome' \in Outcome /\ saved' \in 0..MaxChanges
         /\ FinaliseOnce(outcome')
         /\ Fits(rw', outcome')
         /\ outcome # "none" => IF outcome = "failed" THEN rw' = rw ELSE Follows(rw', rw)
<1>1. PICK o \in Outcome : /\ FinaliseOnce(o)
                           /\ IF o = "failed" THEN rw' = After(o)
                              ELSE rw' \in Response /\ Follows(rw', After(o))
  BY DEF Finalises
<1>2. Fits(After(o), o) /\ outcome' = o /\ saved' \in 0..MaxChanges
  BY <1>1, AfterFits
<1>3. Fits(rw', o)
  BY <1>1, <1>2, FollowsFits
<1>4. outcome # "none" => o = outcome /\ After(o) = rw
  BY <1>1 DEF FinaliseOnce, After
<1>. QED BY <1>1, <1>2, <1>3, <1>4

LEMMA WritingInv ==
  ASSUME RWInv, Writing
  PROVE  RWInv'
<1>1. CASE Finalises
  BY <1>1, WritingShape, FinalisesFits, FitsInv DEF RWInv, TypeOK
<1>2. CASE UNCHANGED <<pc, outcome, saved, rw>>
  BY <1>2, WritingShape
     DEF RWInv, TypeOK, Uncommitted, Committed, Answered, AnswerFitsCommit, LogAgrees
<1>. QED BY <1>1, <1>2, WritingShape

(* The steps around them. *)
LEMMA AroundInv ==
  ASSUME RWInv, \/ Load \/ LoadFails \/ Disconnect \/ SetHeader \/ ClearHeader \/ ChangeSession
                \/ Panic \/ Finish
  PROVE  RWInv'
<1>. USE DEF RWInv, TypeOK, Uncommitted, Committed, Answered, AnswerFitsCommit, LogAgrees
<1>1. CASE Load \/ Disconnect \/ Panic
  BY <1>1 DEF Load, Disconnect, Panic
<1>2. CASE LoadFails
  <2>1. rw.header = {"initial"} /\ rw.status = 0 /\ ~rw.taken /\ rw.body = {} /\ outcome = "none"
    BY <1>2 DEF LoadFails
  <2>2. Agrees(rw)
    BY DEF Agrees
  <2>. QED BY <1>2, <2>1, <2>2, PlainAnswers DEF LoadFails, Agrees
<1>3. CASE SetHeader
  <2>1. rw' = [rw EXCEPT !.header = rw.header \cup {"handler"}] /\ pc' = pc /\ version' = version
        /\ pc = "serving" /\ UNCHANGED <<outcome, saved>>
    BY <1>3 DEF SetHeader, Serving
  <2>. QED BY <2>1 DEF Response, Owner
<1>4. CASE ChangeSession
  BY <1>4, StatusAssumption DEF ChangeSession
<1>5. CASE Finish
  <2>1. rw \in Response /\ Agrees(rw) /\ IsStatus(200)
    BY DEF Agrees, IsStatus
  <2>2. rw' \in Response /\ Follows(rw', rw)
    BY <1>5, <2>1, LogTypes, LogFollows DEF Finish
  <2>3. rw'.body = rw.body
    BY <1>5, <2>1 DEF Finish, LogFlush, SetStatus, NetWriteHeader, Response
  <2>. QED BY <1>5, <2>2, <2>3 DEF Finish, Follows, Agrees
<1>6. CASE ClearHeader
  <2>1. rw' = [rw EXCEPT !.header = {}] /\ pc' = pc /\ version' = version
        /\ pc = "serving" /\ outcome = "none" /\ UNCHANGED <<outcome, saved>>
    BY <1>6 DEF ClearHeader, Serving
  <2>. QED BY <2>1 DEF Response, Owner
<1>. QED BY <1>1, <1>2, <1>3, <1>4, <1>5, <1>6

LEMMA RWStep == RWInv /\ [Next]_vars => RWInv'
<1>1. ASSUME RWInv, UNCHANGED vars PROVE RWInv'
  BY <1>1 DEF vars, RWInv, TypeOK, Uncommitted, Committed, Answered, AnswerFitsCommit, LogAgrees
<1>. QED BY <1>1, WritingInv, AroundInv DEF Next, Writing

(* Whatever the handler writes, and in whatever order, the answer sent fits    *)
(* what became of the session, and what is not sent yet will.                  *)
THEOREM RWInvariant == Spec => []RWInv
BY RWInit, RWStep, PTL DEF Spec

-----------------------------------------------------------------------------
(* Every response keeps the types of its two writers, whatever is written.     *)
THEOREM ResponseTypeOK == Spec => []TypeOK
<1>1. RWInv => TypeOK
  BY DEF RWInv
<1>. QED BY <1>1, RWInvariant, PTL

(* The log records the final status that was sent, if one was.                 *)
THEOREM LogAgreesAlways == Spec => []LogAgrees
<1>1. RWInv => LogAgrees
  BY DEF RWInv
<1>. QED BY <1>1, RWInvariant, PTL

-----------------------------------------------------------------------------
(* The refinement of SessionAnswer. *)

(* What an answer is made of, with and without the cookie.                     *)
LEMMA AnswerWith ==
  ASSUME NEW w
  PROVE  /\ "cookie" \in w.sent => AnswerIn(w) = Promise!Answer(w.status, TRUE, ErrorIn(w))
         /\ "cookie" \notin w.sent => AnswerIn(w) = Promise!Answer(w.status, FALSE, ErrorIn(w))
<1>1. "cookie" \in w.sent => ("cookie" \in w.sent) = TRUE
  OBVIOUS
<1>2. "cookie" \notin w.sent => ("cookie" \in w.sent) = FALSE
  OBVIOUS
<1>. QED BY <1>1, <1>2, Zenon DEF AnswerIn, Promise!Answer

LEMMA EmptyAnswer ==
  ASSUME NEW w, w.status = 0, w.sent = {}, w.body = {}
  PROVE  AnswerIn(w) = Promise!Unanswered
<1>1. "cookie" \notin w.sent /\ ErrorIn(w) = "none"
  BY DEF ErrorIn
<1>. QED BY <1>1, AnswerWith, Zenon DEF Promise!Unanswered

LEMMA ErrorAnswer ==
  ASSUME NEW w, w.status = 500, w.sent = {"initial", "plain"}, w.body = {"error"}
  PROVE  AnswerIn(w) = Promise!Error
<1>1. "cookie" \notin w.sent /\ ErrorIn(w) = "alone"
  BY DEF ErrorIn
<1>. QED BY <1>1, AnswerWith, Zenon DEF Promise!Error

(* A response that fits a commit is unanswered, or answered as it should be.   *)
LEMMA FittingAnswer ==
  ASSUME NEW w, NEW o \in Outcome, Fits(w, o)
  PROVE  /\ w.status = 0 => AnswerIn(w) = Promise!Unanswered
         /\ w.status # 0 => AnswerIn(w) \in Promise!Answers(o)
<1>1. w.status = 0 => AnswerIn(w) = Promise!Unanswered
  BY EmptyAnswer DEF Fits
<1>2. ASSUME w.status # 0, o = "saved" PROVE AnswerIn(w) \in Promise!Answers(o)
  <2>1. w.status \in Statuses \ {0} /\ "cookie" \in w.sent /\ ErrorIn(w) = "none"
    BY <1>2 DEF Fits, Response, ErrorIn
  <2>2. AnswerIn(w) = Promise!Answer(w.status, TRUE, "none")
    BY <2>1, AnswerWith
  <2>. QED BY <1>2, <2>1, <2>2 DEF Promise!Answers
<1>3. ASSUME w.status # 0, o = "gone" PROVE AnswerIn(w) \in Promise!Answers(o)
  <2>1. w.status \in Statuses \ {0} /\ "cookie" \notin w.sent /\ ErrorIn(w) = "none"
    BY <1>3 DEF Fits, Response, ErrorIn
  <2>2. AnswerIn(w) = Promise!Answer(w.status, FALSE, "none")
    BY <2>1, AnswerWith
  <2>. QED BY <1>3, <2>1, <2>2 DEF Promise!Answers
<1>4. ASSUME o = "failed" PROVE AnswerIn(w) \in Promise!Answers(o)
  BY <1>4, ErrorAnswer DEF Fits, Promise!Answers
<1>. QED BY <1>1, <1>2, <1>3, <1>4 DEF Outcome

(* Once sent, it stays, though the handler may write on.                       *)
LEMMA AnswerStays ==
  ASSUME NEW w, NEW v, NEW o \in Outcome, Fits(w, o), Fits(v, o), Follows(v, w),
         o # "failed", w.status # 0
  PROVE  AnswerIn(v) = AnswerIn(w)
BY DEF Fits, Follows, AnswerIn, ErrorIn

LEMMA FinalisesAsPromised ==
  ASSUME RWInv, pc = "serving", Finalises, version' = version
  PROVE  [Promise!AnswerNext]_<<version, outcome, saved, answer>>
<1>1. /\ outcome' \in Outcome /\ FinaliseOnce(outcome') /\ Fits(rw', outcome')
      /\ outcome # "none" => IF outcome = "failed" THEN rw' = rw ELSE Follows(rw', rw)
  BY FinalisesFits
<1>2. answer = AnswerIn(rw) /\ answer' = AnswerIn(rw')
  BY DEF answer
<1>3. CASE outcome = "none"
  <2>1. answer = Promise!Unanswered
    BY <1>2, <1>3, EmptyAnswer DEF RWInv, Uncommitted, Answered
  <2>2. Promise!Commits(outcome')
    BY <1>1, <1>3 DEF FinaliseOnce, Promise!Commits
  <2>3. outcome' = "failed" => rw'.status # 0
    BY <1>1 DEF Fits
  <2>4. answer' \in Promise!Answers(outcome') \cup
                   (IF outcome' = "failed" THEN {} ELSE {Promise!Unanswered})
    BY <1>1, <1>2, <2>3, FittingAnswer
  <2>5. Promise!Commit(outcome')
    BY <2>1, <2>2, <2>4 DEF Promise!Commit
  <2>. QED BY <1>1, <2>5 DEF Promise!AnswerNext, Outcome
<1>4. CASE outcome # "none"
  <2>1. outcome' = outcome /\ saved' = saved /\ outcome \in Outcome
    BY <1>1, <1>4 DEF FinaliseOnce
  <2>2. Fits(rw, outcome)
    BY <1>4, <2>1 DEF RWInv, TypeOK, Committed, Answered, AnswerFitsCommit, LogAgrees, Agrees, Fits, Outcome
  <2>3. CASE rw.status = 0 /\ rw'.status # 0
    <3>1. answer = Promise!Unanswered /\ answer' \in Promise!Answers(outcome)
      BY <1>1, <1>2, <2>1, <2>2, <2>3, FittingAnswer
    <3>. QED BY <1>4, <2>1, <3>1 DEF Promise!Send, Promise!AnswerNext
  <2>4. CASE rw.status = 0 /\ rw'.status = 0
    <3>1. answer' = answer
      BY <1>1, <1>2, <2>1, <2>2, <2>4, FittingAnswer
    <3>. QED BY <2>1, <3>1
  <2>5. CASE rw.status # 0
    <3>1. answer' = answer
      BY <1>1, <1>2, <1>4, <2>1, <2>2, <2>5, AnswerStays
    <3>. QED BY <2>1, <3>1
  <2>. QED BY <2>3, <2>4, <2>5
<1>. QED BY <1>3, <1>4

(* What the log writes for a handler that wrote nothing.                       *)
LEMMA FinishesAsPromised ==
  ASSUME RWInv, Finish
  PROVE  [Promise!AnswerNext]_<<version, outcome, saved, answer>>
<1>1. /\ pc = "returning" /\ rw' = LogFlush(rw) /\ UNCHANGED <<version, outcome, saved>>
  BY DEF Finish
<1>2. rw \in Response /\ Agrees(rw) /\ IsStatus(200)
  BY DEF RWInv, TypeOK, LogAgrees, Agrees, IsStatus
<1>3. rw' \in Response /\ Follows(rw', rw)
  BY <1>1, <1>2, LogTypes, LogFollows
<1>4. rw'.body = rw.body /\ (rw.status = 0 => rw'.status \in {0, 200})
  BY <1>1, <1>2 DEF LogFlush, SetStatus, NetWriteHeader, Response
<1>5. CASE rw'.status = rw.status
  <2>1. rw'.sent = rw.sent
    BY <1>3, <1>5 DEF Follows
  <2>2. answer' = answer
    BY <1>4, <1>5, <2>1 DEF answer, AnswerIn, ErrorIn
  <2>. QED BY <1>1, <2>2
<1>6. CASE rw'.status # rw.status
  <2>1. rw.status = 0 /\ rw'.status = 200 /\ rw'.sent = rw.header /\ rw.sent = {} /\ rw'.body = {}
    BY <1>3, <1>4, <1>6 DEF Follows, RWInv, Answered
  <2>2. answer = Promise!Unanswered
    BY <2>1, EmptyAnswer DEF RWInv, Answered, answer
  <2>3. CASE outcome = "none"
    <3>1. version = 0 /\ "cookie" \notin rw'.sent
      BY <1>1, <2>1, <2>3 DEF RWInv, Answered, Uncommitted
    <3>2. AnswerIn(rw') = Promise!Answer(rw'.status, FALSE, ErrorIn(rw'))
      BY <3>1, AnswerWith
    <3>3. answer' = Promise!Answer(200, FALSE, "none")
      BY <2>1, <3>2 DEF answer, ErrorIn
    <3>. QED BY <1>1, <2>2, <2>3, <3>1, <3>3 DEF Promise!SendUnloaded, Promise!AnswerNext
  <2>4. CASE outcome # "none"
    <3>1. outcome \in Outcome /\ outcome # "failed"
      BY <2>1, <2>4 DEF RWInv, TypeOK, Committed, Outcome
    <3>2. Fits(rw, outcome)
      BY <3>1 DEF RWInv, TypeOK, Committed, Answered, AnswerFitsCommit, LogAgrees, Agrees, Fits, Outcome
    <3>3. Fits(rw', outcome)
      BY <1>3, <3>1, <3>2, FollowsFits
    <3>4. answer' \in Promise!Answers(outcome)
      BY <2>1, <3>1, <3>3, FittingAnswer DEF answer
    <3>. QED BY <1>1, <2>2, <2>4, <3>4 DEF Promise!Send, Promise!AnswerNext
  <2>. QED BY <2>3, <2>4
<1>. QED BY <1>5, <1>6

LEMMA AroundAsPromised ==
  ASSUME RWInv, Load \/ LoadFails \/ Disconnect \/ SetHeader \/ ClearHeader \/ ChangeSession \/ Panic
  PROVE  [Promise!AnswerNext]_<<version, outcome, saved, answer>>
<1>1. CASE Load \/ Disconnect \/ Panic
  BY <1>1 DEF Load, Disconnect, Panic, answer
<1>2. CASE SetHeader \/ ClearHeader
  <2>1. /\ rw'.status = rw.status /\ rw'.sent = rw.sent /\ rw'.body = rw.body
        /\ UNCHANGED <<version, outcome, saved>>
    BY <1>2 DEF SetHeader, ClearHeader, Serving, RWInv, TypeOK, Response
  <2>. QED BY <2>1 DEF answer, AnswerIn, ErrorIn
<1>3. CASE ChangeSession
  <2>1. Promise!Change
    BY <1>3 DEF ChangeSession, Promise!Change, answer
  <2>. QED BY <2>1 DEF Promise!AnswerNext
<1>4. CASE LoadFails
  <2>1. /\ rw \in Response /\ Agrees(rw) /\ rw.header = {"initial"} /\ rw.status = 0 /\ ~rw.taken
        /\ rw.sent = {} /\ rw.body = {} /\ outcome = "none" /\ version = 0
    BY <1>4 DEF LoadFails, RWInv, TypeOK, LogAgrees, Agrees, Uncommitted, Committed, Answered
  <2>2. answer = Promise!Unanswered
    BY <2>1, EmptyAnswer DEF answer
  <2>3. rw'.status = 500 /\ rw'.sent = {"initial", "plain"} /\ rw'.body = {"error"}
    BY <1>4, <2>1, PlainAnswers DEF LoadFails
  <2>4. answer' = Promise!Error
    BY <2>3, ErrorAnswer DEF answer
  <2>. QED BY <1>4, <2>1, <2>2, <2>4 DEF LoadFails, Promise!SendUnloaded, Promise!AnswerNext
<1>. QED BY <1>1, <1>2, <1>3, <1>4

LEMMA StepAsPromised ==
  ASSUME RWInv, [Next]_vars
  PROVE  [Promise!AnswerNext]_<<version, outcome, saved, answer>>
<1>1. CASE Writing
  <2>1. CASE Finalises
    BY <1>1, <2>1, WritingShape, FinalisesAsPromised
  <2>2. CASE UNCHANGED <<pc, outcome, saved, rw>>
    BY <1>1, <2>2, WritingShape DEF answer
  <2>. QED BY <1>1, <2>1, <2>2, WritingShape
<1>2. CASE UNCHANGED vars
  BY <1>2 DEF vars, answer
<1>. QED BY <1>1, <1>2, FinishesAsPromised, AroundAsPromised DEF Next, Writing

(* Through both writers, for every order of writes, the response keeps the     *)
(* promise of SessionAnswer: one commit, of the session as it was then, and    *)
(* one answer that fits it and stays.                                          *)
THEOREM WritersKeepPromise == Spec => ImplementsAnswer
<1>1. Init => Promise!AnswerInit
  BY EmptyAnswer DEF Init, Promise!AnswerInit, answer
<1>2. RWInv /\ [Next]_vars => [Promise!AnswerNext]_<<version, outcome, saved, answer>>
  BY StepAsPromised
<1>. QED BY <1>1, <1>2, RWInvariant, PTL
         DEF Spec, ImplementsAnswer, Promise!AnswerSpec, Promise!answerVars
=============================================================================
