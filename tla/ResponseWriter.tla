---------------------------- MODULE ResponseWriter ----------------------------
(***************************************************************************)
(* One response on its way through the two writers that wrap net/http's:   *)
(* the session middleware's (middleware/session.go), which commits the     *)
(* session just before the final headers, and the request log's            *)
(* (middleware/requestlog.go), which records what was sent.  A handler     *)
(* writes through the outer one in any order: informational statuses,      *)
(* final ones, body, flushes, hijacks, several of each, until it returns   *)
(* or panics.                                                              *)
(*                                                                         *)
(* The response is a record that each layer's operators transform, in the  *)
(* order the Go methods call each other.  Headers are abstracted to whose  *)
(* they are, the body to who wrote it.                                     *)
(*                                                                         *)
(* Bound: the handler changes the session at most MaxChanges times.        *)
(***************************************************************************)
EXTENDS Integers

CONSTANTS Status,      \* statuses handlers pass to WriteHeader
          MaxChanges

ASSUME StatusAssumption == Status \subseteq 100..999 /\ MaxChanges \in Nat

(* "initial" headers are there before the middleware runs, the request ID     *)
(* among them; "plain" are those of a plain text error.                       *)
Owner == {"initial", "handler", "plain", "noStore", "cookie"}

VARIABLES
  pc,        \* loading the session, serving the request, returning through the log, or over
  version,   \* how often the handler has changed the session
  outcome,   \* what Commit made of it: none yet, saved, gone or failed
  saved,     \* the version Commit was given
  rw         \* the response

vars == <<pc, version, outcome, saved, rw>>

Statuses == {0, 101} \cup 200..999

Response == [header  : SUBSET Owner,              \* the header map
             status  : Statuses,                  \* net/http: the final status sent, or 0
             sent    : SUBSET Owner,              \* net/http: the headers sent with it
             body    : SUBSET {"handler", "error"},
             taken   : BOOLEAN,                   \* net/http: the connection is hijacked
             logged  : Statuses,                  \* the log's status
             logTaken: BOOLEAN]                   \* the log's hijacked

TypeOK == /\ pc \in {"loading", "serving", "returning", "done", "panicked"}
          /\ version \in 0..MaxChanges
          /\ outcome \in {"none", "saved", "gone", "failed"}
          /\ saved \in 0..MaxChanges
          /\ rw \in Response

Init == /\ pc = "loading"
        /\ version = 0
        /\ outcome = "none"
        /\ saved = 0
        /\ rw = [header |-> {"initial"}, status |-> 0, sent |-> {}, body |-> {},
                 taken |-> FALSE, logged |-> 0, logTaken |-> FALSE]

(* A bug: every status is taken for the final one. *)
IsFinalAlways(s) == s >= 100

(* A 1xx other than 101 leaves the final status still to come. *)
IsFinal(s) == s >= 200 \/ s = 101

-----------------------------------------------------------------------------
(* net/http's own writer, as the two above it use it. *)

NetWriteHeader(w, s) ==
  IF ~w.taken /\ w.status = 0 /\ IsFinal(s)
  THEN [w EXCEPT !.status = s, !.sent = w.header] ELSE w

NetWrite(w, author) ==
  IF w.taken THEN w ELSE [NetWriteHeader(w, 200) EXCEPT !.body = w.body \cup {author}]

(* HTTP/2 has no connection to hand over, and it is handed over once. *)
NetHijack(w, granted) == [w EXCEPT !.taken = w.taken \/ granted]

-----------------------------------------------------------------------------
(* requestLogResponseWriter. *)

(* A bug: the last status counts, not the first. *)
SetStatusAgain(w, s) == IF ~w.logTaken THEN [w EXCEPT !.logged = s] ELSE w

SetStatus(w, s) == IF w.logged = 0 /\ ~w.logTaken THEN [w EXCEPT !.logged = s] ELSE w

LogWriteHeader(w, s) == NetWriteHeader(IF IsFinal(s) THEN SetStatus(w, s) ELSE w, s)

LogWrite(w, author) == NetWrite(SetStatus(w, 200), author)

LogFlush(w) == NetWriteHeader(SetStatus(w, 200), 200)

LogHijack(w, granted) == [NetHijack(w, granted) EXCEPT !.logTaken = w.logTaken \/ granted]

(* httputil.RenderPlain *)
RenderPlain(w, s) ==
  LogWrite(LogWriteHeader([w EXCEPT !.header = w.header \cup {"plain"}], s), "error")

-----------------------------------------------------------------------------
(* sessionResponseWriter. *)

(* What finalise and finaliseOnce make of the response for each outcome. *)
Finalised(w, o) ==
  CASE o = "saved"  -> [w EXCEPT !.header = w.header \cup {"noStore", "cookie"}]
    [] o = "gone"   -> [w EXCEPT !.header = w.header \cup {"noStore"}]
    [] o = "failed" -> RenderPlain([w EXCEPT !.header = {"initial"}], 500)

Outcome == {"saved", "gone", "failed"}

(* A bug: every write commits the session, as it is by then. *)
FinaliseEachTime(o) == o \in Outcome /\ outcome' = o /\ saved' = version

(* sync.Once: Commit gets the session as it is at the first write, and the     *)
(* outcome of that commit stands.                                              *)
FinaliseOnce(o) == IF outcome = "none" THEN o \in Outcome /\ outcome' = o /\ saved' = version
                   ELSE o = outcome /\ UNCHANGED <<outcome, saved>>

After(o) == IF outcome = "none" THEN Finalised(rw, o) ELSE rw

Serving == pc = "serving" /\ UNCHANGED <<pc, version>>

WriteHeader(s) ==
  /\ Serving
  /\ IF IsFinal(s)
     THEN \E o \in Outcome : /\ FinaliseOnce(o)
                             /\ rw' = IF o = "failed" THEN After(o) ELSE LogWriteHeader(After(o), s)
     ELSE /\ UNCHANGED <<outcome, saved>>
          /\ rw' = IF outcome = "failed" THEN rw ELSE LogWriteHeader(rw, s)

Write ==
  /\ Serving
  /\ \E o \in Outcome : /\ FinaliseOnce(o)
                        /\ rw' = IF o = "failed" THEN After(o) ELSE LogWrite(After(o), "handler")

Flush ==
  /\ Serving
  /\ \E o \in Outcome : /\ FinaliseOnce(o)
                        /\ rw' = IF o = "failed" THEN After(o) ELSE LogFlush(After(o))

Hijack(granted) ==
  /\ Serving
  /\ \E o \in Outcome : /\ FinaliseOnce(o)
                        /\ rw' = IF o = "failed" THEN After(o) ELSE LogHijack(After(o), granted)

-----------------------------------------------------------------------------
(* The middleware around the handler. *)

Load ==
  /\ pc = "loading"
  /\ pc' = "serving"
  /\ UNCHANGED <<version, outcome, saved, rw>>

LoadFails ==
  /\ pc = "loading"
  /\ pc' = "returning"
  /\ rw' = RenderPlain(rw, 500)
  /\ UNCHANGED <<version, outcome, saved>>

Disconnect ==
  /\ pc = "loading"
  /\ pc' = "returning"
  /\ UNCHANGED <<version, outcome, saved, rw>>

(* What handlers do besides writing: set headers and change the session. *)
SetHeader ==
  /\ Serving
  /\ rw' = [rw EXCEPT !.header = rw.header \cup {"handler"}]
  /\ UNCHANGED <<outcome, saved>>

(* ReverseProxy clears the headers of a 1xx it has passed on, so that none of  *)
(* them is sent again with the final ones that follow.                         *)
ClearHeader ==
  /\ Serving
  /\ outcome = "none"
  /\ rw' = [rw EXCEPT !.header = {}]
  /\ UNCHANGED <<outcome, saved>>

ChangeSession ==
  /\ pc = "serving"
  /\ version < MaxChanges
  /\ version' = version + 1
  /\ UNCHANGED <<pc, outcome, saved, rw>>

(* A panic passes every writer by: nothing more is committed or sent. *)
Panic ==
  /\ pc = "serving"
  /\ pc' = "panicked"
  /\ UNCHANGED <<version, outcome, saved, rw>>

(* The handler returns, and the session is committed if it has not been. *)
Return ==
  /\ pc = "serving"
  /\ pc' = "returning"
  /\ \E o \in Outcome : FinaliseOnce(o) /\ rw' = After(o)
  /\ UNCHANGED version

(* The log records 200 for a response never written, and net/http sends it. *)
Finish ==
  /\ pc = "returning"
  /\ pc' = "done"
  /\ rw' = LogFlush(rw)
  /\ UNCHANGED <<version, outcome, saved>>

Next == \/ Load \/ LoadFails \/ Disconnect
        \/ SetHeader \/ ClearHeader \/ ChangeSession
        \/ (\E s \in Status : WriteHeader(s)) \/ Write \/ Flush
        \/ (\E granted \in BOOLEAN : Hijack(granted))
        \/ Panic \/ Return \/ Finish

Spec == Init /\ [][Next]_vars

-----------------------------------------------------------------------------
(* Properties. *)

(* The error that takes the place of an answer, and what is mixed into it.     *)
ErrorIn(w) == IF "error" \notin w.body THEN "none"
              ELSE IF w.sent = {"initial", "plain"} /\ w.body = {"error"} THEN "alone"
              ELSE "mixed"

AnswerIn(w) == [status |-> w.status, cookie |-> "cookie" \in w.sent, error |-> ErrorIn(w)]

answer == AnswerIn(rw)

Promise == INSTANCE SessionAnswer WITH Status <- Statuses \ {0}, session <- version

(* Through both writers, the response keeps the promise of SessionAnswer.  The *)
(* session is committed once, as it is at the first write, flush, hijack or    *)
(* the return (session.go:46-49).  The cookie is sent exactly if it was saved, *)
(* and the answer to one that could not be saved or loaded is the 500 alone:   *)
(* no header or byte of the handler's is in it, or follows (session.go:62-65,  *)
(* 177-180).                                                                   *)
ImplementsAnswer == Promise!AnswerSpec

(* The log's status is the final status sent, or none if none was: through    *)
(* 1xx, repeated statuses, replaced answers, hijacks and panics                *)
(* (requestlog.go:19-25).                                                      *)
LogAgrees == rw.logged = rw.status /\ rw.logTaken = rw.taken
=============================================================================
