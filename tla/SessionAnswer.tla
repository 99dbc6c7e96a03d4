---------------------------- MODULE SessionAnswer ----------------------------
(***************************************************************************)
(* What the session middleware promises of one response, without writers   *)
(* or headers (the docs of Session and sessionResponseWriter,              *)
(* middleware/session.go:38-65, 177-180): the session is committed at most *)
(* once, as it is at that instant and never after an answer; the answer    *)
(* tells what came of it; and a commit that fails is answered on the spot, *)
(* by an error that nothing else is mixed into.                            *)
(***************************************************************************)
EXTENDS Integers

CONSTANTS Status     \* final statuses of answers

VARIABLES session,   \* which version of the session the handler has
          outcome,   \* what Commit made of it: none yet, saved, gone or failed
          saved,     \* the version Commit was given
          answer     \* the answer sent

answerVars == <<session, outcome, saved, answer>>

(* error: whether the middleware's error is no part of an answer, all of it,   *)
(* or mixed with the handler's headers or bytes.                               *)
Answer(status, cookie, error) == [status |-> status, cookie |-> cookie, error |-> error]

Unanswered == Answer(0, FALSE, "none")
Error      == Answer(500, FALSE, "alone")

AnswerInit == /\ session = 0
              /\ outcome = "none"
              /\ saved = 0
              /\ answer = Unanswered

Change == /\ session' = session + 1
          /\ UNCHANGED <<outcome, saved, answer>>

(* The cookie is sent exactly if the session was saved. *)
Answers(o) == CASE o = "saved"  -> {Answer(s, TRUE, "none") : s \in Status}
                [] o = "gone"   -> {Answer(s, FALSE, "none") : s \in Status}
                [] o = "failed" -> {Error}

Commits(o) == /\ outcome = "none"
              /\ outcome' = o
              /\ saved' = session

(* The answer is sent with the commit, or follows, or never does (the handler  *)
(* hijacks the connection, or panics).                                         *)
Commit(o) == /\ answer = Unanswered
             /\ Commits(o)
             /\ answer' \in Answers(o) \cup (IF o = "failed" THEN {} ELSE {Unanswered})
             /\ UNCHANGED session

Send == /\ answer = Unanswered
        /\ outcome # "none"
        /\ answer' \in Answers(outcome)
        /\ UNCHANGED <<session, outcome, saved>>

(* A session that could not be loaded is answered without a commit: by the     *)
(* error, or by nothing in a 200 to a client that has gone.                    *)
SendUnloaded == /\ answer = Unanswered
                /\ session = 0
                /\ outcome = "none"
                /\ answer' \in {Error, Answer(200, FALSE, "none")}
                /\ UNCHANGED <<session, outcome, saved>>

AnswerNext == \/ Change
              \/ \E o \in {"saved", "gone", "failed"} : Commit(o)
              \/ Send
              \/ SendUnloaded

AnswerSpec == AnswerInit /\ [][AnswerNext]_answerVars
=============================================================================
