----------------------------- MODULE ApiClient -----------------------------
(***************************************************************************)
(* models/api_client.py: the HTTP client of the agentic tools and of the   *)
(* order events.  A call makes an attempt, and one more when the first is  *)
(* not answered or is answered with a server error; any other answer is    *)
(* final.  The client keeps no state of its own (one is built per call):   *)
(* what a call does after an attempt is a function of how it went.         *)
(***************************************************************************)
EXTENDS Integers

MaxRetries == 1

\* What an answer can be: a 2xx with a body, an error status, a redirect, or a
\* 2xx whose body is not JSON.  The client looks at the status alone: an
\* envelope that says success = false is returned like any other body.
Answer == {"ok", "error5", "error4", "redirect", "garbled"}

\* A read or connect time-out, or a broken connection.
NoAnswer == "none"

Transient == {NoAnswer, "error5"}

\* Mutant of AfterAttempt: resp.ok is not looked at.
AfterAttemptAnyStatus(n, answer) ==
    IF answer \in Transient /\ n <= MaxRetries THEN "retry"
    ELSE IF answer \in {"ok", "error4", "error5"} THEN "ok" ELSE "failed"

\* Mutant of AfterAttempt: one attempt too many.
AfterAttemptByOne(n, answer) ==
    IF answer \in Transient /\ n <= MaxRetries + 1 THEN "retry"
    ELSE IF answer = "ok" THEN "ok" ELSE "failed"

\* After attempt number n (from 1): another one, the result, or an error that
\* is raised to the caller.
AfterAttempt(n, answer) ==
    IF answer \in Transient /\ n <= MaxRetries THEN "retry"
    ELSE IF answer = "ok" THEN "ok" ELSE "failed"
=============================================================================
