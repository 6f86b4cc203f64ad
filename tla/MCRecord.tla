------------------------------ MODULE MCRecord ------------------------------
(* Scenarios of Record for TLC: which hooks run, and for which sessions.   *)
EXTENDS Record, TLC

CONSTANTS h1, h2, h3, s1, s2

(* Two prompts race one edit of the same session.                          *)
PromptsKind    == h1 :> "prompt" @@ h2 :> "prompt" @@ h3 :> "edit"
PromptsSession == h1 :> s1 @@ h2 :> s1 @@ h3 :> s1

(* The two prompts are interchangeable.                                    *)
PromptsSymmetry == Permutations({h1, h2})

(* A session is opened, a command runs in it, and a session without an id  *)
(* is closed.                                                              *)
SessionsKind    == h1 :> "session-start" @@ h2 :> "exec" @@ h3 :> "session-end"
SessionsSession == h1 :> s1 @@ h2 :> s1 @@ h3 :> NoSession

(* Two commands, in a session that is in the trace and in one that is not. *)
OrphansKind    == h1 :> "exec" @@ h2 :> "exec"
OrphansSession == h1 :> s1 @@ h2 :> s2
=============================================================================
