------------------------------ MODULE MCReport ------------------------------
(* Instances of Report for TLC.                                            *)
EXTENDS Report

Prompt(i, t) == [kind |-> "prompt", id |-> i, session |-> "s", ts |-> t]

Edit(i, s, t, f, p, l) ==
  [kind |-> "edit", id |-> i, session |-> s, ts |-> t, file |-> f,
   prompt |-> p, lines |-> l, diff |-> p # 0, long |-> FALSE]

Exec(i, t, F, c, x, v) ==
  [kind |-> "exec", id |-> i, session |-> "s", ts |-> t, files |-> F,
   class |-> c, exit |-> x, via |-> v]

(* A prompt; two edits of one file, the first linked to the prompt and     *)
(* quick, the second outside the lines of the diff; a test that fails and  *)
(* one that passes, which runs the file; an edit of a test file; a run     *)
(* recorded by the daemon; an edit of another session to a new file.       *)
SomeRows ==
  {Prompt(1, 1000),
   Edit(2, "s", 5999, "auth.go", 1, <<1, 2>>),
   Edit(3, "s", 9000, "auth.go", 0, <<7, 9>>),
   Exec(4, 4000, {}, "test", "fail", "direct"),
   Exec(5, 9500, {"auth.go"}, "test", "ok", "direct"),
   Edit(6, "s", 7000, "auth_test.go", 0, <<>>),
   Exec(7, 9500, {"auth.go"}, "other", "ok", "daemon"),
   Edit(8, "t", 9200, "go.mod", 0, <<>>)}

(* auth.go is changed twice, the second time by one line; old.go goes and  *)
(* go.mod comes.                                                           *)
SomeTree ==
  <<[f \in {"auth.go", "old.go"} |-> <<"a", "b">>],
    [f \in {"auth.go"} |-> <<"a">>],
    [f \in {"auth.go", "go.mod"} |-> IF f = "auth.go" THEN <<"a", "c">> ELSE <<"t">>]>>

Request(b, f, t, c) == [by |-> b, from |-> f, to |-> t, commit |-> c]

(* A commit that --commit names, and a range.                              *)
SomeRequests == {Request("report", NotGiven, NotGiven, 2), Request("mcp", 1, HEAD, NotGiven)}

SomeReplies == {<<2, 1, 5>>}
OnePlugin   == <<"license">>
=============================================================================
