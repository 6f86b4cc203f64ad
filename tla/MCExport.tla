------------------------------ MODULE MCExport ------------------------------
(* Instances of Export for TLC.                                            *)
EXTENDS Export

CONSTANTS p1, p2

ImportsSymmetry == Permutations({p1, p2})

Row(k, n) == [kind |-> k, line |-> n, ts |-> n]
Line(k)   == [kind |-> k, at |-> 0]

Header(t) == [kind |-> "header", at |-> t]

AnswerLines == {"sh", "plain", "other", "human", "modified", "text", "blank"}

(* A chat of two sittings: a prompt that may be empty, an answer of four   *)
(* lines of any kind before a modified file, a second answer and a prompt  *)
(* at the end.                                                             *)
SomeChats ==
  {<<Header(10), Line("user"), Line(x), Line("assistant"),
     Line(a), Line(b), Line(c), Line(d), Line("modified"),
     Line("assistant"), Line("modified"), Header(11), Line("user"), Line("text")>> :
     x \in {"text", "blank"}, a \in AnswerLines, b \in AnswerLines,
     c \in AnswerLines, d \in AnswerLines}

Grown(n) ==
  <<Header(10), Line("user"), Line("text"), Line("assistant"), Line("modified")>>
    \o IF n = 1 THEN <<>> ELSE <<Line("modified")>>

(* A log without an id, another tool's log with the id that one is given,  *)
(* and a chat that grows between two imports.                              *)
SomeLogs ==
  {[tool |-> "cursor", id |-> NoId,
    events |-> <<[kind |-> "edit", line |-> 1, ts |-> 5, accepted |-> TRUE],
                 [kind |-> "edit", line |-> 2, ts |-> 6, accepted |-> FALSE]>>],
   [tool |-> "codex", id |-> "cursor-imported",
    patches |-> <<Row("edit", 1)>>, executions |-> <<Row("exec", 2)>>],
   [tool |-> "aider", id |-> "a", lines |-> Grown(1)],
   [tool |-> "aider", id |-> "a", lines |-> Grown(2)]}

SomeHookRows ==
  {[id |-> 1, kind |-> "prompt"], [id |-> 2, kind |-> "edit", prompt |-> 1]}

SomeLive    == "live"
SomeFilters == {Everything, {"a"}}

(* The chat of tests/fixtures, but for repeated lines.                     *)
FixtureChat ==
  <<Header(10), Line("human"), Line("text"), Line("assistant"), Line("text"),
    Line("modified"), Line("modified"), Line("other"), Line("text"), Line("plain"),
    Line("human"), Line("text"), Line("assistant"), Line("text"), Line("modified")>>

FixtureChats == {FixtureChat}

FixtureLogs == {[tool |-> "aider", id |-> "a", lines |-> l] : l \in FixtureChats}
=============================================================================
