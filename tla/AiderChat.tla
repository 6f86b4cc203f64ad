----------------------------- MODULE AiderChat -----------------------------
(***************************************************************************)
(* The parser of ImportFromChat: what a chat history of Aider holds.  A    *)
(* line is a record [kind, at]; at is the time of a "header" line and 0    *)
(* otherwise.  The other kinds are "user", "human" and "assistant" (the    *)
(* headings ## User, ## Human and ## Assistant), "sh", "plain" and "other" *)
(* (code fences with the language bash or sh, with none, with another      *)
(* one), "modified", "text" and "blank".                                   *)
(***************************************************************************)
EXTENDS Integers, Sequences, Data

Fences == {"sh", "plain", "other"}

ChatLines ==
  [kind : {"header", "user", "human", "assistant", "modified", "text", "blank"} \union Fences,
   at   : Nat]

RowKinds == {"prompt", "edit", "exec"}

(* The parser's variables; a row is [kind, line, ts], where line is the    *)
(* line that produced it.                                                  *)
Start == [started |-> 0, sec |-> "none", said |-> FALSE, bash |-> "closed",
          offset |-> 0, rows |-> <<>>]

(* nextTS, and the record appended with it.                                *)
Emit(s, kind, n) ==
  [s EXCEPT !.offset = @ + 1,
            !.rows = Append(@, [kind |-> kind, line |-> n,
                                ts |-> s.started + s.offset + 1])]

flushUser(s, n) == IF s.sec = "user" /\ s.said THEN Emit(s, "prompt", n) ELSE s

(* Faulty form of Heading: the block stays open.                           *)
BugBlockStaysOpen(s, sec, n) ==
  [flushUser(s, n) EXCEPT !.sec = sec, !.said = FALSE]

Heading(s, sec, n) ==
  [flushUser(s, n) EXCEPT !.sec = sec, !.said = FALSE, !.bash = "closed"]

(* A fence closes the block that is open, if any; only a fence of commands *)
(* opens one.  An empty block is no command.                               *)
Fence(s, kind, n) ==
  IF s.bash = "closed"
    THEN [s EXCEPT !.bash = IF kind = "other" THEN @ ELSE "empty"]
    ELSE [(IF s.bash = "filled" THEN Emit(s, "exec", n) ELSE s)
            EXCEPT !.bash = "closed"]

AssistantLine(s, kind, n) ==
  IF kind \in Fences THEN Fence(s, kind, n)
  ELSE IF s.bash # "closed"
    THEN [s EXCEPT !.bash = IF kind = "blank" THEN @ ELSE "filled"]
  ELSE IF kind = "modified" THEN Emit(s, "edit", n) ELSE s

(* Faulty form of HeaderLine: the offset starts again.                     *)
BugHeaderRestarts(s, t) == [s EXCEPT !.started = t, !.offset = 0]

HeaderLine(s, t) == [s EXCEPT !.started = t]

(* A ## Human is a line like any other.                                    *)
ParseLine(s, l, n) ==
  CASE l.kind = "header"                -> HeaderLine(s, l.at)
    [] l.kind \in {"user", "assistant"} -> Heading(s, l.kind, n)
    [] OTHER ->
         CASE s.sec = "user"      -> [s EXCEPT !.said = @ \/ l.kind # "blank"]
           [] s.sec = "assistant" -> AssistantLine(s, l.kind, n)
           [] s.sec = "none"      -> s

(* The parser's variables after n lines.                                   *)
After(chat) ==
  LET after[n \in 0..Len(chat)] ==
        IF n = 0 THEN Start ELSE ParseLine(after[n - 1], chat[n], n)
  IN  after

(* Everything the chat holds, in the order in which it was found.          *)
Parse(chat) == flushUser(After(chat)[Len(chat)], Len(chat) + 1).rows

OfKind(rows, k) == {i \in DOMAIN rows : rows[i].kind = k}

Found(rows, k) == {rows[i].line : i \in OfKind(rows, k)}

(* The order of insertion: prompts, edits, executions.                     *)
ChatRows(chat) ==
  LET rows  == Parse(chat)
      of(k) == Kept(rows, OfKind(rows, k))
  IN  of("prompt") \o of("edit") \o of("exec")

-----------------------------------------------------------------------------
(* Reference definitions: what a reader of the chat sees in it.            *)

Headings(chat) == {n \in DOMAIN chat : chat[n].kind \in {"user", "human", "assistant"}}

(* The section of line n: the last heading before it.                      *)
HeadingOf(chat, n) ==
  LET H == {h \in Headings(chat) : h < n}
  IN  IF H = {} THEN 0 ELSE CHOOSE h \in H : \A g \in H : g <= h

Section(chat, n) ==
  IF HeadingOf(chat, n) = 0 THEN "none"
  ELSE IF chat[HeadingOf(chat, n)].kind = "assistant" THEN "assistant" ELSE "user"

(* The fences of an assistant's section open and close blocks in turn.     *)
FencesBefore(chat, n) ==
  {f \in HeadingOf(chat, n)..(n - 1) : f > 0 /\ chat[f].kind \in Fences}

InBlock(chat, n) == Cardinality(FencesBefore(chat, n)) % 2 = 1

SeenEdits(chat) ==
  {n \in DOMAIN chat : /\ chat[n].kind = "modified"
                       /\ Section(chat, n) = "assistant"
                       /\ ~InBlock(chat, n)}

(* The closing fences of the blocks of commands that hold any.             *)
SeenCommands(chat) ==
  {n \in DOMAIN chat :
     /\ chat[n].kind \in Fences /\ Section(chat, n) = "assistant" /\ InBlock(chat, n)
     /\ \E o \in FencesBefore(chat, n) :
          /\ \A f \in FencesBefore(chat, n) : f <= o
          /\ chat[o].kind # "other"
          /\ \E i \in (o + 1)..(n - 1) : chat[i].kind \notin {"blank", "header"}}

(* The headings of the user's sections that say something.                 *)
SeenPrompts(chat) ==
  {h \in Headings(chat) :
     /\ chat[h].kind # "assistant"
     /\ \E n \in DOMAIN chat \ Headings(chat) :
          HeadingOf(chat, n) = h /\ chat[n].kind \notin {"blank", "header"}}

(* The rows are what a reader sees: the files said to be modified, outside *)
(* of blocks of code, the blocks of commands, and the prompts.             *)
Extracted(chat, rows) ==
  /\ Found(rows, "edit") = SeenEdits(chat)
  /\ Found(rows, "exec") = SeenCommands(chat)
  /\ Cardinality(OfKind(rows, "prompt")) = Cardinality(SeenPrompts(chat))

(* A chat of what the parser knows.                                        *)
Familiar(chat) == \A n \in DOMAIN chat : chat[n].kind \notin {"human", "other"}

(* After a heading the parser knows, it finds what it would find if the    *)
(* chat began there.                                                       *)
SectionsApart(chat) ==
  \A h \in DOMAIN chat : chat[h].kind \in {"user", "assistant"} =>
    \A k \in RowKinds :
      {n \in Found(Parse(chat), k) : n > h}
        = {n + h - 1 : n \in Found(Parse(SubSeq(chat, h, Len(chat))), k)}

(* No two records have the same time, and they have the order of the file, *)
(* as long as the headers' times do not fall.                              *)
InOrder(chat, rows) ==
  LET headers == {n \in DOMAIN chat : chat[n].kind = "header"}
  IN  (\A i, j \in headers : i < j => chat[i].at <= chat[j].at)
        => \A i, j \in DOMAIN rows : i < j => rows[i].ts < rows[j].ts
=============================================================================
