----------------------------- MODULE McpServer -----------------------------
(***************************************************************************)
(* barq-witness mcp: a client writes requests to the standard input of one *)
(* process, line by line, and reads its answers from the standard output.  *)
(* The server takes one line at a time, while hooks and the daemon write   *)
(* the trace it reads.                                                     *)
(***************************************************************************)
EXTENDS Integers, Sequences

CONSTANTS
  Lines,     (* what a client may write: "report", "segment", "stats" and  *)
             (* "sessions" (tools), "other" (any other method or tool, the *)
             (* handshake included), "malformed", "blank", and "long" (a   *)
             (* line that does not fit into the scanner's buffer)          *)
  MaxLines   (* bound: lines the client writes                             *)

VARIABLES
  stored,    (* the rows of the trace by kind: its sessions, the edits that *)
             (* were checked to have their session, and the orphans, edits *)
             (* a second connection of the daemon stored unchecked         *)
  mpc,       (* "poll", "scan", "dispatch", "count" or "exited"            *)
  input,     (* the lines the client has written                           *)
  taken,     (* how many of them the server has read                       *)
  closed,    (* has the client closed the server's input?                  *)
  notified,  (* has a signal cancelled the context?                        *)
  counted,   (* what was stored when the edits were counted                *)
  answers    (* the answers, [line, ok, edits, sessions]                   *)

mcpVars == <<mpc, input, taken, closed, notified, counted, answers>>

Kinds == {"sessions", "edits", "orphans"}

NothingStored == [k \in Kinds |-> 0]

(* How often the trace has been written.                                   *)
trace == stored.sessions + stored.edits + stored.orphans

-----------------------------------------------------------------------------
(* A row is stored.  The foreign keys, where they are on, keep an edit out *)
(* whose session is not stored; they are on for the first connection only  *)
(* that a process opens.                                                   *)
StoreRow(k) ==
  /\ k = "edits" => stored.sessions > 0
  /\ stored' = [stored EXCEPT ![k] = @ + 1]

ClientWrites(l) ==
  /\ mpc # "exited" /\ ~closed /\ Len(input) < MaxLines
  /\ input' = Append(input, l)
  /\ UNCHANGED <<mpc, taken, closed, notified, counted, answers>>

ClientCloses ==
  /\ mpc # "exited" /\ ~closed
  /\ closed' = TRUE
  /\ UNCHANGED <<mpc, input, taken, notified, counted, answers>>

(* NotifyContext takes the signal, which then only cancels the context.    *)
NotifyContext ==
  /\ mpc # "exited" /\ ~notified
  /\ notified' = TRUE
  /\ UNCHANGED <<mpc, input, taken, closed, counted, answers>>

(* The loop looks at the context before it scans.                          *)
CheckContext ==
  /\ mpc = "poll"
  /\ mpc' = IF notified THEN "exited" ELSE "scan"
  /\ UNCHANGED <<input, taken, closed, notified, counted, answers>>

(* Scan waits for a line.  A line too long ends the server with an error,  *)
(* an empty one is passed over.                                            *)
Scan ==
  /\ mpc = "scan" /\ taken < Len(input)
  /\ taken' = taken + 1
  /\ mpc' = CASE input[taken + 1] = "long"  -> "exited"
              [] input[taken + 1] = "blank" -> "poll"
              [] OTHER -> "dispatch"
  /\ UNCHANGED <<input, closed, notified, counted, answers>>

ScanEnds ==
  /\ mpc = "scan" /\ taken = Len(input) /\ closed
  /\ mpc' = "exited"
  /\ UNCHANGED <<input, taken, closed, notified, counted, answers>>

Respond(a) == answers' = Append(answers, a)

Plain(ok) == [line |-> taken, ok |-> ok, edits |-> 0, sessions |-> 0]

(* Every request but that for the statistics is answered after one read,   *)
(* or none; a malformed one, an unknown one, one with wrong arguments and  *)
(* a read that fails are answered with an error.                           *)
Dispatch ==
  /\ mpc = "dispatch" /\ input[taken] # "stats"
  /\ \/ input[taken] # "malformed" /\ Respond(Plain(TRUE))
     \/ Respond(Plain(FALSE))
  /\ mpc' = "poll"
  /\ UNCHANGED <<input, taken, closed, notified, counted>>

(* GetStats counts the edits, and then, without a transaction ...          *)
CountEdits ==
  /\ mpc = "dispatch" /\ input[taken] = "stats"
  /\ \/ counted' = stored /\ mpc' = "count" /\ UNCHANGED answers
     \/ Respond(Plain(FALSE)) /\ mpc' = "poll" /\ UNCHANGED counted
  /\ UNCHANGED <<input, taken, closed, notified>>

Counted(e, n) ==
  [line |-> taken, ok |-> TRUE, edits |-> e.edits + e.orphans, sessions |-> n.sessions]

(* Faulty form of CountSessions: the sessions are counted before the edits. *)
BugSessionsFirst ==
  /\ mpc = "count"
  /\ Respond(Counted(stored, counted))
  /\ mpc' = "poll" /\ counted' = NothingStored
  /\ UNCHANGED <<input, taken, closed, notified>>

(* ... the sessions.                                                       *)
CountSessions ==
  /\ mpc = "count"
  /\ Respond(Counted(counted, stored)) \/ Respond(Plain(FALSE))
  /\ mpc' = "poll" /\ counted' = NothingStored
  /\ UNCHANGED <<input, taken, closed, notified>>

McpInit ==
  /\ mpc \in {"poll", "exited"}
  /\ input = <<>> /\ taken = 0 /\ closed = FALSE /\ notified = FALSE
  /\ counted = NothingStored /\ answers = <<>>

Client == ClientCloses \/ NotifyContext \/ \E l \in Lines : ClientWrites(l)

Serve ==
  CheckContext \/ Scan \/ ScanEnds \/ Dispatch \/ CountEdits \/ CountSessions

-----------------------------------------------------------------------------
(* Properties.                                                             *)

(* Whatever is written between the counts, the statistics show edits and   *)
(* no session only if all the edits they show may be orphans; and every    *)
(* line that asks for something is answered once, before the next line is  *)
(* read.                                                                   *)
AnswersCoherent ==
  /\ \A i \in DOMAIN answers :
       /\ answers[i].edits > stored.orphans => answers[i].sessions > 0
       /\ \A j \in 1..(i - 1) : answers[j].line < answers[i].line
  /\ mpc \in {"poll", "scan"} =>
       {answers[i].line : i \in DOMAIN answers}
         = {n \in 1..taken : input[n] # "blank"}

(* A signal ends the server.                                               *)
SignalEndsServer == notified ~> mpc = "exited"
=============================================================================
