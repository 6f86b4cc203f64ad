------------------------------- MODULE Import -------------------------------
(***************************************************************************)
(* barq-witness import: the session logs of other tools become rows of the *)
(* trace.  An import inserts the session first and then row by row,        *)
(* without a transaction; it may fail or be killed anywhere and be run     *)
(* again, beside other imports.                                            *)
(***************************************************************************)
EXTENDS AiderChat, SequencesExt

CONSTANTS
  Imports,   (* the processes that import, each once                       *)
  Logs,      (* the files, [tool, id, ...], see RowsOf; a file that grew   *)
             (* between two imports is two logs with one id                *)
  Chats,     (* histories of Aider that the parser is checked with         *)
  NoId       (* the id of a log that gives none                            *)

ASSUME ImportAssumption ==
  \A l \in Logs : \/ l.tool = "cursor" /\ l.events \in Seq(ToSet(l.events))
                  \/ /\ l.tool = "codex"
                     /\ l.patches \in Seq(ToSet(l.patches))
                     /\ l.executions \in Seq(ToSet(l.executions))
                  \/ l.tool = "aider" /\ l.lines \in Seq(ChatLines)

ASSUME ChatsAssumption == Chats \subseteq Seq(ChatLines)

VARIABLES
  sessions,  (* the rows of sessions, [id |-> session, by |-> import]      *)
  stored,    (* stored[p]: the rows p has inserted, in order               *)
  state,     (* state[p]: "idle", "session", "rows", and then "ok",        *)
             (* "skipped" or "failed"                                      *)
  log,       (* log[p]: the log p imports, in a set of at most one         *)
  next,      (* next[p]: the number of the row p inserts next              *)
  said       (* said[p]: the number of edits p says it imported, or -1     *)

importVars == <<sessions, stored, state, log, next, said>>

-----------------------------------------------------------------------------
(* A log without an id gets one fixed id per tool, which another log may   *)
(* give as its own; the id of a chat is a hash of its path.                *)
SessionOf(l) ==
  IF l.id # NoId THEN l.id
  ELSE IF l.tool = "cursor" THEN "cursor-imported" ELSE "codex-imported"

(* Only accepted edits of Cursor are imported; other events are ignored.   *)
CursorRows(l) ==
  LET kept(e) == (e.kind = "edit" /\ e.accepted) \/ e.kind = "exec"
  IN  Kept(l.events, {i \in DOMAIN l.events : kept(l.events[i])})

CodexRows(l) == l.patches \o l.executions

(* The rows a log is turned into, in the order of their insertion.         *)
RowsOf ==
  [l \in Logs |-> CASE l.tool = "cursor" -> CursorRows(l)
                     [] l.tool = "codex"  -> CodexRows(l)
                     [] l.tool = "aider"  -> ChatRows(l.lines)]

NumberOfEdits(rows) == Cardinality(OfKind(rows, "edit"))

Taken(s) == \E r \in sessions : r.id = s

-----------------------------------------------------------------------------
Running == {"session", "rows"}

(* The command opens the trace, reads the file and parses the whole of it  *)
(* before anything is stored.                                              *)
StartImport(p, l) ==
  /\ state[p] = "idle"
  /\ state' = [state EXCEPT ![p] = "session"]
  /\ log' = [log EXCEPT ![p] = {l}]
  /\ UNCHANGED <<sessions, stored, next, said>>

(* A session that is there already ends the import: it says 0 edits.       *)
InsertSession(p, l) ==
  /\ state[p] = "session"
  /\ IF Taken(SessionOf(l))
       THEN /\ state' = [state EXCEPT ![p] = "skipped"]
            /\ said' = [said EXCEPT ![p] = 0]
            /\ UNCHANGED sessions
       ELSE /\ state' = [state EXCEPT ![p] = "rows"]
            /\ sessions' = sessions \union {[id |-> SessionOf(l), by |-> p]}
            /\ UNCHANGED said
  /\ UNCHANGED <<stored, log, next>>

(* Faulty form of InsertRow: an error is logged, and the loop goes on.     *)
BugErrorLogged(p, l) ==
  /\ state[p] \in {"rows", "failed"} /\ next[p] <= Len(RowsOf[l])
  /\ \E r \in sessions : r.by = p
  /\ stored' = [stored EXCEPT ![p] = Append(@, RowsOf[l][next[p]])]
  /\ next' = [next EXCEPT ![p] = @ + 1]
  /\ UNCHANGED <<sessions, state, log, said>>

InsertRow(p, l) ==
  /\ state[p] = "rows" /\ next[p] <= Len(RowsOf[l])
  /\ stored' = [stored EXCEPT ![p] = Append(@, RowsOf[l][next[p]])]
  /\ next' = [next EXCEPT ![p] = @ + 1]
  /\ UNCHANGED <<sessions, state, log, said>>

(* Faulty form of Announce: all rows are counted.                          *)
BugCountsRows(p, l) ==
  /\ state[p] = "rows" /\ next[p] = Len(RowsOf[l]) + 1
  /\ state' = [state EXCEPT ![p] = "ok"]
  /\ said' = [said EXCEPT ![p] = Len(RowsOf[l])]
  /\ UNCHANGED <<sessions, stored, log, next>>

(* imported n edit(s)                                                      *)
Announce(p, l) ==
  /\ state[p] = "rows" /\ next[p] = Len(RowsOf[l]) + 1
  /\ state' = [state EXCEPT ![p] = "ok"]
  /\ said' = [said EXCEPT ![p] = NumberOfEdits(RowsOf[l])]
  /\ UNCHANGED <<sessions, stored, log, next>>

(* The trace does not open, the file is missing, malformed or has a line   *)
(* too long, a statement fails, or the process is killed: what it has      *)
(* inserted stays.                                                         *)
Fail(p) ==
  /\ state[p] \in Running
  /\ state' = [state EXCEPT ![p] = "failed"]
  /\ UNCHANGED <<sessions, stored, log, next, said>>

ImportInit ==
  /\ sessions = {}
  /\ stored = [p \in Imports |-> <<>>]
  /\ state = [p \in Imports |-> "idle"]
  /\ log = [p \in Imports |-> {}]
  /\ next = [p \in Imports |-> 1]
  /\ said = [p \in Imports |-> -1]

ImportStep(p) ==
  \/ \E l \in Logs : StartImport(p, l)
  \/ \E l \in log[p] : InsertSession(p, l) \/ InsertRow(p, l) \/ Announce(p, l)
  \/ Fail(p)

ImportNext == \E p \in Imports : ImportStep(p)

ImportSpec == ImportInit /\ [][ImportNext]_importVars

-----------------------------------------------------------------------------
(* Properties.                                                             *)

(* The rows in the trace come from their log, in its order and each once,  *)
(* and from the import that inserted the session: imports that are run     *)
(* again, run at the same time, or read another log with the same id add   *)
(* nothing to it.                                                          *)
OneImportPerSession ==
  /\ \A r, q \in sessions : r.id = q.id => r = q
  /\ \A p \in Imports : stored[p] # <<>> =>
       \E l \in log[p] :
         /\ [id |-> SessionOf(l), by |-> p] \in sessions
         /\ stored[p] = SubSeq(RowsOf[l], 1, Len(stored[p]))

(* What an import announces is in the trace: all rows of the log, and as   *)
(* many edits as it says.  It announces nothing else unless the session    *)
(* was there.                                                              *)
AnnouncedIsStored ==
  \A p \in Imports :
    \A l \in log[p] :
      /\ state[p] = "ok" => /\ stored[p] = RowsOf[l]
                            /\ said[p] = NumberOfEdits(stored[p])
      /\ state[p] = "skipped" =>
           \E r \in sessions : r.id = SessionOf(l) /\ r.by # p
      /\ said[p] # -1 => state[p] \in {"ok", "skipped"}

(* A session without all the rows of its log is still being imported, or   *)
(* its import failed or was killed.                                        *)
GapsHaveCause ==
  \A r \in sessions :
    \A l \in log[r.by] :
      stored[r.by] # RowsOf[l] => state[r.by] \in {"rows", "failed"}

(* What a failed import left out stays out: no later import fills the gap, *)
(* though each of them ends without an error.                              *)
GapsStay ==
  [][\A r \in sessions :
       state[r.by] = "failed" =>
         /\ r \in sessions'
         /\ \A p \in Imports :
              (\E l \in log[p] : SessionOf(l) = r.id) => stored'[p] = stored[p]]_importVars

Misread ==
  {chat \in Chats :
     \/ ~SectionsApart(chat) \/ ~InOrder(chat, Parse(chat))
     \/ Familiar(chat) /\ ~Extracted(chat, Parse(chat))}

(* Whatever the parser misreads of a chat, a fence in another language, a  *)
(* block that is never closed, it does not misread the sections that       *)
(* follow; its times keep the chat's order; and of a chat of what it knows *)
(* it misreads nothing, nor does the trace after an import of it that was  *)
(* announced.                                                              *)
ChatExtracted ==
  /\ Misread = {}
  /\ \A p \in Imports : \A l \in log[p] :
       state[p] = "ok" /\ l.tool = "aider" /\ Familiar(l.lines) =>
         Extracted(l.lines, stored[p])

(* What the compatibility test says it verifies of its chat: the prompts   *)
(* and edits of an imported chat are in the trace.                         *)
ImportedCorrectly ==
  \A p \in Imports : \A l \in log[p] :
    state[p] = "ok" /\ l.tool = "aider" => Extracted(l.lines, stored[p])
=============================================================================
