------------------------------- MODULE Export -------------------------------
(***************************************************************************)
(* barq-witness export: a CGPF document is collected from the trace with   *)
(* one query for the sessions and three for each of them, while hooks and  *)
(* imports go on writing, and is then written to a file.                   *)
(***************************************************************************)
EXTENDS Import

CONSTANTS
  HookRows,  (* what hooks may store in the session Live: prompts [id, kind] *)
             (* and edits [id, kind, prompt], prompt 0 standing for NULL   *)
  Live,      (* a session of hooks, whose id no log has                    *)
  Filters,   (* what --session may be: sets of ids, or Everything          *)
  Everything

ASSUME ExportAssumption ==
  /\ \A r, q \in HookRows : r.id = q.id => r = q
  /\ \A e \in HookRows : e.kind = "edit" /\ e.prompt # 0 =>
       \E q \in HookRows : q.kind = "prompt" /\ q.id = e.prompt
  /\ \A l \in Logs : SessionOf(l) # Live

VARIABLES
  hooked,    (* the rows of Live stored so far                             *)
  before,    (* the sessions and rows there were when the export began     *)
  filter,
  xpc,       (* "idle", "sessions", "prompts", "edits", "execs", "write",  *)
             (* "close", and then "done" or "failed"                       *)
  left,      (* the sessions still to be exported                          *)
  doc,       (* doc[s]: the rows of session s in the document              *)
  file       (* the --out file: "old", "torn" or "new"                     *)

exportVars == <<hooked, before, filter, xpc, left, doc, file>>
vars == <<importVars, exportVars>>

-----------------------------------------------------------------------------
(* The trace: its sessions, and the rows of kind k of a session.           *)
SessionIds == {Live} \union {r.id : r \in sessions}

Kinds == {"prompt", "edit", "exec"}

SessionRows(s, k) ==
  {r \in (IF s = Live THEN hooked
          ELSE UNION {ToSet(stored[q.by]) : q \in {t \in sessions : t.id = s}}) :
     r.kind = k}

Contents(s) == UNION {SessionRows(s, k) : k \in Kinds}

(* A hook stores a row; an edit names a prompt that is stored.             *)
HookWrites(r) ==
  /\ r \in HookRows \ hooked
  /\ r.kind = "edit" /\ r.prompt # 0 => \E q \in hooked : q.id = r.prompt
  /\ hooked' = hooked \union {r}
  /\ UNCHANGED <<importVars, before, filter, xpc, left, doc, file>>

-----------------------------------------------------------------------------
StartExport(f) ==
  /\ xpc = "idle"
  /\ xpc' = "sessions"
  /\ filter' = f
  /\ before' = [s \in SessionIds |-> Contents(s)]
  /\ UNCHANGED <<importVars, hooked, left, doc, file>>

(* Faulty form of ListSessions: the sessions are joined with their rows.   *)
BugJoined ==
  /\ xpc = "sessions"
  /\ left' = {s \in SessionIds : (filter = Everything \/ s \in filter) /\ Contents(s) # {}}
  /\ xpc' = IF left' = {} THEN "write" ELSE "prompts"
  /\ UNCHANGED <<importVars, hooked, before, filter, doc, file>>

(* AllSessions, of which the filter leaves those with the given id.  The   *)
(* commits of --from-commit and --to-commit are only copied into the       *)
(* document.                                                               *)
ListSessions ==
  /\ xpc = "sessions"
  /\ left' = IF filter = Everything THEN SessionIds ELSE SessionIds \intersect filter
  /\ xpc' = IF left' = {} THEN "write" ELSE "prompts"
  /\ UNCHANGED <<importVars, hooked, before, filter, doc, file>>

(* Faulty form of ReadPrompts: privacy leaves out the prompts altogether.  *)
BugNoPrompts(s) ==
  /\ xpc = "prompts" /\ s \in left
  /\ doc' = [t \in DOMAIN doc \union {s} |-> IF t = s THEN {} ELSE doc[t]]
  /\ xpc' = "edits"
  /\ UNCHANGED <<importVars, hooked, before, filter, left, file>>

(* The first query about the next session.                                 *)
ReadPrompts(s) ==
  /\ xpc = "prompts" /\ s \in left
  /\ doc' = [t \in DOMAIN doc \union {s} |->
               IF t = s THEN SessionRows(s, "prompt") ELSE doc[t]]
  /\ xpc' = "edits"
  /\ UNCHANGED <<importVars, hooked, before, filter, left, file>>

(* The session in work: in the document, but still on the list.            *)
Current == left \intersect DOMAIN doc

ReadEdits(s) ==
  /\ xpc = "edits" /\ s \in Current
  /\ doc' = [doc EXCEPT ![s] = @ \union SessionRows(s, "edit")]
  /\ xpc' = "execs"
  /\ UNCHANGED <<importVars, hooked, before, filter, left, file>>

(* Faulty form of ReadExecutions: the session stays on the list.           *)
BugStaysOnList(s) ==
  /\ xpc = "execs" /\ s \in Current
  /\ doc' = [doc EXCEPT ![s] = @ \union SessionRows(s, "exec")]
  /\ xpc' = "prompts"
  /\ UNCHANGED <<importVars, hooked, before, filter, left, file>>

(* The executions end the session.  Nothing in the program writes intent   *)
(* matches, so none is found.                                              *)
ReadExecutions(s) ==
  /\ xpc = "execs" /\ s \in Current
  /\ doc' = [doc EXCEPT ![s] = @ \union SessionRows(s, "exec")]
  /\ left' = left \ {s}
  /\ xpc' = IF left' = {} THEN "write" ELSE "prompts"
  /\ UNCHANGED <<importVars, hooked, before, filter, file>>

(* Any query or write may fail, which ends the export, as does a kill.      *)
ExportFails ==
  /\ xpc \notin {"idle", "done", "failed"}
  /\ xpc' = "failed"
  /\ left' = {} /\ doc' = <<>> /\ before' = <<>>
  /\ UNCHANGED <<importVars, hooked, filter, file>>

(* WriteFile empties the file before it writes it.                         *)
TruncateFile ==
  /\ xpc = "write"
  /\ file' = "torn"
  /\ xpc' = "close"
  /\ UNCHANGED <<importVars, hooked, before, filter, left, doc>>

WriteFile ==
  /\ xpc = "close"
  /\ file' = "new"
  /\ xpc' = "done"
  /\ UNCHANGED <<importVars, hooked, before, filter, left, doc>>

Init ==
  /\ ImportInit
  /\ hooked = {} /\ before = <<>> /\ filter = Everything
  /\ xpc = "idle" /\ left = {} /\ doc = <<>> /\ file = "old"

ExportStep ==
  \/ \E f \in Filters : StartExport(f)
  \/ ListSessions
  \/ \E s \in left : ReadPrompts(s) \/ ReadEdits(s) \/ ReadExecutions(s)
  \/ ExportFails
  \/ TruncateFile
  \/ WriteFile

Next ==
  \/ ImportNext /\ UNCHANGED exportVars
  \/ \E r \in HookRows : HookWrites(r)
  \/ ExportStep

Spec == Init /\ [][Next]_vars

-----------------------------------------------------------------------------
(* Properties.                                                             *)

(* Imports, the trace and the document hold values of their kinds.         *)
TypeOK ==
  /\ \A p \in Imports :
       /\ state[p] \in Running \union {"idle", "ok", "skipped", "failed"}
       /\ log[p] \subseteq Logs /\ Cardinality(log[p]) <= 1
       /\ state[p] = "idle" <=> log[p] = {}
       /\ Len(stored[p]) = next[p] - 1
  /\ hooked \subseteq HookRows
  /\ Cardinality(Current) <= 1
  /\ left \subseteq SessionIds /\ DOMAIN doc \subseteq SessionIds
  /\ file \in {"old", "torn", "new"}

Exported == DOMAIN doc \ left

(* Each session in the document holds every row that was there when the    *)
(* export began and no row that is not in the trace, and no session is     *)
(* missing, though the document is no state the trace ever had.            *)
DocumentBracketed ==
  /\ \A s \in DOMAIN doc : doc[s] \subseteq Contents(s)
  /\ \A s \in Exported \intersect DOMAIN before : before[s] \subseteq doc[s]
  /\ xpc \in {"write", "close", "done"} =>
       \A s \in DOMAIN before :
         filter = Everything \/ s \in filter => s \in DOMAIN doc

(* An edit in the document names a prompt in the document, unless hooks    *)
(* stored the prompt after the export began: prompts are read before       *)
(* edits.                                                                  *)
LinksLead ==
  Live \in DOMAIN doc =>
    \A e \in doc[Live] :
      e.kind = "edit" /\ e.prompt # 0 =>
        \E q \in Contents(Live) :
          /\ q.id = e.prompt /\ q.kind = "prompt"
          /\ q \in doc[Live] \/ q \notin before[Live]

(* The export says it has written the file only when the file is whole,    *)
(* and a torn file stays behind only an export that failed or was killed.  *)
FileWhole ==
  /\ xpc = "done" => file = "new"
  /\ file = "torn" => xpc \in {"close", "failed"}
=============================================================================
