------------------------------ MODULE Migrate ------------------------------
(***************************************************************************)
(* Opening the trace database: store.Open applies the schema and the       *)
(* incremental migrations, one autocommitted statement after the other.    *)
(* Every hook, report and daemon opens the database and works on it until  *)
(* it closes it, so openers meet others that open it and others that read  *)
(* and write it, and any of them may be killed between two statements.     *)
(***************************************************************************)
EXTENDS Naturals, Sequences

CONSTANT Openers  (* the processes that open the database, each once       *)

VARIABLES
  tables,   (* the tables that exist                                       *)
  source,   (* does sessions have the column source?                       *)
  version,  (* meta's schema_version, 0 when the row is missing            *)
  pc,       (* pc[o]: the next statement of opener o                       *)
  alone     (* the openers that have met no other process at the database  *)

vars == <<tables, source, version, pc, alone>>

(* The tables of schema.sql, in the order of their statements.             *)
Statements == <<"sessions", "prompts", "edits", "executions">>
Schema == {Statements[i] : i \in DOMAIN Statements}

Ended == {"idle", "failed", "closed", "killed"}

(* The processes that have the database open: inside Open, or later, with  *)
(* the store it returned.  Each of them may lock the database at any time. *)
Active == {o \in Openers : pc[o] \notin Ended}

Goto(o, next) == pc' = [pc EXCEPT ![o] = next]

-----------------------------------------------------------------------------
(* An open begins; the processes it meets at the database are no longer    *)
(* alone, and neither is it.                                               *)
Begin(o) ==
  /\ pc[o] = "idle"
  /\ Goto(o, "schema")
  /\ alone' = IF Active = {} THEN alone ELSE alone \ (Active \union {o})
  /\ UNCHANGED <<tables, source, version>>

(* CREATE TABLE IF NOT EXISTS, table by table.  The sessions table of      *)
(* schema.sql has no column source; an existing one is left as it is.      *)
ApplySchema(o) ==
  /\ pc[o] = "schema"
  /\ \/ /\ \E i \in DOMAIN Statements :
             /\ Statements[i] \notin tables
             /\ \A j \in 1..(i - 1) : Statements[j] \in tables
             /\ tables' = tables \union {Statements[i]}
        /\ UNCHANGED pc
     \/ /\ Schema \subseteq tables
        /\ Goto(o, "meta")
        /\ UNCHANGED tables
  /\ UNCHANGED <<source, version, alone>>

CreateMeta(o) ==
  /\ pc[o] = "meta"
  /\ tables' = tables \union {"meta"}
  /\ Goto(o, "version")
  /\ UNCHANGED <<source, version, alone>>

(* Faulty form of ReadVersion: the second migration is taken for done at   *)
(* version 1.                                                              *)
BugSkipsSecond(o) ==
  /\ pc[o] = "version"
  /\ Goto(o, IF version < 1 THEN "create" ELSE "opened")
  /\ UNCHANGED <<tables, source, version, alone>>

(* Faulty form of ReadVersion: the row is looked for under another key.    *)
BugMissesVersion(o) ==
  /\ pc[o] = "version"
  /\ Goto(o, "create")
  /\ UNCHANGED <<tables, source, version, alone>>

(* schemaVersion: an error of the query reads as version 0.                *)
ReadVersion(o) ==
  /\ pc[o] = "version"
  /\ \E v \in {version} \union (IF Active = {o} THEN {} ELSE {0}) :
       Goto(o, CASE v < 1 -> "create" [] v = 1 -> "check" [] OTHER -> "opened")
  /\ UNCHANGED <<tables, source, version, alone>>

(* Migration 1.                                                            *)
CreateIntentMatches(o) ==
  /\ pc[o] = "create"
  /\ tables' = tables \union {"intent_matches"}
  /\ Goto(o, "set1")
  /\ UNCHANGED <<source, version, alone>>

SetVersionOne(o) ==
  /\ pc[o] = "set1"
  /\ version' = 1
  /\ Goto(o, "check")
  /\ UNCHANGED <<tables, source, alone>>

(* Faulty form of CheckColumn: no look at the columns there are.           *)
BugAltersBlindly(o) ==
  /\ pc[o] = "check"
  /\ Goto(o, IF "sessions" \notin tables THEN "set2" ELSE "alter")
  /\ UNCHANGED <<tables, source, version, alone>>

(* Migration 2: look for the table and the column ...                      *)
CheckColumn(o) ==
  /\ pc[o] = "check"
  /\ Goto(o, IF "sessions" \notin tables \/ source THEN "set2" ELSE "alter")
  /\ UNCHANGED <<tables, source, version, alone>>

(* ... and add it.  ALTER TABLE fails when the column is there by now.     *)
AddColumn(o) ==
  /\ pc[o] = "alter"
  /\ source' = TRUE
  /\ Goto(o, IF source THEN "failed" ELSE "set2")
  /\ UNCHANGED <<tables, version, alone>>

(* Faulty form of SetVersionTwo: the version is counted up, not set.       *)
BugCountsUp(o) ==
  /\ pc[o] = "set2"
  /\ version' = version + 1
  /\ Goto(o, "opened")
  /\ UNCHANGED <<tables, source, alone>>

SetVersionTwo(o) ==
  /\ pc[o] = "set2"
  /\ version' = 2
  /\ Goto(o, "opened")
  /\ UNCHANGED <<tables, source, alone>>

(* A lock somebody else holds, be it an opener or a process that reads,    *)
(* writes or checkpoints, outlasts the busy timeout, or is met by PRAGMA   *)
(* journal_mode before there is a timeout: Open returns the error.         *)
Busy(o) ==
  /\ o \in Active /\ pc[o] # "opened"
  /\ Active # {o}
  /\ Goto(o, "failed")
  /\ UNCHANGED <<tables, source, version, alone>>

(* The process closes the store, or ends.                                  *)
Close(o) ==
  /\ pc[o] = "opened"
  /\ Goto(o, "closed")
  /\ UNCHANGED <<tables, source, version, alone>>

(* The process is killed between two statements.                           *)
Kill(o) ==
  /\ o \in Active
  /\ Goto(o, "killed")
  /\ UNCHANGED <<tables, source, version, alone>>

-----------------------------------------------------------------------------
(* The databases there are: none yet, one from before migrations, one from *)
(* before the second migration, and a current one.                         *)
Init ==
  /\ \/ tables = {} /\ source = FALSE /\ version = 0
     \/ tables = Schema /\ source = FALSE /\ version = 0
     \/ /\ tables = Schema \union {"meta", "intent_matches"}
        /\ \/ source = FALSE /\ version = 1
           \/ source = TRUE /\ version = 2
  /\ pc = [o \in Openers |-> "idle"]
  /\ alone = Openers

Step(o) ==
  \/ ApplySchema(o)
  \/ CreateMeta(o)
  \/ ReadVersion(o)
  \/ CreateIntentMatches(o)
  \/ SetVersionOne(o)
  \/ CheckColumn(o)
  \/ AddColumn(o)
  \/ SetVersionTwo(o)
  \/ Busy(o)

Next == \E o \in Openers : Begin(o) \/ Step(o) \/ Close(o) \/ Kill(o)

Spec == Init /\ [][Next]_vars

-----------------------------------------------------------------------------
(* Properties.                                                             *)

(* The type of every variable.                                             *)
TypeOK ==
  /\ tables \subseteq Schema \union {"meta", "intent_matches"}
  /\ source \in BOOLEAN
  /\ version \in 0..2
  /\ pc \in [Openers -> Ended \union {"opened", "schema", "meta", "version", "create",
                                      "set1", "check", "alter", "set2"}]
  /\ alone \subseteq Openers

(* A store that Open returned can be used, and so can the database it has  *)
(* been closed on: every table the statements of store.go name exists,     *)
(* with the column source, whoever else was opening or was killed half-way *)
(* before.                                                                 *)
OpenedStoreUsable ==
  \A o \in Openers :
    pc[o] \in {"opened", "closed"} =>
      source /\ Schema \union {"meta", "intent_matches"} \subseteq tables

(* A database marked as migrated is migrated: no order of statements of    *)
(* several openers, and no kill, leaves version 2 without the column that  *)
(* later opens then skip.                                                  *)
VersionTwoHasColumn == version = 2 => source

(* An open fails only because another process opens the database or has it *)
(* open meanwhile: whatever a killed one left behind is repaired by the    *)
(* next, and no statement fails on what an open by itself has read.        *)
FailsOnlyInCompany == \A o \in Openers : pc[o] = "failed" => o \notin alone

(* The schema version falls only by an open that met another process at    *)
(* the database: one by itself never takes it back, whatever it finds.     *)
RegressesOnlyInCompany ==
  [][version' < version => \E o \in Openers \ alone : pc[o] = "set1"]_vars
=============================================================================
