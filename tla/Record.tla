------------------------------- MODULE Record -------------------------------
(***************************************************************************)
(* The recording path of barq-witness.  The coding agent runs one          *)
(* short-lived `barq-witness record <event>` process per event (a hook).   *)
(* A hook offers its event to the optional daemon over a Unix socket and,  *)
(* when the daemon is absent, silent or refuses, writes it to the SQLite   *)
(* trace itself.  Hooks of one or more sessions overlap; the daemon may be *)
(* stopped, crash and come back while they run.                            *)
(*                                                                         *)
(* Every table of the trace is append-only, so the store is the set        *)
(* `writes' of the INSERTs and UPDATEs that succeeded: a table is the      *)
(* subset of the writes made for events of its kind.                       *)
(***************************************************************************)
EXTENDS Naturals

CONSTANTS
  Hooks,      (* the hook processes; each records one event                *)
  Kind,       (* Kind[h]: the `record' subcommand h was started with       *)
  Session,    (* Session[h]: the session_id of its payload                 *)
  NoSession,  (* the empty session_id, which a payload may carry           *)
  Existing,   (* sessions whose row was in the trace before any hook ran   *)
  Oversize,   (* hooks whose JSON line may exceed the daemon's scan buffer *)
  MaxStarts,  (* bound: how many times the daemon is started               *)
  MaxClock    (* bound: the last millisecond of the wall clock             *)

Kinds == {"session-start", "prompt", "edit", "exec", "session-end"}

ASSUME RecordAssumption ==
  /\ Kind \in [Hooks -> Kinds]
  /\ Oversize \subseteq Hooks
  /\ MaxStarts \in Nat
  /\ MaxClock \in Nat

VARIABLES
  daemon,     (* the daemon process                                        *)
  starts,     (* how many times it has been started                        *)
  pool,       (* pool[h]: database connection h's request handler holds    *)
  spare,      (* has database/sql opened a connection besides the first?   *)
  conn,       (* conn[h]: the socket between h and the daemon, both ends   *)
  pc,         (* pc[h]: where hook h is                                    *)
  clock,      (* wall clock, in milliseconds                               *)
  ts,         (* ts[h]: the timestamp h captured when it started           *)
  floor,      (* floor[h]: latest prompt of h's session at that moment     *)
  link,       (* link[h]: the prompt found for an edit (0: none)           *)
  unlinked,   (* edits whose lookup of the latest prompt failed            *)
  logged,     (* hooks that left a line in barq-witness.log                *)
  writes,     (* the statements that changed the trace                     *)
  nextId      (* the next row id.  One counter stands for every table's     *)
              (* AUTOINCREMENT: only the order within a table is used.      *)

daemonVars == <<daemon, starts>>
poolVars   == <<pool, spare>>
hookVars   == <<pc, logged>>
eventVars  == <<clock, ts, floor>>
linkVars   == <<link, unlinked>>
storeVars  == <<writes, nextId>>
vars == <<daemonVars, poolVars, conn, hookVars, eventVars, linkVars, storeVars>>

-----------------------------------------------------------------------------
(* The store.                                                              *)

Prompts(s) == {w \in writes : Kind[w.hook] = "prompt" /\ Session[w.hook] = s}

HasSession(s) ==
  \/ s \in Existing
  \/ \E w \in writes : Kind[w.hook] = "session-start" /\ Session[w.hook] = s

(* ORDER BY timestamp DESC, id DESC: p is listed no later than q.          *)
AtLeastAsRecent(p, q) ==
  \/ ts[q.hook] < ts[p.hook]
  \/ ts[q.hook] = ts[p.hook] /\ q.id <= p.id

(* Faulty form of IsLatestPrompt: LIMIT 1 without the ORDER BY.            *)
BugNoOrderBy(s, l) ==
  \/ Prompts(s) = {} /\ l = 0
  \/ \E p \in Prompts(s) : l = p.id

(* l is the id LatestPromptForSession(s) returns, 0 when it returns nil.   *)
IsLatestPrompt(s, l) ==
  \/ Prompts(s) = {} /\ l = 0
  \/ \E p \in Prompts(s) :
       /\ l = p.id
       /\ \A q \in Prompts(s) : AtLeastAsRecent(p, q)

(* The constraints under which h's statement succeeds on a connection that *)
(* enforces foreign keys iff fk.                                           *)
Accepts(h, fk) ==
  /\ Kind[h] = "session-start" => ~HasSession(Session[h])
  /\ Kind[h] = "session-end"   => HasSession(Session[h])
  /\ fk /\ Kind[h] \in {"prompt", "edit", "exec"} =>
       /\ HasSession(Session[h])
       /\ link[h] = 0 \/ \E p \in writes : Kind[p.hook] = "prompt" /\ p.id = link[h]

(* Faulty form of Write: the row id is counted down.                       *)
BugIdCountsDown(h, via) ==
  /\ writes' = writes \union
       {[hook |-> h, via |-> via, prompt |-> link[h],
         blind |-> h \in unlinked, id |-> nextId]}
  /\ nextId' = nextId - 1

(* blind: the row's prompt_id is empty because the lookup failed.          *)
Write(h, via) ==
  /\ writes' = writes \union
       {[hook |-> h, via |-> via, prompt |-> link[h],
         blind |-> h \in unlinked, id |-> nextId]}
  /\ nextId' = nextId + 1

-----------------------------------------------------------------------------
(* A hook process.                                                         *)

(* The agent runs the hook.  The hooks of prompts, edits and commands read *)
(* the clock before they dial; time may have passed since the last one.    *)
Begin(h) ==
  /\ pc[h] = "idle"
  /\ IF Kind[h] \in {"prompt", "edit", "exec"}
       THEN \E t \in {clock, clock + 1} :
              t <= MaxClock /\ clock' = t /\ ts' = [ts EXCEPT ![h] = t]
       ELSE UNCHANGED <<clock, ts>>
  /\ \E l \in 0..(nextId - 1) :
       IsLatestPrompt(Session[h], l) /\ floor' = [floor EXCEPT ![h] = l]
  /\ pc' = [pc EXCEPT ![h] = "dial"]
  /\ UNCHANGED <<daemonVars, poolVars, conn, logged, linkVars, storeVars>>

(* Standard input cannot be read or is not the JSON of the event: log and  *)
(* exit 0.                                                                 *)
RejectPayload(h) ==
  /\ pc[h] = "idle"
  /\ pc' = [pc EXCEPT ![h] = "done"]
  /\ logged' = logged \union {h}
  /\ UNCHANGED <<daemonVars, poolVars, conn, eventVars, linkVars, storeVars>>

(* A listening socket queues the connection even before Accept; the ping   *)
(* is written at once.  No listener, or a timeout: the direct path.        *)
DialDaemon(h) ==
  /\ pc[h] = "dial"
  /\ \/ /\ daemon \in {"bound", "serving"}
        /\ conn' = [conn EXCEPT ![h] = "backlog"]
        /\ pc' = [pc EXCEPT ![h] = "ping"]
     \/ /\ pc' = [pc EXCEPT ![h] = "open"]
        /\ UNCHANGED conn
  /\ UNCHANGED <<daemonVars, poolVars, logged, eventVars, linkVars, storeVars>>

(* Faulty form of SendToDaemon: the hook does not wait for the reply.      *)
BugFireAndForget(h) ==
  /\ pc[h] = "ping"
  /\ conn[h] = "pong"
  /\ conn' = [conn EXCEPT ![h] = "request"]
  /\ pc' = [pc EXCEPT ![h] = "done"]
  /\ logged' = logged \union {h}
  /\ UNCHANGED <<daemonVars, poolVars, eventVars, linkVars, storeVars>>

(* The pong arrived: send the event.  "lastpong" is a pong whose sender    *)
(* has exited since.                                                       *)
SendToDaemon(h) ==
  /\ pc[h] = "ping"
  /\ \/ conn[h] = "pong" /\ conn' = [conn EXCEPT ![h] = "request"]
     \/ conn[h] = "lastpong" /\ conn' = [conn EXCEPT ![h] = "eof"]
  /\ pc' = [pc EXCEPT ![h] = "await"]
  /\ UNCHANGED <<daemonVars, poolVars, logged, eventVars, linkVars, storeVars>>

(* Ping returned false: dialDaemon returns nil, and logs nothing.          *)
PingFailed(h) ==
  /\ pc[h] = "ping"
  /\ conn[h] = "eof"
  /\ conn' = [conn EXCEPT ![h] = "none"]
  /\ pc' = [pc EXCEPT ![h] = "open"]
  /\ UNCHANGED <<daemonVars, poolVars, logged, eventVars, linkVars, storeVars>>

(* Faulty forms of DaemonReplied: any reply counts as success ...          *)
BugAnyReplyWillDo(h) ==
  /\ pc[h] = "await"
  /\ conn[h] \in {"ok", "err", "eof"}
  /\ pc' = [pc EXCEPT ![h] = "done"]
  /\ conn' = [conn EXCEPT ![h] = "none"]
  /\ UNCHANGED <<daemonVars, poolVars, logged, eventVars, linkVars, storeVars>>

(* ... and the fallback is not logged.                                     *)
BugSilentFallback(h) ==
  /\ pc[h] = "await"
  /\ \/ conn[h] = "ok" /\ pc' = [pc EXCEPT ![h] = "done"]
     \/ conn[h] \in {"err", "eof"} /\ pc' = [pc EXCEPT ![h] = "open"]
  /\ conn' = [conn EXCEPT ![h] = "none"]
  /\ UNCHANGED <<daemonVars, poolVars, logged, eventVars, linkVars, storeVars>>

(* sendToDaemon returns: done on ok, logged and on to SQLite otherwise.    *)
(* Nothing more is sent on the connection.                                 *)
DaemonReplied(h) ==
  /\ pc[h] = "await"
  /\ \/ /\ conn[h] = "ok"
        /\ pc' = [pc EXCEPT ![h] = "done"]
        /\ UNCHANGED logged
     \/ /\ conn[h] \in {"err", "eof"}
        /\ pc' = [pc EXCEPT ![h] = "open"]
        /\ logged' = logged \union {h}
  /\ conn' = [conn EXCEPT ![h] = "none"]
  /\ UNCHANGED <<daemonVars, poolVars, eventVars, linkVars, storeVars>>

(* Faulty form of OpenStore: the error is dropped.                         *)
BugOpenErrorDropped(h) ==
  /\ pc[h] = "open"
  /\ \/ pc' = [pc EXCEPT ![h] = IF Kind[h] = "edit" THEN "link" ELSE "insert"]
     \/ pc' = [pc EXCEPT ![h] = "done"]
  /\ UNCHANGED <<daemonVars, poolVars, conn, logged, eventVars, linkVars, storeVars>>

(* openStore: on failure log and exit 0.                                   *)
OpenStore(h) ==
  /\ pc[h] = "open"
  /\ \/ /\ pc' = [pc EXCEPT ![h] = IF Kind[h] = "edit" THEN "link" ELSE "insert"]
        /\ UNCHANGED logged
     \/ /\ pc' = [pc EXCEPT ![h] = "done"]
        /\ logged' = logged \union {h}
  /\ UNCHANGED <<daemonVars, poolVars, conn, eventVars, linkVars, storeVars>>

(* recordEdit's own lookup; an error is logged and leaves the link empty.  *)
LinkDirect(h) ==
  /\ pc[h] = "link"
  /\ \/ /\ \E l \in 0..(nextId - 1) :
             IsLatestPrompt(Session[h], l) /\ link' = [link EXCEPT ![h] = l]
        /\ unlinked' = unlinked \ {h}
        /\ UNCHANGED logged
     \/ /\ link' = [link EXCEPT ![h] = 0]
        /\ unlinked' = unlinked \union {h}
        /\ logged' = logged \union {h}
  /\ pc' = [pc EXCEPT ![h] = "insert"]
  /\ UNCHANGED <<daemonVars, poolVars, conn, eventVars, storeVars>>

(* The hook's own statement: its connection ran the pragmas, so foreign    *)
(* keys are enforced.  A lock held past busy_timeout or an I/O error may   *)
(* fail it whatever the constraints say.                                   *)
InsertDirect(h) ==
  /\ pc[h] = "insert"
  /\ pc' = [pc EXCEPT ![h] = "done"]
  /\ \/ /\ Accepts(h, TRUE)
        /\ Write(h, "direct")
        /\ UNCHANGED logged
     \/ /\ logged' = logged \union {h}
        /\ UNCHANGED storeVars
  /\ UNCHANGED <<daemonVars, poolVars, conn, eventVars, linkVars>>

(* The agent gives up on the hook, which dies where it stands.             *)
KillHook(h) ==
  /\ pc[h] \notin {"idle", "done", "killed"}
  /\ pc' = [pc EXCEPT ![h] = "killed"]
  /\ UNCHANGED <<daemonVars, poolVars, conn, logged, eventVars, linkVars, storeVars>>

-----------------------------------------------------------------------------
(* The daemon's request handlers: one goroutine per connection.            *)

(* acceptLoop: accept and start the goroutine.                             *)
Accept(h) ==
  /\ daemon = "serving"
  /\ conn[h] = "backlog"
  /\ conn' = [conn EXCEPT ![h] = "accepted"]
  /\ UNCHANGED <<daemonVars, poolVars, hookVars, eventVars, linkVars, storeVars>>

AnswerPing(h) ==
  /\ conn[h] = "accepted"
  /\ conn' = [conn EXCEPT ![h] = "pong"]
  /\ UNCHANGED <<daemonVars, poolVars, hookVars, eventVars, linkVars, storeVars>>

(* Where a line that was read takes its connection.                        *)
Dispatched(h) ==
  CASE Session[h] = NoSession -> "failed"
    [] Session[h] # NoSession /\ Kind[h] = "edit" -> "link"
    [] Session[h] # NoSession /\ Kind[h] # "edit" -> "insert"

(* Faulty form of ReadRequest: after a line too long the connection is     *)
(* left open.                                                              *)
BugOversizeHangs(h) ==
  /\ conn[h] = "request"
  /\ \/ h \in Oversize /\ conn' = [conn EXCEPT ![h] = "unread"]
     \/ conn' = [conn EXCEPT ![h] = Dispatched(h)]
  /\ UNCHANGED <<daemonVars, poolVars, hookVars, eventVars, linkVars, storeVars>>

(* Read one line and dispatch it.  A line longer than the scan buffer ends *)
(* the loop and closes the connection without a reply; an empty session_id *)
(* is refused.                                                             *)
ReadRequest(h) ==
  /\ conn[h] = "request"
  /\ \/ h \in Oversize /\ conn' = [conn EXCEPT ![h] = "eof"]
     \/ conn' = [conn EXCEPT ![h] = Dispatched(h)]
  /\ UNCHANGED <<daemonVars, poolVars, hookVars, eventVars, linkVars, storeVars>>

(* database/sql lends a connection for one statement.  The PRAGMAs of Open *)
(* ran on the first one only; while that one is lent, or once another one  *)
(* exists, the statement may run on a connection without them.             *)
Acquire(h) ==
  /\ conn[h] \in {"link", "insert"}
  /\ daemon \in {"serving", "unlistened"}
  /\ conn' = [conn EXCEPT ![h] = IF @ = "link" THEN "linking" ELSE "inserting"]
  /\ \/ /\ \A g \in Hooks : pool[g] # "first"
        /\ pool' = [pool EXCEPT ![h] = "first"]
        /\ UNCHANGED spare
     \/ /\ spare \/ \E g \in Hooks : pool[g] = "first"
        /\ pool' = [pool EXCEPT ![h] = "other"]
        /\ spare' = TRUE
  /\ UNCHANGED <<daemonVars, hookVars, eventVars, linkVars, storeVars>>

(* After store.Close every statement fails at once.  handleEdit ignores    *)
(* the error of the lookup.                                                *)
AcquireClosed(h) ==
  /\ daemon = "storeclosed"
  /\ \/ /\ conn[h] = "link"
        /\ conn' = [conn EXCEPT ![h] = "insert"]
        /\ link' = [link EXCEPT ![h] = 0]
        /\ unlinked' = unlinked \union {h}
     \/ /\ conn[h] = "insert"
        /\ conn' = [conn EXCEPT ![h] = "failed"]
        /\ UNCHANGED linkVars
  /\ UNCHANGED <<daemonVars, poolVars, hookVars, eventVars, storeVars>>

LinkInHandler(h) ==
  /\ conn[h] = "linking"
  /\ conn' = [conn EXCEPT ![h] = "insert"]
  /\ pool' = [pool EXCEPT ![h] = "none"]
  /\ \/ /\ \E l \in 0..(nextId - 1) :
             IsLatestPrompt(Session[h], l) /\ link' = [link EXCEPT ![h] = l]
        /\ UNCHANGED unlinked
     \/ /\ link' = [link EXCEPT ![h] = 0]
        /\ unlinked' = unlinked \union {h}
  /\ UNCHANGED <<daemonVars, spare, hookVars, eventVars, storeVars>>

(* The five handlers.  Those of edit, exec and session-end store fewer      *)
(* columns than the direct path: hashes, files touched, closing git head.  *)
InsertInHandler(h) ==
  /\ conn[h] = "inserting"
  /\ pool' = [pool EXCEPT ![h] = "none"]
  /\ \/ /\ Accepts(h, pool[h] = "first")
        /\ Write(h, "daemon")
        /\ conn' = [conn EXCEPT ![h] = "committed"]
     \/ /\ conn' = [conn EXCEPT ![h] = "failed"]
        /\ UNCHANGED storeVars
  /\ UNCHANGED <<daemonVars, spare, hookVars, eventVars, linkVars>>

(* Faulty form of Respond: a committed event is answered with an error.    *)
BugRespondsError(h) ==
  /\ conn[h] \in {"committed", "failed"}
  /\ conn' = [conn EXCEPT ![h] = "err"]
  /\ UNCHANGED <<daemonVars, poolVars, hookVars, eventVars, linkVars, storeVars>>

Respond(h) ==
  /\ conn[h] \in {"committed", "failed"}
  /\ conn' = [conn EXCEPT ![h] = IF @ = "committed" THEN "ok" ELSE "err"]
  /\ UNCHANGED <<daemonVars, poolVars, hookVars, eventVars, linkVars, storeVars>>

-----------------------------------------------------------------------------
(* The daemon process.                                                     *)

(* New: open the trace and bind the socket.                                *)
BindDaemon ==
  /\ daemon = "down"
  /\ starts < MaxStarts
  /\ daemon' = "bound"
  /\ starts' = starts + 1
  /\ spare' = FALSE
  /\ UNCHANGED <<pool, conn, hookVars, eventVars, linkVars, storeVars>>

(* Start: write the pid file, accept connections, install the handlers.    *)
ServeDaemon ==
  /\ daemon = "bound"
  /\ daemon' = "serving"
  /\ UNCHANGED <<starts, poolVars, conn, hookVars, eventVars, linkVars, storeVars>>

(* Stop, on SIGTERM.  Closing the listener resets what it had queued.      *)
CloseListener ==
  /\ daemon = "serving"
  /\ daemon' = "unlistened"
  /\ conn' = [h \in Hooks |-> IF conn[h] = "backlog" THEN "eof" ELSE conn[h]]
  /\ UNCHANGED <<starts, poolVars, hookVars, eventVars, linkVars, storeVars>>

CloseStore ==
  /\ daemon = "unlistened"
  /\ daemon' = "storeclosed"
  /\ UNCHANGED <<starts, poolVars, conn, hookVars, eventVars, linkVars, storeVars>>

(* The process ends and its sockets close.  A reply already written stays  *)
(* readable; every other open exchange ends in eof.                        *)
HangUp ==
  /\ daemon' = "down"
  /\ pool' = [h \in Hooks |-> "none"]
  /\ conn' = [h \in Hooks |->
                CASE conn[h] \in {"none", "lastpong", "ok", "err", "eof"} -> conn[h]
                  [] conn[h] = "pong" -> "lastpong"
                  [] OTHER -> "eof"]
  /\ UNCHANGED <<starts, spare, hookVars, eventVars, linkVars, storeVars>>

(* os.Exit(0) at the end of handleSignals, with handlers still running.    *)
ExitDaemon == daemon = "storeclosed" /\ HangUp

(* A crash, a SIGKILL, or Start failing to write the pid file.             *)
CrashDaemon == daemon # "down" /\ HangUp

-----------------------------------------------------------------------------
Init ==
  /\ daemon = "down"
  /\ starts = 0
  /\ pool = [h \in Hooks |-> "none"]
  /\ spare = FALSE
  /\ conn = [h \in Hooks |-> "none"]
  /\ pc = [h \in Hooks |-> "idle"]
  /\ clock = 0
  /\ ts = [h \in Hooks |-> 0]
  /\ floor = [h \in Hooks |-> 0]
  /\ link = [h \in Hooks |-> 0]
  /\ unlinked = {}
  /\ logged = {}
  /\ writes = {}
  /\ nextId = 1

(* What a hook does by itself once it has begun.                           *)
HookStep(h) ==
  \/ DialDaemon(h)
  \/ SendToDaemon(h)
  \/ PingFailed(h)
  \/ DaemonReplied(h)
  \/ OpenStore(h)
  \/ LinkDirect(h)
  \/ InsertDirect(h)

HandlerStep(h) ==
  \/ Accept(h)
  \/ AnswerPing(h)
  \/ ReadRequest(h)
  \/ Acquire(h)
  \/ AcquireClosed(h)
  \/ LinkInHandler(h)
  \/ InsertInHandler(h)
  \/ Respond(h)

DaemonStep ==
  \/ BindDaemon
  \/ ServeDaemon
  \/ CloseListener
  \/ CloseStore
  \/ ExitDaemon
  \/ CrashDaemon

Next ==
  \/ \E h \in Hooks :
       Begin(h) \/ RejectPayload(h) \/ HookStep(h) \/ KillHook(h) \/ HandlerStep(h)
  \/ DaemonStep

(* The kernel schedules every runnable process and goroutine.  Nothing     *)
(* obliges the agent to run a hook, the user to start or stop the daemon,  *)
(* or anything to crash.                                                   *)
Fairness ==
  /\ \A h \in Hooks : WF_vars(HookStep(h)) /\ WF_vars(HandlerStep(h))
  /\ WF_vars(ServeDaemon)
  /\ WF_vars(CloseStore)
  /\ WF_vars(ExitDaemon)

Spec == Init /\ [][Next]_vars

FairSpec == Spec /\ Fairness

-----------------------------------------------------------------------------
(* Properties.                                                             *)

WriteRecord ==
  [hook : Hooks, via : {"daemon", "direct"}, prompt : Nat,
   blind : BOOLEAN, id : Nat]

(* The type of every variable: what states the record path can be in.      *)
TypeOK ==
  /\ daemon \in {"down", "bound", "serving", "unlistened", "storeclosed"}
  /\ starts \in Nat
  /\ pool \in [Hooks -> {"none", "first", "other"}]
  /\ spare \in BOOLEAN
  /\ conn \in [Hooks -> {"none", "backlog", "accepted", "pong", "lastpong",
                         "request", "link", "linking", "insert", "inserting",
                         "committed", "failed", "ok", "err", "eof"}]
  /\ pc \in [Hooks -> {"idle", "dial", "ping", "await", "open", "link",
                       "insert", "done", "killed"}]
  /\ clock \in Nat
  /\ ts \in [Hooks -> Nat]
  /\ floor \in [Hooks -> Nat]
  /\ link \in [Hooks -> Nat]
  /\ unlinked \subseteq Hooks
  /\ logged \subseteq Hooks
  /\ writes \subseteq WriteRecord
  /\ nextId \in Nat \ {0}

(* The paths on which h's event reached the trace.                         *)
Copies(h) == {w.via : w \in {v \in writes : v.hook = h}}

(* A hook that exits by itself has its event in the trace or has left a    *)
(* line in barq-witness.log: whatever the daemon answers, drops or does    *)
(* not answer, no event disappears without a word (record.go: every error  *)
(* path logs, and every path that does not log has written).               *)
NoSilentLoss ==
  \A h \in Hooks : pc[h] = "done" /\ h \notin logged => Copies(h) # {}

DaemonEnded == starts > (IF daemon = "down" THEN 0 ELSE 1)

(* An event is recorded on both paths only when the hook had been told     *)
(* that the daemon failed, and logged it; and that takes a daemon that     *)
(* ended between its commit and its reply.  No duplicate is silent, and as *)
(* long as the first daemon is alive there is none.                        *)
NoSilentDuplicate ==
  \A h \in Hooks :
    Copies(h) = {"daemon", "direct"} => h \in logged /\ DaemonEnded

(* Either path writes an event at most once.                               *)
OncePerPath ==
  \A v, w \in writes : v.hook = w.hook /\ v.via = w.via => v = w

(* An edit's prompt_id names a prompt of the edit's own session that is in *)
(* the trace, also when the row was written without foreign-key checks.    *)
LinkResolves ==
  \A w \in writes :
    w.prompt # 0 => \E p \in Prompts(Session[w.hook]) : p.id = w.prompt

(* The lookup behind an edit's link happens after the edit's hook started, *)
(* so a link is at least as recent as the latest prompt recorded by then.  *)
LinkIsFresh ==
  \A w \in writes :
    Kind[w.hook] = "edit" /\ ~w.blind =>
      \A p \in Prompts(Session[w.hook]) : p.id = floor[w.hook] =>
        \E q \in Prompts(Session[w.hook]) :
          q.id = w.prompt /\ AtLeastAsRecent(q, p)

(* Once a hook has exited by itself the trace holds all it will ever hold  *)
(* of its event: no handler of the daemon writes it afterwards, so a       *)
(* report run after the hook misses nothing and counts nothing twice.      *)
SettledWhenDone ==
  [][\A h \in Hooks : pc[h] = "done" => Copies(h)' = Copies(h)]_vars

(* Every hook ends, though Send has no read deadline: a daemon that stops, *)
(* crashes or is slow cannot hold the coding agent's hook for ever.        *)
HookTerminates ==
  \A h \in Hooks : pc[h] = "dial" ~> pc[h] \in {"done", "killed"}

(* schema.sql: FOREIGN KEY (session_id) REFERENCES sessions(id), with      *)
(* foreign_keys=ON in Open: every prompt, edit and execution belongs to a  *)
(* session row.                                                            *)
ReferentialIntegrity ==
  \A w \in writes :
    Kind[w.hook] \in {"prompt", "edit", "exec"} => HasSession(Session[w.hook])

(* How far a hook has come, and the copies made of its event, as the       *)
(* abstract log sees them.                                                 *)
LogStatus == [h \in Hooks |->
  CASE pc[h] = "idle"   -> "waiting"
    [] pc[h] = "done"   -> "returned"
    [] pc[h] = "killed" -> "abandoned"
    [] OTHER            -> "open"]

LogCopies == [h \in Hooks |-> Copies(h)]

Log == INSTANCE TraceLog WITH
  Events <- Hooks,
  Paths <- {"daemon", "direct"},
  status <- LogStatus,
  copies <- LogCopies,
  complaints <- logged

(* Every behaviour of the hooks and the daemon, with their crashes, is a   *)
(* behaviour of the abstract log, and every hook returns in the end.       *)
ImplementsTraceLog == Log!FairSpec

=============================================================================
