# barq-witness: a verification project

barq-witness records what a coding agent does (sessions, prompts, edits,
commands) into a SQLite trace in `.witness/trace.db` and later turns that trace
into a risk report for a reviewer. This directory holds TLA+ models of the
program, the TLC configurations that check them on small instances, and TLAPS
proofs of the theorems that hold for every instance.

Paths below are relative to `src/`. `PROJECT.json` maps every definition to the
lines it models.

## 1. The system

### Components, their state and their operations

| component | code | state it keeps | operations |
|---|---|---|---|
| record hooks | `cmd/barq-witness/record.go`, `internal/hooks` | none: one process per event | `record session-start / prompt / edit / exec / session-end` |
| recording daemon | `internal/daemon`, `cmd/barq-witness/daemon.go` | a listening socket, a pid file, one `*sql.DB` shared by the handlers | `New`, `Start`, `Stop`, one goroutine per connection; `daemon start / stop / status` |
| trace store | `internal/store/store.go`, `schema.sql` | tables sessions, prompts, edits, executions | `Open`, `InsertSession`, `EndSession`, `InsertPrompt`, `InsertEdit`, `InsertExecution`, `LatestPromptForSession`, read queries |
| migrations | `internal/store/migrate.go` | table meta (schema_version), intent_matches | `Migrate`, `addSourceColumn` |
| git diff | `internal/diff`, `internal/util/git.go` | none; reads the repository | `ChangedFiles`, `HeadSHA` |
| analyzer | `internal/analyzer` | caches of one call; reads the trace and a git diff | `Analyze`, one function per signal |
| plugin host | `internal/plugin`, `plugins/*` | none; child processes with a timeout | `Run` |
| explainers | `internal/explainer` | an LRU cache under a mutex | `Explain`, `IntentMatch`, over HTTP, with a fallback |
| report, export | `report.go`, `internal/render`, `internal/cgpf`, `export.go` | none | `report`, `export` |
| sync and aggregator | `sync.go`, `internal/server` | tables ingested_sessions, ingested_edits | POST ingest, GET stats and dashboard |
| importers | `internal/adapters/{cursor,codex,aider}`, `import.go` | none | `import <tool> <log>` |
| watcher, terminal UI | `internal/watcher`, `internal/tui` | last modification time; the current report | poll loop; update loop with background commands |
| MCP server | `internal/mcp` | none | a request loop over stdin |
| installer, config | `internal/installer`, `internal/config`, `init.go` | the agent's settings file, `config.toml` | `init`, merge of hooks |

### How they interact

The agent runs one **hook** process per event. The hook dials
`.witness/daemon.sock`; if a **daemon** answers a ping the hook sends it the
event as one JSON line and waits, without a deadline, for one line back. In
every other case (no socket, no pong, an error reply, a closed connection) it
opens the **store** itself and writes the row. Daemon and hooks therefore write
the same database from several processes, and inside the daemon several
handlers share one connection pool. Daemons and the `daemon` commands meet in
two files, the socket and the pid file, which each of them creates and removes
by path. Every process that opens the database runs the schema and the
**migrations** first. Readers (report, export, sync, TUI, MCP) run several
queries, outside a transaction, on a database that hooks go on writing.

### What is hard here

* *Concurrency*: hooks of one session overlap; handlers share a pool whose
  connections are not alike (the PRAGMAs of `Open` reach one of them); openers
  run migrations against each other; starts and stops of daemons race.
* *Failure*: `os.Exit` ends the daemon with handlers still running; a hook is
  killed by the agent's timeout; a crash leaves the socket and the pid file
  behind; an opener is killed between ALTER TABLE and the new version.
* *Ordering*: an edit is linked to "the latest prompt" by a lookup that happens
  when the row is written, in another statement and maybe another process.
* *Retry*: a hook that was refused by the daemon, or never told, writes again.
* *Time-outs*: the client has none; SQLite's busy timeout is set on one
  connection only. A sync gives up after 30 seconds while the server goes on
  to commit what it sent.
* *Torn reads*: the server's figures, reports, exports and the MCP server's
  statistics are collected by several queries that no transaction holds
  together. Refreshes of the terminal UI overtake one another.
* *Half-done work*: an import stops after its session's row and is taken to be
  done ever after; `settings.json` and the exported file are truncated before
  they are written.

### What makes each component correct

* record path: no event disappears without a line in `barq-witness.log`; no
  event is stored twice without one; when a hook has returned, its effect on
  the trace is final; an edit's `prompt_id` is right; every hook ends.
* daemon life: one daemon per repository, reachable by the commands; a stop
  ends the daemon; starts that race leave one that serves.
* opening: an opened store has every table and column its statements use,
  whoever else is opening it; an open that meets no other process at the
  database never fails and never takes the schema back.
* analyzer and report: every edit of the diff that was there from the start is
  assessed once, each signal is backed by rows that were stored, score and tier
  are those of the signals, and the report ends whatever plugins do.
* aggregator: a document is stored whole or not at all and the answer tells
  which; the figures served are those of moments between request and answer;
  a transaction gives the write lock back unless its COMMIT meets another
  request.
* importers: what is announced is stored; a session has one import; a chat of
  what the parser knows is cut into prompts, edits and commands as its lines
  say, and what it misreads of another chat stays in its section.
* export: the document lies between the trace at its start and at its end, and
  the prompts its edits name are in it.
* terminal UI, watch, MCP: the view goes back only when refreshes overlap, and
  catches up; the cursor is on the list; a signal ends watch; every request has
  its answer.
* installer: the user's hooks survive, an event is hooked once.

## 2. Modules

| module | what it models |
|---|---|
| `TraceLog` | the abstract promise of the record path: a log to which events are offered |
| `Record` | hooks x daemon handlers x connection pool x trace, action by action; implements `TraceLog` |
| `DaemonLife` | starting, stopping and probing daemons over the socket and pid files |
| `Migrate` | `store.Open` and `Migrate`, statement by statement, for overlapping openers |
| `Installer` | `init`: an opener of `Migrate` that goes on to merge settings and `.gitignore`, beside the user and other inits |
| `Aggregator` | the team aggregator's requests, its database and its restarts, and the clients that post to it |
| `GitDiff` | which commits are compared and which lines count as added |
| `Analyzer` | the queries of one analysis while hooks write, signals, score, tier, matcher and plugins (extends `GitDiff`) |
| `Report` | the commands around an analysis: which range is asked for, rank, explanations, output (extends `Analyzer`) |
| `AiderChat` | the line-by-line parser of Aider's chat history |
| `Import` | the three importers, statement by statement, repeated, failing, killed (extends `AiderChat`) |
| `Export` | an export beside imports and hooks that write (extends `Import`) |
| `McpServer` | the MCP server's loop and its two counts |
| `Refresh` | terminal UI, watch and MCP server over a trace and a HEAD that move (extends `McpServer`) |
| `Data` | sums over sets and parts of sequences, in a form the proofs can use: the summands are a function, the places to keep a set |
| `MCRecord`, `MCInstaller`, `MCAggregator`, `MCReport`, `MCExport`, `MCRefresh` | the instances for TLC |
| `RecordProofs`, `LifeProofs`, `InstallerProofs` (with `Migrate`), `AggregatorProofs`, `ReportProofs` (with `Analyzer`), `ExportProofs` (with `Import` and `AiderChat`), `RefreshProofs` | the theorems |
| `DataLemmas` | what they need to know about natural numbers, finite sets, sums and parts of sequences |

`Record` and `DaemonLife` are two views of `internal/daemon`. `Record` follows
requests and reduces the daemon's life to `daemon` (down, bound, serving,
unlistened, storeclosed): at most one daemon owns the socket. `DaemonLife`
follows the files and commands, with several daemon processes at once, and
reduces requests to "does a dial connect, is a ping answered".

### Record: state and actions

| variable | in the code |
|---|---|
| `pc[h]` | the position of hook `h` in `recordSessionStart` ... `recordSessionEnd` |
| `conn[h]` | both ends of the hook's connection: in the listen backlog, accepted, ping answered, request sent, the handler's position, the reply, end of file |
| `pool[h]`, `spare` | which pooled connection the handler's statement runs on: the first, where `Open` ran its PRAGMAs, or another |
| `ts[h]`, `clock` | the `time.Now().UnixMilli()` a hook takes before it dials |
| `link[h]`, `unlinked` | the result of `LatestPromptForSession`; edits whose lookup failed |
| `writes`, `nextId` | the statements that changed the trace, with AUTOINCREMENT ids |
| `logged` | hooks that wrote a line to `barq-witness.log` |
| `floor[h]` | history: the latest prompt when the hook began |

A hook goes `Begin` (or `RejectPayload`), `DialDaemon`, then either
`SendToDaemon`, `DaemonReplied`, or the fallback `OpenStore`, `LinkDirect` (edits
only), `InsertDirect`. Every early return of the code is a disjunct. A handler
goes `Accept`, `AnswerPing`, `ReadRequest`, `Acquire` (a pooled connection, one
per statement), `LinkInHandler`, `InsertInHandler`, `Respond`. `CloseListener`,
`CloseStore`, `ExitDaemon` are the lines of `Stop` and `handleSignals`, with
handlers running in between; `CrashDaemon` may happen anywhere. `KillHook` is
the agent's timeout.

Abstractions: a message is its kind and session; diffs, hashes, line ranges and
command classes are dropped; a statement succeeds only if the constraints of
the schema allow it (`Accepts`) and may fail at any time (locks, disk). The
model takes `.witness` and the log file to be writable: `runRecord` gives up
silently when it cannot create the directory, and the logger discards what it
cannot write.

### DaemonLife: state and actions

`proc[d]` is the next statement of daemon process `d` in `New`, `Start`, `Stop`;
`sock` and `pidFile` are the two files, each naming the process that made it;
`signalled` are pending SIGTERMs. Closing a Go listener unlinks its path, so
`Stop` removes the path twice (`StopCloseListener`, `StopRemoveSocket`). The
initial states include every combination of files left by dead daemons.
`hasty` and `ended` are history variables: a command was issued before the
last one had taken effect; a daemon was stopped, crashed or could not open the
trace. They let one model state what holds for a user who waits and what holds
for everyone.

### Migrate: state and actions

`tables`, `source` and `version` are the database; `pc[o]` the next statement of
opener `o`. Each statement autocommits. A process that has opened the database
works on it (a hook writes its row, a report reads, the daemon does both for as
long as it lives) until `Close`; `Active` are the processes that open it or have
it open, and each of them may lock it, by a read, a write or a checkpoint. `Busy`
is such a lock, held for longer than the busy timeout or met by `PRAGMA
journal_mode`, which runs before the timeout is set (`store.go:41-47`); a query
of the version that meets one reads as version 0. `Kill` stops a process between
two statements; `alone` is history, the openers that have met no other process at
the database. Errors of the disk are not modelled.

### Aggregator: state and actions

| variable | in the code |
|---|---|
| `client[p]`, `doc[p]` | what the sender of request `p` sent and has learnt: nothing yet, the response, or that the connection failed (`runSync`) |
| `handler[p]`, `answer[p]` | the position of `p`'s goroutine in `handleIngest`, and the response it has decided on |
| `tx[p]`, `stored` | rows inserted by `p`'s open transaction; rows committed |
| `left` | requests whose COMMIT met another one at the database: their transactions are open on a connection of the pool |
| `reader[r]`, `stats[r]`, `cut` | the position of a request in `queryStats`, the figures it holds, whether its list of files may be short |
| `owed[r]` | history: the rows of documents acknowledged before `r` was sent |

An ingest goes `Send`, `Validate` (one disjunct per early return), `BeginTx`,
`Insert` row by row in the document's order, `Commit`, `Respond`; any statement
may fail, which leads through the deferred `Rollback`. The client may give up at
any time and the handler does not notice. `MaySend` restricts what `sync` sends
to what `cgpf.Export` can produce: version 1.0, no tiers. The four queries of
`queryStats` are four actions; the dashboard makes the same ones. A row is
its place in its document; session ids, authors and tiers are looked up there.
File names, reason codes and times are left out. `Commit` has three outcomes: the
rows are stored; the transaction fails and is rolled back; or COMMIT returns
`SQLITE_BUSY` because another connection reads (`OthersRead`: the database has a
rollback journal and no busy timeout, `server.go:114-126`), and then SQLite keeps
the transaction open while `database/sql` takes it to be done, so that the
deferred `Rollback` does nothing. Such a transaction ends when the pool closes its
connection (`CloseConnection`, which nothing obliges it to do) or the server dies;
until then no other document can be written, and a query on that connection sees
its rows (`Views`). `Server.Stop` is never called by the
server's `main`, so only `KillServer` ends it.

In `Analyzer`, `Export` and `Refresh` hooks are writers that may store a row at
any time; how they come to store it is `Record`'s subject.

### Installer: state and actions

`ipc[o]` is the next step of an init whose trace is open: `ScanIgnore` and
`AppendIgnore`, `ReadSettings` (which parses, merges and decides),
`TruncateSettings` and `WriteSettings`, the two halves of `os.WriteFile`.
`SaveSettings` is the user. Opening is `Migrate`'s, and an init that works on
its files still has the trace open. A hook is its command and a flag `plain`:
the code's structs know type and command only, so merging drops other fields, a
time-out say, of hooks it was to leave alone (`Read`). The histories `raced` and
`spoilt` single out the two ways in which a merge may lose the user's words: it
writes over a change it has not seen, or is cut off after truncating. What a
merge must keep is stated by places: `Slots` are the places of the hooks in an
event's groups, `SameForUser` asks for a map of the user's places that keeps
commands and order, `EachOnce` for no two places with one of `OwnCommands`.
`FilesAssumption` takes it that no file of the user's has one command of
barq-witness twice (init would leave both) and that a file without a JSON object
has no hooks.

### Analyzer and Report: state and actions

`Report` takes a request and resolves its range (`Ask`, through `resolveRef`,
which looks at HEAD only); `QueryEdits`, `QueryExecutions` and
`QuerySessionEdits` are one query each, with `Record` (a row is stored) in
between; `Assess` takes the edits in order of time and computes the codes with
one operator per `check...` function; `MatchIntent`, `RunPlugin` and `Keep` end
the body of the loop; `Rank`, `Explain` and `Render` follow. `begun` is history:
the trace when the analysis began. The signals' thresholds are constants
(`Regens`, `Window`, `ManyFiles`) so that small instances reach them; which
paths are sensitive, manifests or tests is given by constants too. A plugin
answers with signals, or fails, or is killed by the time-out; the tiers it names
may be any integers, as the host does not look at them (`PluginAssumption`), and
`ScoresAddUp` says what holds of them. Edits with one time come in any order
from a query (`ByTime` is a set of lists), and segments with one score in any
order in the report (`Rankings`): the paths that decide between them are not
modelled. `FilesTouched` says what the two record paths store: a command that
went through the daemon has no files.

### Import, AiderChat and Export: state and actions

`state[p]`, `next[p]` and `stored[p]` follow import `p` through its rows;
`InsertSession` refuses a session that is there, which is how a repeated import
is detected; `Fail` is an error or a kill before any statement. `AiderChat` is a
function of a chat: lines are classes (header, heading, fence by language,
"modified" line, text), `ParseLine` carries the parser's state from line to
line, and `After(chat)[n]` is that state after n lines. `## Human`, the heading
of the chat in `tests/fixtures`, has a class of its own and is to the parser a
line like any other (`adapter.go:144`). The second half of the module says what a
reader sees in the chat (`SeenEdits`, `SeenCommands`, `SeenPrompts`), line by line
and without a state: to him `## Human` begins a section of the user's, and a
fence opens or closes a block whatever its language. `ChatExtracted` has three
parts. A chat of what the parser knows (`Familiar`: no `## Human`, no fence in
another language) is read as the reader reads it. Of every chat, the parser finds
after a heading it knows what it would find if the chat began there
(`SectionsApart`): what it misreads, and a block that is never closed, stays in
its section. And the times of its rows keep the chat's order (`InOrder`).
`ImportedCorrectly` asks the first for every chat, as the compatibility test says
it does, and fails. Session ids of all tools are one namespace (`SessionOf`): a
log without an id is given a fixed one that another tool's log may have.
`Export` lists the sessions, then reads prompts, edits and executions of each,
and writes the file in two steps; `before` is history.

### Refresh and McpServer: state and actions

A refresh occupies one of the `Slots` from tick or key to `RefreshDone`; it
reads HEAD, then analyzes, and its result waits as a message. `report`,
`cursor`, `lastErr`, `loading` are the model's fields of the same name. The
watch is `PollHead`, `PollAnalyze` and a select between `SelectTick` and
`SelectDone`. What a report says is abstracted to how often HEAD and the trace
had changed when it was made (an analysis is one read here, its queries are
`Analyzer`'s subject), and `Found` tells how long a list that makes. `McpServer`
has one action per step of `Run`; the edits are counted before the sessions
(`CountEdits`, `CountSessions`). `stored` counts the rows of the trace by kind:
edits that a foreign key held to their session, and orphans, which a second
connection of the daemon stores unchecked (`RecordOrphans` shows how). One of
the three programs runs in a behaviour: they share nothing but what they read.

## 3. What is checked

| run | expects | properties | shows |
|---|---|---|---|
| `RecordPrompts` | pass | `TypeOK`, `NoSilentLoss`, `LinkIsFresh`, `SettledWhenDone` | two prompts race one edit on both paths |
| `RecordSessions` | pass | `NoSilentDuplicate`, `HookTerminates`, `ImplementsTraceLog` | a session's start, an oversize command and an end without id, two lives of the daemon; refinement of `TraceLog` |
| `RecordOrphans` | violation | `ReferentialIntegrity` | foreign keys are enforced on one pooled connection only |
| `LifeCommands` | pass | `TypeOK`, `AtMostOneDaemon`, `FilesNameServingDaemon`, `StopEnds`, `StartsLeaveDaemon` | daemons and commands in any order, over any files |
| `InitCommands` | pass | `InstallTypeOK`, `OpenedStoreUsable`, `FailsOnlyInCompany`, `RegressesOnlyInCompany`, `UserHooksKept`, `EventsHookedOnce` | two inits and a hook open and migrate any database, killed anywhere, while the user saves settings |
| `AggregatorIngest` | pass | `TypeOK`, `WholeDocument`, `AnswerTruthful`, `FiguresBracketed`, `LockReleased` | two clients, a reader, failing statements and a killed server |
| `AggregatorSync` | violation | `SyncUnderstood` | the server refuses the version `sync` sends |
| `ReportSignals` | pass | `TypeOK`, `SignalsBracketed`, `NothingOverlooked`, `ScoresAddUp`, `ReportEnds` | a report on a commit or a range while hooks write, with matcher, plugin and explainer |
| `TransferRows` | pass | `TypeOK`, `AnnouncedIsStored`, `GapsStay`, `ChatExtracted`, `LinksLead`, `DocumentBracketed` | two imports and a hook write while an export reads |
| `ImportFixture` | violation | `ImportedCorrectly` | the chat the compatibility test imports loses its prompts |
| `RefreshViews` | pass | `TypeOK`, `CursorOnList`, `AnswersCoherent`, `BackOnlyByOverlap`, `CatchesUp`, `WatchStops` | views over a HEAD and a trace that move |
| `McpSignal` | violation | `SignalEndsServer` | a signal does not end a server that waits for its client |

**Bounds.** Three hooks are enough for two events to race over a third (two
prompts and the edit that links to one of them); two lives of the daemon are
enough for a hook to talk to one and for another to be alive when it falls
back; two clock values distinguish "same millisecond" from "later", the only
thing the order of prompts depends on. `MaxStarts` and `MaxClock` are the only
bounds of `Record`. Three daemons give a race of two starts over what a third
has left; three openers give two that overlap and one that comes after; two of
them are inits, with and without `--force`, over settings with hooks of the
user's, with a part of barq-witness's hooks, broken or absent, and one save by
the user (`MaxSaves`) while they merge.

The two clients of `AggregatorIngest` choose among five documents (accepted by
either author with the same session id, too long, not a member's, of another
version), with a tier the server has no column for and sessions without id; two
are enough for one to hold the write lock while the other waits, commits before
or after, or is killed with it. One reader is enough, as readers do not affect
one another.

`ReportSignals` has a plugin that names the tiers 2, 1 and 5, and eight rows
that may be stored in any order before and, two of them (`MaxLate`), during the
analysis: enough for each signal to be raised, withheld, and to change its mind
between two queries. `TransferRows` has two imports of four logs (without an id,
of another tool with the id the first is given, a chat and the same chat grown);
the chats of `ChatExtracted` have four lines of any class, `## Human` and fences
of the three kinds included, before and after headings: enough for a block to
open, close, be mistaken and be left open. `ImportFixture` imports the chat of
`tests/fixtures`, shortened only by lines that repeat their class.
`RefreshViews` lets two refreshes overlap (`Slots`), HEAD and trace change
twice, and a client write three lines; two refreshes are enough for one to
overtake another.

The two prompts of `RecordPrompts` and the two imports of `TransferRows` are
interchangeable, hence the symmetry; these runs check step properties but no
liveness.

**Deadlock** is off everywhere: hooks and commands end, and nothing obliges
agent, user or clients to start another.

**Fairness.** `Record!Fairness` asks that every hook and every handler that can
move does, and that a daemon that has bound its socket goes on to accept and one
that is stopping goes on to exit: the kernel and the Go runtime run every
runnable process and goroutine. Nothing is asked of the agent, the user or
crashes. `DaemonLife!FairSpec` asks the same of daemon processes,
`Aggregator!FairSpec` of the server's goroutines, `Report!FairSpec` of the
reporting process, `Refresh!FairSpec` of tickers, background commands, the
delivery of messages and the MCP loop. The one strong fairness is that of
`SelectDone`: Go's `select` chooses at random among ready cases, so a cancelled
context that is ready at every turn is taken in the end. `HookTerminates` needs
the fairness of the handlers because `Client.Send` waits without a deadline.

**Violations.** The four runs that expect one check a sentence of the
repository's documentation, comments or schema against what the code does;
`PROJECT.json` quotes the sentence. `RecordOrphans`: `PRAGMA foreign_keys=ON` is
executed once through the pool, so a second connection, opened when two handlers
overlap, does not enforce the foreign keys the schema declares.
`AggregatorSync`: the export writes version 1.0, the server of the same release
takes 0.3 only. `ImportFixture`: the chat of `tests/fixtures` heads what the user
says with `## Human`, the parser looks for `## User`, and the test that says it
verifies prompts and edits counts only edits.
`McpSignal`: the context is looked at between requests only, and the server
waits for the next one in `Scan`.

Read off the code while modelling it, and left without a run of their own:

* An edit is linked to the latest prompt when its row is written, which may be
  later than the edit (`README.md:73` says the prompt that triggered it); the
  time to acceptance is then taken as 0 (`signals.go:251`).
* `Stop` and a racing `New` remove the socket by path: a daemon may go on
  serving without one, and `daemon status` says it is not running.
* The look at `table_info` and ALTER TABLE are two statements (`migrate.go:65`
  calls the check safe); `schema.sql` has no `source` column, against
  `migrate.go:69`.
* In an Aider chat a fence in another language (` ```python `) opens nothing and
  its closing fence opens a block of commands, which takes the rest of the section
  to the next fence, "modified" lines included, for a command. `SectionsApart`
  confines this to the section; that the section is misread is not denied.
* `report --commit` and the references of the other commands: `resolveRef`
  (`report.go:210`) looks at HEAD whatever it is given, where
  `docs/getting-started.md:79` promises a report on a specific commit.
  `ReportSignals` asks for a commit, and is given HEAD, as the code has it.
* A COMMIT of the aggregator that meets another request leaves its transaction
  open (`server.go:280-285`, `Commit` above): every later document is refused until
  the connection is closed or the server restarted, and figures may count the rows
  of a document whose sender was told it failed. `LockReleased` and
  `FiguresBracketed` except exactly that case.
* `cgpf.go:108`: FromCommit and ToCommit filter nothing. `UpsertIntentMatch`
  has no caller, so `intent_matches` stays empty.
* `README.md:80` and `docs/signals-reference.md:7` describe NO_EXEC by the files
  commands touch, which the daemon does not store: a file that was run by a
  command recorded through the daemon may be reported as never run. `FilesTouched` says so in the model; no
  property promises otherwise.
* A plugin's signal without a tier, or with tier 0, is weighed like one of tier 3
  but puts its segment into tier 0, which `analyzer.go:57` calls unscored, and
  the next signal replaces that tier whatever came before; a tier above 3 on a
  segment without other signals is kept too. Such segments are ranked and
  counted in none of the three tiers.
* Merging drops the fields of hooks it does not know, a time-out say; without
  `--force`, an event that has one of barq-witness's two groups is left without
  the other.

Every property of a passing run has a mutant: a faulty form of one definition
(the `Bug...` operators) under which TLC finds that property violated.

## 4. What is proved

All theorems hold for any sets of processes, sessions, rows, logs and files and
any value of the bounds, under the named assumptions of the modules, which TLC
evaluates in the runs.

**`RecordProofs`**: `TypeCorrect`, `NothingLostSilently`,
`NothingDoubledSilently`, `RecordedOncePerPath`, `SettledOnceDone`,
`LinksResolve`, `LinksFresh`, and `RecordImplementsLog`: `Spec => Log!Spec`, the
safety part of the refinement of `TraceLog`. The only assumption is
`RecordAssumption` (the kinds are the five kinds, the bounds are naturals).

None of the properties is inductive: what a hook may conclude depends on where
the other end of its connection is. `ExchangeInv` ties the two ends together
(which `conn` values can go with which `pc`, for instance that a handler is at
work only for a hook that waits or has been killed, and that a hook on the
direct path has no connection left). On it rests `CopyInv`, which ties positions
to the store: before the handler's insert there is no copy on the daemon's path,
after it there is one, and a hook that fell back with a copy already stored has
logged. `EndInv` adds that such a hook has outlived a daemon. They are stated
with `Copied(h, p)`, "h has a copy on path p", and the lemmas `WhoWrites` and
`WriteCopies` reduce the thirty actions to the two that write. The safety
properties follow from `CopyInv` without looking at the actions again,
`LinksResolve` from `LinkInv` (a link held by a hook or handler names a stored
prompt) and `PromptsGrow`, `LinksFresh` from `FreshInv`: the link found by a
lookup is at least as recent as what was stored when the hook began, and stays so
because rows written later have ids of their own.

**`LifeProofs`**: `LifeTyped`, `OneDaemon`, `FilesOfServingDaemon`. `LifeInv`
strengthens "one daemon serves" to "one is alive, and from bind(2) and the pid
file on it owns what names a daemon": a start sees another daemon only through
the socket.

**`InstallerProofs`**: `MarkedIsMigrated`, `OpenedIsUsable`, `LoneOpenSucceeds`,
`LoneOpenAdvances` about `Migrate`, for any number of processes that open the
database or work on it. An opener trusts the version it reads, so
`MigrationInv` adds what each version promises to what each opener has reached
(`Reached`), which others cannot take back because tables and the column only
come (`StoreGrows`). `LoneInv`: an opener is `alone` as long as nobody else has the
database open, and what it has read is then still so when it acts. The lemma
`InitsAreOpeners` (`InstallSpec => Spec`) carries them over to inits, hence
`InstalledHooksFindStore` and `LoneInitOpens`.

`InstallTyped`, `UserHooksAreKept` and `EventsAreHookedOnce` are about the
settings, for any files of the user's, any number of inits and saves. They rest
on `SettingsInv`. What counts is not the file but what each init plans to write
over it: a plan has each own command once and all that its init must hook
(`Planned`), and, as long as nothing is spoilt, the plan of every init that has
not been overtaken (`raced`) holds what the user saved, the file itself only
while nobody is between truncating and writing (`Unspoilt`); an init that is not
`raced` finds the file empty when it writes. The merge itself is treated by
places: `Place` numbers the places kept of a sequence, `RemovedIs` and `ReadIs`
say where a hook is after a filter, `OwnAppended` after a concatenation, and
`SameTransitive` composes the maps. The assumptions are `InstallAssumption`,
`OwnAssumption` and `FilesAssumption`.

**`AggregatorProofs`**: `DocumentsWhole`, `AnswersTruthful`. `AnswerTruthful`
speaks of clients that have been answered; `IngestInv` extends it back to the
handler, which before its commit has stored nothing and after it holds the
answer the store deserves, and to the open transaction, which holds rows of its
own document only. A step of one request leaves the others alone
(`OthersUndisturbed`, `CommittedRows`), so each action is looked at for its own
request; a transaction left open belongs to a request whose answer is an error,
and can no longer be committed. These two need no assumption on the constants.

`AggregatorTyped` and `FiguresLieBetween`: the server adds up columns of the
sessions' rows, the property counts rows. `SumOfParts` equates the two: a sum
over parts is the size of their union if the parts are disjoint, and what a query
sees, the store or the store with a transaction left open (`ViewsWhole`), holds
whole documents only (`Whole`). `Reads` strengthens the property to
the requests that are still collecting, to whom no more is owed than is stored.
They use `AggregatorAssumption`.

**`ReportProofs`**: `ReportTyped`, `SignalsLieBetween`, `NothingIsOverlooked`,
`ScoresAlwaysAddUp`, all from `IInv`. `Cached`: a list that
was read holds, in order of time, all that was stored when the analysis began
and nothing that is not stored now, so a signal computed from it lies between
the two traces, however many rows come between the queries. `Computed`: codes
are those of the lists, score and tier those of the codes and of the plugins so
far, whatever tiers plugins name; tier 0 stands for none, and a segment that was
never given it has the tier of its worst signal. An answer of several signals is
a fold, followed by induction on its length (`PluginScoreAdds`). `Accounted`:
every edit that was selected is still to be assessed, is in a segment, or has no
reason to be in one. `Shown`: the ranking is a list of the segments without
repetition, and each explanation has its segment. They use the assumptions of
`GitDiff`, `Analyzer` (with `PluginAssumption`) and `Report`.

**`ExportProofs`**: `RowsHaveOneImport`, `AnnouncementsTrue`, `GapsExplained`,
`GapsNeverFilled`, `DocumentsBracketed`, `DocumentLinksLead`, `FilesWhole`,
`ExportTyped`. `ImportInv` says that what an import has stored is a prefix of its
log's rows (`Faithful`) and that a session belongs to one import
(`SessionsOwned`); `ExportInv` that of a session under collection the kinds
already read are in the document as far as they were stored at the start
(`KindsRead`); `TraceGrows` is the lemma that lets it survive the writers.

`ParserExtracts` is about every `Familiar` chat, of any length: the parser finds
exactly the edits and commands a reader sees, and as many prompts. The induction
is over the lines (`ParsingStarts`, `ParsingStep`, `ParsingEnds`). Its invariant
`Parsing` says that the parser's variables are the reader's view of the next
line (`View`: the section, whether the user has said anything in it, whether a
block is open and holds a command) and that the rows so far are those due at the
lines so far, in their order (`Listed`). The reader's definitions have no state,
so `HeadingStep`, `FencesStep`, `AtHeading` and `AfterOther` say how his view of
one line follows from that of the line before; `LineRead` compares them with
what a line does to the parser. A prompt is counted where its section ends, so
`PromptsCounted` maps the ends one to one onto the headings (`ClosingEnds`,
`ClosingFound`). `ChatRowsExtracted` carries it over to the order of insertion.

The other two parts of `ChatExtracted` are about every chat, whatever its lines.
`OrderKept`: no row is later than the next time the parser would give (`Timed`,
in the invariant `Reading`). `FencesStayInside` is `SectionsApart`, by running
two parsers side by side, one over the whole chat and one over the chat from a
heading on (`Apart`): from the heading on their variables are the same but for
rows and times (`Alike`), because a heading closes the block that is open, so
they emit the same rows from there on (`SameRows`, `StaysApart`).
`ChatsExtracted` puts the three together and carries them over to the trace:
what an import of a familiar chat announced is what the chat said. The proofs
use `ExportAssumption`, `ImportAssumption` (a log is of one of the three tools
and holds finite lists) and `ChatsAssumption`; that every log is turned into a
finite list of rows is `RowsAreSequences`.

**`RefreshProofs`**: `ViewsTyped`, `CursorStaysOnList`, `ListBackOnlyByOverlap`,
`WatchAdvances`, `AnswersInOrder`. `Ordered`: nobody knows more than there is,
and a refresh since whose start no report was shown knows no less than the one
shown. `McpInv`: the line in work is neither blank nor answered, every line
before it is, edits were counted no later than now, and those among them that are
no orphans have a session stored, in that count and ever after.

**Induction.** The library's induction theorems take the statement to prove as an
operator, which the installed provers cannot instantiate. `NatSetInduction` of
`DataLemmas` takes the set of the numbers for which the statement holds instead,
and follows from the well-foundedness of the natural numbers; sums (`SumStep`,
`SumOfParts`), enumerations, plugin answers and the parser rest on it. This is
why `Data` and the modules that use it say `SumOf` of a function, `Kept` of a set
of places and `After` of a recursive function, where a fold with an operator
would do for TLC.

Every invariant the runs check is also a theorem, and so are the action
properties `GapsStay` and `BackOnlyByOverlap`. Only model-checked is liveness,
which TLAPS cannot do: `HookTerminates`, the fairness half of
`ImplementsTraceLog`, `StopEnds`, `StartsLeaveDaemon`, `LockReleased`,
`ReportEnds`, `CatchesUp`, `WatchStops`; and, being refuted, the four properties
of the runs that expect a violation.

## 5. What could come next

The cache of the explainers and its mutex with the fallback between backends;
`Export` in place of `MaySend` in front of `Aggregator`, so that a sync is
followed from the trace to the figures; a second session in `ReportSignals` with
commands of its own.

## 6. Not modelled

* Formatting of reports, option parsing, hashing, HTTP details and the cache of
  the explainers (each call is one critical section around a map), the detail
  view of the terminal UI, the editor extension, packaging and tests.
* go-git: which lines differ between two trees is a constant of the instance.
  Path patterns (`security_paths.go`) are the constants `Sensitive` and
  `Manifests`.
* The two shipped plugins, which are filters without a state; children of a
  plugin that outlive it and hold its output open.
* Process numbers: a dead daemon's number is taken to be unused, so `daemon
  stop` after a crash never meets another program's process.
* Editors that write `.gitignore` while `init` does; errors of the disk in
  `Migrate`.
