----------------------------- MODULE Aggregator -----------------------------
(***************************************************************************)
(* barq-witness-server, the team aggregator, and the clients that POST     *)
(* documents to it: `barq-witness sync' or any other HTTP client.  Every   *)
(* request has a goroutine of its own.  An ingest writes its document in   *)
(* one SQLite transaction; /stats and /dashboard collect their figures     *)
(* with queries that no transaction holds together.  The server has no     *)
(* signal handler: it only ever ends by being killed.                      *)
(***************************************************************************)
EXTENDS Integers, Sequences, FiniteSetsExt, Data

CONSTANTS
  Posts,      (* the ingest requests                                       *)
  Sender,     (* Sender[p]: "sync", or "other" for any other client        *)
  Readers,    (* the requests for /stats or /dashboard                     *)
  Docs,       (* the documents clients may send                            *)
  Members,    (* the author_uuids that match uuidRE                        *)
  Empty,      (* the empty string, as a session id or an author_uuid       *)
  MaxEdits,   (* maxEditsPerPayload                                        *)
  MaxStarts   (* bound: how often the server is started                    *)

(* Of an edit only the tier matters, of a session its id and its edits.    *)
ASSUME AggregatorAssumption ==
  /\ Sender \in [Posts -> {"sync", "other"}]
  /\ \A d \in Docs :
       /\ DOMAIN d = {"version", "author", "sessions"}
       /\ Len(d.sessions) \in Nat /\ DOMAIN d.sessions = 1..Len(d.sessions)
       /\ \A i \in DOMAIN d.sessions : d.sessions[i].tiers \in Seq(Int)
  /\ Empty \notin Members
  /\ MaxEdits \in Nat
  /\ MaxStarts \in Nat

VARIABLES
  up,        (* is the server process listening?                           *)
  starts,    (* how many times it has been started                         *)
  client,    (* client[p]: what the sender of p knows                      *)
  doc,       (* doc[p]: the document sent                                  *)
  handler,   (* handler[p]: where p's goroutine in the server is           *)
  answer,    (* answer[p]: the response that goroutine has decided on      *)
  tx,        (* tx[p]: rows inserted by p's open transaction               *)
  left,      (* the requests whose COMMIT met another one at the database; *)
             (* their transactions stay open on a pooled connection        *)
  stored,    (* the rows of the committed transactions                     *)
  reader,    (* reader[r]: where request r is                              *)
  stats,     (* stats[r]: the figures r has collected                      *)
  cut,       (* requests whose list of files may be incomplete             *)
  owed       (* owed[r]: rows acknowledged to some client before r began   *)

serverVars == <<up, starts>>
postVars   == <<client, doc, handler, answer>>
storeVars  == <<tx, left, stored>>
readVars   == <<reader, stats, cut, owed>>
vars == <<serverVars, postVars, storeVars, readVars>>

-----------------------------------------------------------------------------
(* Documents and rows.                                                     *)

(* The version that cgpf.Export writes and the one the server asks for.    *)
ExportVersion == "1.0"
ServerVersion == "0.3"

(* A sync sends the version of the export, a non-empty author_uuid and, as *)
(* cgpf.Edit has no such field, no tier.                                   *)
MaySend(p) ==
  {d \in Docs : Sender[p] = "sync" =>
     /\ d.version = ExportVersion
     /\ d.author # Empty
     /\ \A i \in DOMAIN d.sessions : \A t \in Range(d.sessions[i].tiers) : t = 0}

(* The rows of p's document: row 0 of a session is its row of              *)
(* ingested_sessions, the others its edits.  Sessions without id are left  *)
(* out.                                                                    *)
Rows(p) ==
  LET S == doc[p].sessions
  IN  UNION {{[post |-> p, session |-> i, edit |-> j] : j \in 0..Len(S[i].tiers)} :
             i \in {k \in DOMAIN S : S[k].id # Empty}}

Precedes(q, r) ==
  \/ q.session < r.session
  \/ q.session = r.session /\ q.edit < r.edit

RowsOf(p, rows) == {r \in rows : r.post = p}

Tiers(r) == doc[r.post].sessions[r.session].tiers

(* Faulty form of TierColumn: the cases of the switch fall through.        *)
BugTierOrBelow(r, k) == Cardinality({j \in DOMAIN Tiers(r) : Tiers(r)[j] \in 1..k})

(* The columns of a session's row are counted over its edits.              *)
TierColumn(r, k) == Cardinality({j \in DOMAIN Tiers(r) : Tiers(r)[j] = k})

SessionRows(rows) == {r \in rows : r.edit = 0}
EditRows(rows)    == {r \in rows : r.edit > 0}
TierRows(rows, k) == {r \in EditRows(rows) : Tiers(r)[r.edit] = k}

FlaggedRows(rows) == {r \in EditRows(rows) : Tiers(r)[r.edit] > 0}

Authors(rows) == {doc[r.post].author : r \in SessionRows(rows)}

(* The first query of queryStats.                                          *)
Totals(rows) ==
  [sessions |-> Cardinality(SessionRows(rows)),
   edits |-> SumOf([r \in SessionRows(rows) |-> Len(Tiers(r))], SessionRows(rows)),
   tiers |-> [k \in 1..3 |-> SumOf([r \in SessionRows(rows) |-> TierColumn(r, k)],
                                   SessionRows(rows))]]

NoFigures ==
  [sessions |-> 0, edits |-> 0, tiers |-> [k \in 1..3 |-> 0],
   contributors |-> 0, flagged |-> 0]

-----------------------------------------------------------------------------
(* An ingest request: its client and its goroutine.                        *)

(* The client POSTs a document; the connection is refused without server.  *)
Send(p) ==
  /\ client[p] = "idle"
  /\ \E d \in MaySend(p) : doc' = [doc EXCEPT ![p] = d]
  /\ IF up
       THEN /\ client' = [client EXCEPT ![p] = "waiting"]
            /\ handler' = [handler EXCEPT ![p] = "read"]
       ELSE /\ client' = [client EXCEPT ![p] = "lost"]
            /\ UNCHANGED handler
  /\ UNCHANGED <<serverVars, answer, storeVars, readVars>>

(* The client's 30 seconds are over, or it is killed.  The handler is not  *)
(* told.                                                                   *)
GiveUp(p) ==
  /\ client[p] = "waiting"
  /\ client' = [client EXCEPT ![p] = "lost"]
  /\ UNCHANGED <<serverVars, doc, handler, answer, storeVars, readVars>>

Decide(p, a) ==
  /\ handler' = [handler EXCEPT ![p] = "respond"]
  /\ answer' = [answer EXCEPT ![p] = a]

EditsInDocument(d) ==
  SumOf([i \in DOMAIN d.sessions |-> Len(d.sessions[i].tiers)], DOMAIN d.sessions)

(* Read, decode and validate the document.  The body may be over 10 MB, be *)
(* cut off, or not be JSON.                                                *)
Validate(p) ==
  /\ handler[p] = "read"
  /\ \/ Decide(p, "unreadable")
     \/ doc[p].version # ServerVersion /\ Decide(p, "version")
     \/ /\ doc[p].version = ServerVersion
        /\ doc[p].author \notin Members
        /\ Decide(p, "author")
     \/ /\ doc[p].version = ServerVersion
        /\ doc[p].author \in Members
        /\ EditsInDocument(doc[p]) > MaxEdits
        /\ Decide(p, "edits")
     \/ /\ doc[p].version = ServerVersion
        /\ doc[p].author \in Members
        /\ EditsInDocument(doc[p]) <= MaxEdits
        /\ handler' = [handler EXCEPT ![p] = "begin"]
        /\ UNCHANGED answer
  /\ UNCHANGED <<serverVars, client, doc, storeVars, readVars>>

BeginTx(p) ==
  /\ handler[p] = "begin"
  /\ \/ handler' = [handler EXCEPT ![p] = "insert"] /\ UNCHANGED answer
     \/ Decide(p, "internal")
  /\ UNCHANGED <<serverVars, client, doc, storeVars, readVars>>

(* Faulty forms of Insert: the rows bypass the transaction ...             *)
BugInsertOutsideTx(p) ==
  /\ handler[p] = "insert"
  /\ \E r \in Rows(p) \ tx[p] :
       /\ tx' = [tx EXCEPT ![p] = @ \union {r}]
       /\ stored' = stored \union {r}
  /\ UNCHANGED <<serverVars, postVars, left, readVars>>

(* ... and an early return without the deferred Rollback.                  *)
BugNoRollback(p) ==
  /\ handler[p] = "insert"
  /\ Rows(p) \ tx[p] # {}
  /\ \/ /\ \A q \in Posts \ {p} : tx[q] = {}
        /\ \E r \in Rows(p) \ tx[p] : tx' = [tx EXCEPT ![p] = @ \union {r}]
        /\ UNCHANGED <<handler, answer>>
     \/ Decide(p, "internal") /\ UNCHANGED tx
  /\ UNCHANGED <<serverVars, client, doc, left, stored, readVars>>

(* The next row in the document's order.  SQLite lets one transaction      *)
(* write; the statement waits or fails while it is another one.            *)
Insert(p) ==
  /\ handler[p] = "insert"
  /\ Rows(p) \ tx[p] # {}
  /\ \/ /\ \A q \in Posts \ {p} : tx[q] = {}
        /\ \E r \in Rows(p) \ tx[p] :
             /\ \A q \in Rows(p) \ tx[p] : q = r \/ Precedes(r, q)
             /\ tx' = [tx EXCEPT ![p] = @ \union {r}]
        /\ UNCHANGED <<handler, answer>>
     \/ /\ handler' = [handler EXCEPT ![p] = "abort"]
        /\ answer' = [answer EXCEPT ![p] = "internal"]
        /\ UNCHANGED tx
  /\ UNCHANGED <<serverVars, client, doc, left, stored, readVars>>

(* The deferred Rollback, when the handler returns early.                  *)
Rollback(p) ==
  /\ handler[p] = "abort"
  /\ handler' = [handler EXCEPT ![p] = "respond"]
  /\ tx' = [tx EXCEPT ![p] = {}]
  /\ UNCHANGED <<serverVars, client, doc, answer, left, stored, readVars>>

(* Faulty forms of Commit: its error is not looked at ...                  *)
BugCommitUnchecked(p) ==
  /\ handler[p] = "insert"
  /\ tx[p] = Rows(p)
  /\ tx' = [tx EXCEPT ![p] = {}]
  /\ stored' \in {stored, stored \union tx[p]}
  /\ Decide(p, "ok")
  /\ UNCHANGED <<serverVars, client, doc, left, readVars>>

(* ... and the handler returns without a response.                         *)
BugCommitSilent(p) ==
  /\ handler[p] = "insert"
  /\ tx[p] = Rows(p)
  /\ tx' = [tx EXCEPT ![p] = {}]
  /\ stored' = stored \union tx[p]
  /\ handler' = [handler EXCEPT ![p] = "respond"]
  /\ UNCHANGED <<serverVars, client, doc, answer, left, readVars>>

(* Another request may have a read lock on the database.                   *)
OthersRead(p) ==
  \/ \E r \in Readers : reader[r] \in {"totals", "contributors", "files", "updated"}
  \/ \E q \in Posts \ {p} : handler[q] = "insert"

(* COMMIT succeeds, or fails and the transaction is rolled back.  It also  *)
(* fails while another connection reads, as the database has a rollback    *)
(* journal and no busy timeout; SQLite then keeps the transaction open     *)
(* for another try, but Commit has marked it as done, so that the deferred *)
(* Rollback leaves it, and its locks, to the pool of connections.          *)
Commit(p) ==
  /\ handler[p] = "insert"
  /\ tx[p] = Rows(p)
  /\ \/ /\ tx' = [tx EXCEPT ![p] = {}]
        /\ \/ stored' = stored \union tx[p] /\ Decide(p, "ok")
           \/ Decide(p, "internal") /\ UNCHANGED stored
        /\ UNCHANGED left
     \/ /\ tx[p] # {} /\ OthersRead(p)
        /\ left' = left \union {p}
        /\ Decide(p, "internal")
        /\ UNCHANGED <<tx, stored>>
  /\ UNCHANGED <<serverVars, client, doc, readVars>>

(* The pool closes a connection that it has no room for when it comes back;*)
(* the transaction that was left open on it is gone.                       *)
CloseConnection(p) ==
  /\ p \in left /\ tx[p] # {}
  /\ tx' = [tx EXCEPT ![p] = {}]
  /\ UNCHANGED <<serverVars, postVars, left, stored, readVars>>

(* The response goes out when the handler has returned.                    *)
Respond(p) ==
  /\ handler[p] = "respond"
  /\ handler' = [handler EXCEPT ![p] = "none"]
  /\ client' = [client EXCEPT ![p] = IF @ = "waiting" THEN answer[p] ELSE @]
  /\ UNCHANGED <<serverVars, doc, answer, storeVars, readVars>>

-----------------------------------------------------------------------------
(* A request for /stats or /dashboard.                                     *)

Ask(r) ==
  /\ up
  /\ reader[r] = "idle"
  /\ reader' = [reader EXCEPT ![r] = "totals"]
  /\ owed' = [owed EXCEPT ![r] = UNION {Rows(p) : p \in {q \in Posts : client[q] = "ok"}}]
  /\ UNCHANGED <<serverVars, postVars, storeVars, stats, cut>>

(* What a query may see: the store, and on a connection on which a         *)
(* transaction was left open the rows of that transaction too.             *)
Views == {stored} \union {stored \union tx[p] : p \in left}

QueryTotals(r) ==
  /\ reader[r] = "totals"
  /\ reader' = [reader EXCEPT ![r] = "contributors"]
  /\ \E V \in Views :
       LET t == Totals(V)
       IN  stats' = [stats EXCEPT ![r].sessions = t.sessions,
                                  ![r].edits = t.edits,
                                  ![r].tiers = t.tiers]
  /\ UNCHANGED <<serverVars, postVars, storeVars, cut, owed>>

QueryContributors(r) ==
  /\ reader[r] = "contributors"
  /\ reader' = [reader EXCEPT ![r] = "files"]
  /\ \E V \in Views :
       stats' = [stats EXCEPT ![r].contributors = Cardinality(Authors(V))]
  /\ UNCHANGED <<serverVars, postVars, storeVars, cut, owed>>

(* Flagged edits per file, ten files at most; rows.Err is not looked at,   *)
(* so an error while reading shortens the list and is not reported.        *)
QueryFiles(r) ==
  /\ reader[r] = "files"
  /\ reader' = [reader EXCEPT ![r] = "updated"]
  /\ \E V \in Views :
       LET all == Cardinality(FlaggedRows(V))
       IN  \/ stats' = [stats EXCEPT ![r].flagged = all] /\ UNCHANGED cut
           \/ /\ \E n \in 0..all : stats' = [stats EXCEPT ![r].flagged = n]
              /\ cut' = cut \union {r}
  /\ UNCHANGED <<serverVars, postVars, storeVars, owed>>

(* An error of one of the first three queries is answered with 500.        *)
QueryFailed(r) ==
  /\ reader[r] \in {"totals", "contributors", "files"}
  /\ reader' = [reader EXCEPT ![r] = "failed"]
  /\ UNCHANGED <<serverVars, postVars, storeVars, stats, cut, owed>>

(* The time of the last ingestion; an error leaves the current time.       *)
QueryUpdated(r) ==
  /\ reader[r] = "updated"
  /\ reader' = [reader EXCEPT ![r] = "answered"]
  /\ UNCHANGED <<serverVars, postVars, storeVars, stats, cut, owed>>

-----------------------------------------------------------------------------
(* The server process.                                                     *)

(* New and Start: the tables are created if they are not there.            *)
StartServer ==
  /\ ~up
  /\ starts < MaxStarts
  /\ up' = TRUE
  /\ starts' = starts + 1
  /\ UNCHANGED <<postVars, storeVars, readVars>>

(* Committed rows stay; every goroutine, connection and open transaction   *)
(* is gone.                                                                *)
KillServer ==
  /\ up
  /\ up' = FALSE
  /\ client' = [p \in Posts |-> IF client[p] = "waiting" THEN "lost" ELSE client[p]]
  /\ handler' = [p \in Posts |-> "none"]
  /\ tx' = [p \in Posts |-> {}]
  /\ reader' = [r \in Readers |->
       IF reader[r] \in {"idle", "answered"} THEN reader[r] ELSE "failed"]
  /\ UNCHANGED <<starts, doc, answer, left, stored, stats, cut, owed>>

-----------------------------------------------------------------------------
NoDoc == [version |-> Empty, author |-> Empty, sessions |-> <<>>]

Init ==
  /\ up = FALSE
  /\ starts = 0
  /\ client = [p \in Posts |-> "idle"]
  /\ doc = [p \in Posts |-> NoDoc]
  /\ handler = [p \in Posts |-> "none"]
  /\ answer = [p \in Posts |-> "none"]
  /\ tx = [p \in Posts |-> {}]
  /\ left = {}
  /\ stored = {}
  /\ reader = [r \in Readers |-> "idle"]
  /\ stats = [r \in Readers |-> NoFigures]
  /\ cut = {}
  /\ owed = [r \in Readers |-> {}]

HandleIngest(p) ==
  \/ Validate(p)
  \/ BeginTx(p)
  \/ Insert(p)
  \/ Rollback(p)
  \/ Commit(p)
  \/ Respond(p)

HandleStats(r) ==
  \/ QueryTotals(r)
  \/ QueryContributors(r)
  \/ QueryFiles(r)
  \/ QueryFailed(r)
  \/ QueryUpdated(r)

Next ==
  \/ \E p \in Posts : Send(p) \/ GiveUp(p) \/ HandleIngest(p) \/ CloseConnection(p)
  \/ \E r \in Readers : Ask(r) \/ HandleStats(r)
  \/ StartServer
  \/ KillServer

Spec == Init /\ [][Next]_vars

(* The Go scheduler runs every goroutine that can go on.                   *)
FairSpec ==
  /\ Spec
  /\ \A p \in Posts : WF_vars(HandleIngest(p))
  /\ \A r \in Readers : WF_vars(HandleStats(r))

-----------------------------------------------------------------------------
(* Properties.                                                             *)

Refusals == {"unreadable", "version", "author", "edits", "internal"}

Figures ==
  [sessions : Nat, edits : Nat, tiers : [1..3 -> Nat],
   contributors : Nat, flagged : Nat]

(* The type of every variable, and that a transaction is open only in a    *)
(* handler that has still to end it, or where COMMIT met another request.  *)
TypeOK ==
  /\ up \in BOOLEAN
  /\ starts \in Nat
  /\ client \in [Posts -> {"idle", "waiting", "lost", "ok"} \union Refusals]
  /\ doc \in [Posts -> Docs \union {NoDoc}]
  /\ handler \in [Posts -> {"none", "read", "begin", "insert", "abort", "respond"}]
  /\ answer \in [Posts -> {"none", "ok"} \union Refusals]
  /\ \A p \in Posts :
       /\ tx[p] \subseteq Rows(p)
       /\ handler[p] \notin {"insert", "abort"} => tx[p] = {} \/ p \in left
  /\ left \subseteq Posts
  /\ stored \subseteq UNION {Rows(p) : p \in Posts}
  /\ reader \in [Readers -> {"idle", "totals", "contributors", "files", "updated",
                             "answered", "failed"}]
  /\ stats \in [Readers -> Figures]
  /\ cut \subseteq Readers
  /\ owed \in [Readers -> SUBSET UNION {Rows(p) : p \in Posts}]

(* The store holds a document with all its rows or not at all, whatever    *)
(* statement failed and whenever the server was killed.                    *)
WholeDocument ==
  \A p \in Posts : RowsOf(p, stored) \in {{}, Rows(p)}

(* A client that was answered knows what happened: after {"ok": true} the  *)
(* document is in the store for good, after an error no row of it ever is  *)
(* (so sending it again cannot count it twice).                            *)
AnswerTruthful ==
  \A p \in Posts :
    /\ client[p] = "ok" => RowsOf(p, stored) = Rows(p)
    /\ client[p] \in Refusals => RowsOf(p, stored) = {}

(* The rows some query may have seen so far.                               *)
Seen == stored \union UNION {Rows(p) : p \in left}

(* The figures of an answered request, read from the columns of            *)
(* ingested_sessions, are those of the edits stored at some moment between *)
(* the request and its answer: no document acknowledged before the request *)
(* is missing, and of those that were not stored only one whose COMMIT met *)
(* another request can have been counted.                                  *)
FiguresBracketed ==
  \A r \in Readers : reader[r] = "answered" =>
    LET Between(A, n, B) == Cardinality(A) <= n /\ n <= Cardinality(B)
        old == owed[r]
    IN  /\ Between(SessionRows(old), stats[r].sessions, SessionRows(Seen))
        /\ Between(EditRows(old), stats[r].edits, EditRows(Seen))
        /\ \A k \in 1..3 :
             Between(TierRows(old, k), stats[r].tiers[k], TierRows(Seen, k))

(* Every transaction that has begun to write ends, so the database's only  *)
(* write lock is free again for the next document, unless its COMMIT met   *)
(* another request at the database: no insert, refusal, client that gives  *)
(* up or error of the database by itself keeps the lock.                   *)
LockReleased == \A p \in Posts : tx[p] # {} ~> (tx[p] = {} \/ p \in left)

(* sync.go: `sync' "exports a CGPF document and POSTs it to a self-hosted  *)
(* barq-witness-server instance": that server understands what the same    *)
(* release of sync sends.                                                  *)
SyncUnderstood ==
  \A p \in Posts : Sender[p] = "sync" => client[p] # "version"

=============================================================================
