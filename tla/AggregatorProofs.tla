-------------------------- MODULE AggregatorProofs --------------------------
(***************************************************************************)
(* What holds of the aggregator for every set of requests and documents.   *)
(***************************************************************************)
EXTENDS Aggregator, DataLemmas

(* The domains of the functions the ingest handlers update.                *)
Shape ==
  /\ client \in [Posts -> {"idle", "waiting", "lost", "ok"} \union Refusals]
  /\ handler \in [Posts -> {"none", "read", "begin", "insert", "abort", "respond"}]
  /\ DOMAIN answer = Posts
  /\ DOMAIN doc = Posts
  /\ DOMAIN tx = Posts
  /\ left \subseteq Posts

(* A transaction is open only between BEGIN and the end of the handler, or *)
(* left open by it, and holds rows of its own document.                    *)
OwnTransaction(p) ==
  /\ tx[p] \subseteq Rows(p)
  /\ handler[p] \notin {"insert", "abort"} => tx[p] = {} \/ p \in left
  /\ p \in left => /\ handler[p] \in {"respond", "none"} /\ client[p] # "idle"
                   /\ tx[p] \in {{}, Rows(p)}
                   /\ RowsOf(p, stored) = {}

(* Before its commit nothing of a document is in the store; afterwards all *)
(* of it is, and the answer says which.                                    *)
Outcome(p) ==
  /\ RowsOf(p, stored) \in {{}, Rows(p)}
  /\ client[p] = "idle" => handler[p] = "none" /\ RowsOf(p, stored) = {}
  /\ handler[p] \in {"read", "begin", "insert", "abort"} => RowsOf(p, stored) = {}
  /\ handler[p] = "abort" => answer[p] = "internal"
  /\ handler[p] = "respond" =>
       \/ answer[p] = "ok" /\ RowsOf(p, stored) = Rows(p)
       \/ answer[p] \in Refusals /\ RowsOf(p, stored) = {}

Told(p) ==
  /\ client[p] = "ok" => handler[p] = "none" /\ RowsOf(p, stored) = Rows(p)
  /\ client[p] \in Refusals => handler[p] = "none" /\ RowsOf(p, stored) = {}

PostInv(p) == OwnTransaction(p) /\ Outcome(p) /\ Told(p)

(* AnswerTruthful is not inductive by itself: a handler about to answer    *)
(* must have decided on the answer that the store deserves.                *)
IngestInv == Shape /\ \A p \in Posts : PostInv(p)

-----------------------------------------------------------------------------
(* A row names the document it belongs to.                                 *)
LEMMA RowOfPost ==
  ASSUME NEW p, NEW r \in Rows(p)
  PROVE  r.post = p
  BY DEF Rows

(* A commit adds all rows of its own document and of no other.             *)
LEMMA CommittedRows ==
  ASSUME NEW p, NEW q
  PROVE  /\ RowsOf(p, stored \union Rows(p)) = RowsOf(p, stored) \union Rows(p)
         /\ q # p => RowsOf(q, stored \union Rows(p)) = RowsOf(q, stored)
  BY RowOfPost DEF RowsOf

(* The invariant of a request is kept by every step that changes neither   *)
(* its handler nor its rows.                                               *)
LEMMA OthersUndisturbed ==
  ASSUME NEW q, PostInv(q),
         client'[q] = client[q], doc'[q] = doc[q], handler'[q] = handler[q],
         answer'[q] = answer[q], tx'[q] = tx[q],
         RowsOf(q, stored') = RowsOf(q, stored), q \in left' <=> q \in left
  PROVE  PostInv(q)'
  <1>1. Rows(q)' = Rows(q)  BY DEF Rows
  <1>2. RowsOf(q, stored)' = RowsOf(q, stored)  BY DEF RowsOf
  <1> QED  BY <1>1, <1>2 DEF PostInv, OwnTransaction, Outcome, Told

LEMMA InitIngestInv == Init => IngestInv
  <1> SUFFICES ASSUME Init PROVE IngestInv  OBVIOUS
  <1>1. Shape  BY DEF Init, Shape
  <1>2. ASSUME NEW p \in Posts PROVE PostInv(p)
    <2>1. RowsOf(p, stored) = {}  BY DEF Init, RowsOf
    <2> QED  BY <1>2, <2>1 DEF Init, PostInv, OwnTransaction, Outcome, Told, Refusals
  <1> QED  BY <1>1, <1>2 DEF IngestInv

(* One step of the client or the handler of p.                             *)
LEMMA PostStep ==
  ASSUME IngestInv, NEW p \in Posts,
         Send(p) \/ GiveUp(p) \/ HandleIngest(p) \/ CloseConnection(p)
  PROVE  IngestInv'
  <1> USE DEF IngestInv
  <1>1. Shape'
    BY DEF Shape, Send, GiveUp, HandleIngest, Validate, BeginTx, Insert, Rollback,
           Commit, Respond, CloseConnection, Decide, PostInv, Outcome, Refusals, storeVars,
           postVars
  <1>2. ASSUME NEW q \in Posts, q # p PROVE PostInv(q)'
    <2>1. /\ client'[q] = client[q] /\ doc'[q] = doc[q] /\ handler'[q] = handler[q]
          /\ answer'[q] = answer[q] /\ tx'[q] = tx[q] /\ (q \in left' <=> q \in left)
      BY <1>2 DEF Shape, Send, GiveUp, HandleIngest, Validate, BeginTx, Insert,
                  Rollback, Commit, Respond, CloseConnection, Decide, storeVars, postVars
    <2>2. RowsOf(q, stored') = RowsOf(q, stored)
      <3>1. CASE stored' = stored  BY <3>1
      <3>2. CASE Commit(p) /\ stored' = stored \union tx[p]
        BY <1>2, <3>2, CommittedRows DEF Commit
      <3> QED  BY <3>1, <3>2 DEF Send, GiveUp, HandleIngest, Validate, BeginTx, Insert,
                                 Rollback, Commit, Respond, CloseConnection, storeVars
    <2> QED  BY <2>1, <2>2, OthersUndisturbed
  <1>3. PostInv(p)'
    <2>1. PostInv(p) /\ Shape  OBVIOUS
    <2> USE DEF PostInv, Shape
    <2>2. CASE Send(p)
      <3>1. RowsOf(p, stored)' = {}
        BY <2>1, <2>2 DEF Send, Outcome, RowsOf, storeVars
      <3>2. /\ tx'[p] = {} /\ handler'[p] \in {"none", "read"} /\ p \notin left'
            /\ client'[p] \in {"waiting", "lost"}
        BY <2>1, <2>2 DEF Send, Outcome, OwnTransaction, storeVars
      <3> QED  BY <3>1, <3>2 DEF OwnTransaction, Outcome, Told, Refusals
    <2>3. ASSUME UNCHANGED <<doc, stored>>
          PROVE  Rows(p)' = Rows(p) /\ RowsOf(p, stored)' = RowsOf(p, stored)
      BY <2>3 DEF Rows, RowsOf
    <2>4. CASE GiveUp(p)
      BY <2>1, <2>3, <2>4 DEF GiveUp, OwnTransaction, Outcome, Told, Refusals, storeVars
    <2>5. CASE Validate(p)
      BY <2>1, <2>3, <2>5 DEF Validate, Decide, OwnTransaction, Outcome, Told, Refusals, storeVars
    <2>6. CASE BeginTx(p)
      BY <2>1, <2>3, <2>6 DEF BeginTx, Decide, OwnTransaction, Outcome, Told, Refusals, storeVars
    <2>7. CASE Insert(p)
      BY <2>1, <2>3, <2>7 DEF Insert, OwnTransaction, Outcome, Told, Refusals
    <2>11. CASE CloseConnection(p)
      BY <2>1, <2>3, <2>11
      DEF CloseConnection, OwnTransaction, Outcome, Told, Refusals, postVars
    <2>8. CASE Rollback(p)
      BY <2>1, <2>3, <2>8 DEF Rollback, OwnTransaction, Outcome, Told, Refusals
    <2>9. CASE Commit(p)
      <3>1. RowsOf(p, stored) = {} /\ Rows(p)' = Rows(p)
        BY <2>1, <2>9 DEF Commit, Outcome, Rows
      <3>2. CASE stored' = stored /\ Decide(p, "internal") /\ tx'[p] = {} /\ left' = left
        BY <2>1, <2>3, <2>9, <3>2
        DEF Commit, Decide, OwnTransaction, Outcome, Told, Refusals
      <3>4. CASE stored' = stored /\ Decide(p, "internal") /\ tx' = tx /\ left' = left \union {p}
        BY <2>1, <2>3, <2>9, <3>1, <3>4
        DEF Commit, Decide, OwnTransaction, Outcome, Told, Refusals
      <3>3. CASE stored' = stored \union tx[p] /\ Decide(p, "ok") /\ tx'[p] = {} /\ left' = left
        <4>1. RowsOf(p, stored)' = Rows(p)
          BY <2>9, <3>1, <3>3, CommittedRows DEF Commit, RowsOf
        <4> QED  BY <2>1, <2>9, <3>1, <3>3, <4>1
                 DEF Commit, Decide, OwnTransaction, Outcome, Told, Refusals
      <3> QED  BY <2>1, <2>9, <3>2, <3>3, <3>4 DEF Commit
    <2>10. CASE Respond(p)
      BY <2>1, <2>3, <2>10 DEF Respond, OwnTransaction, Outcome, Told, Refusals, storeVars
    <2> QED  BY <2>2, <2>4, <2>5, <2>6, <2>7, <2>8, <2>9, <2>10, <2>11
             DEF HandleIngest
  <1> QED  BY <1>1, <1>2, <1>3

LEMMA NextIngestInv == IngestInv /\ [Next]_vars => IngestInv'
  <1> SUFFICES ASSUME IngestInv, [Next]_vars PROVE IngestInv'  OBVIOUS
  <1>1. ASSUME UNCHANGED <<postVars, storeVars>> PROVE IngestInv'
    <2>1. Shape'  BY <1>1 DEF IngestInv, Shape, postVars, storeVars
    <2>2. ASSUME NEW q \in Posts PROVE PostInv(q)'
      BY <1>1, OthersUndisturbed DEF IngestInv, postVars, storeVars
    <2> QED  BY <2>1, <2>2 DEF IngestInv
  <1>2. CASE \E p \in Posts : Send(p) \/ GiveUp(p) \/ HandleIngest(p) \/ CloseConnection(p)
    BY <1>2, PostStep
  <1>3. CASE \E r \in Readers : Ask(r) \/ HandleStats(r)
    BY <1>1, <1>3 DEF Ask, HandleStats, QueryTotals, QueryContributors, QueryFiles,
                      QueryFailed, QueryUpdated
  <1>4. CASE StartServer  BY <1>1, <1>4 DEF StartServer
  <1>5. CASE KillServer
    <2>1. Shape'
      BY <1>5 DEF IngestInv, Shape, KillServer
    <2>2. ASSUME NEW q \in Posts PROVE PostInv(q)'
      <3>1. Rows(q)' = Rows(q) /\ RowsOf(q, stored)' = RowsOf(q, stored)
        BY <1>5 DEF KillServer, Rows, RowsOf
      <3>2. PostInv(q)  BY DEF IngestInv
      <3>3. /\ handler'[q] = "none" /\ tx'[q] = {} /\ left' = left
            /\ client'[q] = (IF client[q] = "waiting" THEN "lost" ELSE client[q])
        BY <1>5 DEF KillServer
      <3> QED  BY <3>1, <3>2, <3>3 DEF PostInv, OwnTransaction, Outcome, Told, Refusals
    <2> QED  BY <2>1, <2>2 DEF IngestInv
  <1>6. CASE UNCHANGED vars  BY <1>1, <1>6 DEF vars
  <1> QED  BY <1>2, <1>3, <1>4, <1>5, <1>6 DEF Next

LEMMA IngestInvariant == Spec => []IngestInv
  BY InitIngestInv, NextIngestInv, PTL DEF Spec

(* A document is in the store with all its rows or with none, for any      *)
(* documents, any number of concurrent requests and of kills.              *)
THEOREM DocumentsWhole == Spec => []WholeDocument
  <1>1. IngestInv => WholeDocument
    BY DEF IngestInv, PostInv, Outcome, WholeDocument
  <1> QED  BY <1>1, IngestInvariant, PTL

(* What the client was answered is true of the store, then and later.      *)
THEOREM AnswersTruthful == Spec => []AnswerTruthful
  <1>1. IngestInv => AnswerTruthful
    BY DEF IngestInv, PostInv, Told, AnswerTruthful
  <1> QED  BY <1>1, IngestInvariant, PTL

-----------------------------------------------------------------------------
(* What is read: figures of a growing store.                               *)

Reading == {"contributors", "files", "updated", "answered"}

(* What FiguresBracketed says of one request, from its first query on.     *)
Bracketed(old, t) ==
  LET Between(A, n, B) == Cardinality(A) <= n /\ n <= Cardinality(B)
  IN  /\ Between(SessionRows(old), t.sessions, SessionRows(Seen))
      /\ Between(EditRows(old), t.edits, EditRows(Seen))
      /\ \A k \in 1..3 : Between(TierRows(old, k), t.tiers[k], TierRows(Seen, k))

(* A finite set of rows, each of the document its request sent, which is   *)
(* there with all its rows.                                                *)
Whole(V) ==
  /\ IsFiniteSet(V)
  /\ \A x \in V : x.post \in Posts /\ RowsOf(x.post, V) = Rows(x.post)

(* The store is whole, and finitely many requests left a transaction open. *)
Store ==
  /\ doc \in [Posts -> Docs \union {NoDoc}]
  /\ Whole(stored)
  /\ IsFiniteSet(left)

(* FiguresBracketed is not inductive by itself: a request is owed what was *)
(* acknowledged, which is stored, and its figures are right as soon as     *)
(* they are read.                                                          *)
Reads ==
  /\ owed \in [Readers -> SUBSET stored]
  /\ stats \in [Readers -> Figures]
  /\ reader \in [Readers -> {"idle", "totals", "failed"} \union Reading]
  /\ cut \subseteq Readers
  /\ \A r \in Readers : reader[r] \in Reading => Bracketed(owed[r], stats[r])

Server == /\ up \in BOOLEAN /\ starts \in Nat
          /\ answer \in [Posts -> {"none", "ok"} \union Refusals]

AggregatorInv == IngestInv /\ Store /\ Reads /\ Server

-----------------------------------------------------------------------------
(* Rows and their number.                                                  *)

(* The documents there are, those the server did not look at included, are *)
(* lists of sessions, each with a list of tiers.                           *)
LEMMA Sessions ==
  ASSUME Store, NEW p \in Posts
  PROVE  LET S == doc[p].sessions
         IN  /\ Len(S) \in Nat /\ DOMAIN S = 1..Len(S)
             /\ \A i \in DOMAIN S : S[i].tiers \in Seq(Int)
  <1>1. CASE doc[p] \in Docs
    BY <1>1, AggregatorAssumption
  <1>2. CASE doc[p] = NoDoc
    BY <1>2 DEF NoDoc
  <1> QED  BY <1>1, <1>2 DEF Store

LEMMA RowIs ==
  ASSUME NEW p, NEW x
  PROVE  x \in Rows(p) <=>
           \E i \in DOMAIN doc[p].sessions :
             /\ doc[p].sessions[i].id # Empty
             /\ \E j \in 0..Len(doc[p].sessions[i].tiers) :
                  x = [post |-> p, session |-> i, edit |-> j]
  BY DEF Rows

LEMMA RowsFinite ==
  ASSUME Store, NEW p \in Posts
  PROVE  IsFiniteSet(Rows(p))
  <1> DEFINE S == doc[p].sessions
             D == {k \in DOMAIN S : S[k].id # Empty}
             row(i) == [j \in 0..Len(S[i].tiers) |-> [post |-> p, session |-> i, edit |-> j]]
             part == [i \in D |-> {row(i)[j] : j \in 0..Len(S[i].tiers)}]
  <1>1. IsFiniteSet(D)
    <2>1. Len(S) \in Nat /\ D \subseteq 1..Len(S)
      BY Sessions
    <2>2. IsFiniteSet(1..Len(S))
      <3> HIDE DEF S
      <3> QED  BY <2>1, FS_Interval
    <2> QED  BY <2>1, <2>2, FS_Subset
  <1>2. \A i \in D : IsFiniteSet(part[i])
    <2>1. TAKE i \in D
    <2>2. Len(S[i].tiers) \in Nat
      BY Sessions
    <2>3. IsFiniteSet(0..Len(S[i].tiers))
      BY <2>2, FS_Interval
    <2>4. IsFiniteSet({row(i)[j] : j \in 0..Len(S[i].tiers)})
      <3> HIDE DEF row
      <3> QED  BY <2>3, ImageFinite
    <2> QED  BY <2>4
  <1>3. Rows(p) = UNION {part[i] : i \in D}
    <2>1. \A i \in D : part[i] = {[post |-> p, session |-> i, edit |-> j] : j \in 0..Len(S[i].tiers)}
      OBVIOUS
    <2>2. \A x : (\E i \in D : x \in part[i]) <=> x \in Rows(p)
      <3>1. \A x : x \in Rows(p) <=>
              \E i \in D : \E j \in 0..Len(S[i].tiers) : x = [post |-> p, session |-> i, edit |-> j]
        BY RowIs
      <3> HIDE DEF D, part, S
      <3> QED  BY <2>1, <3>1
    <2> HIDE DEF D, part
    <2> QED  BY <2>2
  <1>4. IsFiniteSet({part[i] : i \in D})
    <2> HIDE DEF D, part
    <2> QED  BY <1>1, ImageFinite
  <1> HIDE DEF D, part
  <1> QED  BY <1>2, <1>3, <1>4, FS_UNION

(* The row of ingested_sessions to which a row belongs.                    *)
SessionRow(x) == [post |-> x.post, session |-> x.session, edit |-> 0]

(* As documents are stored whole, counting, session by session, in the     *)
(* columns counts the edits of the store.                                  *)
LEMMA ColumnsCount ==
  ASSUME Store, NEW V, Whole(V), NEW I,
         \A s \in SessionRows(V) : I[s] \subseteq 1..Len(Tiers(s))
  PROVE  /\ IsFiniteSet({x \in EditRows(V) : x.edit \in I[SessionRow(x)]})
         /\ Cardinality({x \in EditRows(V) : x.edit \in I[SessionRow(x)]})
              = SumOf([s \in SessionRows(V) |-> Cardinality(I[s])], SessionRows(V))
  <1> DEFINE S == SessionRows(V)
             E == {x \in EditRows(V) : x.edit \in I[SessionRow(x)]}
             row(s) == [j \in I[s] |-> [post |-> s.post, session |-> s.session, edit |-> j]]
             part == [s \in S |-> {row(s)[j] : j \in I[s]}]
             w == [s \in S |-> Cardinality(I[s])]
  <1>1. IsFiniteSet(S)
    <2>1. S \subseteq V
      BY DEF SessionRows
    <2> QED  BY <2>1, FS_Subset DEF Whole
  <1>2. ASSUME NEW x \in V
        PROVE  /\ x.post \in Posts /\ RowsOf(x.post, V) = Rows(x.post)
               /\ x.session \in DOMAIN doc[x.post].sessions
               /\ doc[x.post].sessions[x.session].id # Empty
               /\ x.edit \in 0..Len(Tiers(x)) /\ Len(Tiers(x)) \in Nat
               /\ x = [post |-> x.post, session |-> x.session, edit |-> x.edit]
    <2>1. x.post \in Posts /\ x \in Rows(x.post) /\ RowsOf(x.post, V) = Rows(x.post)
      BY DEF Whole, RowsOf
    <2>2. RowsOf(x.post, V) = Rows(x.post)
      BY <2>1
    <2>3. PICK i \in DOMAIN doc[x.post].sessions :
            /\ doc[x.post].sessions[i].id # Empty
            /\ \E j \in 0..Len(doc[x.post].sessions[i].tiers) :
                 x = [post |-> x.post, session |-> i, edit |-> j]
      BY <2>1, RowIs
    <2>4. Len(doc[x.post].sessions[i].tiers) \in Nat
      BY <2>1, Sessions
    <2> QED  BY <2>1, <2>2, <2>3, <2>4 DEF Tiers
  <1>3. ASSUME NEW s \in S
        PROVE  /\ IsFiniteSet(I[s]) /\ Cardinality(I[s]) \in Nat
               /\ IsFiniteSet(part[s]) /\ w[s] = Cardinality(part[s])
               /\ \A y : y \in part[s] <=>
                    \E j \in I[s] : y = [post |-> s.post, session |-> s.session, edit |-> j]
    <2>1. Len(Tiers(s)) \in Nat
      BY <1>2 DEF SessionRows
    <2>2. IsFiniteSet(1..Len(Tiers(s)))
      <3>1. PICK n \in Nat : n = Len(Tiers(s))
        BY <2>1
      <3>2. IsFiniteSet(1..n)
        BY FS_Interval
      <3> QED  BY <3>1, <3>2
    <2>3. IsFiniteSet(I[s]) /\ Cardinality(I[s]) \in Nat
      BY <2>2, FS_Subset, FS_CardinalityType
    <2>4. \A j, k \in I[s] : row(s)[j] = row(s)[k] => j = k
      OBVIOUS
    <2>5. part[s] = {row(s)[j] : j \in I[s]}
      OBVIOUS
    <2>6. IsFiniteSet(part[s]) /\ Cardinality(part[s]) = Cardinality(I[s])
      <3>1. PICK f, J : f = row(s) /\ J = I[s]
        OBVIOUS
      <3>2. /\ IsFiniteSet(J) /\ \A j, k \in J : f[j] = f[k] => j = k
            /\ part[s] = {f[j] : j \in J}
        BY <2>3, <2>4, <2>5, <3>1
      <3> HIDE DEF row, part
      <3>3. IsFiniteSet({f[j] : j \in J}) /\ Cardinality({f[j] : j \in J}) = Cardinality(J)
        BY <3>2, ImageFinite
      <3> QED  BY <3>1, <3>2, <3>3
    <2>7. \A y : y \in part[s] <=>
            \E j \in I[s] : y = [post |-> s.post, session |-> s.session, edit |-> j]
      OBVIOUS
    <2> HIDE DEF part
    <2> QED  BY <2>3, <2>6, <2>7
  <1> HIDE DEF part
  <1>4. \A s, t \in S : s # t => part[s] \intersect part[t] = {}
    <2>1. \A s \in S : s = [post |-> s.post, session |-> s.session, edit |-> 0]
      BY <1>2 DEF SessionRows
    <2> QED  BY <1>3, <2>1
  <1>5. E = UNION {part[s] : s \in S}
    <2>1. ASSUME NEW x \in E  PROVE \E s \in S : x \in part[s]
      <3>1. x \in V /\ x.edit > 0 /\ x.edit \in I[SessionRow(x)]
        BY DEF EditRows
      <3>2. SessionRow(x) \in Rows(x.post)
        BY <1>2, <3>1, RowIs DEF SessionRow, Tiers
      <3>3. SessionRow(x) \in S /\ SessionRow(x).post = x.post /\ SessionRow(x).session = x.session
        BY <1>2, <3>1, <3>2 DEF SessionRows, RowsOf, SessionRow
      <3>4. x = [post |-> x.post, session |-> x.session, edit |-> x.edit]
        BY <1>2, <3>1
      <3> QED  BY <1>3, <3>1, <3>3, <3>4
    <2>2. ASSUME NEW s \in S, NEW x \in part[s]  PROVE x \in E
      <3>1. PICK j \in I[s] : x = [post |-> s.post, session |-> s.session, edit |-> j]
        BY <1>3
      <3>2. s \in V /\ j \in 1..Len(Tiers(s)) /\ Len(Tiers(s)) \in Nat
        BY <1>2 DEF SessionRows
      <3>3. x \in Rows(s.post)
        BY <1>2, <3>1, <3>2, RowIs DEF Tiers
      <3>4. x \in V /\ x.edit > 0
        BY <1>2, <3>1, <3>2, <3>3 DEF RowsOf
      <3>5. s = SessionRow(x)
        BY <1>2, <3>1, <3>2 DEF SessionRow, SessionRows
      <3> QED  BY <3>1, <3>4, <3>5 DEF EditRows
    <2> QED  BY <2>1, <2>2
  <1>6. IsFiniteSet(UNION {part[s] : s \in S}) /\ Cardinality(UNION {part[s] : s \in S}) = SumOf(w, S)
    <2> HIDE DEF w, S
    <2> QED  BY <1>1, <1>3, <1>4, SumOfParts
  <1> QED  BY <1>5, <1>6

LEMMA Fewer ==
  ASSUME NEW B, IsFiniteSet(B), NEW A, A \subseteq B
  PROVE  /\ Cardinality(A) \in Nat /\ Cardinality(B) \in Nat
         /\ Cardinality(A) <= Cardinality(B)
  <1>1. IsFiniteSet(A) /\ Cardinality(A) <= Cardinality(B)
    BY FS_Subset
  <1> QED  BY <1>1, FS_CardinalityType

(* The first query of queryStats adds up columns; it finds the numbers of  *)
(* sessions, of edits and of edits of each tier that are stored.           *)
LEMMA TotalsCount ==
  ASSUME Store, NEW V, Whole(V)
  PROVE  LET t == Totals(V)
         IN  /\ t.sessions = Cardinality(SessionRows(V))
             /\ t.edits = Cardinality(EditRows(V))
             /\ t.tiers \in [1..3 -> Nat]
             /\ \A k \in 1..3 : t.tiers[k] = Cardinality(TierRows(V, k))
  <1> DEFINE S == SessionRows(V)
  <1>0. /\ IsFiniteSet(S) /\ S \subseteq V
        /\ \A s \in S : Tiers(s) \in Seq(Int)
    <2>1. S \subseteq V
      BY DEF SessionRows
    <2>2. ASSUME NEW s \in S  PROVE Tiers(s) \in Seq(Int)
      <3>1. s.post \in Posts /\ s \in Rows(s.post)
        BY <2>1 DEF Whole, RowsOf
      <3>2. s.session \in DOMAIN doc[s.post].sessions
        BY <3>1, RowIs
      <3> QED  BY <3>1, <3>2, Sessions DEF Tiers
    <2> QED  BY <2>1, <2>2, FS_Subset DEF Whole
  <1>1. SumOf([s \in S |-> Len(Tiers(s))], S) = Cardinality(EditRows(V))
    <2> DEFINE I == [s \in S |-> 1..Len(Tiers(s))]
               v == [s \in S |-> Len(Tiers(s))]
               w == [s \in S |-> Cardinality(I[s])]
    <2>1. \A s \in S : w[s] \in Nat /\ v[s] = w[s]
      <3>1. TAKE s \in S
      <3>2. PICK n \in Nat : n = Len(Tiers(s))
        BY <1>0
      <3>3. Cardinality(1..n) = n
        BY FS_Interval
      <3> QED  BY <3>2, <3>3
    <2>2. EditRows(V) = {x \in EditRows(V) : x.edit \in I[SessionRow(x)]}
      <3>1. ASSUME NEW x \in EditRows(V)  PROVE x.edit \in I[SessionRow(x)]
        <4>1. x \in V /\ x.edit > 0 /\ x.post \in Posts /\ x \in Rows(x.post)
          BY DEF EditRows, Whole, RowsOf
        <4>2. /\ SessionRow(x) \in Rows(x.post) /\ Tiers(SessionRow(x)) = Tiers(x)
              /\ x.edit \in 1..Len(Tiers(x))
          <5>1. PICK i \in DOMAIN doc[x.post].sessions :
                  /\ doc[x.post].sessions[i].id # Empty
                  /\ \E j \in 0..Len(doc[x.post].sessions[i].tiers) :
                       x = [post |-> x.post, session |-> i, edit |-> j]
            BY <4>1, RowIs
          <5>2. Len(doc[x.post].sessions[i].tiers) \in Nat
            BY <4>1, Sessions
          <5> QED  BY <4>1, <5>1, <5>2, RowIs DEF SessionRow, Tiers
        <4>3. RowsOf(x.post, V) = Rows(x.post)
          BY <4>1 DEF Whole
        <4>4. SessionRow(x) \in S
          BY <4>2, <4>3 DEF SessionRows, SessionRow, RowsOf
        <4> QED  BY <4>2, <4>4
      <3> HIDE DEF I
      <3> QED  BY <3>1
    <2>3. \A s \in S : I[s] \subseteq 1..Len(Tiers(s))
      OBVIOUS
    <2> HIDE DEF I, v
    <2>4. Cardinality(EditRows(V)) = SumOf(w, S)
      BY <2>2, <2>3, ColumnsCount
    <2> HIDE DEF w, S
    <2>5. SumOf(v, S) = SumOf(w, S)
      BY <1>0, <2>1, SumSame
    <2> QED  BY <2>4, <2>5 DEF v
  <1>2. ASSUME NEW k \in 1..3
        PROVE  SumOf([s \in S |-> TierColumn(s, k)], S) = Cardinality(TierRows(V, k))
    <2> DEFINE I == [s \in S |-> {j \in DOMAIN Tiers(s) : Tiers(s)[j] = k}]
               w == [s \in S |-> Cardinality(I[s])]
    <2>1. [s \in S |-> TierColumn(s, k)] = w
      BY DEF TierColumn
    <2>2. TierRows(V, k) = {x \in EditRows(V) : x.edit \in I[SessionRow(x)]}
      <3>1. ASSUME NEW x \in EditRows(V)
            PROVE  x.edit \in I[SessionRow(x)] <=> Tiers(x)[x.edit] = k
        <4>1. x \in V /\ x.edit > 0 /\ x.post \in Posts /\ x \in Rows(x.post)
          BY DEF EditRows, Whole, RowsOf
        <4>2. /\ SessionRow(x) \in Rows(x.post) /\ Tiers(SessionRow(x)) = Tiers(x)
              /\ x.edit \in DOMAIN Tiers(x)
          <5>1. PICK i \in DOMAIN doc[x.post].sessions :
                  /\ doc[x.post].sessions[i].id # Empty
                  /\ \E j \in 0..Len(doc[x.post].sessions[i].tiers) :
                       x = [post |-> x.post, session |-> i, edit |-> j]
            BY <4>1, RowIs
          <5>2. doc[x.post].sessions[i].tiers \in Seq(Int)
            BY <4>1, Sessions
          <5>3. x.session = i /\ x.edit \in 0..Len(doc[x.post].sessions[i].tiers)
            BY <5>1
          <5>4. x.edit \in DOMAIN doc[x.post].sessions[i].tiers
            BY <4>1, <5>2, <5>3
          <5> QED  BY <5>1, <5>2, <5>3, <5>4, RowIs DEF SessionRow, Tiers
        <4>3. RowsOf(x.post, V) = Rows(x.post)
          BY <4>1 DEF Whole
        <4>4. SessionRow(x) \in S
          BY <4>2, <4>3 DEF SessionRows, SessionRow, RowsOf
        <4> QED  BY <4>2, <4>4
      <3> HIDE DEF I
      <3> QED  BY <3>1 DEF TierRows
    <2>3. \A s \in S : I[s] \subseteq 1..Len(Tiers(s))
      BY <1>0
    <2> HIDE DEF I
    <2>4. Cardinality(TierRows(V, k)) = SumOf(w, S)
      BY <2>2, <2>3, ColumnsCount
    <2> QED  BY <2>1, <2>4
  <1>3. \A k \in 1..3 : Cardinality(TierRows(V, k)) \in Nat
    <2>1. \A k \in 1..3 : TierRows(V, k) \subseteq V
      BY DEF TierRows, EditRows
    <2> QED  BY <2>1, Fewer DEF Whole
  <1> DEFINE col == [k \in 1..3 |-> SumOf([s \in S |-> TierColumn(s, k)], S)]
  <1>4. \A k \in 1..3 : col[k] = Cardinality(TierRows(V, k))
    BY <1>2
  <1>5. col \in [1..3 -> Nat]
    BY <1>3, <1>4
  <1> HIDE DEF col
  <1>6. /\ Totals(V).sessions = Cardinality(S)
        /\ Totals(V).edits = SumOf([s \in S |-> Len(Tiers(s))], S)
        /\ Totals(V).tiers = col
    BY DEF Totals, col
  <1> QED  BY <1>1, <1>4, <1>5, <1>6

LEMMA BracketedNow ==
  ASSUME IsFiniteSet(Seen), NEW V, V \subseteq Seen, NEW old, old \subseteq V, NEW t,
         t.sessions = Cardinality(SessionRows(V)),
         t.edits = Cardinality(EditRows(V)),
         \A k \in 1..3 : t.tiers[k] = Cardinality(TierRows(V, k))
  PROVE  Bracketed(old, t)
  <1>1. /\ SessionRows(old) \subseteq SessionRows(V) /\ SessionRows(V) \subseteq SessionRows(Seen)
        /\ EditRows(old) \subseteq EditRows(V) /\ EditRows(V) \subseteq EditRows(Seen)
        /\ \A k \in 1..3 : /\ TierRows(old, k) \subseteq TierRows(V, k)
                           /\ TierRows(V, k) \subseteq TierRows(Seen, k)
    BY DEF SessionRows, EditRows, TierRows
  <1>2. /\ IsFiniteSet(SessionRows(Seen)) /\ IsFiniteSet(EditRows(Seen))
        /\ \A k \in 1..3 : IsFiniteSet(TierRows(Seen, k))
    <2>1. /\ SessionRows(Seen) \subseteq Seen /\ EditRows(Seen) \subseteq Seen
          /\ \A k \in 1..3 : TierRows(Seen, k) \subseteq Seen
      BY DEF SessionRows, EditRows, TierRows
    <2> QED  BY <2>1, FS_Subset
  <1>3. /\ IsFiniteSet(SessionRows(V)) /\ IsFiniteSet(EditRows(V))
        /\ \A k \in 1..3 : IsFiniteSet(TierRows(V, k))
    BY <1>1, <1>2, FS_Subset
  <1>4. /\ Cardinality(SessionRows(old)) <= Cardinality(SessionRows(V))
        /\ Cardinality(SessionRows(V)) <= Cardinality(SessionRows(Seen))
        /\ Cardinality(EditRows(old)) <= Cardinality(EditRows(V))
        /\ Cardinality(EditRows(V)) <= Cardinality(EditRows(Seen))
        /\ \A k \in 1..3 :
             /\ Cardinality(TierRows(old, k)) <= Cardinality(TierRows(V, k))
             /\ Cardinality(TierRows(V, k)) <= Cardinality(TierRows(Seen, k))
    BY <1>1, <1>2, <1>3, Fewer
  <1> QED  BY <1>4 DEF Bracketed

(* Documents that are committed later do not spoil figures.                *)
LEMMA BracketedLater ==
  ASSUME NEW old, old \subseteq Seen, NEW t \in Figures, Bracketed(old, t),
         Seen \subseteq Seen', IsFiniteSet(Seen'),
         \A x \in Seen : Tiers(x)' = Tiers(x)
  PROVE  Bracketed(old, t)'
  <1>1. /\ SessionRows(Seen) \subseteq SessionRows(Seen') /\ SessionRows(Seen') \subseteq Seen'
        /\ EditRows(Seen) \subseteq EditRows(Seen') /\ EditRows(Seen') \subseteq Seen'
        /\ \A k \in 1..3 : /\ TierRows(old, k)' = TierRows(old, k)
                           /\ TierRows(Seen, k) \subseteq TierRows(Seen, k)'
                           /\ TierRows(Seen, k)' \subseteq Seen'
    BY DEF SessionRows, EditRows, TierRows
  <1>2. /\ IsFiniteSet(SessionRows(Seen')) /\ IsFiniteSet(EditRows(Seen'))
        /\ \A k \in 1..3 : IsFiniteSet(TierRows(Seen, k)')
    BY <1>1, FS_Subset
  <1>3. /\ Cardinality(SessionRows(Seen)) <= Cardinality(SessionRows(Seen'))
        /\ Cardinality(SessionRows(Seen)) \in Nat /\ Cardinality(SessionRows(Seen')) \in Nat
        /\ Cardinality(EditRows(Seen)) <= Cardinality(EditRows(Seen'))
        /\ Cardinality(EditRows(Seen)) \in Nat /\ Cardinality(EditRows(Seen')) \in Nat
    BY <1>1, <1>2, Fewer
  <1>4. \A k \in 1..3 :
          /\ Cardinality(TierRows(Seen, k)) <= Cardinality(TierRows(Seen, k)')
          /\ Cardinality(TierRows(Seen, k)) \in Nat /\ Cardinality(TierRows(Seen, k)') \in Nat
    BY <1>1, <1>2, Fewer
  <1>5. t.sessions \in Nat /\ t.edits \in Nat /\ \A k \in 1..3 : t.tiers[k] \in Nat
    BY DEF Figures
  <1>6. /\ Cardinality(SessionRows(old)) <= t.sessions /\ t.sessions <= Cardinality(SessionRows(Seen'))
        /\ Cardinality(EditRows(old)) <= t.edits /\ t.edits <= Cardinality(EditRows(Seen'))
    BY <1>3, <1>5 DEF Bracketed
  <1>7. \A k \in 1..3 : /\ Cardinality(TierRows(old, k)') <= t.tiers[k]
                       /\ t.tiers[k] <= Cardinality(TierRows(Seen, k)')
    BY <1>1, <1>4, <1>5 DEF Bracketed
  <1>8. /\ SessionRows(old)' = SessionRows(old) /\ EditRows(old)' = EditRows(old)
        /\ SessionRows(Seen)' = SessionRows(Seen') /\ EditRows(Seen)' = EditRows(Seen')
    BY DEF SessionRows, EditRows
  <1> QED  BY <1>6, <1>7, <1>8 DEF Bracketed

-----------------------------------------------------------------------------
(* Every step keeps the invariant.                                         *)

(* The view of a query: whole documents, all of them among those seen.     *)
LEMMA ViewsWhole ==
  ASSUME IngestInv, Store
  PROVE  /\ IsFiniteSet(Seen) /\ stored \subseteq Seen
         /\ \A V \in Views : Whole(V) /\ V \subseteq Seen /\ stored \subseteq V
  <1>1. \A p \in left : IsFiniteSet(Rows(p))
    BY RowsFinite DEF IngestInv, Shape
  <1>2. IsFiniteSet(Seen)
    <2> DEFINE rows == [p \in left |-> Rows(p)]
               R == {rows[p] : p \in left}
    <2>1. \A S \in R : IsFiniteSet(S)
      BY <1>1
    <2>2. IsFiniteSet(R)
      <3> HIDE DEF rows
      <3> QED  BY ImageFinite DEF Store
    <2>3. UNION R = UNION {Rows(p) : p \in left}
      OBVIOUS
    <2> HIDE DEF R
    <2>4. IsFiniteSet(UNION R)
      BY <2>1, <2>2, FS_UNION
    <2> QED  BY <2>3, <2>4, FS_Union DEF Seen, Store, Whole
  <1>3. stored \subseteq Seen
    BY DEF Seen
  <1>4. ASSUME NEW p \in left  PROVE Whole(stored \union tx[p]) /\ stored \union tx[p] \subseteq Seen
    <2>1. PostInv(p) /\ p \in Posts
      BY DEF IngestInv, Shape
    <2>2. CASE tx[p] = {}
      BY <1>3, <2>2 DEF Store
    <2>3. CASE tx[p] = Rows(p)
      <3>1. RowsOf(p, stored \union Rows(p)) = Rows(p)
        BY <2>1, CommittedRows DEF PostInv, OwnTransaction
      <3>2. IsFiniteSet(stored \union Rows(p))
        BY <1>1, FS_Union DEF Store, Whole
      <3>3. ASSUME NEW x \in stored \union Rows(p)
            PROVE  x.post \in Posts /\ RowsOf(x.post, stored \union Rows(p)) = Rows(x.post)
        <4>1. CASE x \in Rows(p)
          BY <2>1, <3>1, <4>1, RowOfPost
        <4>2. CASE x \in stored /\ x.post # p
          BY <4>2, CommittedRows DEF Store, Whole
        <4>3. CASE x.post = p
          BY <2>1, <3>1, <4>3
        <4> QED  BY <4>1, <4>2, <4>3
      <3> QED  BY <2>3, <3>2, <3>3 DEF Whole, Seen
    <2> QED  BY <2>1, <2>2, <2>3 DEF PostInv, OwnTransaction
  <1> QED  BY <1>2, <1>3, <1>4 DEF Views, Store

(* A document is fixed before a row of it is seen.                         *)
LEMMA StoreStep ==
  ASSUME IngestInv, Store, [Next]_vars
  PROVE  /\ Store' /\ stored \subseteq stored' /\ Seen \subseteq Seen'
         /\ \A x \in Seen : Tiers(x)' = Tiers(x)
  <1>0. IngestInv'
    BY NextIngestInv
  <1>1. ASSUME UNCHANGED <<doc, stored, left>>
        PROVE  /\ Store' /\ stored \subseteq stored' /\ Seen \subseteq Seen'
               /\ \A x \in Seen : Tiers(x)' = Tiers(x)
    BY <1>1 DEF Store, Whole, RowsOf, Tiers, Rows, Seen
  <1>2. ASSUME NEW p \in Posts, Send(p)
        PROVE  /\ Store' /\ stored \subseteq stored' /\ Seen \subseteq Seen'
               /\ \A x \in Seen : Tiers(x)' = Tiers(x)
    <2>1. stored' = stored /\ left' = left /\ client[p] = "idle"
      BY <1>2 DEF Send, storeVars
    <2>2. PICK d \in Docs : doc' = [doc EXCEPT ![p] = d]
      BY <1>2 DEF Send, MaySend
    <2>3. p \notin left /\ \A x \in stored : x.post # p
      BY <2>1 DEF IngestInv, PostInv, OwnTransaction, Outcome, RowsOf
    <2>4. \A q \in Posts \ {p} : doc'[q] = doc[q] /\ Rows(q)' = Rows(q)
      BY <2>2 DEF Store, Rows
    <2>5. \A x \in Seen : x.post \in Posts \ {p}
      <3>1. \A x \in stored : x.post \in Posts \ {p}
        BY <2>3 DEF Store, Whole
      <3>2. \A q \in left : q \in Posts \ {p} /\ \A x \in Rows(q) : x.post = q
        BY <2>3, RowOfPost DEF IngestInv, Shape
      <3> QED  BY <3>1, <3>2 DEF Seen
    <2>6. \A x \in Seen : Tiers(x)' = Tiers(x)
      BY <2>4, <2>5 DEF Tiers
    <2>7. Seen' = Seen
      <3>1. \A q \in left : Rows(q)' = Rows(q)
        BY <2>3, <2>4 DEF IngestInv, Shape
      <3> QED  BY <2>1, <3>1 DEF Seen
    <2>8. doc' \in [Posts -> Docs \union {NoDoc}]
      BY <2>2 DEF Store
    <2>9. Whole(stored)'
      <3>1. \A x \in stored : x.post \in Posts \ {p}
        BY <2>5 DEF Seen
      <3>2. \A x \in stored : RowsOf(x.post, stored) = Rows(x.post)
        BY DEF Store, Whole
      <3>3. \A x \in stored : Rows(x.post)' = Rows(x.post)
        BY <2>4, <3>1
      <3>4. \A q : RowsOf(q, stored)' = RowsOf(q, stored)
        BY <2>1 DEF RowsOf
      <3> QED  BY <2>1, <3>1, <3>2, <3>3, <3>4 DEF Store, Whole
    <2> QED  BY <2>1, <2>6, <2>7, <2>8, <2>9 DEF Store
  <1>3. ASSUME NEW p \in Posts, Commit(p), stored' = stored \union tx[p], left' = left
        PROVE  /\ Store' /\ stored \subseteq stored' /\ Seen \subseteq Seen'
               /\ \A x \in Seen : Tiers(x)' = Tiers(x)
    <2>1. doc' = doc /\ tx[p] = Rows(p)
      BY <1>3 DEF Commit
    <2>2. IsFiniteSet(stored')
      BY <1>3, <2>1, RowsFinite, FS_Union DEF Store, Whole
    <2>3. \A q : Rows(q)' = Rows(q)
      BY <2>1 DEF Rows
    <2>4. \A x \in stored' : x.post \in Posts /\ RowsOf(x.post, stored') = Rows(x.post)
      <3> TAKE x \in stored'
      <3>1. x.post \in Posts
        BY <1>3, <2>1, RowOfPost DEF Store, Whole
      <3>2. RowsOf(x.post, stored') # {}
        BY DEF RowsOf
      <3>3. RowsOf(x.post, stored)' = RowsOf(x.post, stored')
        BY DEF RowsOf
      <3> QED  BY <1>0, <2>3, <3>1, <3>2, <3>3 DEF IngestInv, PostInv, Outcome
    <2>5. \A x \in Seen : Tiers(x)' = Tiers(x)
      BY <2>1 DEF Tiers
    <2>6. doc' \in [Posts -> Docs \union {NoDoc}]
      BY <2>1 DEF Store
    <2>7. Whole(stored)'
      <3>1. \A q : RowsOf(q, stored)' = RowsOf(q, stored')
        BY DEF RowsOf
      <3> QED  BY <2>2, <2>3, <2>4, <3>1 DEF Whole
    <2>8. Seen \subseteq Seen'
      BY <1>3, <2>3 DEF Seen
    <2> QED  BY <1>3, <2>5, <2>6, <2>7, <2>8 DEF Store
  <1>7. ASSUME NEW p \in Posts, UNCHANGED <<doc, stored>>, left' = left \union {p}
        PROVE  /\ Store' /\ stored \subseteq stored' /\ Seen \subseteq Seen'
               /\ \A x \in Seen : Tiers(x)' = Tiers(x)
    <2>1. \A q : Rows(q)' = Rows(q) /\ RowsOf(q, stored)' = RowsOf(q, stored)
      BY <1>7 DEF Rows, RowsOf
    <2>2. IsFiniteSet(left')
      BY <1>7, FS_AddElement DEF Store
    <2>3. Seen \subseteq Seen'
      BY <1>7, <2>1 DEF Seen
    <2>4. Store'
      BY <1>7, <2>1, <2>2 DEF Store, Whole
    <2> QED  BY <1>7, <2>3, <2>4 DEF Tiers
  <1>4. ASSUME NEW p \in Posts, GiveUp(p) \/ HandleIngest(p) \/ CloseConnection(p)
        PROVE  \/ UNCHANGED <<doc, stored, left>>
               \/ Commit(p) /\ stored' = stored \union tx[p] /\ left' = left
               \/ UNCHANGED <<doc, stored>> /\ left' = left \union {p}
    BY <1>4 DEF GiveUp, HandleIngest, Validate, BeginTx, Insert, Rollback, Commit,
                Respond, CloseConnection, storeVars, postVars
  <1>5. ASSUME NEW r \in Readers, Ask(r) \/ HandleStats(r)
        PROVE  UNCHANGED <<doc, stored, left>>
    BY <1>5 DEF Ask, HandleStats, QueryTotals, QueryContributors, QueryFiles,
                QueryFailed, QueryUpdated, postVars, storeVars
  <1>6. ASSUME StartServer \/ KillServer \/ UNCHANGED vars
        PROVE  UNCHANGED <<doc, stored, left>>
    BY <1>6 DEF StartServer, KillServer, vars, postVars, storeVars
  <1> QED  BY <1>1, <1>2, <1>3, <1>4, <1>5, <1>6, <1>7 DEF Next

LEMMA ReadsStep ==
  ASSUME IngestInv, Store, Reads, [Next]_vars
  PROVE  Reads'
  <1>0. /\ stored \subseteq stored' /\ Seen \subseteq Seen' /\ IsFiniteSet(Seen')
        /\ IsFiniteSet(Seen) /\ stored \subseteq Seen
        /\ \A V \in Views : Whole(V) /\ V \subseteq Seen /\ stored \subseteq V
        /\ \A x \in Seen : Tiers(x)' = Tiers(x)
    <2>1. /\ IngestInv' /\ Store' /\ stored \subseteq stored' /\ Seen \subseteq Seen'
          /\ \A x \in Seen : Tiers(x)' = Tiers(x)
      BY NextIngestInv, StoreStep
    <2>2. /\ IsFiniteSet(Seen) /\ stored \subseteq Seen
          /\ \A V \in Views : Whole(V) /\ V \subseteq Seen /\ stored \subseteq V
      BY ViewsWhole
    <2>3. (IngestInv /\ Store => IsFiniteSet(Seen))'
      BY ViewsWhole, PTL
    <2> QED  BY <2>1, <2>2, <2>3
  <1>a. ASSUME NEW old, old \subseteq stored, NEW t \in Figures, Bracketed(old, t)
        PROVE  Bracketed(old, t)'
    <2>1. old \subseteq Seen
      BY <1>0, <1>a
    <2> QED  BY <1>0, <1>a, <2>1, BracketedLater
  <1>b. ASSUME NEW r \in Readers, owed'[r] = owed[r], stats'[r] = stats[r],
               reader'[r] \in Reading => reader[r] \in Reading
        PROVE  reader'[r] \in Reading => Bracketed(owed[r], stats[r])'
    <2> SUFFICES ASSUME reader'[r] \in Reading PROVE Bracketed(owed[r], stats[r])'
      OBVIOUS
    <2>1. PICK old, t : old = owed[r] /\ t = stats[r]
      OBVIOUS
    <2>2. Bracketed(old, t) /\ old \subseteq stored /\ t \in Figures
      BY <1>b, <2>1 DEF Reads
    <2>3. Bracketed(old, t)'
      BY <1>a, <2>2
    <2> QED  BY <1>b, <2>1, <2>3 DEF Bracketed
  <1>c. ASSUME UNCHANGED <<owed, stats, cut>>,
               reader' \in [Readers -> {"idle", "totals", "failed"} \union Reading],
               \A r \in Readers : reader'[r] \in Reading => reader[r] \in Reading
        PROVE  Reads'
    <2>1. \A r \in Readers : reader'[r] \in Reading => Bracketed(owed[r], stats[r])'
      BY <1>b, <1>c
    <2> QED  BY <1>0, <1>c, <2>1 DEF Reads
  <1>1. ASSUME UNCHANGED readVars  PROVE Reads'
    BY <1>1, <1>c DEF Reads, readVars
  <1>2. ASSUME NEW p \in Posts, Send(p) \/ GiveUp(p) \/ HandleIngest(p) \/ CloseConnection(p)
        PROVE  Reads'
    BY <1>1, <1>2 DEF Send, GiveUp, HandleIngest, Validate, BeginTx, Insert, Rollback,
                      Commit, Respond, CloseConnection
  <1>3. ASSUME NEW r \in Readers, Ask(r)  PROVE Reads'
    <2> DEFINE new == UNION {Rows(p) : p \in {q \in Posts : client[q] = "ok"}}
    <2>1. new \subseteq stored
      BY DEF IngestInv, PostInv, Told, RowsOf
    <2>2. /\ owed' = [owed EXCEPT ![r] = new] /\ reader' = [reader EXCEPT ![r] = "totals"]
          /\ UNCHANGED <<stats, cut>>
      BY <1>3 DEF Ask
    <2> HIDE DEF new
    <2>3. ASSUME NEW q \in Readers, reader'[q] \in Reading
          PROVE  Bracketed(owed[q], stats[q])'
      <3>1. q # r /\ owed'[q] = owed[q] /\ reader'[q] = reader[q]
        BY <2>2, <2>3 DEF Reads, Reading
      <3> QED  BY <1>b, <2>2, <2>3, <3>1
    <2>4. owed' \in [Readers -> SUBSET stored']
      BY <1>0, <2>1, <2>2 DEF Reads
    <2> QED  BY <2>2, <2>3, <2>4 DEF Reads
  <1>d. ASSUME NEW r \in Readers, NEW t \in Figures, NEW m \in Reading, NEW c \in SUBSET Readers,
               stats' = [stats EXCEPT ![r] = t], reader' = [reader EXCEPT ![r] = m],
               owed' = owed, cut' = c, Bracketed(owed[r], t)'
        PROVE  Reads'
    <2>1. ASSUME NEW q \in Readers, reader'[q] \in Reading
          PROVE  Bracketed(owed[q], stats[q])'
      <3>1. CASE q = r
        BY <1>d, <3>1 DEF Reads, Bracketed
      <3>2. CASE q # r
        <4>1. owed'[q] = owed[q] /\ reader'[q] = reader[q] /\ stats'[q] = stats[q]
          BY <1>d, <3>2 DEF Reads
        <4> QED  BY <1>b, <2>1, <4>1
      <3> QED  BY <3>1, <3>2
    <2>2. owed' \in [Readers -> SUBSET stored']
      BY <1>0, <1>d DEF Reads
    <2> QED  BY <1>d, <2>1, <2>2 DEF Reads
  <1>4. ASSUME NEW r \in Readers, QueryTotals(r)  PROVE Reads'
    <2>0. /\ UNCHANGED <<doc, stored, owed, cut>>
          /\ reader' = [reader EXCEPT ![r] = "contributors"]
      BY <1>4 DEF QueryTotals, postVars, storeVars
    <2>a. PICK V \in Views :
            LET v == Totals(V)
            IN  stats' = [stats EXCEPT ![r].sessions = v.sessions, ![r].edits = v.edits,
                                       ![r].tiers = v.tiers]
      BY <1>4 DEF QueryTotals
    <2>b. Whole(V) /\ V \subseteq Seen /\ stored \subseteq V
      BY <1>0
    <2>1. PICK u : u = Totals(V)
      OBVIOUS
    <2>2. stats' = [stats EXCEPT ![r].sessions = u.sessions, ![r].edits = u.edits,
                                 ![r].tiers = u.tiers]
      BY <2>a, <2>1
    <2>3. PICK s \in Figures : s = stats[r]
      BY DEF Reads
    <2> DEFINE t == [s EXCEPT !.sessions = u.sessions, !.edits = u.edits, !.tiers = u.tiers]
    <2>4. stats' = [stats EXCEPT ![r] = t]
      BY <2>2, <2>3 DEF Reads
    <2>5. /\ u.sessions = Cardinality(SessionRows(V))
          /\ u.edits = Cardinality(EditRows(V))
          /\ u.tiers \in [1..3 -> Nat]
          /\ \A k \in 1..3 : u.tiers[k] = Cardinality(TierRows(V, k))
      BY <2>1, <2>b, TotalsCount
    <2>6. u.sessions \in Nat /\ u.edits \in Nat
      <3>1. SessionRows(V) \subseteq V /\ EditRows(V) \subseteq V
        BY DEF SessionRows, EditRows
      <3> QED  BY <2>5, <2>b, <3>1, Fewer DEF Whole
    <2>7. t \in Figures /\ t.sessions = u.sessions /\ t.edits = u.edits /\ t.tiers = u.tiers
      BY <2>5, <2>6 DEF Figures
    <2> HIDE DEF t
    <2>8. PICK old : old = owed[r] /\ old \subseteq stored
      BY DEF Reads
    <2>9. Bracketed(old, t)
      <3>1. old \subseteq V
        BY <2>8, <2>b
      <3> QED  BY <1>0, <2>5, <2>7, <2>b, <3>1, BracketedNow
    <2>10. Bracketed(old, t)'
      BY <1>a, <2>7, <2>8, <2>9
    <2>11. PICK v : v = t
      OBVIOUS
    <2>12. Bracketed(owed[r], v)'
      BY <2>0, <2>8, <2>10, <2>11 DEF Bracketed
    <2>13. cut \in SUBSET Readers /\ "contributors" \in Reading
      BY DEF Reads, Reading
    <2> QED  BY <1>d, <2>0, <2>4, <2>7, <2>11, <2>12, <2>13
  <1>e. ASSUME NEW r \in Readers, NEW t, NEW m \in Reading, NEW c \in SUBSET Readers,
               reader[r] \in Reading, owed' = owed, cut' = c,
               stats' = [stats EXCEPT ![r] = t], reader' = [reader EXCEPT ![r] = m],
               t \in Figures, t.sessions = stats[r].sessions, t.edits = stats[r].edits,
               t.tiers = stats[r].tiers
        PROVE  Reads'
    <2>1. PICK old : old = owed[r] /\ old \subseteq stored
      BY DEF Reads
    <2>2. Bracketed(old, t)
      BY <1>e, <2>1 DEF Reads, Bracketed
    <2>3. Bracketed(old, t)'
      BY <1>a, <1>e, <2>1, <2>2
    <2>4. Bracketed(owed[r], t)'
      BY <1>e, <2>1, <2>3 DEF Bracketed
    <2> QED  BY <1>d, <1>e, <2>4
  <1>5. ASSUME NEW r \in Readers, QueryContributors(r)  PROVE Reads'
    <2>a. PICK V \in Views : stats' = [stats EXCEPT ![r].contributors = Cardinality(Authors(V))]
      BY <1>5 DEF QueryContributors
    <2>b. IsFiniteSet(V)
      BY <1>0 DEF Whole
    <2> DEFINE author == [x \in V |-> doc[x.post].author]
               n == Cardinality(Authors(V))
    <2>1. n \in Nat
      <3>1. SessionRows(V) \subseteq V
        BY DEF SessionRows
      <3>2. IsFiniteSet(SessionRows(V))
        BY <2>b, <3>1, FS_Subset
      <3>3. Authors(V) = {author[x] : x \in SessionRows(V)}
        BY <3>1 DEF Authors
      <3> HIDE DEF author
      <3>4. IsFiniteSet({author[x] : x \in SessionRows(V)})
        BY <3>2, ImageFinite
      <3> QED  BY <3>3, <3>4, FS_CardinalityType
    <2>2. PICK s \in Figures : s = stats[r]
      BY DEF Reads
    <2>3. /\ reader[r] = "contributors" /\ reader' = [reader EXCEPT ![r] = "files"]
          /\ stats' = [stats EXCEPT ![r].contributors = n] /\ UNCHANGED <<owed, cut>>
      BY <1>5, <2>a DEF QueryContributors
    <2> HIDE DEF n
    <2>4. PICK t : t = [s EXCEPT !.contributors = n]
      OBVIOUS
    <2>5. t \in Figures /\ t.sessions = s.sessions /\ t.edits = s.edits /\ t.tiers = s.tiers
      BY <2>1, <2>4 DEF Figures
    <2>6. stats' = [stats EXCEPT ![r] = t]
      BY <2>2, <2>3, <2>4 DEF Reads
    <2>7. cut \in SUBSET Readers /\ "contributors" \in Reading /\ "files" \in Reading
      BY DEF Reads, Reading
    <2> QED  BY <1>e, <2>2, <2>3, <2>5, <2>6, <2>7
  <1>6. ASSUME NEW r \in Readers, QueryFiles(r)  PROVE Reads'
    <2>1. /\ reader[r] = "files" /\ reader' = [reader EXCEPT ![r] = "updated"]
          /\ owed' = owed /\ cut' \in {cut, cut \union {r}}
      BY <1>6 DEF QueryFiles
    <2>a. PICK V \in Views :
            \/ stats' = [stats EXCEPT ![r].flagged = Cardinality(FlaggedRows(V))]
            \/ \E n \in 0..Cardinality(FlaggedRows(V)) : stats' = [stats EXCEPT ![r].flagged = n]
      BY <1>6 DEF QueryFiles
    <2>2. Cardinality(FlaggedRows(V)) \in Nat
      <3>1. FlaggedRows(V) \subseteq V /\ IsFiniteSet(V)
        BY <1>0 DEF FlaggedRows, EditRows, Whole
      <3> QED  BY <3>1, Fewer
    <2>3. PICK n \in Nat : stats' = [stats EXCEPT ![r].flagged = n]
      BY <2>2, <2>a
    <2>4. PICK s \in Figures : s = stats[r]
      BY DEF Reads
    <2>5. PICK t : t = [s EXCEPT !.flagged = n]
      OBVIOUS
    <2>6. t \in Figures /\ t.sessions = s.sessions /\ t.edits = s.edits /\ t.tiers = s.tiers
      BY <2>5 DEF Figures
    <2>7. stats' = [stats EXCEPT ![r] = t]
      BY <2>3, <2>4, <2>5 DEF Reads
    <2>8. PICK c \in SUBSET Readers : cut' = c
      BY <2>1 DEF Reads
    <2>9. "files" \in Reading /\ "updated" \in Reading
      BY DEF Reading
    <2> QED  BY <1>e, <2>1, <2>4, <2>6, <2>7, <2>8, <2>9
  <1>7. ASSUME NEW r \in Readers, QueryFailed(r) \/ QueryUpdated(r)  PROVE Reads'
    BY <1>c, <1>7 DEF QueryFailed, QueryUpdated, Reads, Reading
  <1>8. CASE StartServer
    BY <1>1, <1>8 DEF StartServer
  <1>9. CASE KillServer
    BY <1>c, <1>9 DEF KillServer, Reads, Reading
  <1>10. CASE UNCHANGED vars
    BY <1>1, <1>10 DEF vars
  <1> QED  BY <1>2, <1>3, <1>4, <1>5, <1>6, <1>7, <1>8, <1>9, <1>10 DEF Next, HandleStats

LEMMA ServerStep ==
  ASSUME Server, [Next]_vars
  PROVE  Server'
  <1>1. ASSUME UNCHANGED <<serverVars, answer>>  PROVE Server'
    BY <1>1 DEF Server, serverVars
  <1>2. ASSUME NEW p \in Posts, Send(p) \/ GiveUp(p) \/ Insert(p) \/ Rollback(p) \/ Respond(p)
                                \/ CloseConnection(p)
        PROVE  Server'
    <2>1. CASE Insert(p)
      BY <2>1 DEF Insert, Server, Refusals, serverVars
    <2> QED  BY <1>1, <1>2, <2>1 DEF Send, GiveUp, Rollback, Respond, CloseConnection, postVars
  <1>3. ASSUME NEW p \in Posts, Validate(p) \/ BeginTx(p) \/ Commit(p)  PROVE Server'
    <2>1. UNCHANGED serverVars
      BY <1>3 DEF Validate, BeginTx, Commit
    <2>2. ASSUME NEW a \in {"ok"} \union Refusals, Decide(p, a)  PROVE Server'
      BY <2>1, <2>2 DEF Server, serverVars, Decide
    <2>3. CASE answer' = answer
      BY <1>1, <2>1, <2>3
    <2>4. \A a : Decide(p, a) /\ a \in {"unreadable", "version", "author", "edits", "internal", "ok"}
                  => Server'
      BY <2>2 DEF Refusals
    <2>5. CASE Validate(p)
      BY <2>3, <2>4, <2>5 DEF Validate
    <2>6. CASE BeginTx(p)
      BY <2>3, <2>4, <2>6 DEF BeginTx
    <2>7. CASE Commit(p)
      BY <2>3, <2>4, <2>7 DEF Commit
    <2> QED  BY <1>3, <2>5, <2>6, <2>7
  <1>4. ASSUME NEW r \in Readers, Ask(r) \/ HandleStats(r)  PROVE Server'
    BY <1>1, <1>4 DEF Ask, HandleStats, QueryTotals, QueryContributors, QueryFiles,
                      QueryFailed, QueryUpdated, postVars
  <1>5. CASE StartServer \/ KillServer
    <2>1. answer' = answer /\ up' \in BOOLEAN /\ starts' \in {starts, starts + 1}
      BY <1>5 DEF StartServer, KillServer, postVars
    <2> QED  BY <2>1 DEF Server
  <1>6. CASE UNCHANGED vars
    BY <1>1, <1>6 DEF vars, postVars
  <1> QED  BY <1>2, <1>3, <1>4, <1>5, <1>6 DEF Next, HandleIngest

LEMMA InitAggregatorInv == Init => AggregatorInv
  <1> SUFFICES ASSUME Init PROVE AggregatorInv
    OBVIOUS
  <1>1. Store
    BY FS_EmptySet DEF Init, Store, Whole
  <1>2. NoFigures \in Figures
    BY DEF NoFigures, Figures
  <1>3. Reads
    BY <1>2 DEF Init, Reads, Reading
  <1>4. Server
    BY DEF Init, Server
  <1> QED  BY <1>1, <1>3, <1>4, InitIngestInv DEF AggregatorInv

LEMMA AggregatorInvariant == Spec => []AggregatorInv
  <1>1. AggregatorInv /\ [Next]_vars => AggregatorInv'
    BY NextIngestInv, StoreStep, ReadsStep, ServerStep DEF AggregatorInv
  <1> QED  BY InitAggregatorInv, <1>1, PTL DEF Spec

(* Whatever is posted, refused, cut off or killed, the aggregator's        *)
(* variables hold values of their kinds, and a transaction is open only in *)
(* a handler that has still to end it, or where COMMIT met another request.*)
THEOREM AggregatorTyped == Spec => []TypeOK
  <1>1. AggregatorInv => TypeOK
    <2> SUFFICES ASSUME AggregatorInv PROVE TypeOK
      OBVIOUS
    <2>1. stored \subseteq UNION {Rows(p) : p \in Posts}
      BY DEF AggregatorInv, Store, Whole, RowsOf
    <2>2. owed \in [Readers -> SUBSET UNION {Rows(p) : p \in Posts}]
      BY <2>1 DEF AggregatorInv, Reads
    <2> QED  BY <2>1, <2>2
             DEF AggregatorInv, IngestInv, Shape, PostInv, OwnTransaction, Store, Reads,
                 Reading, Server, TypeOK
  <1> QED  BY AggregatorInvariant, <1>1, PTL

(* The figures a request is answered with, added up from the columns of    *)
(* ingested_sessions, lie between the edits acknowledged before it and the *)
(* edits stored when it is answered, documents whose COMMIT met another    *)
(* request counted with them: for any number of readers, of concurrent     *)
(* ingests and of kills, and for documents of any size.                    *)
THEOREM FiguresLieBetween == Spec => []FiguresBracketed
  <1>1. AggregatorInv => FiguresBracketed
    BY DEF AggregatorInv, Reads, Reading, Bracketed, FiguresBracketed
  <1> QED  BY AggregatorInvariant, <1>1, PTL
=============================================================================
