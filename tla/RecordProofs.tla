---------------------------- MODULE RecordProofs ----------------------------
(***************************************************************************)
(* Proofs about Record, for any set of hooks, any kinds and sessions, any  *)
(* number of daemon starts and any clock bound.                            *)
(***************************************************************************)
EXTENDS Record, TLAPS

-----------------------------------------------------------------------------
(* Type correctness.                                                       *)

(* A statement adds a well-formed row and keeps the prompt counter typed.  *)
LEMMA WriteTyped ==
  ASSUME TypeOK, NEW h \in Hooks, NEW via \in {"daemon", "direct"},
         Write(h, via)
  PROVE  writes' \subseteq WriteRecord /\ nextId' \in Nat \ {0}
<1>. DEFINE blind == h \in unlinked
            w == [hook |-> h, via |-> via, prompt |-> link[h],
                  blind |-> blind, id |-> nextId]
<1>1. nextId \in Nat /\ link[h] \in Nat
  BY DEF TypeOK
<1>2. blind \in BOOLEAN
  OBVIOUS
<1>. HIDE DEF blind
<1>3. w \in WriteRecord
  BY <1>1, <1>2 DEF WriteRecord
<1>4. writes' = writes \union {w}
  BY DEF Write, blind
<1>. QED
  BY <1>3, <1>4 DEF TypeOK, Write

(* Every state of the recording path is well typed, so the case splits on  *)
(* the states of a connection and of a hook below are exhaustive.          *)
THEOREM TypeCorrect == Spec => []TypeOK
<1>. USE RecordAssumption
<1>1. Init => TypeOK
  <2>. SUFFICES ASSUME Init
                PROVE  TypeOK
    OBVIOUS
  <2>1. spare \in BOOLEAN
    BY Zenon DEF Init
  <2>. QED
    BY <2>1 DEF Init, TypeOK
<1>2. TypeOK /\ [Next]_vars => TypeOK'
  <2>. SUFFICES ASSUME TypeOK, [Next]_vars
                PROVE  TypeOK'
    OBVIOUS
  <2>. USE DEF TypeOK, daemonVars, poolVars, hookVars, eventVars, linkVars, storeVars
  <2>1. ASSUME NEW h \in Hooks, Begin(h) \/ RejectPayload(h)
        PROVE  TypeOK'
    BY <2>1 DEF Begin, RejectPayload
  <2>2. ASSUME NEW h \in Hooks, HookStep(h)
        PROVE  TypeOK'
    <3>1. CASE DialDaemon(h)
      BY <3>1 DEF DialDaemon
    <3>2. CASE SendToDaemon(h)
      BY <3>2 DEF SendToDaemon
    <3>3. CASE PingFailed(h)
      BY <3>3 DEF PingFailed
    <3>4. CASE DaemonReplied(h)
      BY <3>4 DEF DaemonReplied
    <3>5. CASE OpenStore(h)
      BY <3>5 DEF OpenStore
    <3>6. CASE LinkDirect(h)
      BY <3>6 DEF LinkDirect
    <3>7. CASE InsertDirect(h)
      <4>1. CASE Accepts(h, TRUE) /\ Write(h, "direct")
        BY <3>7, <4>1, WriteTyped DEF InsertDirect
      <4>2. CASE UNCHANGED storeVars
        BY <3>7, <4>2 DEF InsertDirect
      <4>. QED
        BY <3>7, <4>1, <4>2 DEF InsertDirect
    <3>. QED
      BY <2>2, <3>1, <3>2, <3>3, <3>4, <3>5, <3>6, <3>7 DEF HookStep
  <2>3. ASSUME NEW h \in Hooks, KillHook(h)
        PROVE  TypeOK'
    BY <2>3 DEF KillHook
  <2>4. ASSUME NEW h \in Hooks, HandlerStep(h)
        PROVE  TypeOK'
    <3>1. CASE Accept(h)
      BY <3>1 DEF Accept
    <3>2. CASE AnswerPing(h)
      BY <3>2 DEF AnswerPing
    <3>3. CASE ReadRequest(h)
      BY <3>3 DEF ReadRequest, Dispatched
    <3>4. CASE Acquire(h)
      BY <3>4 DEF Acquire
    <3>5. CASE AcquireClosed(h)
      BY <3>5 DEF AcquireClosed
    <3>6. CASE LinkInHandler(h)
      BY <3>6 DEF LinkInHandler
    <3>7. CASE InsertInHandler(h)
      <4>1. CASE Write(h, "daemon")
        BY <3>7, <4>1, WriteTyped DEF InsertInHandler
      <4>2. CASE UNCHANGED storeVars
        BY <3>7, <4>2 DEF InsertInHandler
      <4>. QED
        BY <3>7, <4>1, <4>2 DEF InsertInHandler
    <3>8. CASE Respond(h)
      BY <3>8 DEF Respond
    <3>. QED
      BY <2>4, <3>1, <3>2, <3>3, <3>4, <3>5, <3>6, <3>7, <3>8 DEF HandlerStep
  <2>5. CASE DaemonStep
    <3>1. CASE HangUp
      BY <3>1 DEF HangUp
    <3>2. CASE BindDaemon
      <4>1. spare' \in BOOLEAN
        BY <3>2, Zenon DEF BindDaemon
      <4>. QED
        BY <3>2, <4>1 DEF BindDaemon
    <3>3. CASE ServeDaemon \/ CloseListener \/ CloseStore
      BY <3>3 DEF ServeDaemon, CloseListener, CloseStore
    <3>. QED
      BY <2>5, <3>1, <3>2, <3>3 DEF DaemonStep, ExitDaemon, CrashDaemon
  <2>6. CASE UNCHANGED vars
    BY <2>6 DEF vars
  <2>. QED
    BY <2>1, <2>2, <2>3, <2>4, <2>5, <2>6 DEF Next
<1>. QED
  BY <1>1, <1>2, PTL DEF Spec

-----------------------------------------------------------------------------
(* The inductive invariant behind the promises about copies.               *)

Copied(h, via) == \E w \in writes : w.hook = h /\ w.via = via

(* The two ends of a connection agree: a hook that has none in use is not  *)
(* being served, and a request is served only while its hook waits (or     *)
(* after the hook was killed).                                             *)
ExchangeInv ==
  \A h \in Hooks :
    /\ pc[h] \in {"idle", "dial", "open", "link", "insert", "done"} =>
         conn[h] = "none"
    /\ pc[h] = "ping" =>
         conn[h] \in {"backlog", "accepted", "pong", "lastpong", "eof"}

(* Where a copy of an event can be found, and who must know about it.      *)
CopyInv ==
  \A h \in Hooks :
    /\ conn[h] \in {"committed", "ok"} => Copied(h, "daemon")
    /\ Copied(h, "daemon") =>
         /\ conn[h] \in {"none", "committed", "ok", "eof"}
         /\ pc[h] \in {"await", "open", "link", "insert", "done", "killed"}
         /\ pc[h] \in {"open", "link", "insert"} => h \in logged
    /\ Copied(h, "direct") => pc[h] = "done"
    /\ Copied(h, "direct") /\ Copied(h, "daemon") => h \in logged
    /\ pc[h] = "done" /\ h \notin logged =>
         Copied(h, "daemon") \/ Copied(h, "direct")

(* A statement adds one row, of its own event, on its own path, with the   *)
(* link found for it.                                                      *)
LEMMA WriteAddsRow ==
  ASSUME NEW h \in Hooks, NEW via, Write(h, via)
  PROVE  \E w : /\ writes' = writes \union {w}
               /\ w.hook = h /\ w.via = via /\ w.prompt = link[h]
<1>. DEFINE w == [hook |-> h, via |-> via, prompt |-> link[h],
                  blind |-> h \in unlinked, id |-> nextId]
<1>1. w.hook = h /\ w.via = via /\ w.prompt = link[h]
  OBVIOUS
<1>2. writes' = writes \union {w}
  BY DEF Write
<1>. HIDE DEF w
<1>. QED
  BY <1>1, <1>2

(* So it adds one copy, of that event on that path.                        *)
LEMMA WriteCopies ==
  ASSUME NEW h \in Hooks, NEW via, Write(h, via)
  PROVE  \A g, p : Copied(g, p)' <=> Copied(g, p) \/ (g = h /\ p = via)
BY WriteAddsRow DEF Copied

(* Copies, the set the properties speak of, in terms of Copied.            *)
LEMMA CopiesAre ==
  ASSUME NEW h, writes \subseteq WriteRecord
  PROVE  /\ Copies(h) \subseteq {"daemon", "direct"}
         /\ \A p : p \in Copies(h) <=> Copied(h, p)
BY DEF Copies, Copied, WriteRecord

(* The trace changes only by a hook's own statement or by the statement of *)
(* the handler that serves it.                                             *)
LEMMA WhoWrites ==
  ASSUME TypeOK, [Next]_vars
  PROVE  \/ UNCHANGED writes
         \/ \E h \in Hooks : /\ InsertDirect(h)
                            /\ Write(h, "direct")
                            /\ UNCHANGED logged
         \/ \E h \in Hooks : /\ InsertInHandler(h)
                            /\ Write(h, "daemon")
                            /\ conn'[h] = "committed"
<1>. USE DEF storeVars
<1>1. ASSUME NEW h \in Hooks, Begin(h) \/ RejectPayload(h) \/ HookStep(h) \/ KillHook(h)
      PROVE  \/ UNCHANGED writes
             \/ InsertDirect(h) /\ Write(h, "direct") /\ UNCHANGED logged
  BY <1>1 DEF HookStep, Begin, RejectPayload, KillHook, DialDaemon, SendToDaemon, PingFailed,
              DaemonReplied, OpenStore, LinkDirect, InsertDirect
<1>2. ASSUME NEW h \in Hooks, HandlerStep(h)
      PROVE  \/ UNCHANGED writes
             \/ /\ InsertInHandler(h)
                /\ Write(h, "daemon")
                /\ conn'[h] = "committed"
  BY <1>2 DEF HandlerStep, Accept, AnswerPing, ReadRequest, Dispatched, Acquire, AcquireClosed,
              LinkInHandler, InsertInHandler, Respond, TypeOK
<1>3. CASE DaemonStep
  BY <1>3 DEF DaemonStep, BindDaemon, ServeDaemon, CloseListener, CloseStore,
              ExitDaemon, CrashDaemon, HangUp
<1>4. CASE UNCHANGED vars
  BY <1>4 DEF vars
<1>. QED
  BY <1>1, <1>2, <1>3, <1>4 DEF Next

(* The ends of every connection agree in every state: the protocol never   *)
(* has a handler at work for a hook that is not waiting for it.            *)
THEOREM ExchangeCorrect == Spec => []ExchangeInv
<1>1. Init => ExchangeInv
  BY DEF Init, ExchangeInv
<1>2. TypeOK /\ ExchangeInv /\ [Next]_vars => ExchangeInv'
  <2>. SUFFICES ASSUME TypeOK, ExchangeInv, [Next]_vars
                PROVE  ExchangeInv'
    OBVIOUS
  <2>. USE DEF ExchangeInv, TypeOK, hookVars
  <2>1. ASSUME NEW h \in Hooks, Begin(h) \/ RejectPayload(h) \/ HookStep(h) \/ KillHook(h)
        PROVE  ExchangeInv'
    <3>1. CASE Begin(h) \/ RejectPayload(h) \/ KillHook(h)
      BY <3>1 DEF Begin, RejectPayload, KillHook
    <3>2. CASE DialDaemon(h) \/ SendToDaemon(h) \/ PingFailed(h) \/ DaemonReplied(h)
      BY <3>2 DEF DialDaemon, SendToDaemon, PingFailed, DaemonReplied
    <3>3. CASE OpenStore(h) \/ LinkDirect(h) \/ InsertDirect(h)
      BY <3>3 DEF OpenStore, LinkDirect, InsertDirect
    <3>. QED
      BY <2>1, <3>1, <3>2, <3>3 DEF HookStep
  <2>2. ASSUME NEW h \in Hooks, HandlerStep(h)
        PROVE  ExchangeInv'
    <3>1. CASE Accept(h) \/ AnswerPing(h) \/ ReadRequest(h)
      BY <3>1 DEF Accept, AnswerPing, ReadRequest, Dispatched
    <3>2. CASE Acquire(h) \/ AcquireClosed(h)
      BY <3>2 DEF Acquire, AcquireClosed
    <3>3. CASE LinkInHandler(h) \/ InsertInHandler(h) \/ Respond(h)
      BY <3>3 DEF LinkInHandler, InsertInHandler, Respond
    <3>. QED
      BY <2>2, <3>1, <3>2, <3>3 DEF HandlerStep
  <2>3. CASE DaemonStep
    <3>1. CASE HangUp
      BY <3>1 DEF HangUp
    <3>2. CASE BindDaemon \/ ServeDaemon \/ CloseStore
      BY <3>2 DEF BindDaemon, ServeDaemon, CloseStore
    <3>3. CASE CloseListener
      BY <3>3 DEF CloseListener
    <3>. QED
      BY <2>3, <3>1, <3>2, <3>3 DEF DaemonStep, ExitDaemon, CrashDaemon
  <2>4. CASE UNCHANGED vars
    BY <2>4 DEF vars
  <2>. QED
    BY <2>1, <2>2, <2>3, <2>4 DEF Next
<1>. QED
  BY <1>1, <1>2, TypeCorrect, PTL DEF Spec

(* Where the copies of an event are, in every state.                       *)
THEOREM CopyCorrect == Spec => []CopyInv
<1>1. Init => CopyInv
  BY DEF Init, CopyInv, Copied
<1>2. TypeOK /\ ExchangeInv /\ CopyInv /\ [Next]_vars => CopyInv'
  <2>. SUFFICES ASSUME TypeOK, ExchangeInv, CopyInv, [Next]_vars
                PROVE  CopyInv'
    OBVIOUS
  <2>1. CASE UNCHANGED writes
    <3>1. \A g, p : Copied(g, p)' <=> Copied(g, p)
      BY <2>1 DEF Copied
    <3>. USE <3>1 DEF CopyInv, ExchangeInv, TypeOK, hookVars
    <3>2. ASSUME NEW h \in Hooks, Begin(h) \/ RejectPayload(h) \/ HookStep(h) \/ KillHook(h)
          PROVE  CopyInv'
      <4>1. CASE Begin(h) \/ RejectPayload(h) \/ KillHook(h)
        BY <4>1 DEF Begin, RejectPayload, KillHook
      <4>2. CASE DialDaemon(h) \/ SendToDaemon(h) \/ PingFailed(h)
        BY <4>2 DEF DialDaemon, SendToDaemon, PingFailed
      <4>3. CASE DaemonReplied(h)
        BY <4>3 DEF DaemonReplied
      <4>4. CASE OpenStore(h) \/ LinkDirect(h)
        BY <4>4 DEF OpenStore, LinkDirect
      <4>5. CASE InsertDirect(h)
        <5>1. ASSUME Write(h, "direct")
              PROVE  Copied(h, "direct")
          BY <5>1, WriteCopies
        <5>. QED
          BY <4>5, <5>1 DEF InsertDirect
      <4>. QED
        BY <3>2, <4>1, <4>2, <4>3, <4>4, <4>5 DEF HookStep
    <3>3. ASSUME NEW h \in Hooks, HandlerStep(h)
          PROVE  CopyInv'
      <4>1. CASE Accept(h) \/ AnswerPing(h) \/ ReadRequest(h)
        BY <4>1 DEF Accept, AnswerPing, ReadRequest, Dispatched
      <4>2. CASE Acquire(h) \/ AcquireClosed(h)
        BY <4>2 DEF Acquire, AcquireClosed
      <4>3. CASE LinkInHandler(h) \/ Respond(h)
        BY <4>3 DEF LinkInHandler, Respond
      <4>4. CASE InsertInHandler(h)
        <5>1. ASSUME Write(h, "daemon")
              PROVE  Copied(h, "daemon")
          BY <5>1, WriteCopies
        <5>. QED
          BY <4>4, <5>1 DEF InsertInHandler
      <4>. QED
        BY <3>3, <4>1, <4>2, <4>3, <4>4 DEF HandlerStep
    <3>4. CASE DaemonStep
      <4>1. CASE HangUp
        BY <4>1 DEF HangUp
      <4>2. CASE BindDaemon \/ ServeDaemon \/ CloseStore
        BY <4>2 DEF BindDaemon, ServeDaemon, CloseStore
      <4>3. CASE CloseListener
        BY <4>3 DEF CloseListener
      <4>. QED
        BY <3>4, <4>1, <4>2, <4>3 DEF DaemonStep, ExitDaemon, CrashDaemon
    <3>5. CASE UNCHANGED vars
      BY <3>5 DEF vars
    <3>. QED
      BY <3>2, <3>3, <3>4, <3>5 DEF Next
  <2>2. ASSUME NEW h \in Hooks, InsertDirect(h), Write(h, "direct")
        PROVE  CopyInv'
    <3>1. \A g, p : Copied(g, p)' <=> Copied(g, p) \/ (g = h /\ p = "direct")
      BY <2>2, WriteCopies
    <3>2. UNCHANGED conn /\ pc' = [pc EXCEPT ![h] = "done"] /\ pc[h] = "insert"
          /\ logged \subseteq logged'
      BY <2>2 DEF InsertDirect
    <3>. QED
      BY <3>1, <3>2 DEF CopyInv, ExchangeInv, TypeOK
  <2>3. ASSUME NEW h \in Hooks, InsertInHandler(h),
               Write(h, "daemon"), conn'[h] = "committed"
        PROVE  CopyInv'
    <3>1. \A g, p : Copied(g, p)' <=> Copied(g, p) \/ (g = h /\ p = "daemon")
      BY <2>3, WriteCopies
    <3>2. /\ conn[h] = "inserting"
          /\ conn' = [conn EXCEPT ![h] = "committed"]
          /\ UNCHANGED <<pc, logged>>
      BY <2>3 DEF InsertInHandler, hookVars, TypeOK
    <3>. QED
      BY <3>1, <3>2 DEF CopyInv, ExchangeInv, TypeOK
  <2>4. \/ UNCHANGED writes
        \/ \E h \in Hooks : InsertDirect(h) /\ Write(h, "direct")
        \/ \E h \in Hooks : /\ InsertInHandler(h)
                           /\ Write(h, "daemon")
                           /\ conn'[h] = "committed"
    BY WhoWrites
  <2>. QED
    BY <2>1, <2>2, <2>3, <2>4
<1>. QED
  BY <1>1, <1>2, TypeCorrect, ExchangeCorrect, PTL DEF Spec

(* No event disappears without a word: a hook that exits by itself has its *)
(* event in the trace or a line in the log.                                *)
THEOREM NothingLostSilently == Spec => []NoSilentLoss
<1>1. TypeOK /\ CopyInv => NoSilentLoss
  BY CopiesAre DEF TypeOK, CopyInv, NoSilentLoss
<1>. QED
  BY <1>1, TypeCorrect, CopyCorrect, PTL

(* A hook that gives up on a daemon that had committed its event, or wrote *)
(* the event again, outlived that daemon.                                  *)
Outlived(h) ==
  Copied(h, "daemon") /\ (conn[h] = "eof" \/ pc[h] \in {"open", "link", "insert"}
                         \/ Copied(h, "direct"))

EndInv ==
  /\ daemon # "down" => starts > 0
  /\ \A h \in Hooks : Outlived(h) => DaemonEnded

LEMMA EndedForGood ==
  ASSUME TypeOK, EndInv, [Next]_vars
  PROVE  /\ DaemonEnded => DaemonEnded'
         /\ daemon' # "down" => starts' > 0
         /\ ~DaemonEnded' => ~ExitDaemon /\ ~CrashDaemon
<1>. USE DEF TypeOK, EndInv, DaemonEnded
<1>1. CASE UNCHANGED daemonVars
  <2>1. UNCHANGED <<daemon, starts>> /\ ~ExitDaemon /\ ~CrashDaemon
    BY <1>1 DEF daemonVars, ExitDaemon, CrashDaemon, HangUp
  <2>. QED
    BY <2>1
<1>2. CASE DaemonStep
  BY <1>2 DEF DaemonStep, BindDaemon, ServeDaemon, CloseListener, CloseStore,
              ExitDaemon, CrashDaemon, HangUp
<1>3. ASSUME NEW h \in Hooks,
             Begin(h) \/ RejectPayload(h) \/ HookStep(h) \/ KillHook(h) \/ HandlerStep(h)
      PROVE  UNCHANGED daemonVars
  BY <1>3 DEF Begin, RejectPayload, KillHook, HookStep, DialDaemon, SendToDaemon, PingFailed,
              DaemonReplied, OpenStore, LinkDirect, InsertDirect, HandlerStep, Accept,
              AnswerPing, ReadRequest, Dispatched, Acquire, AcquireClosed, LinkInHandler,
              InsertInHandler, Respond
<1>. QED
  BY <1>1, <1>2, <1>3 DEF Next, vars

THEOREM EndCorrect == Spec => []EndInv
<1>1. Init => EndInv
  BY DEF Init, EndInv, Outlived, Copied
<1>2. TypeOK /\ ExchangeInv /\ CopyInv /\ EndInv /\ [Next]_vars => EndInv'
  <2>. SUFFICES ASSUME TypeOK, ExchangeInv, CopyInv, EndInv, [Next]_vars,
                       ~DaemonEnded', NEW h \in Hooks, Outlived(h)'
                PROVE  FALSE
    BY EndedForGood DEF EndInv
  <2>1. ~Outlived(h) /\ ~ExitDaemon /\ ~CrashDaemon
    BY EndedForGood DEF EndInv
  <2>2. CASE UNCHANGED writes
    <3>1. \A p : Copied(h, p)' <=> Copied(h, p)
      BY <2>2 DEF Copied
    <3>2. /\ conn[h] \in {"none", "committed", "ok"}
          /\ pc[h] \in {"await", "done", "killed"}
          /\ conn'[h] = "eof" \/ pc'[h] \in {"open", "link", "insert"}
      BY <2>1, <3>1 DEF Outlived, CopyInv
    <3>. USE <3>2 DEF TypeOK, hookVars
    <3>3. ASSUME NEW g \in Hooks, Begin(g) \/ RejectPayload(g) \/ HookStep(g) \/ KillHook(g)
          PROVE  FALSE
      BY <3>3 DEF Begin, RejectPayload, KillHook, HookStep, DialDaemon, SendToDaemon,
                  PingFailed, DaemonReplied, OpenStore, LinkDirect, InsertDirect
    <3>4. ASSUME NEW g \in Hooks, HandlerStep(g)
          PROVE  FALSE
      <4>1. CASE Accept(g) \/ AnswerPing(g) \/ ReadRequest(g)
        BY <4>1 DEF Accept, AnswerPing, ReadRequest, Dispatched
      <4>2. CASE Acquire(g) \/ AcquireClosed(g)
        BY <4>2 DEF Acquire, AcquireClosed
      <4>3. CASE LinkInHandler(g) \/ InsertInHandler(g) \/ Respond(g)
        BY <4>3 DEF LinkInHandler, InsertInHandler, Respond
      <4>. QED
        BY <3>4, <4>1, <4>2, <4>3 DEF HandlerStep
    <3>5. ASSUME DaemonStep
          PROVE  FALSE
      BY <2>1, <3>5 DEF DaemonStep, BindDaemon, ServeDaemon, CloseListener, CloseStore
    <3>6. ASSUME UNCHANGED vars
          PROVE  FALSE
      BY <3>6 DEF vars
    <3>. QED
      BY <3>3, <3>4, <3>5, <3>6 DEF Next
  <2>3. ASSUME NEW g \in Hooks, InsertDirect(g), Write(g, "direct")
        PROVE  FALSE
    <3>1. \A f, p : Copied(f, p)' <=> Copied(f, p) \/ (f = g /\ p = "direct")
      BY <2>3, WriteCopies
    <3>2. UNCHANGED conn /\ pc' = [pc EXCEPT ![g] = "done"] /\ pc[g] = "insert"
      BY <2>3 DEF InsertDirect
    <3>. QED
      BY <2>1, <3>1, <3>2 DEF Outlived, TypeOK
  <2>4. ASSUME NEW g \in Hooks, InsertInHandler(g), Write(g, "daemon"), conn'[g] = "committed"
        PROVE  FALSE
    <3>1. \A f, p : Copied(f, p)' <=> Copied(f, p) \/ (f = g /\ p = "daemon")
      BY <2>4, WriteCopies
    <3>2. /\ conn[g] = "inserting"
          /\ conn' = [conn EXCEPT ![g] = "committed"]
          /\ UNCHANGED pc
      BY <2>4 DEF InsertInHandler, hookVars, TypeOK
    <3>. QED
      BY <2>1, <3>1, <3>2 DEF Outlived, TypeOK, ExchangeInv, CopyInv
  <2>. QED
    BY <2>2, <2>3, <2>4, WhoWrites
<1>. QED
  BY <1>1, <1>2, TypeCorrect, ExchangeCorrect, CopyCorrect, PTL DEF Spec

(* An event recorded on both paths is in the log, and its hook outlived a  *)
(* daemon.                                                                 *)
THEOREM NothingDoubledSilently == Spec => []NoSilentDuplicate
<1>1. TypeOK /\ CopyInv /\ EndInv => NoSilentDuplicate
  BY CopiesAre DEF TypeOK, CopyInv, EndInv, Outlived, NoSilentDuplicate
<1>. QED
  BY <1>1, TypeCorrect, CopyCorrect, EndCorrect, PTL

-----------------------------------------------------------------------------
(* Each path writes an event once, and before its hook exits.              *)

(* Neither path records an event twice.                                    *)
THEOREM RecordedOncePerPath == Spec => []OncePerPath
<1>1. Init => OncePerPath
  BY DEF Init, OncePerPath
<1>2. TypeOK /\ ExchangeInv /\ CopyInv /\ OncePerPath /\ [Next]_vars => OncePerPath'
  <2>. SUFFICES ASSUME TypeOK, ExchangeInv, CopyInv, OncePerPath, [Next]_vars
                PROVE  OncePerPath'
    OBVIOUS
  <2>1. ASSUME NEW h \in Hooks, NEW via,
               ~Copied(h, via), Write(h, via)
        PROVE  OncePerPath'
    <3>1. PICK w : writes' = writes \union {w} /\ w.hook = h /\ w.via = via
      BY <2>1, WriteAddsRow
    <3>. QED
      BY <2>1, <3>1 DEF OncePerPath, Copied
  <2>2. ASSUME NEW h \in Hooks, InsertDirect(h), Write(h, "direct")
        PROVE  OncePerPath'
    <3>1. ~Copied(h, "direct")
      BY <2>2 DEF InsertDirect, CopyInv
    <3>. QED
      BY <2>1, <2>2, <3>1
  <2>3. ASSUME NEW h \in Hooks, InsertInHandler(h),
               Write(h, "daemon")
        PROVE  OncePerPath'
    <3>1. ~Copied(h, "daemon")
      BY <2>3 DEF InsertInHandler, CopyInv
    <3>. QED
      BY <2>1, <2>3, <3>1
  <2>4. CASE UNCHANGED writes
    BY <2>4 DEF OncePerPath
  <2>. QED
    BY <2>2, <2>3, <2>4, WhoWrites
<1>. QED
  BY <1>1, <1>2, TypeCorrect, ExchangeCorrect, CopyCorrect, PTL DEF Spec

(* The copies of an event are settled once its hook has exited by itself.  *)
THEOREM SettledOnceDone == Spec => SettledWhenDone
<1>1. TypeOK /\ ExchangeInv /\ [Next]_vars =>
        [\A h \in Hooks : pc[h] = "done" => Copies(h)' = Copies(h)]_vars
  <2>. SUFFICES ASSUME TypeOK, ExchangeInv, [Next]_vars,
                       NEW h \in Hooks, pc[h] = "done"
                PROVE  Copies(h)' = Copies(h)
    OBVIOUS
  <2>1. ASSUME NEW g \in Hooks, g # h, NEW via, Write(g, via)
        PROVE  Copies(h)' = Copies(h)
    <3>1. PICK w : writes' = writes \union {w} /\ w.hook = g
      BY <2>1, WriteAddsRow
    <3>2. {v \in writes' : v.hook = h} = {v \in writes : v.hook = h}
      BY <2>1, <3>1
    <3>. QED
      BY <3>2 DEF Copies
  <2>2. ASSUME NEW g \in Hooks, InsertDirect(g)
        PROVE  g # h
    BY <2>2 DEF InsertDirect
  <2>3. ASSUME NEW g \in Hooks, InsertInHandler(g)
        PROVE  g # h
    BY <2>3 DEF InsertInHandler, ExchangeInv
  <2>4. CASE UNCHANGED writes
    BY <2>4 DEF Copies
  <2>. QED
    BY <2>1, <2>2, <2>3, <2>4, WhoWrites
<1>. QED
  BY <1>1, TypeCorrect, ExchangeCorrect, PTL DEF Spec, SettledWhenDone

-----------------------------------------------------------------------------
(* The prompt an edit is linked to.                                        *)

(* l is no prompt at all, or the id of a prompt of session s.              *)
NamesPrompt(s, l) == l # 0 => \E p \in Prompts(s) : p.id = l

(* What a hook or a handler holds as the latest prompt is in the trace.    *)
LinkInv == \A h \in Hooks : NamesPrompt(Session[h], link[h])

(* Rows stay where they are.                                               *)
LEMMA PromptsGrow ==
  ASSUME TypeOK, [Next]_vars
  PROVE  \A s : Prompts(s) \subseteq Prompts(s)'
<1>1. \A h, via : Write(h, via) => writes \subseteq writes'
  BY DEF Write
<1>2. writes \subseteq writes'
  BY <1>1, WhoWrites
<1>. QED
  BY <1>2 DEF Prompts

(* A lookup changes a link to a prompt of the trace, or clears it.         *)
LEMMA WhoLinks ==
  ASSUME TypeOK, [Next]_vars
  PROVE  \/ UNCHANGED link
         \/ \E h \in Hooks, l \in Nat :
              /\ link' = [link EXCEPT ![h] = l]
              /\ NamesPrompt(Session[h], l)
<1>. USE DEF linkVars
<1>1. ASSUME NEW h \in Hooks, LinkDirect(h) \/ LinkInHandler(h)
      PROVE  \E l \in Nat : /\ link' = [link EXCEPT ![h] = l]
                            /\ NamesPrompt(Session[h], l)
  <2>1. \A l : l = 0 \/ IsLatestPrompt(Session[h], l) => NamesPrompt(Session[h], l)
    BY DEF IsLatestPrompt, NamesPrompt
  <2>2. 0..(nextId - 1) \subseteq Nat /\ 0 \in Nat
    BY DEF TypeOK
  <2>3. CASE LinkDirect(h)
    BY <2>1, <2>2, <2>3, Zenon DEF LinkDirect
  <2>4. CASE LinkInHandler(h)
    BY <2>1, <2>2, <2>4, Zenon DEF LinkInHandler
  <2>. QED
    BY <1>1, <2>3, <2>4
<1>2. ASSUME NEW h \in Hooks, AcquireClosed(h)
      PROVE  \/ UNCHANGED link
             \/ link' = [link EXCEPT ![h] = 0] /\ NamesPrompt(Session[h], 0)
  BY <1>2 DEF AcquireClosed, NamesPrompt
<1>3. ASSUME NEW h \in Hooks, Begin(h) \/ RejectPayload(h) \/ HookStep(h) \/ KillHook(h), ~LinkDirect(h)
      PROVE  UNCHANGED link
  BY <1>3 DEF HookStep, Begin, RejectPayload, KillHook, DialDaemon, SendToDaemon, PingFailed,
              DaemonReplied, OpenStore, InsertDirect
<1>4. ASSUME NEW h \in Hooks, HandlerStep(h), ~LinkInHandler(h), ~AcquireClosed(h)
      PROVE  UNCHANGED link
  BY <1>4 DEF HandlerStep, Accept, AnswerPing, ReadRequest, Dispatched, Acquire,
              InsertInHandler, Respond
<1>5. CASE DaemonStep
  BY <1>5 DEF DaemonStep, BindDaemon, ServeDaemon, CloseListener, CloseStore,
              ExitDaemon, CrashDaemon, HangUp
<1>6. CASE UNCHANGED vars
  BY <1>6 DEF vars
<1>. QED
  BY <1>1, <1>2, <1>3, <1>4, <1>5, <1>6 DEF Next

(* The link of every edit names a prompt of the edit's own session, though *)
(* handlers may write on connections that enforce no foreign key.          *)
THEOREM LinksResolve == Spec => []LinkResolves
<1>1. Init => LinkInv /\ LinkResolves
  BY DEF Init, LinkInv, NamesPrompt, LinkResolves
<1>2. TypeOK /\ LinkInv /\ LinkResolves /\ [Next]_vars => LinkInv' /\ LinkResolves'
  <2>. SUFFICES ASSUME TypeOK, LinkInv, LinkResolves, [Next]_vars
                PROVE  LinkInv' /\ LinkResolves'
    OBVIOUS
  <2>1. LinkInv'
    <3>1. CASE UNCHANGED link
      BY <3>1, PromptsGrow DEF LinkInv, NamesPrompt
    <3>2. ASSUME NEW h \in Hooks, NEW l \in Nat,
                 link' = [link EXCEPT ![h] = l], NamesPrompt(Session[h], l)
          PROVE  LinkInv'
      BY <3>2, PromptsGrow DEF LinkInv, NamesPrompt, TypeOK
    <3>. QED
      BY <3>1, <3>2, WhoLinks
  <2>2. LinkResolves'
    <3>1. ASSUME NEW h \in Hooks, NEW via, Write(h, via)
          PROVE  LinkResolves'
      <4>1. PICK w : writes' = writes \union {w} /\ w.hook = h /\ w.prompt = link[h]
        BY <3>1, WriteAddsRow
      <4>. QED
        BY <4>1, PromptsGrow DEF LinkInv, NamesPrompt, LinkResolves
    <3>2. CASE UNCHANGED writes
      BY <3>2, PromptsGrow DEF LinkResolves
    <3>. QED
      BY <3>1, <3>2, WhoWrites
  <2>. QED
    BY <2>1, <2>2
<1>. QED
  BY <1>1, <1>2, TypeCorrect, PTL DEF Spec

-----------------------------------------------------------------------------
(* How recent that prompt is.                                              *)

(* l is at least as recent as the latest prompt when h began.              *)
Fresh(h, l) ==
  \A p \in Prompts(Session[h]) : p.id = floor[h] =>
    \E q \in Prompts(Session[h]) : q.id = l /\ AtLeastAsRecent(q, p)

(* h, or the handler that serves it, has looked for the latest prompt.     *)
Looked(h) == pc[h] = "insert" \/ conn[h] \in {"insert", "inserting"}

(* A lookup that succeeded was fresh and stays so: later rows have ids of  *)
(* their own.                                                              *)
FreshInv ==
  /\ \A w \in writes : w.id < nextId
  /\ \A h \in Hooks : floor[h] < nextId
  /\ \A h \in Hooks :
       Kind[h] = "edit" /\ Looked(h) /\ h \notin unlinked => Fresh(h, link[h])
  /\ LinkIsFresh

(* The times of an event are taken once, when its hook begins.             *)
LEMMA TimesStay ==
  ASSUME TypeOK, [Next]_vars
  PROVE  \A h \in Hooks :
           \/ ts'[h] = ts[h] /\ floor'[h] = floor[h]
           \/ Begin(h)
<1>. USE DEF TypeOK, eventVars
<1>1. ASSUME NEW g \in Hooks, RejectPayload(g) \/ HookStep(g) \/ KillHook(g) \/ HandlerStep(g)
      PROVE  UNCHANGED eventVars
  BY <1>1 DEF RejectPayload, KillHook, HookStep, DialDaemon, SendToDaemon, PingFailed,
              DaemonReplied, OpenStore, LinkDirect, InsertDirect, HandlerStep, Accept,
              AnswerPing, ReadRequest, Acquire, AcquireClosed, LinkInHandler,
              InsertInHandler, Respond
<1>2. ASSUME DaemonStep
      PROVE  UNCHANGED eventVars
  BY <1>2 DEF DaemonStep, BindDaemon, ServeDaemon, CloseListener, CloseStore,
              ExitDaemon, CrashDaemon, HangUp
<1>3. ASSUME NEW g \in Hooks, Begin(g), NEW h \in Hooks, h # g
      PROVE  ts'[h] = ts[h] /\ floor'[h] = floor[h]
  BY <1>3 DEF Begin
<1>4. CASE UNCHANGED vars
  BY <1>4 DEF vars
<1>. QED
  BY <1>1, <1>2, <1>3, <1>4 DEF Next

(* The id of a row is the counter's value, and the counter never falls.    *)
LEMMA IdsGrow ==
  ASSUME TypeOK, [Next]_vars
  PROVE  /\ nextId' \in Nat /\ nextId <= nextId'
         /\ \A w \in writes' \ writes : w.id = nextId /\ nextId' = nextId + 1
<1>1. \A h, via : Write(h, via) =>
        nextId' = nextId + 1 /\ \A w \in writes' \ writes : w.id = nextId
  BY DEF Write
<1>2. UNCHANGED storeVars \/ \E h, via : Write(h, via)
  <2>1. ASSUME NEW h \in Hooks, Begin(h) \/ RejectPayload(h) \/ HookStep(h) \/ KillHook(h)
        PROVE  UNCHANGED storeVars \/ Write(h, "direct")
    BY <2>1 DEF Begin, RejectPayload, KillHook, HookStep, DialDaemon, SendToDaemon,
                PingFailed, DaemonReplied, OpenStore, LinkDirect, InsertDirect
  <2>2. ASSUME NEW h \in Hooks, HandlerStep(h)
        PROVE  UNCHANGED storeVars \/ Write(h, "daemon")
    BY <2>2 DEF HandlerStep, Accept, AnswerPing, ReadRequest, Acquire, AcquireClosed,
                LinkInHandler, InsertInHandler, Respond
  <2>3. CASE DaemonStep
    BY <2>3 DEF DaemonStep, BindDaemon, ServeDaemon, CloseListener, CloseStore,
                ExitDaemon, CrashDaemon, HangUp
  <2>4. CASE UNCHANGED vars
    BY <2>4 DEF vars
  <2>. QED
    BY <2>1, <2>2, <2>3, <2>4 DEF Next
<1>3. CASE UNCHANGED storeVars
  BY <1>3 DEF TypeOK, storeVars
<1>4. CASE \E h, via : Write(h, via)
  BY <1>1, <1>4 DEF TypeOK
<1>. QED
  BY <1>2, <1>3, <1>4

(* What a successful lookup finds is fresh, whenever h began.              *)
LEMMA LatestIsFresh ==
  ASSUME NEW h, NEW l, IsLatestPrompt(Session[h], l)
  PROVE  Fresh(h, l)
BY DEF IsLatestPrompt, Fresh

(* ... and no later step makes it stale.                                   *)
LEMMA FreshStays ==
  ASSUME TypeOK, CopyInv, FreshInv, [Next]_vars,
         NEW h \in Hooks, NEW l, Fresh(h, l), floor'[h] = floor[h]
  PROVE  Fresh(h, l)'
<1>1. \A p \in writes : p.hook \in Hooks /\ ts'[p.hook] = ts[p.hook]
  <2>. SUFFICES ASSUME NEW p \in writes
                PROVE  p.hook \in Hooks /\ ts'[p.hook] = ts[p.hook]
    OBVIOUS
  <2>1. p.hook \in Hooks /\ p.via \in {"daemon", "direct"}
    BY DEF TypeOK, WriteRecord
  <2>2. Copied(p.hook, p.via)
    BY DEF Copied
  <2>3. pc[p.hook] # "idle"
    BY <2>1, <2>2 DEF CopyInv
  <2>. QED
    BY <2>1, <2>3, TimesStay DEF Begin
<1>2. ASSUME NEW p \in Prompts(Session[h])', p.id = floor[h]
      PROVE  p \in Prompts(Session[h])
  <2>1. p \in writes
    BY <1>2, IdsGrow DEF FreshInv, TypeOK, Prompts
  <2>. QED
    BY <1>2, <2>1 DEF Prompts
<1>3. ASSUME NEW p \in Prompts(Session[h]), NEW q \in Prompts(Session[h]), AtLeastAsRecent(q, p)
      PROVE  AtLeastAsRecent(q, p)'
  BY <1>1, <1>3 DEF AtLeastAsRecent, Prompts
<1>. QED
  BY <1>2, <1>3, PromptsGrow DEF Fresh

(* A step that looks a prompt up finds the latest one, or notes its        *)
(* failure; nobody else's step touches what was found.                     *)
LEMMA LookupsFresh ==
  ASSUME TypeOK, ExchangeInv, [Next]_vars, NEW h \in Hooks, Kind[h] = "edit",
         Looked(h)', h \notin unlinked'
  PROVE  \/ IsLatestPrompt(Session[h], link'[h])
         \/ Looked(h) /\ h \notin unlinked /\ link'[h] = link[h]
<1>. USE DEF TypeOK, ExchangeInv, Looked, hookVars, linkVars
<1>1. ASSUME NEW g \in Hooks, Begin(g) \/ RejectPayload(g) \/ KillHook(g)
      PROVE  Looked(h) /\ h \notin unlinked /\ link'[h] = link[h]
  BY <1>1 DEF Begin, RejectPayload, KillHook
<1>2. ASSUME NEW g \in Hooks, HookStep(g), ~LinkDirect(g)
      PROVE  Looked(h) /\ h \notin unlinked /\ link'[h] = link[h]
  BY <1>2 DEF HookStep, DialDaemon, SendToDaemon, PingFailed, DaemonReplied, OpenStore,
              InsertDirect
<1>3. ASSUME NEW g \in Hooks, LinkDirect(g)
      PROVE  \/ IsLatestPrompt(Session[h], link'[h])
             \/ Looked(h) /\ h \notin unlinked /\ link'[h] = link[h]
  <2>1. CASE g = h
    <3>1. PICK l : IsLatestPrompt(Session[h], l) /\ link' = [link EXCEPT ![h] = l]
      BY <1>3, <2>1 DEF LinkDirect
    <3>2. link'[h] = l
      BY <3>1
    <3>. QED
      BY <3>1, <3>2
  <2>2. CASE g # h
    BY <1>3, <2>2 DEF LinkDirect
  <2>. QED
    BY <2>1, <2>2
<1>4. ASSUME NEW g \in Hooks, LinkInHandler(g)
      PROVE  \/ IsLatestPrompt(Session[h], link'[h])
             \/ Looked(h) /\ h \notin unlinked /\ link'[h] = link[h]
  <2>1. CASE g = h
    <3>1. PICK l : IsLatestPrompt(Session[h], l) /\ link' = [link EXCEPT ![h] = l]
      BY <1>4, <2>1 DEF LinkInHandler
    <3>2. link'[h] = l
      BY <3>1
    <3>. QED
      BY <3>1, <3>2
  <2>2. CASE g # h
    BY <1>4, <2>2 DEF LinkInHandler
  <2>. QED
    BY <2>1, <2>2
<1>5. ASSUME NEW g \in Hooks, HandlerStep(g), ~LinkInHandler(g)
      PROVE  Looked(h) /\ h \notin unlinked /\ link'[h] = link[h]
  <2>1. CASE Accept(g) \/ AnswerPing(g) \/ ReadRequest(g)
    BY <2>1 DEF Accept, AnswerPing, ReadRequest, Dispatched
  <2>2. CASE Acquire(g) \/ AcquireClosed(g)
    BY <2>2 DEF Acquire, AcquireClosed
  <2>3. CASE InsertInHandler(g) \/ Respond(g)
    BY <2>3 DEF InsertInHandler, Respond
  <2>. QED
    BY <1>5, <2>1, <2>2, <2>3 DEF HandlerStep
<1>6. ASSUME DaemonStep
      PROVE  Looked(h) /\ h \notin unlinked /\ link'[h] = link[h]
  <2>1. CASE HangUp
    BY <2>1 DEF HangUp
  <2>2. CASE BindDaemon \/ ServeDaemon \/ CloseStore
    BY <2>2 DEF BindDaemon, ServeDaemon, CloseStore
  <2>3. CASE CloseListener
    BY <2>3 DEF CloseListener
  <2>. QED
    BY <1>6, <2>1, <2>2, <2>3 DEF DaemonStep, ExitDaemon, CrashDaemon
<1>7. ASSUME UNCHANGED vars
      PROVE  Looked(h) /\ h \notin unlinked /\ link'[h] = link[h]
  BY <1>7 DEF vars
<1>. QED
  BY <1>1, <1>2, <1>3, <1>4, <1>5, <1>6, <1>7 DEF Next

(* No edit is linked to a prompt older than the latest one recorded when   *)
(* its hook began, whatever happens between the lookup and the insert.     *)
THEOREM LinksFresh == Spec => []LinkIsFresh
<1>1. Init => FreshInv
  BY DEF Init, FreshInv, Looked, LinkIsFresh
<1>2. TypeOK /\ ExchangeInv /\ CopyInv /\ FreshInv /\ [Next]_vars => FreshInv'
  <2>. SUFFICES ASSUME TypeOK, ExchangeInv, CopyInv, FreshInv, [Next]_vars
                PROVE  FreshInv'
    OBVIOUS
  <2>1. \A w \in writes' : w.id < nextId'
    <3>1. \A w \in writes : w.id \in Nat /\ w.id < nextId
      BY DEF FreshInv, TypeOK, WriteRecord
    <3>2. nextId \in Nat /\ nextId' \in Nat /\ nextId <= nextId'
      BY IdsGrow DEF TypeOK
    <3>. QED
      BY <3>1, <3>2, IdsGrow
  <2>2. \A h \in Hooks : floor'[h] < nextId'
    <3>1. ASSUME NEW h \in Hooks, Begin(h)
          PROVE  floor'[h] < nextId /\ floor'[h] \in Nat
      BY <3>1 DEF Begin, TypeOK
    <3>2. ASSUME NEW h \in Hooks, floor'[h] = floor[h]
          PROVE  floor'[h] < nextId /\ floor'[h] \in Nat
      BY <3>2 DEF FreshInv, TypeOK
    <3>3. nextId \in Nat /\ nextId' \in Nat /\ nextId <= nextId'
      BY IdsGrow DEF TypeOK
    <3>. QED
      BY <3>1, <3>2, <3>3, TimesStay
  <2>3. ASSUME NEW h \in Hooks, Kind[h] = "edit", Looked(h)', h \notin unlinked'
        PROVE  Fresh(h, link[h])'
    <3>1. floor'[h] = floor[h]
      BY <2>3, TimesStay DEF Begin, Looked, ExchangeInv, TypeOK
    <3>2. Fresh(h, link'[h])
      BY <2>3, LookupsFresh, LatestIsFresh DEF FreshInv
    <3>3. PICK l : l = link'[h]
      OBVIOUS
    <3>4. Fresh(h, l)'
      BY <3>1, <3>2, <3>3, FreshStays
    <3>. QED
      BY <3>3, <3>4 DEF Fresh
  <2>4. ASSUME NEW w \in writes', Kind[w.hook] = "edit", ~w.blind
        PROVE  Fresh(w.hook, w.prompt)'
    <3>1. CASE w \in writes
      <4>1. w.hook \in Hooks /\ w.via \in {"daemon", "direct"}
        BY <3>1 DEF TypeOK, WriteRecord
      <4>2. Copied(w.hook, w.via)
        BY <3>1 DEF Copied
      <4>3. pc[w.hook] # "idle"
        BY <4>1, <4>2 DEF CopyInv
      <4>4. floor'[w.hook] = floor[w.hook]
        BY <4>1, <4>3, TimesStay DEF Begin
      <4>5. Fresh(w.hook, w.prompt)
        BY <2>4, <3>1 DEF FreshInv, LinkIsFresh, Fresh
      <4>. QED
        BY <4>1, <4>4, <4>5, FreshStays
    <3>2. ASSUME NEW h \in Hooks, NEW via, Write(h, via), Looked(h), pc[h] # "idle", w \notin writes
          PROVE  Fresh(w.hook, w.prompt)'
      <4>1. w.hook = h /\ w.prompt = link[h] /\ (h \in unlinked => w.blind)
        <5>. DEFINE blind == h \in unlinked
        <5>1. w = [hook |-> h, via |-> via, prompt |-> link[h], blind |-> blind, id |-> nextId]
          BY <3>2 DEF Write
        <5>. HIDE DEF blind
        <5>2. w.hook = h /\ w.prompt = link[h] /\ w.blind = blind
          BY <5>1
        <5>. QED
          BY <5>2 DEF blind
      <4>2. Fresh(h, w.prompt)
        BY <2>4, <3>2, <4>1 DEF FreshInv
      <4>3. floor'[h] = floor[h]
        BY <3>2, TimesStay DEF Begin
      <4>. QED
        BY <4>1, <4>2, <4>3, FreshStays
    <3>3. \A h \in Hooks : InsertDirect(h) => Looked(h) /\ pc[h] # "idle"
      BY DEF InsertDirect, Looked
    <3>4. \A h \in Hooks : InsertInHandler(h) => Looked(h) /\ pc[h] # "idle"
      BY DEF InsertInHandler, Looked, ExchangeInv
    <3>. QED
      BY <3>1, <3>2, <3>3, <3>4, WhoWrites
  <2>5. LinkIsFresh'
    <3>. SUFFICES ASSUME NEW w \in writes', Kind[w.hook] = "edit", ~w.blind,
                         NEW p \in Prompts(Session[w.hook])', p.id = floor'[w.hook]
                  PROVE  \E q \in Prompts(Session[w.hook])' :
                           q.id = w.prompt /\ AtLeastAsRecent(q, p)'
      BY DEF LinkIsFresh
    <3>. QED
      BY <2>4 DEF Fresh
  <2>. QED
    BY <2>1, <2>2, <2>3, <2>5 DEF FreshInv
<1>. QED
  BY <1>1, <1>2, TypeCorrect, ExchangeCorrect, CopyCorrect, PTL DEF Spec, FreshInv

-----------------------------------------------------------------------------
(* The recording path implements the abstract log.                         *)

(* The abstract copies change only where a statement succeeds.             *)
LEMMA LogCopiesChange ==
  ASSUME TypeOK, TypeOK', NEW h \in Hooks, NEW via \in {"daemon", "direct"},
         Write(h, via)
  PROVE  LogCopies' = [LogCopies EXCEPT ![h] = @ \union {via}]
<1>1. \A g, p : Copied(g, p)' <=> Copied(g, p) \/ (g = h /\ p = via)
  BY WriteCopies
<1>2. ASSUME NEW g \in Hooks
      PROVE  Copies(g)' = IF g = h THEN Copies(g) \union {via} ELSE Copies(g)
  <2>1. \A p : p \in Copies(g) <=> Copied(g, p)
    BY DEF Copies, Copied
  <2>2. \A p : p \in Copies(g)' <=> Copied(g, p)'
    BY DEF Copies, Copied
  <2>. QED
    BY <1>1, <2>1, <2>2
<1>. QED
  BY <1>2 DEF LogCopies

(* Every step of the hooks, the handlers and the daemon is a step of the   *)
(* abstract log or leaves it as it is: one offer per hook, stored or       *)
(* complained about before it returns, stored again only after a complaint.*)
THEOREM RecordImplementsLog == Spec => Log!Spec
<1>1. Init => Log!Init
  <2>. SUFFICES ASSUME Init
                PROVE  Log!Init
    OBVIOUS
  <2>1. \A h \in Hooks : Copies(h) = {}
    BY DEF Init, Copies
  <2>. QED
    BY <2>1 DEF Init, Log!Init, LogStatus, LogCopies
<1>2. TypeOK /\ TypeOK' /\ ExchangeInv /\ CopyInv /\ [Next]_vars
        => [Log!Next]_(Log!vars)
  <2>. SUFFICES ASSUME TypeOK, TypeOK', ExchangeInv, CopyInv, [Next]_vars
                PROVE  Log!Next \/ UNCHANGED <<LogStatus, LogCopies, logged>>
    BY DEF Log!vars
  <2>1. ASSUME UNCHANGED writes
        PROVE  UNCHANGED LogCopies
    BY <2>1 DEF LogCopies, Copies
  <2>2. ASSUME UNCHANGED pc
        PROVE  UNCHANGED LogStatus
    BY <2>2 DEF LogStatus
  <2>3. ASSUME NEW h \in Hooks, NEW v, pc' = [pc EXCEPT ![h] = v]
        PROVE  LogStatus' = [LogStatus EXCEPT ![h] =
                 CASE v = "idle"   -> "waiting"
                   [] v = "done"   -> "returned"
                   [] v = "killed" -> "abandoned"
                   [] OTHER        -> "open"]
    BY <2>3 DEF LogStatus, TypeOK
  <2>4. ASSUME NEW h \in Hooks
        PROVE  /\ pc[h] = "idle" => LogStatus[h] = "waiting"
               /\ pc[h] = "killed" => LogStatus[h] = "abandoned"
               /\ pc[h] \notin {"idle", "done", "killed"} => LogStatus[h] = "open"
               /\ LogCopies[h] = Copies(h)
    BY <2>4 DEF LogStatus, LogCopies
  <2>5. \A h \in Hooks : \A p : p \in Copies(h) <=> Copied(h, p)
    BY CopiesAre DEF TypeOK
  <2>. USE DEF hookVars, storeVars
  <2>6. ASSUME NEW h \in Hooks, Begin(h)
        PROVE  Log!Offer(h)
    <3>1. pc' = [pc EXCEPT ![h] = "dial"] /\ pc[h] = "idle"
          /\ UNCHANGED <<writes, logged>>
      BY <2>6 DEF Begin
    <3>2. pc' = [pc EXCEPT ![h] = "dial"]
      BY <3>1
    <3>3. LogStatus' = [LogStatus EXCEPT ![h] = "open"]
      BY <3>2 DEF LogStatus, TypeOK
    <3>. QED
      BY <3>1, <3>3, <2>1, <2>4 DEF Log!Offer
  <2>7. ASSUME NEW h \in Hooks, KillHook(h)
        PROVE  Log!Abandon(h)
    <3>1. pc' = [pc EXCEPT ![h] = "killed"] /\ pc[h] \notin {"idle", "done", "killed"}
          /\ UNCHANGED <<writes, logged>>
      BY <2>7 DEF KillHook
    <3>. QED
      BY <3>1, <2>1, <2>3, <2>4 DEF Log!Abandon
  <2>8. ASSUME NEW h \in Hooks, RejectPayload(h)
         PROVE  Log!Refuse(h)
    <3>1. pc' = [pc EXCEPT ![h] = "done"] /\ pc[h] = "idle"
          /\ logged' = logged \union {h} /\ UNCHANGED writes
      BY <2>8 DEF RejectPayload
    <3>. QED
      BY <3>1, <2>1, <2>3, <2>4 DEF Log!Refuse
  <2>9. ASSUME NEW h \in Hooks, HookStep(h), UNCHANGED writes
        PROVE  \/ Log!Complain(h)
               \/ Log!Return(h)
               \/ UNCHANGED <<LogStatus, LogCopies, logged>>
    <3>1. UNCHANGED LogCopies
      BY <2>9, <2>1
    <3>2. PICK v \in {"ping", "open", "await", "link", "insert", "done"} :
            pc' = [pc EXCEPT ![h] = v]
      BY <2>9 DEF HookStep, DialDaemon, SendToDaemon, PingFailed, DaemonReplied,
                  OpenStore, LinkDirect, InsertDirect
    <3>3. LogStatus[h] = "open"
      BY <2>9, <2>4 DEF HookStep, DialDaemon, SendToDaemon, PingFailed, DaemonReplied,
                        OpenStore, LinkDirect, InsertDirect
    <3>4. logged' \in {logged, logged \union {h}}
      BY <2>9 DEF HookStep, DialDaemon, SendToDaemon, PingFailed, DaemonReplied,
                  OpenStore, LinkDirect, InsertDirect
    <3>5. CASE v # "done"
      <4>1. LogStatus' = [LogStatus EXCEPT ![h] = "open"]
        BY <3>2, <3>5, <2>3
      <4>2. UNCHANGED LogStatus
        BY <4>1, <3>3 DEF LogStatus
      <4>. QED
        BY <4>2, <3>1, <3>3, <3>4 DEF Log!Complain
    <3>6. CASE v = "done"
      <4>1. LogStatus' = [LogStatus EXCEPT ![h] = "returned"]
        BY <3>2, <3>6, <2>3
      <4>2. LogCopies[h] # {} \/ logged' = logged \union {h}
        <5>1. pc'[h] = "done"
          BY <3>2, <3>6 DEF TypeOK
        <5>2. CASE DaemonReplied(h)
          <6>1. conn[h] = "ok"
            BY <5>1, <5>2 DEF DaemonReplied, TypeOK
          <6>2. "daemon" \in Copies(h)
            BY <6>1, <2>5 DEF CopyInv
          <6>. QED
            BY <6>2, <2>4
        <5>3. CASE OpenStore(h)
          BY <5>1, <5>3 DEF OpenStore, TypeOK
        <5>4. CASE InsertDirect(h)
          <6>1. ~Copied(h, "direct")
            BY <5>4 DEF InsertDirect, CopyInv
          <6>2. ~Copied(h, "direct")'
            BY <6>1, <2>9 DEF Copied
          <6>3. ~Write(h, "direct")
            BY <6>2, WriteCopies
          <6>. QED
            BY <5>4, <6>3 DEF InsertDirect
        <5>. QED
          BY <2>9, <5>1, <5>2, <5>3, <5>4
             DEF HookStep, DialDaemon, SendToDaemon, PingFailed, LinkDirect, TypeOK
      <4>. QED
        BY <4>1, <4>2, <3>1, <3>3, <3>4 DEF Log!Return
    <3>. QED
      BY <3>5, <3>6
  <2>10. ASSUME NEW h \in Hooks, InsertDirect(h), Write(h, "direct"),
               UNCHANGED logged
        PROVE  Log!Return(h)
    <3>1. pc[h] = "insert" /\ pc' = [pc EXCEPT ![h] = "done"]
      BY <2>10 DEF InsertDirect
    <3>2. LogStatus[h] = "open" /\ LogStatus' = [LogStatus EXCEPT ![h] = "returned"]
      BY <3>1, <2>3, <2>4
    <3>3. LogCopies' = [LogCopies EXCEPT ![h] = @ \union {"direct"}]
      BY <2>10, LogCopiesChange
    <3>4. "direct" \notin LogCopies[h]
      BY <3>1, <2>4, <2>5 DEF CopyInv
    <3>5. LogCopies[h] # {} => h \in logged
      <4>1. Copies(h) # {} => Copied(h, "daemon")
        BY <3>4, <2>4, <2>5, CopiesAre DEF TypeOK
      <4>. QED
        BY <3>1, <4>1, <2>4 DEF CopyInv
    <3>. QED
      BY <3>2, <3>3, <3>4, <3>5, <2>10 DEF Log!Return
  <2>11. ASSUME NEW h \in Hooks, InsertInHandler(h),
                Write(h, "daemon")
         PROVE  Log!Store(h)
    <3>1. conn[h] = "inserting" /\ UNCHANGED <<pc, logged>>
      BY <2>11 DEF InsertInHandler
    <3>2. pc[h] \in {"await", "killed"}
      BY <3>1 DEF ExchangeInv, TypeOK
    <3>3. Copies(h) = {}
      <4>1. ~Copied(h, "daemon") /\ ~Copied(h, "direct")
        BY <3>1, <3>2 DEF CopyInv
      <4>. QED
        BY <4>1, <2>5, CopiesAre DEF TypeOK
    <3>4. LogCopies' = [LogCopies EXCEPT ![h] = {"daemon"}]
      BY <2>11, <3>3, <2>4, LogCopiesChange
    <3>. QED
      BY <3>1, <3>2, <3>3, <3>4, <2>2, <2>4 DEF Log!Store
  <2>12. CASE \E h \in Hooks : Begin(h) \/ RejectPayload(h) \/ KillHook(h)
    BY <2>12, <2>6, <2>7, <2>8 DEF Log!Next
  <2>13. CASE \E h \in Hooks : HookStep(h)
    BY <2>13, <2>9, <2>10, <2>11, WhoWrites DEF Log!Next
  <2>14. CASE \E h \in Hooks : HandlerStep(h)
    <3>1. UNCHANGED <<pc, logged>>
      BY <2>14 DEF HandlerStep, Accept, AnswerPing, ReadRequest, Dispatched, Acquire, AcquireClosed,
                   LinkInHandler, InsertInHandler, Respond
    <3>. QED
      BY <3>1, <2>1, <2>2, <2>10, <2>11, WhoWrites DEF Log!Next
  <2>15. CASE DaemonStep \/ UNCHANGED vars
    <3>1. UNCHANGED <<pc, logged, writes>>
      BY <2>15 DEF DaemonStep, BindDaemon, ServeDaemon, CloseListener, CloseStore,
                   ExitDaemon, CrashDaemon, HangUp, vars
    <3>. QED
      BY <3>1, <2>1, <2>2
  <2>. QED
    BY <2>12, <2>13, <2>14, <2>15 DEF Next
<1>. QED
  BY <1>1, <1>2, TypeCorrect, ExchangeCorrect, CopyCorrect, PTL DEF Spec, Log!Spec

=============================================================================
