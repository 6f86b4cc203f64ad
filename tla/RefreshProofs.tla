---------------------------- MODULE RefreshProofs ----------------------------
(***************************************************************************)
(* Proofs about Refresh, for any history of HEAD and of the trace, any     *)
(* list of segments at each of their states, and any set of refreshes.     *)
(***************************************************************************)
EXTENDS Refresh, TLAPS

-----------------------------------------------------------------------------
(* What the steps have in common.                                          *)

LEMMA FreeTyped == Free \in Refreshes
  BY RefreshAssumption DEF Free, Refreshes

LEMMA VisibleIsNatural ==
  ASSUME NEW S, Some(S)
  PROVE  visibleSegments(S) \in Nat
  <1>1. CASE S = {}
    BY <1>1 DEF visibleSegments
  <1>2. ASSUME NEW r \in Reports, S = {r}
        PROVE  visibleSegments(S) \in Nat
    <2>1. (CHOOSE x \in S : TRUE) = r
      BY <1>2
    <2>2. visibleSegments(S) = IF TopN > 0 /\ Found[r] > TopN THEN TopN ELSE Found[r]
      BY <1>2, <2>1 DEF visibleSegments
    <2> QED  BY <2>2, RefreshAssumption
  <1> QED  BY <1>1, <1>2 DEF Some

(* Storing a row writes the trace once.                                    *)
LEMMA StoringWrites ==
  ASSUME stored \in [Kinds -> Nat], NEW k \in Kinds, StoreRow(k)
  PROVE  /\ stored' \in [Kinds -> Nat]
         /\ trace' = trace + 1
         /\ \A j \in Kinds : stored'[j] >= stored[j]
  <1>1. stored' \in [Kinds -> Nat] /\ \A j \in Kinds : stored'[j] = IF j = k THEN stored[j] + 1 ELSE stored[j]
    BY DEF StoreRow
  <1>2. /\ \A j \in Kinds : stored[j] \in Nat
        /\ Kinds = {"sessions", "edits", "orphans"}
    BY DEF Kinds
  <1>3. trace' = trace + 1
    BY <1>1, <1>2 DEF trace
  <1> QED  BY <1>1, <1>2, <1>3

LEMMA TraceTyped ==
  ASSUME TypeOK
  PROVE  trace \in 0..MaxTrace
  BY RefreshAssumption DEF TypeOK, trace, Kinds

LEMMA TraceKept ==
  ASSUME UNCHANGED stored
  PROVE  UNCHANGED trace
  BY DEF trace

-----------------------------------------------------------------------------
(* Type correctness.  A refresh that analyzes has a commit to analyze.     *)
Typed ==
  /\ TypeOK
  /\ \A n \in Slots : refreshes[n].pc \in {"analyze", "done"} => refreshes[n].sha # 0
  /\ wpc = "analyze" => polled # 0

LEMMA StepTyped ==
  ASSUME Typed, [Next]_vars
  PROVE  Typed'
  <1> USE RefreshAssumption DEF Typed, worldVars, tuiVars, watchVars
  <1> USE TraceKept, TraceTyped
  <1>1. CASE UNCHANGED vars
    BY <1>1 DEF TypeOK, vars, Some
  <1>2. CASE MoveHead
    BY <1>2 DEF TypeOK, MoveHead, Some
  <1>11. CASE WriteTrace
    <2>1. PICK k \in Kinds : StoreRow(k)
      BY <1>11 DEF WriteTrace
    <2>2. stored \in [Kinds -> Nat] /\ \A j \in Kinds : stored[j] \in Nat
      BY DEF TypeOK
    <2>3. /\ stored' \in [Kinds -> Nat] /\ trace' = trace + 1
      BY <2>1, <2>2, StoringWrites
    <2>4. trace \in Nat /\ trace' <= MaxTrace
      BY <1>11, <2>2, <2>3 DEF WriteTrace, trace, Kinds
    <2>5. \A j \in Kinds : stored'[j] \in Nat /\ stored'[j] <= trace'
      BY <2>3 DEF trace, Kinds
    <2>6. stored' \in [Kinds -> 0..MaxTrace]
      BY <2>3, <2>4, <2>5
    <2> QED  BY <1>11, <2>4, <2>6 DEF TypeOK, WriteTrace, Some
  <1>3. CASE KeyUp \/ KeyDown \/ KeyQ
    <2>1. cursor' \in Nat
      <3>1. CASE KeyUp
        BY <3>1 DEF TypeOK, KeyUp
      <3>2. CASE KeyDown \/ KeyQ
        BY <3>2 DEF TypeOK, KeyDown, KeyQ
      <3> QED  BY <1>3, <3>1, <3>2
    <2> QED  BY <1>3, <2>1 DEF TypeOK, KeyUp, KeyDown, KeyQ, Some
  <1>4. ASSUME NEW n \in Slots, Tick(n) \/ KeyR(n)
        PROVE  Typed'
    BY <1>4 DEF TypeOK, Tick, KeyR, doRefresh, Some, Refreshes
  <1>5. ASSUME NEW n \in Slots, ReadHead(n)
        PROVE  Typed'
    <2>1. CASE refreshes' = [refreshes EXCEPT ![n].pc = "failed"]
      BY <1>5, <2>1 DEF TypeOK, ReadHead, Some, Refreshes
    <2>2. CASE head > 0 /\ refreshes' = [refreshes EXCEPT ![n].pc = "analyze", ![n].sha = head]
      BY <1>5, <2>2 DEF TypeOK, ReadHead, Some, Refreshes
    <2> QED  BY <1>5, <2>1, <2>2 DEF ReadHead
  <1>6. ASSUME NEW n \in Slots, AnalyzeHead(n)
        PROVE  Typed'
    <2>1. CASE refreshes' = [refreshes EXCEPT ![n].pc = "failed"]
      BY <1>6, <2>1 DEF TypeOK, AnalyzeHead, Some, Refreshes
    <2>2. CASE refreshes' = [refreshes EXCEPT ![n].pc = "done", ![n].rows = trace]
      BY <1>6, <2>2 DEF TypeOK, AnalyzeHead, Some, Refreshes
    <2> QED  BY <1>6, <2>1, <2>2 DEF AnalyzeHead
  <1>7. ASSUME NEW n \in Slots, RefreshDone(n)
        PROVE  Typed'
    <2>1. refreshes' \in [Slots -> Refreshes]
      <3>1. \A m \in Slots : [refreshes[m] EXCEPT !.overlaps = TRUE] \in Refreshes
        BY DEF TypeOK, Refreshes
      <3> QED  BY <1>7, <3>1, FreeTyped DEF RefreshDone, TypeOK
    <2>2. \A m \in Slots : refreshes'[m].pc \in {"analyze", "done"} => refreshes'[m].sha # 0
      BY <1>7 DEF RefreshDone, TypeOK, Free, Refreshes
    <2>3. Some(report')
      BY <1>7 DEF RefreshDone, TypeOK, Refreshes, Reports, Some
    <2>4. cursor' \in Nat
      BY <1>7, <2>3, VisibleIsNatural DEF RefreshDone, TypeOK, Clamped
    <2>5. lastErr' \in BOOLEAN /\ loading' \in BOOLEAN
      BY <1>7, Zenon DEF RefreshDone
    <2> QED  BY <1>7, <2>1, <2>2, <2>3, <2>4, <2>5 DEF TypeOK, RefreshDone, Some
  <1>8. CASE Poll
    <2>1. Some(frame') /\ polled' \in 0..MaxHead
      BY <1>8 DEF Poll, PollHead, PollAnalyze, TypeOK, Some, Reports
    <2> QED  BY <1>8, <2>1 DEF Poll, PollHead, PollAnalyze, TypeOK, Some
  <1>9. CASE TickerFires \/ Signal \/ SelectTick \/ SelectDone
    BY <1>9 DEF TypeOK, TickerFires, Signal, SelectTick, SelectDone, Some
  <1>10. CASE ClientStep \/ ServeStep
    BY <1>10 DEF TypeOK, ClientStep, ServeStep, Some
  <1> QED
    BY <1>1, <1>2, <1>3, <1>4, <1>5, <1>6, <1>7, <1>8, <1>9, <1>10, <1>11 DEF Next, Background

LEMMA TypedInvariant == Spec => []Typed
  <1>1. ASSUME Init
        PROVE  Typed
    <2>1. /\ refreshes \in [Slots -> Refreshes]
          /\ \A n \in Slots : refreshes[n].pc \in {"free", "head"}
      <3>1. [Free EXCEPT !.pc = "head"] \in Refreshes
        BY FreeTyped DEF Refreshes
      <3>2. CASE refreshes = [m \in Slots |-> Free]
        BY <3>2, FreeTyped DEF Free
      <3>3. ASSUME NEW n \in Slots,
                   refreshes = [m \in Slots |-> IF m = n THEN [Free EXCEPT !.pc = "head"] ELSE Free]
            PROVE  /\ refreshes \in [Slots -> Refreshes]
                   /\ \A m \in Slots : refreshes[m].pc \in {"free", "head"}
        BY <3>1, <3>3, FreeTyped DEF Free
      <3>4. \/ refreshes = [m \in Slots |-> Free]
            \/ \E n \in Slots :
                 refreshes = [m \in Slots |-> IF m = n THEN [Free EXCEPT !.pc = "head"] ELSE Free]
        BY <1>1, Zenon DEF Init
      <3> QED  BY <3>2, <3>3, <3>4, Zenon
    <2>2. /\ loading \in BOOLEAN /\ lastErr \in BOOLEAN /\ quit \in BOOLEAN
          /\ due \in BOOLEAN /\ cancelled \in BOOLEAN
      BY <1>1, Zenon DEF Init
    <2>3. /\ head \in 0..MaxHead /\ polled \in 0..MaxHead
          /\ cursor \in Nat /\ wpc \in {"head", "exited"}
      BY <1>1, RefreshAssumption DEF Init
    <2>4. Some(report) /\ Some(frame)
      BY <1>1 DEF Init, Some
    <2>5. stored \in [Kinds -> 0..MaxTrace] /\ trace <= MaxTrace
      BY <1>1, RefreshAssumption DEF Init, NothingStored, trace, Kinds
    <2> QED  BY <2>1, <2>2, <2>3, <2>4, <2>5 DEF Typed, TypeOK
  <1> QED  BY <1>1, StepTyped, PTL DEF Spec

(* The state of the tui and of watch is well typed.                         *)
THEOREM ViewsTyped == Spec => []TypeOK
  <1>1. Typed => TypeOK  BY DEF Typed
  <1> QED  BY <1>1, TypedInvariant, PTL

-----------------------------------------------------------------------------
(* The cursor.  Only three steps move it or replace the list under it.     *)
LEMMA StepCursor ==
  ASSUME Typed, Typed', CursorOnList, [Next]_vars
  PROVE  CursorOnList'
  <1> DEFINE lines == visibleSegments(report)
  <1>1. lines \in Nat /\ cursor \in Nat /\ visibleSegments(report)' \in Nat
    BY VisibleIsNatural DEF Typed, TypeOK
  <1>2. CASE KeyUp
    <2>1. visibleSegments(report)' = lines
      BY <1>2 DEF KeyUp, visibleSegments
    <2> QED  BY <1>1, <1>2, <2>1 DEF KeyUp, CursorOnList
  <1>3. CASE KeyDown
    <2>1. visibleSegments(report)' = lines
      BY <1>3 DEF KeyDown, visibleSegments
    <2> QED  BY <1>1, <1>3, <2>1 DEF KeyDown, CursorOnList
  <1>4. ASSUME NEW n \in Slots, RefreshDone(n), report' # report
        PROVE  CursorOnList'
    <2>1. cursor' = Clamped(report')
      BY <1>4 DEF RefreshDone
    <2>2. visibleSegments(report)' = visibleSegments(report')
      BY DEF visibleSegments
    <2> QED  BY <1>1, <2>1, <2>2 DEF Clamped, CursorOnList
  <1>5. CASE report' = report /\ cursor' = cursor
    <2>1. visibleSegments(report)' = lines
      BY <1>5 DEF visibleSegments
    <2> QED  BY <1>5, <2>1 DEF CursorOnList
  <1>6. ASSUME NEW n \in Slots, RefreshDone(n), report' = report
        PROVE  CursorOnList'
    <2>1. visibleSegments(report)' = lines
      BY <1>6 DEF visibleSegments
    <2>2. cursor' = cursor \/ cursor' = Clamped(report')
      BY <1>6 DEF RefreshDone
    <2>3. visibleSegments(report') = lines
      BY <1>6
    <2> QED  BY <1>1, <2>1, <2>2, <2>3 DEF Clamped, CursorOnList
  <1>7. \/ KeyUp \/ KeyDown \/ (report' = report /\ cursor' = cursor)
        \/ \E n \in Slots : RefreshDone(n)
    BY Zenon DEF Next, MoveHead, WriteTrace, KeyQ, Tick, KeyR, Background, ReadHead,
       AnalyzeHead, Poll, PollHead, PollAnalyze, TickerFires, Signal, SelectTick,
       SelectDone, ClientStep, ServeStep, vars, tuiVars
  <1> QED  BY <1>2, <1>3, <1>4, <1>5, <1>6, <1>7

(* The cursor is on a line of the list, whatever reports come and go.      *)
THEOREM CursorStaysOnList == Spec => []CursorOnList
  <1>1. Init => CursorOnList
    BY DEF Init, CursorOnList, visibleSegments
  <1>2. Typed /\ Typed' /\ CursorOnList /\ [Next]_vars => CursorOnList'
    BY StepCursor
  <1> QED  BY <1>1, <1>2, TypedInvariant, PTL DEF Spec

-----------------------------------------------------------------------------
(* The order of reports.  Nobody knows more than there is; and a refresh   *)
(* since whose start no report was shown knows no less than the one that   *)
(* is shown, as it has read HEAD, or the trace, after that one had.        *)
KnownBy(r) == r.sha <= head /\ r.rows <= trace

NoLess(f) ==
  f.pc \in {"analyze", "done"} /\ ~f.overlaps =>
    \A r \in report : r.sha <= f.sha /\ (f.pc = "done" => r.rows <= f.rows)

Ordered ==
  /\ \A r \in report : KnownBy(r)
  /\ \A r \in frame : KnownBy(r) /\ (wpc = "analyze" => r.sha <= polled)
  /\ polled <= head
  /\ \A n \in Slots : /\ refreshes[n].sha <= head
                      /\ refreshes[n].pc = "done" => refreshes[n].rows <= trace
                      /\ NoLess(refreshes[n])

LEMMA StepOrdered ==
  ASSUME Typed, Typed', Ordered, [Next]_vars
  PROVE  Ordered'
  <1> USE DEF Ordered, KnownBy, NoLess
  <1> USE TraceKept
  <1>1. /\ head \in Nat /\ trace \in Nat /\ polled \in Nat
        /\ \A n \in Slots : refreshes[n].sha \in Nat /\ refreshes[n].rows \in Nat
        /\ \A r \in report \union frame : r.sha \in Nat /\ r.rows \in Nat
    BY TraceTyped, RefreshAssumption DEF Typed, TypeOK, Refreshes, Reports, Some
  <1>2. CASE UNCHANGED <<report, frame, polled, refreshes, wpc>> /\ head' \in {head, head + 1}
             /\ trace' \in {trace, trace + 1}
    BY <1>1, <1>2
  <1>3. ASSUME UNCHANGED <<head, trace, report, frame, polled, wpc>>,
               NEW n \in Slots, NEW f, refreshes' = [refreshes EXCEPT ![n] = f],
               f.sha <= head, f.pc = "done" => f.rows <= trace, NoLess(f)
        PROVE  Ordered'
    <2>1. \A m \in Slots : refreshes'[m] = IF m = n THEN f ELSE refreshes[m]
      BY <1>3 DEF Typed, TypeOK
    <2> QED  BY <1>3, <2>1
  <1>4. ASSUME NEW n \in Slots, Tick(n) \/ KeyR(n) \/ ReadHead(n) \/ AnalyzeHead(n)
        PROVE  Ordered'
    <2> DEFINE before == refreshes[n]
    <2>1. UNCHANGED <<head, trace, report, frame, polled, wpc>>
      BY <1>4, Zenon DEF Tick, KeyR, ReadHead, AnalyzeHead, worldVars, watchVars
    <2>2. before \in Refreshes
      BY DEF Typed, TypeOK
    <2>3. CASE refreshes' = [refreshes EXCEPT ![n].pc = "head"]
      <3> DEFINE f == [before EXCEPT !.pc = "head"]
      <3>1. f.sha <= head /\ f.pc = "head"
        BY <2>2 DEF Refreshes
      <3>2. refreshes' = [refreshes EXCEPT ![n] = f]
        BY <2>3
      <3> QED  BY <1>3, <2>1, <3>1, <3>2
    <2>4. CASE refreshes' = [refreshes EXCEPT ![n].pc = "failed"]
      <3> DEFINE f == [before EXCEPT !.pc = "failed"]
      <3>1. f.sha <= head /\ f.pc = "failed"
        BY <2>2 DEF Refreshes
      <3>2. refreshes' = [refreshes EXCEPT ![n] = f]
        BY <2>4
      <3> QED  BY <1>3, <2>1, <3>1, <3>2
    <2>5. CASE refreshes' = [refreshes EXCEPT ![n].pc = "analyze", ![n].sha = head]
      <3> DEFINE f == [before EXCEPT !.pc = "analyze", !.sha = head]
      <3>1. f.sha = head /\ f.pc = "analyze"
        BY <2>2 DEF Refreshes
      <3>2. refreshes' = [refreshes EXCEPT ![n] = f]
        BY <2>5
      <3> QED  BY <1>1, <1>3, <2>1, <3>1, <3>2
    <2>6. CASE before.pc = "analyze" /\ refreshes' = [refreshes EXCEPT ![n].pc = "done", ![n].rows = trace]
      <3> DEFINE f == [before EXCEPT !.pc = "done", !.rows = trace]
      <3>1. /\ f.pc = "done" /\ f.rows = trace
            /\ f.sha = before.sha /\ f.overlaps = before.overlaps
        BY <2>2 DEF Refreshes
      <3>2. refreshes' = [refreshes EXCEPT ![n] = f]
        BY <2>6
      <3> HIDE DEF f
      <3>3. f.sha <= head /\ f.rows <= trace
        BY <1>1, <3>1
      <3>4. NoLess(f)
        BY <2>6, <3>1
      <3> QED  BY <1>3, <2>1, <3>2, <3>3, <3>4
    <2> QED
      BY <1>4, <2>3, <2>4, <2>5, <2>6, Zenon DEF Tick, KeyR, doRefresh, ReadHead, AnalyzeHead
  <1>5. ASSUME NEW n \in Slots, RefreshDone(n)
        PROVE  Ordered'
    <2>1. CASE refreshes[n].pc = "failed"
      BY <1>1, <1>5, <2>1 DEF RefreshDone, Typed, TypeOK, worldVars, watchVars, Free
    <2>2. CASE refreshes[n].pc = "done"
      <3>1. \A m \in Slots : refreshes'[m] = Free \/ refreshes'[m] = [refreshes[m] EXCEPT !.overlaps = TRUE]
        BY <1>5, <2>2 DEF RefreshDone
      <3>2. \A m \in Slots :
              /\ refreshes'[m].sha <= head
              /\ refreshes'[m].pc = "done" => refreshes'[m].rows <= trace
        BY <1>1, <3>1 DEF Free, Typed, TypeOK, Refreshes
      <3>3. report' = {[sha |-> refreshes[n].sha, rows |-> refreshes[n].rows]}
        BY <1>5, <2>2 DEF RefreshDone
      <3>4. /\ head' = head /\ trace' = trace /\ polled' = polled
            /\ frame' = frame /\ wpc' = wpc
        BY <1>5 DEF RefreshDone, worldVars, watchVars
      <3>5. \A r \in report' : /\ r.sha = refreshes[n].sha /\ r.rows = refreshes[n].rows
        BY <3>3
      <3>6. ASSUME NEW m \in Slots
            PROVE  NoLess(refreshes[m])'
        <4>1. CASE refreshes'[m] = Free
          BY <4>1 DEF Free
        <4>2. CASE refreshes'[m] = [refreshes[m] EXCEPT !.overlaps = TRUE]
          <5>1. refreshes'[m].overlaps = TRUE
            BY <4>2 DEF Typed, TypeOK, Refreshes
          <5> QED  BY <5>1
        <4> QED  BY <3>1, <4>1, <4>2
      <3>7. \A r \in report' : KnownBy(r)'
        BY <1>1, <2>2, <3>4, <3>5
      <3>8. \A r \in frame' : KnownBy(r)' /\ (wpc' = "analyze" => r.sha <= polled')
        BY <3>4
      <3>9. polled' <= head'
        BY <3>4
      <3>10. \A m \in Slots :
               /\ refreshes'[m].sha <= head'
               /\ refreshes'[m].pc = "done" => refreshes'[m].rows <= trace'
        BY <3>2, <3>4, Zenon
      <3> QED  BY <3>6, <3>7, <3>8, <3>9, <3>10, Zenon
    <2> QED  BY <1>5, <2>1, <2>2 DEF RefreshDone
  <1>6. CASE Poll
    BY <1>1, <1>6 DEF Poll, PollHead, PollAnalyze, worldVars, tuiVars
  <1>7. CASE SelectTick \/ SelectDone
    BY <1>1, <1>7 DEF SelectTick, SelectDone, worldVars, tuiVars
  <1>8. ASSUME WriteTrace
        PROVE  trace' = trace + 1
    <2>1. PICK k \in Kinds : StoreRow(k)
      BY <1>8 DEF WriteTrace
    <2>2. stored \in [Kinds -> Nat]
      BY RefreshAssumption DEF Typed, TypeOK
    <2> QED  BY <2>1, <2>2, StoringWrites
  <1>9. \/ UNCHANGED <<report, frame, polled, refreshes, wpc>> /\ head' \in {head, head + 1}
          /\ trace' \in {trace, trace + 1}
        \/ Poll \/ SelectTick \/ SelectDone
        \/ \E n \in Slots : Tick(n) \/ KeyR(n) \/ Background(n) \/ RefreshDone(n)
    <2>1. CASE WriteTrace
      BY <1>8, <2>1, Zenon DEF WriteTrace, tuiVars, watchVars
    <2>2. UNCHANGED stored \/ WriteTrace \/ Poll \/ SelectTick \/ SelectDone
          \/ \E n \in Slots : Tick(n) \/ KeyR(n) \/ Background(n) \/ RefreshDone(n)
      BY Zenon DEF Next, MoveHead, KeyUp, KeyDown, KeyQ, TickerFires, Signal,
         ClientStep, ServeStep, vars, worldVars
    <2>3. CASE UNCHANGED <<stored, trace>>
      BY <2>3, Zenon DEF Next, MoveHead, WriteTrace, KeyUp, KeyDown, KeyQ, TickerFires, Signal,
         ClientStep, ServeStep, vars, worldVars, tuiVars, watchVars
    <2> QED  BY <2>1, <2>2, <2>3, TraceKept
  <1> QED  BY <1>2, <1>4, <1>5, <1>6, <1>7, <1>9 DEF Background

LEMMA OrderedInvariant == Spec => []Ordered
  <1>1. Init => Ordered
    BY DEF Init, Ordered, NoLess, Free
  <1>2. Typed /\ Typed' /\ Ordered /\ [Next]_vars => Ordered'
    BY StepOrdered
  <1> QED  BY <1>1, <1>2, TypedInvariant, PTL DEF Spec

(* The list is taken back only by a result that an other one overtook.     *)
THEOREM ListBackOnlyByOverlap == Spec => BackOnlyByOverlap
  <1> DEFINE Overtaken ==
        \A r \in report, s \in report' :
          Older(s, r) =>
            \E n \in Slots : /\ refreshes[n].pc = "done" /\ refreshes[n].overlaps
                             /\ refreshes[n].sha = s.sha /\ refreshes[n].rows = s.rows
  <1>1. ASSUME Typed, Ordered, [Next]_vars
        PROVE  Overtaken
    <2> SUFFICES ASSUME NEW r \in report, NEW s \in report', Older(s, r)
                 PROVE  \E n \in Slots :
                          /\ refreshes[n].pc = "done" /\ refreshes[n].overlaps
                          /\ refreshes[n].sha = s.sha /\ refreshes[n].rows = s.rows
      OBVIOUS
    <2>1. r.sha \in Nat /\ r.rows \in Nat /\ ~Older(r, r)
      BY <1>1, TraceTyped, RefreshAssumption DEF Typed, TypeOK, Reports, Some, Older
    <2>2. report' # report
      BY <1>1, <2>1 DEF Typed, TypeOK, Some
    <2>3. PICK n \in Slots : RefreshDone(n)
      BY <1>1, <2>2, Zenon
      DEF Next, MoveHead, WriteTrace, KeyUp, KeyDown, KeyQ, Tick, KeyR, Background, ReadHead,
          AnalyzeHead, Poll, PollHead, PollAnalyze, TickerFires, Signal, SelectTick,
          SelectDone, ClientStep, ServeStep, vars, tuiVars
    <2>4. refreshes[n].pc = "done" /\ s.sha = refreshes[n].sha /\ s.rows = refreshes[n].rows
      BY <2>2, <2>3 DEF RefreshDone
    <2>5. refreshes[n].overlaps
      BY <1>1, <2>1, <2>4 DEF Ordered, NoLess, Older, Typed, TypeOK, Refreshes
    <2> QED  BY <2>4, <2>5
  <1>2. Typed /\ Ordered /\ [Next]_vars => [Overtaken]_vars
    BY <1>1
  <1> QED  BY <1>2, TypedInvariant, OrderedInvariant, PTL DEF Spec, BackOnlyByOverlap

(* What watch prints never goes back.                                      *)
THEOREM WatchAdvances == Spec => FramesAdvance
  <1> DEFINE Advances == \A r \in frame, s \in frame' : ~Older(s, r)
  <1>1. ASSUME Typed, Ordered, [Next]_vars
        PROVE  Advances
    <2>1. /\ \A r \in frame : r.sha \in Nat /\ r.rows \in Nat
          /\ \A r, s \in frame : r = s
          /\ polled \in Nat /\ trace \in Nat
      BY <1>1, TraceTyped, RefreshAssumption DEF Typed, TypeOK, Reports, Some
    <2>2. CASE PollAnalyze
      BY <1>1, <2>1, <2>2 DEF PollAnalyze, Ordered, KnownBy, Older
    <2>3. CASE frame' = frame
      BY <2>1, <2>3 DEF Older
    <2>4. PollAnalyze \/ frame' = frame
      BY <1>1, Zenon
      DEF Next, MoveHead, WriteTrace, KeyUp, KeyDown, KeyQ, Tick, KeyR, Background, ReadHead,
          AnalyzeHead, RefreshDone, Poll, PollHead, TickerFires, Signal, SelectTick,
          SelectDone, ClientStep, ServeStep, vars, watchVars
    <2> QED  BY <2>2, <2>3, <2>4
  <1>2. Typed /\ Ordered /\ [Next]_vars => [Advances]_vars
    BY <1>1
  <1> QED  BY <1>2, TypedInvariant, OrderedInvariant, PTL DEF Spec, FramesAdvance

-----------------------------------------------------------------------------
(* The answers of mcp.  A line in work is not blank and not answered yet;  *)
(* every line before it is; and the edits were counted no later than now.  *)
InWork == mpc \in {"dispatch", "count"}

Answered == {answers[i].line : i \in DOMAIN answers}

McpInv ==
  /\ input \in Seq(Lines) /\ taken \in 0..Len(input)
  /\ stored \in [Kinds -> Nat] /\ counted \in [Kinds -> Nat]
  /\ \A k \in Kinds : counted[k] <= stored[k]
  /\ stored.edits > 0 => stored.sessions > 0
  /\ answers \in Seq([line : Nat, ok : BOOLEAN, edits : Int, sessions : Int])
  /\ InWork => taken > 0 /\ input[taken] # "blank"
  /\ mpc \in {"poll", "scan"} => Answered = {n \in 1..taken : input[n] # "blank"}
  /\ InWork => Answered = {n \in 1..(taken - 1) : input[n] # "blank"}
  /\ \A i \in DOMAIN answers :
       /\ answers[i].edits > stored.orphans => answers[i].sessions > 0
       /\ answers[i].line <= taken
       /\ InWork => answers[i].line < taken
       /\ \A j \in 1..(i - 1) : answers[j].line < answers[i].line

Rows == [line : Nat, ok : BOOLEAN, edits : Int, sessions : Int]

LEMMA RespondKeeps ==
  ASSUME McpInv, InWork, NEW a \in Rows,
         a.line = taken, a.edits > stored.orphans => a.sessions > 0,
         Respond(a), mpc' = "poll", UNCHANGED <<input, taken, stored>>,
         counted' \in {counted, NothingStored}
  PROVE  McpInv'
  <1> DEFINE n == Len(answers)
  <1>1. /\ answers \in Seq(Rows) /\ n \in Nat /\ DOMAIN answers = 1..n
        /\ taken \in Nat /\ taken > 0 /\ taken \in 0..Len(input) /\ input \in Seq(Lines)
        /\ input[taken] # "blank"
        /\ Answered = {k \in 1..(taken - 1) : input[k] # "blank"}
    BY DEF McpInv, Rows
  <1>2. /\ answers' \in Seq(Rows)
        /\ DOMAIN answers' = 1..(n + 1)
        /\ \A i \in 1..n : answers'[i] = answers[i]
        /\ answers'[n + 1] = a
    BY <1>1 DEF Respond
  <1> HIDE DEF n
  <1>3. Answered' = Answered \union {taken}
    <2>1. Answered' = {answers'[i].line : i \in 1..(n + 1)}
      BY <1>2 DEF Answered
    <2>2. Answered = {answers[i].line : i \in 1..n}
      BY <1>1 DEF Answered
    <2>3. \A i \in 1..(n + 1) : i \in 1..n \/ i = n + 1
      BY <1>1
    <2>4. 1..n \subseteq 1..(n + 1) /\ n + 1 \in 1..(n + 1)
      BY <1>1
    <2> QED  BY <1>2, <2>1, <2>2, <2>3, <2>4
  <1>4. Answered' = {k \in 1..taken : input[k] # "blank"}
    BY <1>1, <1>3
  <1>5. ASSUME NEW i \in 1..(n + 1)
        PROVE  /\ answers'[i].edits > stored.orphans => answers'[i].sessions > 0
               /\ answers'[i].line <= taken
               /\ \A j \in 1..(i - 1) : answers'[j].line < answers'[i].line
    <2>1. \A k \in 1..n :
            /\ answers[k].edits > stored.orphans => answers[k].sessions > 0
            /\ answers[k].line < taken /\ answers[k].line \in Nat
            /\ \A j \in 1..(k - 1) : answers[j].line < answers[k].line
      <3> \A k \in 1..n : answers[k] \in Rows
        BY <1>1
      <3>1. \A k \in 1..n : answers[k].line \in Nat
        BY DEF Rows
      <3>2. \A k \in DOMAIN answers :
              /\ answers[k].edits > stored.orphans => answers[k].sessions > 0
              /\ answers[k].line < taken
              /\ \A j \in 1..(k - 1) : answers[j].line < answers[k].line
        BY Zenon DEF McpInv
      <3> QED  BY <1>1, <3>1, <3>2
    <2>2. CASE i \in 1..n
      <3>1. \A j \in 1..(i - 1) : j \in 1..n
        BY <1>1, <2>2
      <3> QED  BY <1>1, <1>2, <2>1, <2>2, <3>1
    <2>3. CASE i = n + 1
      <3>1. \A j \in 1..(i - 1) : j \in 1..n
        BY <1>1, <2>3
      <3> QED  BY <1>1, <1>2, <2>1, <2>3, <3>1
    <2> QED  BY <1>1, <2>2, <2>3
  <1>6. ~InWork' /\ taken' = taken /\ input' = input
    BY DEF InWork
  <1>7. counted' \in [Kinds -> Nat] /\ \A k \in Kinds : counted'[k] <= stored[k]
    BY DEF McpInv, NothingStored
  <1> QED  BY <1>1, <1>2, <1>4, <1>5, <1>6, <1>7 DEF McpInv, Rows

LEMMA StepMcp ==
  ASSUME McpInv, [Next]_vars
  PROVE  McpInv'
  <1>1. CASE UNCHANGED <<mcpVars, stored>>
    BY <1>1 DEF mcpVars, McpInv, InWork, Answered
  <1>5. CASE WriteTrace
    <2>1. PICK k \in Kinds : StoreRow(k)
      BY <1>5 DEF WriteTrace
    <2>2. /\ stored' \in [Kinds -> Nat] /\ stored \in [Kinds -> Nat] /\ counted \in [Kinds -> Nat]
          /\ \A j \in Kinds : stored'[j] >= stored[j]
      BY <2>1, StoringWrites DEF McpInv
    <2>3. UNCHANGED mcpVars
      BY <1>5 DEF WriteTrace
    <2>4. \A j \in Kinds : stored[j] \in Nat /\ stored'[j] \in Nat /\ counted[j] \in Nat
      BY <2>2
    <2>5. \A j \in Kinds : counted'[j] <= stored'[j]
      BY <2>2, <2>3, <2>4 DEF McpInv, mcpVars
    <2>6. stored'.edits > 0 => stored'.sessions > 0
      BY <2>1, <2>2, <2>4 DEF McpInv, StoreRow, Kinds
    <2>7. \A i \in DOMAIN answers : answers[i].edits > stored'.orphans => answers[i].sessions > 0
      <3> answers \in Seq(Rows) /\ DOMAIN answers = 1..Len(answers)
        BY DEF McpInv, Rows
      <3>1. \A i \in DOMAIN answers : answers[i] \in Rows
        OBVIOUS
      <3>2. \A i \in DOMAIN answers : answers[i].edits \in Int
        BY <3>1 DEF Rows
      <3>3. stored'.orphans \in Int /\ stored.orphans \in Int /\ stored'.orphans >= stored.orphans
        BY <2>2, <2>4 DEF Kinds
      <3>4. \A i \in DOMAIN answers : answers[i].edits > stored.orphans => answers[i].sessions > 0
        BY Zenon DEF McpInv
      <3> QED  BY <3>2, <3>3, <3>4
    <2>8. InWork' = InWork /\ Answered' = Answered
      BY <2>3 DEF mcpVars, InWork, Answered
    <2> QED  BY <2>2, <2>3, <2>5, <2>6, <2>7, <2>8 DEF McpInv, mcpVars
  <1>2. CASE ClientStep
    <2>1. UNCHANGED stored
      BY <1>2 DEF ClientStep, worldVars
    <2>2. ASSUME NEW l \in Lines, ClientWrites(l)
          PROVE  McpInv'
      <3>1. /\ input' \in Seq(Lines) /\ Len(input') = Len(input) + 1
            /\ \A n \in 1..Len(input) : input'[n] = input[n]
        BY <2>2 DEF ClientWrites, McpInv
      <3>2. taken \in 0..Len(input) /\ Len(input) \in Nat
        BY DEF McpInv
      <3>3. \A n \in 1..taken : input'[n] = input[n]
        BY <3>1, <3>2
      <3>4. UNCHANGED <<mpc, taken, counted, answers>>
        BY <2>2 DEF ClientWrites
      <3>5. /\ {n \in 1..taken : input'[n] # "blank"} = {n \in 1..taken : input[n] # "blank"}
            /\ {n \in 1..(taken - 1) : input'[n] # "blank"}
                 = {n \in 1..(taken - 1) : input[n] # "blank"}
        BY <3>2, <3>3
      <3>6. InWork => input'[taken] # "blank"
        BY <3>2, <3>3 DEF McpInv
      <3>7. taken' \in 0..Len(input')
        BY <3>1, <3>2, <3>4
      <3>8. Answered' = Answered /\ InWork' = InWork
        BY <3>4 DEF Answered, InWork
      <3> QED  BY <2>1, <3>1, <3>4, <3>5, <3>6, <3>7, <3>8 DEF McpInv
    <2>3. ASSUME ClientCloses \/ NotifyContext
          PROVE  McpInv'
      BY <2>1, <2>3 DEF ClientCloses, NotifyContext, McpInv, InWork, Answered
    <2> QED  BY <1>2, <2>2, <2>3 DEF ClientStep, Client
  <1>3. CASE ServeStep
    <2>1. UNCHANGED stored
      BY <1>3 DEF ServeStep, worldVars
    <2>2. ASSUME CheckContext \/ ScanEnds
          PROVE  McpInv'
      BY <2>1, <2>2 DEF CheckContext, ScanEnds, McpInv, InWork, Answered
    <2>3. ASSUME Scan
          PROVE  McpInv'
      <3>1. /\ taken' = taken + 1 /\ taken' \in 0..Len(input) /\ taken \in Nat
            /\ UNCHANGED <<input, counted, answers>>
        <4>1. taken \in 0..Len(input) /\ Len(input) \in Nat
          BY DEF McpInv
        <4> QED  BY <2>3, <4>1 DEF Scan
      <3>2. Answered' = {n \in 1..(taken' - 1) : input[n] # "blank"}
        <4>1. Answered' = Answered
          BY <3>1 DEF Answered
        <4> QED  BY <2>3, <3>1, <4>1 DEF Scan, McpInv
      <3>3. \/ mpc' = "exited"
            \/ mpc' = "poll" /\ input[taken'] = "blank"
            \/ mpc' = "dispatch" /\ input[taken'] # "blank"
        BY <2>3, <3>1 DEF Scan
      <3>4. mpc' = "poll" => Answered' = {n \in 1..taken' : input[n] # "blank"}
        BY <3>1, <3>2, <3>3
      <3>5. /\ mpc' # "scan" /\ (InWork' => taken' > 0 /\ input'[taken'] # "blank")
            /\ ~InWork
        BY <2>3, <3>1, <3>3 DEF Scan, InWork
      <3>6. \A i \in DOMAIN answers : answers[i].line < taken' /\ answers[i].line <= taken'
        <4>1. /\ answers \in Seq(Rows) /\ DOMAIN answers = 1..Len(answers)
              /\ \A i \in DOMAIN answers : answers[i].line <= taken
          BY DEF McpInv, Rows
        <4> \A i \in DOMAIN answers : answers[i] \in Rows
          BY <4>1
        <4>2. \A i \in DOMAIN answers : answers[i].line \in Nat
          BY DEF Rows
        <4>3. \A k \in Nat : k <= taken => k < taken' /\ k <= taken'
          BY <3>1
        <4> QED  BY <4>1, <4>2, <4>3
      <3> QED  BY <2>1, <3>1, <3>2, <3>4, <3>5, <3>6 DEF McpInv
    <2>4. /\ \A k \in Kinds : counted[k] \in Nat /\ stored[k] \in Nat /\ counted[k] <= stored[k]
          /\ taken \in Nat
          /\ InWork => taken > 0
      BY DEF McpInv
    <2>5. ASSUME NEW ok \in BOOLEAN, InWork, Respond(Plain(ok)), mpc' = "poll",
                 UNCHANGED <<input, taken, counted>>
          PROVE  McpInv'
      <3>1. Plain(ok) \in Rows /\ Plain(ok).line = taken /\ Plain(ok).edits = 0
        BY <2>4 DEF Plain, Rows
      <3>2. ~(0 > stored.orphans)
        BY <2>4 DEF Kinds
      <3> QED  BY <2>1, <2>5, <3>1, <3>2, RespondKeeps
    <2>6. ASSUME Dispatch
          PROVE  McpInv'
      <3>1. InWork /\ mpc' = "poll" /\ UNCHANGED <<input, taken, counted>>
        BY <2>6 DEF Dispatch, InWork
      <3>2. Respond(Plain(TRUE)) \/ Respond(Plain(FALSE))
        BY <2>6 DEF Dispatch
      <3> QED  BY <2>5, <3>1, <3>2
    <2>7. ASSUME CountEdits
          PROVE  McpInv'
      <3>1. InWork /\ UNCHANGED <<input, taken>>
        BY <2>7 DEF CountEdits, InWork
      <3>2. CASE counted' = stored /\ mpc' = "count" /\ UNCHANGED answers
        <4>1. counted' \in [Kinds -> Nat] /\ \A k \in Kinds : counted'[k] <= stored[k]
          BY <2>4, <3>2 DEF McpInv
        <4>2. InWork' /\ Answered' = Answered
          BY <3>2 DEF InWork, Answered
        <4> QED  BY <2>1, <3>1, <3>2, <4>1, <4>2 DEF McpInv
      <3>3. CASE Respond(Plain(FALSE)) /\ mpc' = "poll" /\ UNCHANGED counted
        BY <2>5, <3>1, <3>3
      <3> QED  BY <2>7, <3>2, <3>3 DEF CountEdits
    <2>8. ASSUME CountSessions
          PROVE  McpInv'
      <3> DEFINE a == Counted(counted, stored)
      <3>1. /\ InWork /\ mpc' = "poll" /\ UNCHANGED <<input, taken>>
            /\ counted' = NothingStored
        BY <2>8 DEF CountSessions, InWork
      <3>2. \A ok \in BOOLEAN : Plain(ok) \in Rows /\ Plain(ok).line = taken /\ Plain(ok).edits = 0
        BY <2>4 DEF Plain, Rows
      <3>3. /\ counted.edits \in Nat /\ counted.orphans \in Nat
            /\ stored.edits \in Nat /\ stored.orphans \in Nat /\ stored.sessions \in Nat
            /\ counted.edits <= stored.edits /\ counted.orphans <= stored.orphans
            /\ stored.edits > 0 => stored.sessions > 0
        BY <2>4 DEF McpInv, Kinds
      <3>4. counted.edits + counted.orphans > stored.orphans => stored.sessions > 0
        BY <3>3
      <3>5. /\ a \in Rows /\ a.line = taken
            /\ a.edits = counted.edits + counted.orphans /\ a.sessions = stored.sessions
        BY <2>4, <3>3 DEF Rows, Counted
      <3> HIDE DEF a
      <3>6. CASE Respond(a)
        BY <2>1, <3>1, <3>4, <3>5, <3>6, RespondKeeps
      <3>7. CASE Respond(Plain(FALSE))
        <4>1. ~(0 > stored.orphans)
          BY <3>3
        <4> QED  BY <2>1, <3>1, <3>2, <3>7, <4>1, RespondKeeps
      <3> QED  BY <2>8, <3>6, <3>7 DEF CountSessions, a
    <2> QED  BY <1>3, <2>2, <2>3, <2>6, <2>7, <2>8 DEF ServeStep, Serve
  <1>4. ClientStep \/ ServeStep \/ WriteTrace \/ UNCHANGED <<mcpVars, stored>>
    <2>1. CASE MoveHead
      BY <2>1 DEF MoveHead
    <2>2. CASE \/ KeyUp \/ KeyDown \/ KeyQ \/ TickerFires \/ Signal \/ SelectTick \/ SelectDone
               \/ Poll \/ UNCHANGED vars
               \/ \E n \in Slots : Tick(n) \/ KeyR(n) \/ Background(n) \/ RefreshDone(n)
      <3>1. UNCHANGED <<mcpVars, stored>>
        BY <2>2, Zenon
        DEF KeyUp, KeyDown, KeyQ, Tick, KeyR, Background, ReadHead, AnalyzeHead, RefreshDone,
            Poll, PollHead, PollAnalyze, TickerFires, Signal, SelectTick, SelectDone, vars,
            worldVars
      <3> QED  BY <3>1
    <2> QED  BY <2>1, <2>2, Zenon DEF Next
  <1> QED  BY <1>1, <1>2, <1>3, <1>4, <1>5

(* Every line is answered in turn, and whatever is written between the two *)
(* counts, orphans included, no statistics show more edits than there are  *)
(* orphans and no session.                                                 *)
THEOREM AnswersInOrder == Spec => []AnswersCoherent
  <1>1. Init => McpInv
    BY DEF Init, McpInit, McpInv, InWork, Answered, NothingStored, Kinds
  <1>2. McpInv /\ [Next]_vars => McpInv'
    BY StepMcp
  <1>3. McpInv => AnswersCoherent
    BY DEF McpInv, AnswersCoherent, InWork, Answered
  <1> QED  BY <1>1, <1>2, <1>3, PTL DEF Spec
=============================================================================
