------------------------------ MODULE Refresh ------------------------------
(***************************************************************************)
(* The processes that look at a trace hooks go on writing and at a         *)
(* repository whose HEAD moves.  `tui' starts a refresh in the background  *)
(* every two seconds and whenever r is pressed; its results are messages   *)
(* that arrive in any order.  `watch' polls in a loop until it is told to  *)
(* stop.  `mcp' answers requests, see McpServer.                           *)
(***************************************************************************)
EXTENDS McpServer

CONSTANTS
  Found,      (* Found[r]: how many segments the report r has, see Reports *)
  TopN,       (* how many of them are shown, 0 for all                     *)
  MaxHead, MaxTrace,   (* bounds: moves of HEAD, writes of the trace       *)
  Slots                (* as many refreshes may be under way at a time     *)

(* What an analysis says is given by what it knew: that HEAD had moved sha *)
(* times, and that the trace had been written rows times.                  *)
Reports == [sha : 1..MaxHead, rows : 0..MaxTrace]

ASSUME RefreshAssumption ==
  /\ MaxHead \in Nat \ {0} /\ MaxTrace \in Nat
  /\ TopN \in Nat
  /\ Found \in [Reports -> Nat]

VARIABLES
  head,         (* HEAD's moves, 0 before the first commit                 *)
  refreshes,    (* refreshes[n]: the refresh in slot n, see Refreshes      *)
  report,       (* the report of the tui, [sha, rows], in a set of at most *)
                (* one                                                     *)
  cursor, lastErr, loading, quit,
  wpc,          (* watch: "head", "analyze", "select" or "exited"          *)
  polled,       (* the commit its poll reads, 0 for none                   *)
  frame,        (* the report it printed last, as in report                *)
  due,          (* has the ticker fired?                                   *)
  cancelled     (* has a signal cancelled the context?                     *)

worldVars == <<head, stored>>
tuiVars   == <<refreshes, report, cursor, lastErr, loading, quit>>
watchVars == <<wpc, polled, frame, due, cancelled>>
vars      == <<worldVars, tuiVars, watchVars, mcpVars>>

(* An older report knows less of HEAD or of the trace.                     *)
Older(a, b) == a.sha < b.sha \/ a.rows < b.rows

(* overlaps is history: was a report shown since the refresh began?        *)
Refreshes ==
  [pc : {"free", "head", "analyze", "done", "failed"}, sha : 0..MaxHead,
   rows : 0..MaxTrace, overlaps : BOOLEAN]

Free == [pc |-> "free", sha |-> 0, rows |-> 0, overlaps |-> FALSE]

-----------------------------------------------------------------------------
(* The world the views look at.                                            *)
MoveHead ==
  /\ head < MaxHead
  /\ head' = head + 1
  /\ UNCHANGED <<stored, tuiVars, watchVars, mcpVars>>

WriteTrace ==
  /\ trace < MaxTrace
  /\ \E k \in Kinds : StoreRow(k)
  /\ UNCHANGED <<head, tuiVars, watchVars, mcpVars>>

-----------------------------------------------------------------------------
(* The tui: Update handles one message at a time.                          *)

visibleSegments(S) ==
  IF S = {} THEN 0
  ELSE LET r == CHOOSE x \in S : TRUE
           n == Found[r]
       IN  IF TopN > 0 /\ n > TopN THEN TopN ELSE n

doRefresh(n) ==
  /\ refreshes[n].pc = "free"
  /\ refreshes' = [refreshes EXCEPT ![n].pc = "head"]

(* Faulty form of Tick: the tick is not armed again once there is a list.  *)
BugTicksUntilShown(n) ==
  /\ ~quit /\ report = {} /\ doRefresh(n)
  /\ UNCHANGED <<worldVars, report, cursor, lastErr, loading, quit, watchVars, mcpVars>>

(* The tick every two seconds, whether or not a refresh is under way.      *)
Tick(n) ==
  /\ ~quit /\ doRefresh(n)
  /\ UNCHANGED <<worldVars, report, cursor, lastErr, loading, quit, watchVars, mcpVars>>

KeyR(n) ==
  /\ ~quit /\ doRefresh(n)
  /\ loading' = TRUE
  /\ UNCHANGED <<worldVars, report, cursor, lastErr, quit, watchVars, mcpVars>>

(* Faulty form of KeyUp: the first line is no limit.                       *)
BugUpUnguarded ==
  /\ ~quit
  /\ cursor' = cursor - 1
  /\ UNCHANGED <<worldVars, refreshes, report, lastErr, loading, quit, watchVars, mcpVars>>

KeyUp ==
  /\ ~quit /\ cursor > 0
  /\ cursor' = cursor - 1
  /\ UNCHANGED <<worldVars, refreshes, report, lastErr, loading, quit,
                 watchVars, mcpVars>>

KeyDown ==
  /\ ~quit /\ cursor < visibleSegments(report) - 1
  /\ cursor' = cursor + 1
  /\ UNCHANGED <<worldVars, refreshes, report, lastErr, loading, quit,
                 watchVars, mcpVars>>

KeyQ ==
  /\ ~quit
  /\ quit' = TRUE
  /\ UNCHANGED <<worldVars, refreshes, report, cursor, lastErr, loading,
                 watchVars, mcpVars>>

(* A refresh reads HEAD; without a commit it fails.                        *)
ReadHead(n) ==
  /\ ~quit /\ refreshes[n].pc = "head"
  /\ \/ refreshes' = [refreshes EXCEPT ![n].pc = "failed"]
     \/ head > 0 /\ refreshes' = [refreshes EXCEPT ![n].pc = "analyze", ![n].sha = head]
  /\ UNCHANGED <<worldVars, report, cursor, lastErr, loading, quit, watchVars, mcpVars>>

(* Faulty form of AnalyzeHead: a failed query passes for an empty result.  *)
BugFailedIsEmpty(n) ==
  /\ ~quit /\ refreshes[n].pc = "analyze"
  /\ \E t \in {0, trace} :
       refreshes' = [refreshes EXCEPT ![n].pc = "done", ![n].rows = t]
  /\ UNCHANGED <<worldVars, report, cursor, lastErr, loading, quit, watchVars, mcpVars>>

(* It analyzes that commit with the trace as it is by now, or fails.       *)
AnalyzeHead(n) ==
  /\ ~quit /\ refreshes[n].pc = "analyze"
  /\ \/ refreshes' = [refreshes EXCEPT ![n].pc = "failed"]
     \/ refreshes' = [refreshes EXCEPT ![n].pc = "done", ![n].rows = trace]
  /\ UNCHANGED <<worldVars, report, cursor, lastErr, loading, quit, watchVars, mcpVars>>

(* Faulty form of Clamped: the cursor stays where it is.                   *)
BugNotClamped(S) == cursor

Clamped(S) ==
  LET maxCursor == IF visibleSegments(S) > 0 THEN visibleSegments(S) - 1 ELSE 0
  IN  IF cursor > maxCursor THEN maxCursor ELSE cursor

(* The message of any refresh that is through: an error leaves the report. *)
RefreshDone(n) ==
  /\ ~quit /\ refreshes[n].pc \in {"done", "failed"}
  /\ loading' = FALSE
  /\ lastErr' = (refreshes[n].pc = "failed")
  /\ IF refreshes[n].pc = "done"
       THEN /\ report' = {[sha |-> refreshes[n].sha, rows |-> refreshes[n].rows]}
            /\ cursor' = Clamped(report')
            /\ refreshes' = [m \in Slots |->
                 IF m = n \/ refreshes[m].pc = "free" THEN Free
                 ELSE [refreshes[m] EXCEPT !.overlaps = TRUE]]
       ELSE /\ refreshes' = [refreshes EXCEPT ![n] = Free]
            /\ UNCHANGED <<report, cursor>>
  /\ UNCHANGED <<worldVars, quit, watchVars, mcpVars>>

-----------------------------------------------------------------------------
(* watch: one goroutine polls, another one waits for a signal.             *)

PollHead ==
  /\ wpc = "head"
  /\ \/ polled' = head /\ wpc' = IF head = 0 THEN "select" ELSE "analyze"
     \/ polled' = 0 /\ wpc' = "select"
  /\ UNCHANGED <<worldVars, tuiVars, mcpVars, frame, due, cancelled>>

(* A poll that fails is reported and leaves the loop running.              *)
PollAnalyze ==
  /\ wpc = "analyze"
  /\ wpc' = "select"
  /\ \/ frame' = {[sha |-> polled, rows |-> trace]}
     \/ UNCHANGED frame
  /\ UNCHANGED <<worldVars, tuiVars, mcpVars, polled, due, cancelled>>

(* The ticker drops what nobody takes: at most one tick is waiting.        *)
TickerFires ==
  /\ wpc # "exited" /\ ~due
  /\ due' = TRUE
  /\ UNCHANGED <<worldVars, tuiVars, mcpVars, wpc, polled, frame, cancelled>>

Signal ==
  /\ wpc # "exited" /\ ~cancelled
  /\ cancelled' = TRUE
  /\ UNCHANGED <<worldVars, tuiVars, mcpVars, wpc, polled, frame, due>>

(* The select takes either channel when both are ready.                    *)
SelectTick ==
  /\ wpc = "select" /\ due
  /\ due' = FALSE
  /\ wpc' = "head"
  /\ UNCHANGED <<worldVars, tuiVars, mcpVars, polled, frame, cancelled>>

(* Faulty form of SelectDone: the ticker goes first.                       *)
BugTickFirst ==
  /\ wpc = "select" /\ cancelled /\ ~due
  /\ wpc' = "exited"
  /\ UNCHANGED <<worldVars, tuiVars, mcpVars, polled, frame, due, cancelled>>

SelectDone ==
  /\ wpc = "select" /\ cancelled
  /\ wpc' = "exited"
  /\ UNCHANGED <<worldVars, tuiVars, mcpVars, polled, frame, due, cancelled>>

-----------------------------------------------------------------------------
(* One of them runs: none does anything another one sees.  The tui begins  *)
(* with a refresh and the ticks, watch with a poll.                        *)
Init ==
  /\ head \in 0..1 /\ stored = NothingStored
  /\ report = {} /\ cursor = 0 /\ lastErr = FALSE /\ loading = TRUE
  /\ polled = 0 /\ frame = {} /\ due = FALSE /\ cancelled = FALSE
  /\ McpInit
  /\ \/ /\ \E n \in Slots :
             refreshes = [m \in Slots |-> IF m = n THEN [Free EXCEPT !.pc = "head"] ELSE Free]
        /\ quit = FALSE /\ wpc = "exited" /\ mpc = "exited"
     \/ /\ refreshes = [m \in Slots |-> Free] /\ quit = TRUE
        /\ \/ wpc = "head" /\ mpc = "exited"
           \/ wpc = "exited" /\ mpc = "poll"

Background(n) == ReadHead(n) \/ AnalyzeHead(n)

Poll == PollHead \/ PollAnalyze

ClientStep == Client /\ UNCHANGED <<worldVars, tuiVars, watchVars>>

ServeStep == Serve /\ UNCHANGED <<worldVars, tuiVars, watchVars>>

Next ==
  \/ MoveHead \/ WriteTrace
  \/ KeyUp \/ KeyDown \/ KeyQ
  \/ \E n \in Slots : Tick(n) \/ KeyR(n) \/ Background(n) \/ RefreshDone(n)
  \/ Poll \/ TickerFires \/ Signal \/ SelectTick \/ SelectDone
  \/ ClientStep \/ ServeStep

Spec == Init /\ [][Next]_vars

(* Ticks come, goroutines run and messages are delivered.  Go's select     *)
(* chooses among ready channels at random: one that is ready again and     *)
(* again is taken.                                                         *)
FairSpec ==
  /\ Spec
  /\ \A n \in Slots : /\ WF_vars(Tick(n))
                      /\ WF_vars(Background(n)) /\ WF_vars(RefreshDone(n))
  /\ WF_vars(Poll) /\ WF_vars(TickerFires)
  /\ WF_vars(SelectTick) /\ SF_vars(SelectDone)
  /\ WF_vars(ServeStep)

-----------------------------------------------------------------------------
(* Properties.                                                             *)

Some(S) == S = {} \/ \E r \in Reports : S = {r}

(* The tui and watch hold values of their kinds.                           *)
TypeOK ==
  /\ head \in 0..MaxHead /\ stored \in [Kinds -> 0..MaxTrace] /\ trace <= MaxTrace
  /\ refreshes \in [Slots -> Refreshes]
  /\ Some(report) /\ Some(frame)
  /\ cursor \in Nat
  /\ lastErr \in BOOLEAN /\ loading \in BOOLEAN /\ quit \in BOOLEAN
  /\ wpc \in {"head", "analyze", "select", "exited"}
  /\ polled \in 0..MaxHead
  /\ due \in BOOLEAN /\ cancelled \in BOOLEAN

(* The cursor stays on a line of the list, though the list shrinks under   *)
(* it when a shorter report comes, be it late and older than the one       *)
(* shown.                                                                  *)
CursorOnList ==
  cursor < visibleSegments(report) \/ (cursor = 0 /\ visibleSegments(report) = 0)

(* The list goes back to an older HEAD or an older trace only when the     *)
(* results of refreshes that ran at the same time overtook one another: a  *)
(* refresh begun after a report was shown never takes it back.             *)
BackOnlyByOverlap ==
  [][\A r \in report, s \in report' :
       Older(s, r) =>
         \E n \in Slots : /\ refreshes[n].pc = "done" /\ refreshes[n].overlaps
                          /\ refreshes[n].sha = s.sha /\ refreshes[n].rows = s.rows]_vars

(* watch never goes back: its polls follow one another.                    *)
FramesAdvance ==
  [][\A r \in frame, s \in frame' : ~Older(s, r)]_vars

Current(S) == S = {[sha |-> head, rows |-> trace]}

(* Once nothing changes any more, the list is up to date, unless refreshes *)
(* fail again and again: each failure leaves an older list in place, which *)
(* View does not mark.                                                     *)
CatchesUp ==
  <>[](head = MaxHead /\ trace = MaxTrace) => []<>(Current(report) \/ lastErr \/ quit)

(* A signal ends watch, though each poll may take so long that the ticker  *)
(* is always ready when it ends.                                           *)
WatchStops == cancelled ~> wpc = "exited"
=============================================================================
