------------------------------- MODULE Report -------------------------------
(***************************************************************************)
(* From a request to what the user is shown: `report', the MCP tool        *)
(* barq_get_report, and the refreshes of watch and tui choose a range of   *)
(* commits, run one analysis, rank its segments and, for `report', have    *)
(* them explained.                                                         *)
(***************************************************************************)
EXTENDS Analyzer

CONSTANTS
  Requests,  (* what may be asked for                                      *)
  Backend    (* the explainer: "null", "remote" or "local"                 *)

ASSUME ReportAssumption ==
  \A r \in Requests : r.by \in {"report", "mcp", "watch"}

VARIABLES
  request,   (* the request, in a set of at most one                       *)
  ranked,    (* the report's segments, best score first                    *)
  texts,     (* the explanations written so far, in the same order         *)
  fellBack   (* has the local backend switched to its fallback model?      *)

reportVars == <<request, ranked, texts, fellBack>>
vars == <<traceVars, pc, analysisVars, reportVars>>

-----------------------------------------------------------------------------
(* The range the user asks for.  --commit overrides --from and --to; the   *)
(* default is HEAD against its parent.                                     *)
WantedTo(r)   == IF r.commit # NotGiven THEN r.commit
                 ELSE IF r.to # NotGiven THEN r.to ELSE HEAD
WantedFrom(r) == IF r.commit # NotGiven THEN NotGiven ELSE r.from

(* resolveRef of the report command does not look at the reference.        *)
resolveRef(ref) == HeadSHA

RangeTo(r)   == IF r.by = "report" THEN resolveRef(WantedTo(r)) ELSE WantedTo(r)
RangeFrom(r) == IF r.by = "report" /\ WantedFrom(r) # NotGiven
                THEN resolveRef(WantedFrom(r)) ELSE WantedFrom(r)

Ask(r) ==
  /\ Analyze(RangeFrom(r), RangeTo(r))
  /\ request' = {r}
  /\ UNCHANGED <<ranked, texts, fellBack>>

(* Best score first; the order of equal scores is by path, then open: here *)
(* it is open.                                                             *)
Rankings(S) ==
  {q \in SetToSeqs(S) : \A i, j \in DOMAIN q : i < j => q[i].score >= q[j].score}

Rank ==
  /\ pc = "rank"
  /\ ranked' \in Rankings(segments)
  /\ pc' = IF \E r \in request : r.by = "report" THEN "explain" ELSE "done"
  /\ UNCHANGED <<traceVars, analysisVars, request, texts, fellBack>>

(* One call of a backend: a text, an empty text, or an error, a time-out   *)
(* included.                                                               *)
Answers == {"text", "empty", "error"}

(* Faulty form of Explain: both models' answers are kept.                  *)
BugBothModels ==
  /\ pc = "explain" /\ Len(texts) < Len(ranked)
  /\ \/ texts' = Append(texts, "prose") /\ UNCHANGED fellBack
     \/ texts' = texts \o <<"template", "prose">> /\ fellBack' = TRUE
  /\ UNCHANGED <<traceVars, pc, analysisVars, request, ranked>>

(* The explanation of the next segment.  The local backend tries its       *)
(* fallback model after an error and stays with it.  An error or an empty  *)
(* text leave the template of the reason codes.                            *)
Explain ==
  /\ pc = "explain" /\ Len(texts) < Len(ranked)
  /\ \E first, second \in Answers :
       LET switch == Backend = "local" /\ first = "error"
           final  == IF Backend = "null" THEN "empty"
                     ELSE IF switch THEN second ELSE first
       IN  /\ texts' = Append(texts, IF final = "text" THEN "prose" ELSE "template")
           /\ fellBack' = (fellBack \/ switch)
  /\ UNCHANGED <<traceVars, pc, analysisVars, request, ranked>>

Render ==
  /\ pc = "explain" /\ Len(texts) = Len(ranked)
  /\ pc' = "done"
  /\ UNCHANGED <<traceVars, analysisVars, reportVars>>

Init ==
  /\ AnalyzerInit
  /\ request = {} /\ ranked = <<>> /\ texts = <<>> /\ fellBack = FALSE

Reporting ==
  \/ AnalysisStep /\ UNCHANGED reportVars
  \/ Rank \/ Explain \/ Render

Next ==
  \/ \E r \in Rows : Record(r) /\ UNCHANGED reportVars
  \/ \E r \in Requests : Ask(r)
  \/ Reporting

Spec == Init /\ [][Next]_vars

(* The process that reports runs; nobody has to ask or to write.           *)
FairSpec == Spec /\ WF_vars(Reporting)

-----------------------------------------------------------------------------
(* Properties.                                                             *)

Reported == segments \union seg

(* The analysis and its report hold values of their kinds.                 *)
TypeOK ==
  /\ begun \subseteq trace /\ trace \subseteq Rows
  /\ pc \in {"idle", "edits", "execs", "sessionEdits", "assess", "match",
             "plugins", "rank", "explain", "done", "failed"}
  /\ edits \subseteq Edits \intersect trace
  /\ todo \subseteq edits
  /\ \A s \in DOMAIN execs : ToSet(execs[s]) \subseteq Executions \intersect trace
  /\ \A s \in DOMAIN sessionEdits :
       ToSet(sessionEdits[s]) \subseteq edits \union trace
  /\ \A g \in Reported : g.edit \in edits /\ g.tier \in Int /\ g.score \in Nat
  /\ texts \in Seq({"prose", "template"}) /\ Len(texts) <= Len(ranked)

(* Reference definitions of the signals, over a set of rows S: what the    *)
(* signals mean, not how they are computed.                                *)
InSession(S, e) == {r \in S : r.session = e.session}

Runs(S, e) == {x \in InSession(S, e) \intersect Executions :
                 x.ts > e.ts /\ e.file \in FilesTouched(x)}

Reedits(S, e) == {d \in InSession(S, e) \intersect Edits :
                    d.file = e.file /\ d.ts > e.ts}

Tests(S, e) == {x \in InSession(S, e) \intersect Executions : x.class = "test"}

FailedBefore(S, e) == {x \in Tests(S, e) : x.exit = "fail" /\ x.ts <= e.ts}
TestedAfter(S, e)  == {x \in Tests(S, e) : x.ts > e.ts}

Burst(S, e) ==
  \E B \in SUBSET {d \in InSession(S, e) \intersect Edits : d.file = e.file} :
    /\ Cardinality(B) = Regens
    /\ \A d, f \in B : d.ts - f.ts <= Window

Files(S, e) == Cardinality({d.file : d \in InSession(S, e) \intersect Edits})

TestEdits(S, e) == {d \in InSession(S, e) \intersect Edits : d.file \in TestFiles}

(* Every signal that depends on other rows lies between what the trace     *)
(* said when the analysis began and what it says now: a signal is not      *)
(* raised against evidence that was there from the start, nor withheld for *)
(* evidence that does not exist, whatever is written between the queries.  *)
SignalsBracketed ==
  \A g \in Reported :
    LET e == g.edit
        fires(c) == c \in g.codes
    IN  /\ fires("NO_EXEC") => Runs(begun, e) = {}
        /\ ~fires("NO_EXEC") => Runs(trace, e) # {}
        /\ fires("NEVER_REOPENED") => Runs(begun, e) \union Reedits(begun, e) = {}
        /\ ~fires("NEVER_REOPENED") => Runs(trace, e) \union Reedits(trace, e) # {}
        /\ fires("TEST_FAIL_NO_RETEST") =>
             FailedBefore(trace, e) # {} /\ TestedAfter(begun, e) = {}
        /\ FailedBefore(begun, e) # {} /\ TestedAfter(trace, e) = {} =>
             fires("TEST_FAIL_NO_RETEST")
        /\ Burst(begun, e) => fires("HIGH_REGEN")
        /\ fires("HIGH_REGEN") => Burst(trace, e)
        /\ Files(begun, e) > ManyFiles => fires("LARGE_MULTIFILE")
        /\ fires("LARGE_MULTIFILE") => Files(trace, e) > ManyFiles
        /\ fires("COMMIT_WITHOUT_TEST") =>
             TestEdits(trace, e) # {} /\ Tests(begun, e) = {}

(* An edit that was in the trace when the analysis began, falls into the   *)
(* diff and was never run is in the report, no edit is there twice, and    *)
(* the `report' command explains each of them, whatever the backend does.  *)
NothingOverlooked ==
  /\ \A g, h \in segments : g.edit = h.edit => g = h
  /\ pc \in {"rank", "explain", "done"} =>
       \A e \in begun \intersect Edits :
         e.file \in DOMAIN Changes /\ editOverlapsDiff(e) /\ Runs(trace, e) = {}
           => \E g \in segments : g.edit = e
  /\ pc = "done" => /\ ToSet(ranked) = segments
                     /\ \A r \in request : r.by = "report" => Len(texts) = Len(ranked)

Severity(c) == IF c \in Tier1 THEN 1 ELSE IF c \in Tier2 THEN 2 ELSE 3

(* However signals, matcher and plugins follow one another, a segment      *)
(* weighs as much as its signals together and has the tier of its worst    *)
(* signal, and every ranked segment is in one of the three tiers the       *)
(* report counts.  A plugin that sends other tiers is weighed too, but may *)
(* move its segment out of the three; and tier 0 passes for no tier.       *)
ScoresAddUp ==
  /\ \A g \in Reported :
       LET tiers == {Severity(c) : c \in g.codes} \union ToSet(g.plugins)
       IN  /\ 0 \notin tiers => g.tier = IF tiers = {} THEN 0 ELSE Min(tiers)
           /\ g.score = SumOf([c \in g.codes |-> PluginWeight(Severity(c))], g.codes)
                      + SumOf([i \in DOMAIN g.plugins |-> PluginWeight(g.plugins[i])],
                              DOMAIN g.plugins)
  /\ \A i \in DOMAIN ranked :
       /\ ToSet(ranked[i].plugins) \subseteq 1..3 => ranked[i].tier \in 1..3
       /\ \A j \in 1..i : ranked[j].score >= ranked[i].score

(* Every request is answered, with a report or an error, though hooks go   *)
(* on writing and plugins and backends fail.                               *)
ReportEnds == request # {} ~> pc \in {"done", "failed"}
=============================================================================
