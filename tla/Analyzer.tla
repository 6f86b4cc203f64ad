------------------------------ MODULE Analyzer ------------------------------
(***************************************************************************)
(* AnalyzeWithOptions: one analysis reads the trace query by query, while  *)
(* hooks go on writing it, computes the signals of every edit that falls   *)
(* into the git diff, asks the intent matcher and the plugins, and keeps   *)
(* the edits that score.                                                   *)
(***************************************************************************)
EXTENDS GitDiff, Integers, FiniteSets, SequencesExt, Data

CONSTANTS
  Rows,           (* the rows hooks may store, see Prompts, Edits, Executions *)
  Sensitive, Manifests, TestFiles,   (* paths that signals single out      *)
  ManyFiles,      (* a session with more files is large: 10                *)
  Regens, Window, (* as many edits within Window ms are many: 4, 10 minutes *)
  Matching,       (* is an intent matcher configured?                      *)
  Plugins,        (* the configured plugins, in their order                *)
  PluginReplies,  (* what a plugin may answer: sequences of tiers          *)
  MaxLate         (* bound: rows stored while an analysis runs             *)

Prompts    == {r \in Rows : r.kind = "prompt"}
Edits      == {r \in Rows : r.kind = "edit"}
Executions == {r \in Rows : r.kind = "exec"}

(* An edit's prompt is one of its session; 0 stands for NULL.              *)
ASSUME AnalyzerAssumption ==
  /\ Rows = Prompts \union Edits \union Executions
  /\ \A r, q \in Rows : r.id = q.id => r = q
  /\ \A r \in Rows : r.ts \in Int
  /\ \A e \in Edits : e.prompt # 0 => \E p \in Prompts : p.id = e.prompt
  /\ ManyFiles \in Nat /\ Regens \in Nat \ {0} /\ Window \in Nat
  /\ MaxLate \in Nat

(* The host decodes a plugin's tiers as integers and looks no further: one *)
(* that is missing is 0.                                                   *)
ASSUME PluginAssumption == PluginReplies \subseteq Seq(Int)

VARIABLES
  trace,         (* the rows stored so far                                 *)
  begun,         (* the rows there were when the analysis began            *)
  pc,
  range,         (* the commits analyzed, [from |-> ..., to |-> ...]       *)
  edits,         (* EditsForFiles                                          *)
  execs,         (* execs[s]: ExecutionsForSession, for the sessions read  *)
  sessionEdits,  (* sessionEdits[s]: EditsForSession                       *)
  promptCache,   (* the prompts read by id                                 *)
  todo,          (* edits not looked at yet                                *)
  seg,           (* the segment in work, in a set of at most one           *)
  asked,         (* how many plugins have been run on it                   *)
  segments       (* the segments kept                                      *)

traceVars == <<trace, begun>>
analysisVars == <<range, edits, execs, sessionEdits, promptCache, todo, seg,
                  asked, segments>>

Changes == ChangedFiles(range.from, range.to)

-----------------------------------------------------------------------------
(* What a hook stores.  The message to the daemon leaves out the files a   *)
(* command names; the direct path stores them.                             *)
FilesTouched(x) == IF x.via = "daemon" THEN {} ELSE x.files

(* ORDER BY timestamp: the order of rows with one timestamp is left open.  *)
ByTime(S) ==
  {q \in SetToSeqs(S) : \A i, j \in DOMAIN q : i < j => q[i].ts <= q[j].ts}

(* The rows the first query returns, and the lists the others may return.  *)
EditsForFiles == {e \in trace \intersect Edits : e.file \in DOMAIN Changes}
EditsForSession(s) == ByTime({e \in trace \intersect Edits : e.session = s})
ExecutionsForSession(s) ==
  ByTime({x \in trace \intersect Executions : x.session = s})

-----------------------------------------------------------------------------
(* The signals, each over the lists of the session of edit e.              *)

execTouchesFile(x, f) == f \in FilesTouched(x)

ExecutedAfter(e) ==
  \E x \in ToSet(execs[e.session]) :
    x.ts > e.ts /\ execTouchesFile(x, e.file)

EditedAfter(e) ==
  \E d \in ToSet(sessionEdits[e.session]) :
    d # e /\ d.ts > e.ts /\ d.file = e.file

checkNoExec(e) ==
  \A i \in DOMAIN execs[e.session] :
    LET x == execs[e.session][i]
    IN  x.ts <= e.ts \/ ~execTouchesFile(x, e.file)

checkNeverReopened(e) == ~EditedAfter(e) /\ ~ExecutedAfter(e)

FailedTest(x) == x.class = "test" /\ x.exit = "fail"

checkTestFailNoRetest(e) ==
  LET xs == execs[e.session]
  IN  \E i \in DOMAIN xs :
        /\ FailedTest(xs[i]) /\ xs[i].ts <= e.ts
        /\ \A j \in (i + 1)..Len(xs) : ~(xs[j].class = "test" /\ xs[j].ts > e.ts)

(* Faulty form of checkHighRegen: an edit at the window's end is not in it. *)
BugWindowOpen(e) ==
  LET es   == sessionEdits[e.session]
      same == {i \in DOMAIN es : es[i].file = e.file}
  IN  \E i \in same :
        Cardinality({j \in same : i <= j /\ es[j].ts - es[i].ts < Window}) >= Regens

checkHighRegen(e) ==
  LET es   == sessionEdits[e.session]
      same == {i \in DOMAIN es : es[i].file = e.file}
  IN  \E i \in same :
        Cardinality({j \in same : i <= j /\ es[j].ts - es[i].ts <= Window}) >= Regens

checkCommitWithoutTest(e) ==
  /\ \E d \in ToSet(sessionEdits[e.session]) : d.file \in TestFiles
  /\ \A x \in ToSet(execs[e.session]) : x.class # "test"
  /\ e.file \notin TestFiles

distinctFiles(e) == Cardinality({d.file : d \in ToSet(sessionEdits[e.session])})

countEditsToFile(e) ==
  Cardinality({d \in ToSet(sessionEdits[e.session]) : d.file = e.file})

(* Seconds from the prompt to the edit: -1 without a prompt, 0 when the    *)
(* prompt is later than the edit it is linked to.                          *)
acceptedSeconds(e, known) ==
  IF ~\E p \in known : p.id = e.prompt /\ p.ts # 0 THEN -1
  ELSE LET p == CHOOSE q \in known : q.id = e.prompt
       IN  IF e.ts < p.ts THEN 0 ELSE (e.ts - p.ts) \div 1000

(* computeSignals: the codes that fire and what each weighs.               *)
Fires(e, sec) ==
  LET secure == sec \in 0..4 /\ e.file \in Sensitive IN
  [NO_EXEC                 |-> checkNoExec(e),
   FAST_ACCEPT_SECURITY    |-> secure,
   TEST_FAIL_NO_RETEST     |-> checkTestFailNoRetest(e),
   FAST_ACCEPT_SECURITY_V2 |-> sec \in 5..9 /\ e.file \in Sensitive,
   COMMIT_WITHOUT_TEST     |-> checkCommitWithoutTest(e),
   HIGH_REGEN              |-> checkHighRegen(e),
   NEVER_REOPENED          |-> checkNeverReopened(e),
   LARGE_MULTIFILE         |-> distinctFiles(e) > ManyFiles,
   NEW_DEPENDENCY          |-> e.file \in Manifests,
   FAST_ACCEPT_GENERIC     |-> sec \in 0..2 /\ ~secure,
   LONG_GENERATED_BLOCK    |-> e.long]

Weights ==
  [NO_EXEC |-> 100, FAST_ACCEPT_SECURITY |-> 100, TEST_FAIL_NO_RETEST |-> 100,
   FAST_ACCEPT_SECURITY_V2 |-> 50, COMMIT_WITHOUT_TEST |-> 50,
   HIGH_REGEN |-> 50, NEVER_REOPENED |-> 50, LARGE_MULTIFILE |-> 50,
   NEW_DEPENDENCY |-> 20, FAST_ACCEPT_GENERIC |-> 20,
   LONG_GENERATED_BLOCK |-> 20]

Codes(e, sec) == LET f == Fires(e, sec) IN {c \in DOMAIN f : f[c]}

(* computeTier keeps lists of its own.                                     *)
Tier1 == {"NO_EXEC", "FAST_ACCEPT_SECURITY", "TEST_FAIL_NO_RETEST"}
Tier2 == {"HIGH_REGEN", "NEVER_REOPENED", "LARGE_MULTIFILE",
          "PROMPT_DIFF_MISMATCH", "FAST_ACCEPT_SECURITY_V2",
          "COMMIT_WITHOUT_TEST"}

computeTier(C) ==
  IF C = {} THEN 0
  ELSE IF C \intersect Tier1 # {} THEN 1
  ELSE IF C \intersect Tier2 # {} THEN 2 ELSE 3

PluginWeight(t) == IF t = 1 THEN 100 ELSE IF t = 2 THEN 50 ELSE 20

-----------------------------------------------------------------------------
(* Hooks write while the analysis reads.  An edit's prompt is stored       *)
(* before the edit is.  What is written while the matcher or a plugin runs *)
(* is seen by the next query, as if written just before it, and what is    *)
(* written after the last query is not seen: neither is modelled.          *)
Reading == {"edits", "execs", "sessionEdits", "assess"}

Record(r) ==
  /\ r \in Rows \ trace
  /\ pc = "idle" \/ (pc \in Reading /\ Cardinality(trace \ begun) < MaxLate)
  /\ r \in Edits /\ r.prompt # 0 => \E p \in Prompts \intersect trace : p.id = r.prompt
  /\ trace' = trace \union {r}
  /\ UNCHANGED <<begun, pc, analysisVars>>

NoRange == [from |-> NotGiven, to |-> NotGiven]

(* Analyze is called; the diff is of commits, which do not change.         *)
Analyze(from, to) ==
  /\ pc = "idle"
  /\ pc' = IF Known(to) /\ (from = NotGiven \/ Known(from)) THEN "edits" ELSE "failed"
  /\ range' = [from |-> from, to |-> to]
  /\ begun' = trace
  /\ UNCHANGED <<trace, edits, execs, sessionEdits, promptCache, todo, seg,
                 asked, segments>>

(* Any query may fail, which ends the analysis with an error.              *)
QueryFails ==
  /\ pc \in {"edits", "execs", "sessionEdits"}
  /\ pc' = "failed"
  /\ UNCHANGED <<traceVars, analysisVars>>

(* No changed files or no edits of them: an empty report.                  *)
QueryEdits ==
  /\ pc = "edits"
  /\ edits' = EditsForFiles
  /\ pc' = IF EditsForFiles = {} THEN "rank" ELSE "execs"
  /\ UNCHANGED <<traceVars, range, execs, sessionEdits, promptCache, todo, seg,
                 asked, segments>>

Earliest(S) == {e \in S : \A d \in S : e.ts <= d.ts}

Unread(cache) == {e \in edits : e.session \notin DOMAIN cache}

(* One query for each session of the edits, in the order of the edits.     *)
QueryExecutions ==
  /\ pc = "execs"
  /\ \/ /\ \E e \in Earliest(Unread(execs)) :
             \E q \in ExecutionsForSession(e.session) :
               execs' = [s \in DOMAIN execs \union {e.session} |->
                           IF s \in DOMAIN execs THEN execs[s] ELSE q]
        /\ UNCHANGED pc
     \/ Unread(execs) = {} /\ pc' = "sessionEdits" /\ UNCHANGED execs
  /\ UNCHANGED <<traceVars, range, edits, sessionEdits, promptCache, todo, seg,
                 asked, segments>>

QuerySessionEdits ==
  /\ pc = "sessionEdits"
  /\ \/ /\ \E e \in Earliest(Unread(sessionEdits)) :
             \E q \in EditsForSession(e.session) :
               sessionEdits' = [s \in DOMAIN sessionEdits \union {e.session} |->
                                  IF s \in DOMAIN sessionEdits THEN sessionEdits[s] ELSE q]
        /\ UNCHANGED <<pc, todo>>
     \/ /\ Unread(sessionEdits) = {}
        /\ pc' = "assess"
        /\ todo' = edits
        /\ UNCHANGED sessionEdits
  /\ UNCHANGED <<traceVars, range, edits, execs, promptCache, seg, asked,
                 segments>>

(* An edit without lines, or of a file to which no line was added, counts  *)
(* as overlapping.                                                         *)
editOverlapsDiff(e) ==
  \/ e.lines = <<>> \/ Changes[e.file] = {}
  \/ \E l \in Changes[e.file] : e.lines[1] <= l /\ l <= e.lines[2]

Segment(e, known) ==
  LET sec == acceptedSeconds(e, known)
      C   == Codes(e, sec)
  IN  [edit |-> e, accepted |-> sec, codes |-> C, plugins |-> <<>>,
       score |-> SumOf(Weights, C),
       tier |-> computeTier(C),
       executed |-> ExecutedAfter(e),
       reopened |-> ExecutedAfter(e) \/ EditedAfter(e),
       regens |-> countEditsToFile(e)]

(* Faulty form of Assess: the first edit outside the diff ends the loop.   *)
BugBreaks(e) ==
  /\ pc = "assess" /\ e \in Earliest(todo)
  /\ IF editOverlapsDiff(e)
       THEN todo' = todo \ {e} /\ seg' = {Segment(e, promptCache)} /\ pc' = "match"
       ELSE todo' = {} /\ UNCHANGED <<seg, pc>>
  /\ asked' = 0
  /\ UNCHANGED <<traceVars, range, edits, execs, sessionEdits, promptCache, segments>>

(* The body of the loop up to computeSignals.  PromptByID may fail, the    *)
(* edit is then treated as one without a prompt.                           *)
Assess(e) ==
  /\ pc = "assess" /\ e \in Earliest(todo)
  /\ todo' = todo \ {e}
  /\ IF editOverlapsDiff(e)
       THEN \E found \in {{}, {p \in trace \intersect Prompts : p.id = e.prompt}} :
              /\ promptCache' = promptCache \union found
              /\ seg' = {Segment(e, promptCache')}
              /\ pc' = "match"
       ELSE UNCHANGED <<promptCache, seg, pc>>
  /\ asked' = 0
  /\ UNCHANGED <<traceVars, range, edits, execs, sessionEdits, segments>>

AddMismatch(g) ==
  LET C == g.codes \union {"PROMPT_DIFF_MISMATCH"}
  IN  [g EXCEPT !.codes = C, !.score = @ + 50, !.tier = computeTier(C)]

(* The matcher is asked about a prompt and a diff.  A failing backend, and *)
(* an answer that is no JSON, leave the segment as it is.                  *)
MatchIntent(g) ==
  /\ pc = "match" /\ g \in seg
  /\ pc' = "plugins"
  /\ \/ UNCHANGED seg
     \/ /\ Matching /\ g.edit.diff
        /\ \E p \in promptCache : p.id = g.edit.prompt
        /\ seg' = {AddMismatch(g)}
  /\ UNCHANGED <<traceVars, range, edits, execs, sessionEdits, promptCache,
                 todo, asked, segments>>

(* Faulty form of AddSignal: tier 0 passes for the most severe.            *)
BugTierZeroStays(g, t) ==
  [g EXCEPT !.plugins = Append(@, t), !.score = @ + PluginWeight(t),
            !.tier = IF t < @ THEN t ELSE @]

(* One signal of a plugin.                                                 *)
AddSignal(g, t) ==
  [g EXCEPT !.plugins = Append(@, t), !.score = @ + PluginWeight(t),
            !.tier = IF @ = 0 \/ t < @ THEN t ELSE @]

AddSignals(g, reply) == FoldLeft(AddSignal, g, reply)

(* Faulty form of RunPlugin: a plugin that hangs is waited for, and then   *)
(* there is no count of plugins with which the analysis would go on.       *)
BugNoTimeout(g) ==
  /\ pc = "plugins" /\ g \in seg /\ asked < Len(Plugins)
  /\ asked' \in {asked + 1, Len(Plugins) + 1}
  /\ UNCHANGED <<traceVars, pc, range, edits, execs, sessionEdits, promptCache,
                 todo, seg, segments>>

(* A plugin process answers, or it fails, prints no answer, or is killed   *)
(* after five seconds; its error is dropped and the next one runs.         *)
RunPlugin(g) ==
  /\ pc = "plugins" /\ g \in seg /\ asked < Len(Plugins)
  /\ asked' = asked + 1
  /\ \E reply \in PluginReplies \union {<<>>} :
       seg' = {AddSignals(g, reply)}
  /\ UNCHANGED <<traceVars, pc, range, edits, execs, sessionEdits, promptCache,
                 todo, segments>>

(* Segments without a score are left out.                                  *)
Keep(g) ==
  /\ pc = "plugins" /\ g \in seg /\ asked = Len(Plugins)
  /\ segments' = IF g.score = 0 THEN segments ELSE segments \union {g}
  /\ seg' = {}
  /\ pc' = "assess"
  /\ UNCHANGED <<traceVars, range, edits, execs, sessionEdits, promptCache,
                 todo, asked>>

Assessed ==
  /\ pc = "assess" /\ todo = {}
  /\ pc' = "rank"
  /\ UNCHANGED <<traceVars, analysisVars>>

AnalyzerInit ==
  /\ trace = {} /\ begun = {}
  /\ pc = "idle"
  /\ range = NoRange
  /\ edits = {} /\ execs = <<>> /\ sessionEdits = <<>> /\ promptCache = {}
  /\ todo = {} /\ seg = {} /\ asked = 0 /\ segments = {}

AnalysisStep ==
  \/ QueryFails \/ QueryEdits \/ QueryExecutions \/ QuerySessionEdits
  \/ \E e \in todo : Assess(e)
  \/ \E g \in seg : MatchIntent(g) \/ RunPlugin(g) \/ Keep(g)
  \/ Assessed
=============================================================================
