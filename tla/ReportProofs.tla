---------------------------- MODULE ReportProofs ----------------------------
(***************************************************************************)
(* Proofs about Report and the Analyzer it extends, for every set of rows  *)
(* hooks may store, every history of commits, every list of plugins, and   *)
(* every number of rows that are written while an analysis reads.          *)
(***************************************************************************)
EXTENDS Report, DataLemmas

-----------------------------------------------------------------------------
(* Scores and tiers.                                                       *)

Fields == {"edit", "accepted", "codes", "plugins", "score", "tier",
           "executed", "reopened", "regens"}

Mismatch == "PROMPT_DIFF_MISMATCH"

AllCodes == DOMAIN Weights \union {Mismatch}

CodeScore(C) == SumOf([c \in C |-> PluginWeight(Severity(c))], C)

PluginScore(ts) == SumOf([i \in DOMAIN ts |-> PluginWeight(ts[i])], DOMAIN ts)

TiersOf(g) == {Severity(c) : c \in g.codes} \union ToSet(g.plugins)

IsWorst(t, T) == IF T = {} THEN t = 0 ELSE t \in T /\ \A u \in T : t <= u

(* What ScoresAddUp says of one segment.                                   *)
Weighed(g) ==
  /\ DOMAIN g = Fields
  /\ g.codes \subseteq AllCodes
  /\ g.plugins \in Seq(Int)
  /\ g.score = CodeScore(g.codes) + PluginScore(g.plugins)
  /\ g.tier \in Int
  /\ 0 \notin ToSet(g.plugins) => IsWorst(g.tier, TiersOf(g))

LEMMA Triple == \A a, b, c : IsFiniteSet({a, b, c})
  <1> TAKE a, b, c
  <1>1. IsFiniteSet({a}) /\ IsFiniteSet({b}) /\ IsFiniteSet({c})
    BY FS_Singleton
  <1>2. IsFiniteSet({a} \union {b})
    BY <1>1, FS_Union
  <1>3. IsFiniteSet(({a} \union {b}) \union {c})
    BY <1>1, <1>2, FS_Union
  <1>4. {a, b, c} = ({a} \union {b}) \union {c}
    OBVIOUS
  <1> QED  BY <1>3, <1>4

(* There are finitely many codes, so what a segment weighs is a number.    *)
LEMMA CodesFinite == IsFiniteSet(AllCodes)
  <1> DEFINE A == {"NO_EXEC", "FAST_ACCEPT_SECURITY", "TEST_FAIL_NO_RETEST"}
             B == {"FAST_ACCEPT_SECURITY_V2", "COMMIT_WITHOUT_TEST", "HIGH_REGEN"}
             C == {"NEVER_REOPENED", "LARGE_MULTIFILE", "NEW_DEPENDENCY"}
             D == {"FAST_ACCEPT_GENERIC", "LONG_GENERATED_BLOCK", Mismatch}
  <1>1. IsFiniteSet(A) /\ IsFiniteSet(B) /\ IsFiniteSet(C) /\ IsFiniteSet(D)
    BY Triple, Zenon
  <1>2. IsFiniteSet((A \union B) \union (C \union D))
    <2> HIDE DEF A, B, C, D
    <2> QED  BY <1>1, FS_Union
  <1>3. AllCodes = (A \union B) \union (C \union D)
    BY DEF AllCodes, Weights
  <1> QED  BY <1>2, <1>3

LEMMA SeverityTyped == \A c : Severity(c) \in 1..3 /\ PluginWeight(Severity(c)) \in Nat \ {0}
  BY DEF Severity, PluginWeight

LEMMA WeightOfSeverity == \A c \in DOMAIN Weights : Weights[c] = PluginWeight(Severity(c))
  BY DEF Weights, Severity, PluginWeight, Tier1, Tier2

LEMMA CodeScoreTyped ==
  ASSUME NEW C, C \subseteq AllCodes
  PROVE  IsFiniteSet(C) /\ CodeScore(C) \in Nat
  <1>1. IsFiniteSet(C)
    BY CodesFinite, FS_Subset
  <1> DEFINE w == [c \in C |-> PluginWeight(Severity(c))]
  <1>2. \A c \in C : w[c] \in Nat
    BY SeverityTyped
  <1> HIDE DEF w
  <1>3. SumOf(w, C) \in Nat
    BY <1>1, <1>2, SumNatural
  <1> QED  BY <1>1, <1>3 DEF CodeScore, w

LEMMA CodeScoreAdds ==
  ASSUME NEW C, C \subseteq AllCodes, NEW d \in AllCodes, d \notin C
  PROVE  CodeScore(C \union {d}) = CodeScore(C) + PluginWeight(Severity(d))
  <1> DEFINE v == [c \in C |-> PluginWeight(Severity(c))]
             w == [c \in C \union {d} |-> PluginWeight(Severity(c))]
  <1>1. IsFiniteSet(C)
    BY CodeScoreTyped
  <1>2. /\ \A c \in C : w[c] \in Nat /\ v[c] = w[c]
        /\ \A c \in C \union {d} : w[c] \in Nat
        /\ w[d] = PluginWeight(Severity(d))
    BY SeverityTyped
  <1> HIDE DEF v, w
  <1>3. SumOf(w, C \union {d}) = SumOf(w, C) + w[d]
    BY <1>1, <1>2, SumAdd
  <1>4. SumOf(v, C) = SumOf(w, C)
    BY <1>1, <1>2, SumSame
  <1>5. SumOf(v, C) = CodeScore(C) /\ SumOf(w, C \union {d}) = CodeScore(C \union {d})
    BY DEF CodeScore, v, w
  <1> QED  BY <1>2, <1>3, <1>4, <1>5

LEMMA PluginScoreTyped ==
  ASSUME NEW ts \in Seq(Int)
  PROVE  PluginScore(ts) \in Nat
  <1> DEFINE w == [i \in DOMAIN ts |-> PluginWeight(ts[i])]
  <1>1. Len(ts) \in Nat /\ DOMAIN ts = 1..Len(ts)
    OBVIOUS
  <1>2. IsFiniteSet(DOMAIN ts)
    BY <1>1, FS_Interval
  <1>3. \A i \in DOMAIN ts : w[i] \in Nat
    BY DEF PluginWeight
  <1> HIDE DEF w
  <1>4. SumOf(w, DOMAIN ts) \in Nat
    BY <1>2, <1>3, SumNatural
  <1> QED  BY <1>4 DEF PluginScore, w

LEMMA PluginScoreAdds ==
  ASSUME NEW ts \in Seq(Int), NEW t \in Int
  PROVE  PluginScore(Append(ts, t)) = PluginScore(ts) + PluginWeight(t)
  <1> DEFINE us == Append(ts, t)
             n  == Len(ts)
             v  == [i \in DOMAIN ts |-> PluginWeight(ts[i])]
             w  == [i \in DOMAIN us |-> PluginWeight(us[i])]
  <1>1. /\ n \in Nat /\ DOMAIN ts = 1..n /\ DOMAIN us = (1..n) \union {n + 1}
        /\ n + 1 \notin 1..n
        /\ us[n + 1] = t /\ \A i \in 1..n : us[i] = ts[i]
    OBVIOUS
  <1>2. IsFiniteSet(1..n)
    BY <1>1, FS_Interval
  <1>3. \A i \in DOMAIN us : us[i] \in Int
    BY <1>1
  <1> HIDE DEF us, n
  <1>4. /\ \A i \in 1..n : w[i] \in Nat /\ v[i] = w[i]
        /\ \A i \in (1..n) \union {n + 1} : w[i] \in Nat
        /\ w[n + 1] = PluginWeight(t)
    BY <1>1, <1>3 DEF PluginWeight
  <1> HIDE DEF v, w
  <1>5. SumOf(w, (1..n) \union {n + 1}) = SumOf(w, 1..n) + w[n + 1]
    BY <1>1, <1>2, <1>4, SumAdd
  <1>6. SumOf(v, 1..n) = SumOf(w, 1..n)
    BY <1>2, <1>4, SumSame
  <1>7. SumOf(v, 1..n) = PluginScore(ts) /\ SumOf(w, (1..n) \union {n + 1}) = PluginScore(us)
    BY <1>1 DEF PluginScore, v, w
  <1> QED  BY <1>4, <1>5, <1>6, <1>7 DEF us

LEMMA EmptyPlugins == PluginScore(<<>>) = 0 /\ ToSet(<<>>) = {} /\ <<>> \in Seq(Int)
  <1>1. DOMAIN <<>> = {}
    OBVIOUS
  <1> DEFINE w == [i \in DOMAIN <<>> |-> PluginWeight(<<>>[i])]
  <1>2. PluginScore(<<>>) = SumOf(w, {})
    BY <1>1 DEF PluginScore
  <1> QED  BY <1>1, <1>2, SumEmpty DEF ToSet

(* computeTier, from lists of its own, finds the worst severity.           *)
LEMMA TierIsWorst == \A C : IsWorst(computeTier(C), {Severity(c) : c \in C})
  <1> TAKE C
  <1> DEFINE T == {Severity(c) : c \in C}
  <1>1. CASE C = {}
    BY <1>1 DEF IsWorst, computeTier
  <1>2. CASE C \intersect Tier1 # {}
    <2>1. PICK c \in C : c \in Tier1
      BY <1>2
    <2>2. Severity(c) = 1
      BY <2>1 DEF Severity
    <2> QED  BY <1>2, <2>1, <2>2, SeverityTyped DEF IsWorst, computeTier
  <1>3. CASE C \intersect Tier1 = {} /\ C \intersect Tier2 # {}
    <2>1. PICK c \in C : c \in Tier2 /\ c \notin Tier1
      BY <1>3
    <2>2. Severity(c) = 2 /\ \A d \in C : Severity(d) >= 2
      BY <2>1, <1>3 DEF Severity
    <2> QED  BY <1>3, <2>1, <2>2, SeverityTyped DEF IsWorst, computeTier
  <1>4. CASE C # {} /\ C \intersect Tier1 = {} /\ C \intersect Tier2 = {}
    <2>1. \A d \in C : Severity(d) = 3
      BY <1>4 DEF Severity
    <2> QED  BY <1>4, <2>1 DEF IsWorst, computeTier
  <1> QED  BY <1>1, <1>2, <1>3, <1>4

LEMMA CodesKnown == \A e, sec : Codes(e, sec) \subseteq DOMAIN Weights
  BY DEF Codes, Fires, Weights

(* A fresh segment, the verdict of the matcher and the signals of plugins  *)
(* leave a segment that weighs what its signals weigh.                     *)
LEMMA SegmentWeighed ==
  ASSUME NEW e, NEW known
  PROVE  /\ Weighed(Segment(e, known))
         /\ Segment(e, known).edit = e
         /\ Segment(e, known).plugins = <<>>
         /\ Segment(e, known).codes = Codes(e, Segment(e, known).accepted)
  <1> DEFINE g == Segment(e, known)
             C == Codes(e, acceptedSeconds(e, known))
             w == [c \in C |-> PluginWeight(Severity(c))]
  <1>1. /\ DOMAIN g = Fields /\ g.edit = e /\ g.codes = C /\ g.plugins = <<>>
        /\ g.accepted = acceptedSeconds(e, known)
        /\ g.score = SumOf(Weights, C) /\ g.tier = computeTier(C)
    BY DEF Segment, Fields
  <1>2. C \subseteq DOMAIN Weights /\ C \subseteq AllCodes
    BY CodesKnown DEF AllCodes
  <1>3. IsFiniteSet(C) /\ CodeScore(C) \in Nat
    BY <1>2, CodeScoreTyped
  <1> HIDE DEF C, g
  <1>4. \A c \in C : w[c] \in Nat /\ Weights[c] = w[c]
    BY <1>2, SeverityTyped, WeightOfSeverity
  <1> HIDE DEF w
  <1>5. SumOf(Weights, C) = CodeScore(C)
    <2>1. SumOf(Weights, C) = SumOf(w, C)
      BY <1>3, <1>4, SumSame
    <2> QED  BY <2>1 DEF CodeScore, w
  <1>6. g.score = CodeScore(g.codes) + PluginScore(g.plugins)
    BY <1>1, <1>3, <1>5, EmptyPlugins
  <1>7. IsWorst(g.tier, TiersOf(g))
    BY <1>1, TierIsWorst, EmptyPlugins DEF TiersOf
  <1>8. g.plugins \in Seq(Int) /\ g.tier \in Int
    BY <1>1, EmptyPlugins DEF computeTier
  <1> QED  BY <1>1, <1>2, <1>6, <1>7, <1>8 DEF Weighed, g, C

LEMMA MatchWeighed ==
  ASSUME NEW g, Weighed(g), g.plugins = <<>>, Mismatch \notin g.codes
  PROVE  LET h == AddMismatch(g)
         IN  /\ Weighed(h) /\ h.edit = g.edit /\ h.accepted = g.accepted
             /\ h.codes = g.codes \union {Mismatch} /\ h.plugins = <<>>
  <1> DEFINE h == AddMismatch(g)
             C == g.codes
             D == C \union {Mismatch}
  <1>1. /\ DOMAIN h = Fields /\ h.codes = D /\ h.plugins = <<>>
        /\ h.edit = g.edit /\ h.accepted = g.accepted
        /\ h.score = g.score + 50 /\ h.tier = computeTier(D)
    BY DEF Weighed, Fields, AddMismatch, Mismatch
  <1>2. /\ C \subseteq AllCodes /\ D \subseteq AllCodes
        /\ Mismatch \in AllCodes /\ Mismatch \notin C
    BY DEF Weighed, AllCodes
  <1> HIDE DEF C, h
  <1>3. PluginWeight(Severity(Mismatch)) = 50
    BY DEF PluginWeight, Severity, Mismatch, Tier1, Tier2
  <1>4. CodeScore(D) = CodeScore(C) + 50 /\ CodeScore(C) \in Nat
    BY <1>2, <1>3, CodeScoreAdds, CodeScoreTyped
  <1> HIDE DEF D
  <1>5. h.score = CodeScore(h.codes) + PluginScore(h.plugins)
    <2>1. PluginScore(g.plugins) = 0 /\ PluginScore(h.plugins) = 0
      BY <1>1, EmptyPlugins
    <2>2. g.score = CodeScore(C) + PluginScore(g.plugins)
      BY DEF Weighed, C
    <2> QED  BY <1>1, <1>4, <2>1, <2>2
  <1>6. IsWorst(h.tier, TiersOf(h))
    BY <1>1, TierIsWorst, EmptyPlugins DEF TiersOf
  <1>7. h.plugins \in Seq(Int) /\ h.tier \in Int
    BY <1>1, EmptyPlugins DEF computeTier
  <1> QED  BY <1>1, <1>2, <1>5, <1>6, <1>7 DEF Weighed, C, D, h

LEMMA SignalWeighed ==
  ASSUME NEW g, Weighed(g), NEW t \in Int
  PROVE  LET h == AddSignal(g, t)
         IN  Weighed(h) /\ h.edit = g.edit /\ h.accepted = g.accepted /\ h.codes = g.codes
  <1> DEFINE h == AddSignal(g, t)
             T == TiersOf(g)
  <1>1. /\ DOMAIN h = Fields /\ h.codes = g.codes /\ h.plugins = Append(g.plugins, t)
        /\ h.edit = g.edit /\ h.accepted = g.accepted
        /\ h.score = g.score + PluginWeight(t)
        /\ h.tier = IF g.tier = 0 \/ t < g.tier THEN t ELSE g.tier
    BY DEF Weighed, Fields, AddSignal
  <1> HIDE DEF h
  <1>2. /\ g.codes \subseteq AllCodes /\ g.plugins \in Seq(Int)
        /\ g.score = CodeScore(g.codes) + PluginScore(g.plugins)
        /\ g.tier \in Int
        /\ 0 \notin ToSet(g.plugins) => IsWorst(g.tier, T)
    BY DEF Weighed
  <1>3. h.score = CodeScore(h.codes) + PluginScore(h.plugins)
    <2>1. PluginScore(h.plugins) = PluginScore(g.plugins) + PluginWeight(t)
      BY <1>1, <1>2, PluginScoreAdds
    <2>2. CodeScore(g.codes) \in Nat /\ PluginScore(g.plugins) \in Nat /\ PluginWeight(t) \in Nat
      BY <1>2, CodeScoreTyped, PluginScoreTyped DEF PluginWeight
    <2> QED  BY <1>1, <1>2, <2>1, <2>2
  <1>4. TiersOf(h) = T \union {t} /\ ToSet(h.plugins) = ToSet(g.plugins) \union {t}
    <2>1. ToSet(Append(g.plugins, t)) = ToSet(g.plugins) \union {t}
      <3> DEFINE ts == g.plugins
                 us == Append(ts, t)
      <3>1. ts \in Seq(Int)
        BY <1>2
      <3> HIDE DEF ts
      <3>2. /\ DOMAIN us = DOMAIN ts \union {Len(ts) + 1} /\ us[Len(ts) + 1] = t
            /\ \A i \in DOMAIN ts : us[i] = ts[i]
        BY <3>1
      <3> HIDE DEF us
      <3>3. ToSet(us) = ToSet(ts) \union {t}
        BY <3>2 DEF ToSet
      <3> QED  BY <3>3 DEF us, ts
    <2> QED  BY <1>1, <2>1 DEF TiersOf
  <1>5. T \subseteq Int
    BY <1>2, SeverityTyped DEF TiersOf, ToSet
  <1>6. ASSUME 0 \notin ToSet(h.plugins)  PROVE IsWorst(h.tier, TiersOf(h))
    <2>0. IsWorst(g.tier, T) /\ t # 0 /\ 0 \notin T
      <3>1. 0 \notin ToSet(g.plugins) /\ t # 0
        BY <1>4, <1>6
      <3>2. \A c : Severity(c) # 0
        BY SeverityTyped
      <3>3. 0 \notin T
        BY <3>1, <3>2 DEF TiersOf
      <3> QED  BY <1>2, <3>1, <3>3
    <2> HIDE DEF T
    <2>1. CASE T = {}
      BY <2>0, <2>1, <1>1, <1>4 DEF IsWorst
    <2>2. CASE T # {}
      <3>1. g.tier \in T /\ g.tier \in Int /\ g.tier # 0 /\ \A u \in T : g.tier <= u
        BY <2>0, <2>2, <1>5 DEF IsWorst
      <3>2. h.tier \in {g.tier, t} /\ h.tier <= t /\ h.tier <= g.tier
        BY <3>1, <1>1
      <3>3. \A u \in T : u \in Int
        BY <1>5
      <3> QED  BY <3>1, <3>2, <3>3, <1>4 DEF IsWorst
    <2> QED  BY <2>1, <2>2
  <1>7. h.plugins \in Seq(Int) /\ h.tier \in Int
    BY <1>1, <1>2
  <1> QED  BY <1>1, <1>2, <1>3, <1>6, <1>7 DEF Weighed, h

(* All signals of one plugin: the fold is unfolded along the reply.        *)
Unfolds(g, reply, f) ==
  f = [s \in SUBSET (DOMAIN reply) |->
         IF s = {} THEN g ELSE AddSignal(f[s \ {Max(s)}], reply[Max(s)])]

LEMMA FoldIsUnfolded ==
  ASSUME NEW g, NEW reply
  PROVE  AddSignals(g, reply) = (CHOOSE f : Unfolds(g, reply, f))[DOMAIN reply]
  BY DEF AddSignals, FoldLeft, MapThenFoldSet, Unfolds

LEMMA GreatestIndex ==
  ASSUME NEW reply \in Seq(Int), NEW s \in SUBSET (DOMAIN reply), s # {}
  PROVE  /\ Max(s) \in s /\ s \ {Max(s)} \in SUBSET (DOMAIN reply)
         /\ IsFiniteSet(s) /\ Cardinality(s) \in Nat
         /\ Cardinality(s \ {Max(s)}) = Cardinality(s) - 1
  <1>1. Len(reply) \in Nat /\ DOMAIN reply = 1..Len(reply)
    OBVIOUS
  <1>2. IsFiniteSet(s) /\ Cardinality(s) \in Nat
    <2>1. IsFiniteSet(1..Len(reply))
      BY <1>1, FS_Interval
    <2>2. s \in SUBSET (1..Len(reply))
      BY <1>1
    <2> QED  BY <2>1, <2>2, FS_Subset, FS_CardinalityType
  <1>3. s \subseteq Nat /\ \A i \in s : i <= Len(reply)
    BY <1>1
  <1>4. Max(s) \in s
    BY <1>1, <1>3, GreatestNatural
  <1> QED  BY <1>2, <1>4, FS_RemoveElement

LEMMA UnfoldingExists ==
  ASSUME NEW g, NEW reply \in Seq(Int)
  PROVE  \E f : Unfolds(g, reply, f)
  <1> DEFINE D == DOMAIN reply
             Ok(f, s) == f[s] = IF s = {} THEN g ELSE AddSignal(f[s \ {Max(s)}], reply[Max(s)])
             G == {n \in Nat : \E f : \A s \in SUBSET D : Cardinality(s) <= n => Ok(f, s)}
  <1>0. \A s \in SUBSET D : IsFiniteSet(s) /\ Cardinality(s) \in Nat
    <2>1. \A s \in SUBSET D : s # {} => IsFiniteSet(s) /\ Cardinality(s) \in Nat
      BY GreatestIndex
    <2>2. IsFiniteSet({}) /\ Cardinality({}) \in Nat
      BY FS_EmptySet
    <2> HIDE DEF D
    <2> QED  BY <2>1, <2>2
  <1>1. \A s \in SUBSET D : s # {} => /\ s \ {Max(s)} \in SUBSET D
                                    /\ Cardinality(s \ {Max(s)}) = Cardinality(s) - 1
    BY GreatestIndex
  <1>2. 0 \in G
    <2> DEFINE f == [s \in SUBSET D |-> g]
    <2>1. ASSUME NEW s \in SUBSET D, Cardinality(s) <= 0  PROVE Ok(f, s)
      <3>1. s = {}
        BY <2>1, <1>0, FS_EmptySet
      <3> QED  BY <3>1
    <2>2. \A s \in SUBSET D : Cardinality(s) <= 0 => Ok(f, s)
      BY <2>1
    <2> HIDE DEF f, Ok
    <2> QED  BY <2>2
  <1>3. ASSUME NEW n \in Nat, n \in G  PROVE n + 1 \in G
    <2>1. PICK f : \A s \in SUBSET D : Cardinality(s) <= n => Ok(f, s)
      BY <1>3
    <2> DEFINE h == [s \in SUBSET D |-> IF Cardinality(s) <= n THEN f[s]
                                       ELSE AddSignal(f[s \ {Max(s)}], reply[Max(s)])]
    <2>2. ASSUME NEW s \in SUBSET D, Cardinality(s) <= n + 1  PROVE Ok(h, s)
      <3>1. CASE s = {}
        <4>1. Cardinality(s) = 0
          BY <3>1, FS_EmptySet
        <4>2. Cardinality(s) <= n
          BY <4>1
        <4>3. Ok(f, s)
          BY <4>2, <2>1
        <4> QED  BY <3>1, <4>2, <4>3
      <3>2. CASE s # {}
        <4>1. s \ {Max(s)} \in SUBSET D /\ Cardinality(s \ {Max(s)}) = Cardinality(s) - 1
          BY <3>2, <1>1
        <4>2. Cardinality(s \ {Max(s)}) <= n
          BY <4>1, <2>2, <1>0
        <4>3. h[s \ {Max(s)}] = f[s \ {Max(s)}]
          BY <4>1, <4>2
        <4>4. h[s] = AddSignal(f[s \ {Max(s)}], reply[Max(s)])
          BY <3>2, <2>1
        <4> QED  BY <3>2, <4>3, <4>4
      <3> QED  BY <3>1, <3>2
    <2>3. \A s \in SUBSET D : Cardinality(s) <= n + 1 => Ok(h, s)
      BY <2>2
    <2> HIDE DEF h, Ok, D
    <2>4. \E f2 : \A s \in SUBSET D : Cardinality(s) <= n + 1 => Ok(f2, s)
      BY <2>3
    <2>5. n + 1 \in Nat
      OBVIOUS
    <2> QED  BY <2>4, <2>5
  <1>4. Cardinality(D) \in G
    <2> HIDE DEF G
    <2>1. Nat \subseteq G
      BY <1>2, <1>3, NatSetInduction
    <2> QED  BY <2>1, <1>0
  <1>5. PICK f : \A s \in SUBSET D : Cardinality(s) <= Cardinality(D) => Ok(f, s)
    BY <1>4
  <1> DEFINE h == [s \in SUBSET D |-> f[s]]
  <1>6. \A s \in SUBSET D : Ok(f, s)
    BY <1>5, <1>0, FS_Subset
  <1>7. \A s \in SUBSET D :
          h[s] = IF s = {} THEN g ELSE AddSignal(h[s \ {Max(s)}], reply[Max(s)])
    BY <1>6, <1>1
  <1>8. h = [s \in SUBSET D |-> IF s = {} THEN g ELSE AddSignal(h[s \ {Max(s)}], reply[Max(s)])]
    <2>1. h = [s \in SUBSET D |-> h[s]]
      OBVIOUS
    <2> HIDE DEF h
    <2> QED  BY <2>1, <1>7
  <1> QED  BY <1>8 DEF Unfolds

(* However long its reply, what a plugin says is weighed.                  *)
LEMMA SignalsWeighed ==
  ASSUME NEW g, Weighed(g), NEW reply \in Seq(Int)
  PROVE  LET h == AddSignals(g, reply)
         IN  Weighed(h) /\ h.edit = g.edit /\ h.accepted = g.accepted /\ h.codes = g.codes
  <1> DEFINE D == DOMAIN reply
             Good(h) == Weighed(h) /\ h.edit = g.edit /\ h.accepted = g.accepted /\ h.codes = g.codes
  <1>1. PICK f : f = (CHOOSE h : Unfolds(g, reply, h)) /\ Unfolds(g, reply, f)
    BY UnfoldingExists
  <1> DEFINE G == {k \in Nat : k <= Len(reply) => Good(f[1..k])}
  <1>2. Len(reply) \in Nat /\ D = 1..Len(reply) /\ \A i \in D : reply[i] \in Int
    OBVIOUS
  <1>3. 0 \in G
    <2>1. 1..0 = {}
      OBVIOUS
    <2>2. f[{}] = g
      BY <1>1 DEF Unfolds
    <2> QED  BY <2>1, <2>2
  <1>4. ASSUME NEW k \in Nat, k \in G  PROVE k + 1 \in G
    <2>1. SUFFICES ASSUME k + 1 <= Len(reply) PROVE Good(f[1..(k + 1)])
      OBVIOUS
    <2> DEFINE s == 1..(k + 1)
    <2>2. s \in SUBSET D /\ s # {} /\ k + 1 \in s /\ \A i \in s : i \in Nat /\ i <= k + 1
      <3>1. \A i \in s : i \in Nat /\ i <= k + 1 /\ i \in 1..Len(reply)
        BY <1>2, <2>1
      <3>2. k + 1 \in s
        OBVIOUS
      <3> QED  BY <1>2, <3>1, <3>2
    <2>3. Max(s) = k + 1
      <3>1. Max(s) \in s /\ \A i \in s : Max(s) >= i
        <4> HIDE DEF s
        <4>1. s \subseteq Nat
          BY <2>2
        <4> QED  BY <2>2, <4>1, GreatestNatural
      <3> QED  BY <3>1, <2>2
    <2>4. s \ {k + 1} = 1..k
      OBVIOUS
    <2>5. f[s] = AddSignal(f[s \ {Max(s)}], reply[Max(s)])
      BY <1>1, <2>2 DEF Unfolds
    <2>6. f[s] = AddSignal(f[1..k], reply[k + 1])
      BY <2>3, <2>4, <2>5
    <2>7. Good(f[1..k]) /\ reply[k + 1] \in Int
      BY <1>2, <1>4, <2>1
    <2> QED  BY <2>6, <2>7, SignalWeighed
  <1>5. Len(reply) \in G
    <2> HIDE DEF G
    <2>1. Nat \subseteq G
      BY <1>3, <1>4, NatSetInduction
    <2> QED  BY <2>1, <1>2
  <1>6. Good(f[D])
    BY <1>2, <1>5
  <1> QED  BY <1>1, <1>6, FoldIsUnfolded

-----------------------------------------------------------------------------
(* The inductive invariant, in five parts.                                 *)

(* The phases in which every query has been answered.                      *)
Late == {"assess", "match", "plugins", "rank", "explain", "done"}

Typed ==
  /\ begun \subseteq trace /\ trace \subseteq Rows /\ IsFiniteSet(trace)
  /\ pc \in Late \union {"idle", "edits", "execs", "sessionEdits", "failed"}
  /\ edits \subseteq Edits \intersect trace
  /\ todo \subseteq edits
  /\ pc \in {"rank", "explain", "done"} => todo = {}
  /\ pc \notin {"match", "plugins"} => seg = {}
  /\ \A g, h \in seg : g = h
  /\ IsFiniteSet(segments)
  /\ pc \notin Late => todo = {} /\ segments = {}
  /\ pc = "idle" => edits = {} /\ DOMAIN execs = {} /\ DOMAIN sessionEdits = {}

(* A list that was read between the traces B and T: in order of time,      *)
(* without repetition, with all rows of the first and only rows of the     *)
(* second.                                                                 *)
Listed(B, T, q, K, s) ==
  /\ q \in Seq(K)
  /\ \A i, j \in DOMAIN q : i < j => q[i].ts <= q[j].ts
  /\ \A i, j \in DOMAIN q : q[i] = q[j] => i = j
  /\ {r \in B \intersect K : r.session = s} \subseteq ToSet(q)
  /\ ToSet(q) \subseteq {r \in T \intersect K : r.session = s}

Cached ==
  /\ \A s \in DOMAIN execs : Listed(begun, trace, execs[s], Executions, s)
  /\ \A s \in DOMAIN sessionEdits : Listed(begun, trace, sessionEdits[s], Edits, s)
  /\ pc \in Late \union {"sessionEdits"} => \A e \in edits : e.session \in DOMAIN execs
  /\ pc \in Late => \A e \in edits : e.session \in DOMAIN sessionEdits

(* The signals of a segment are those of the lists that were read.         *)
Signalled(g) ==
  /\ g.edit \in edits
  /\ g.codes \in {Codes(g.edit, g.accepted), Codes(g.edit, g.accepted) \union {Mismatch}}

Computed ==
  /\ \A g \in Reported : Weighed(g) /\ Signalled(g)
  /\ pc = "match" => \A g \in seg : g.plugins = <<>> /\ Mismatch \notin g.codes
  /\ \A g \in segments : g.score # 0

(* Where an edit of a changed file is.                                     *)
Accounted ==
  /\ \A g, h \in segments : g.edit = h.edit => g = h
  /\ \A g \in seg : \A h \in segments : g.edit # h.edit
  /\ \A g \in Reported : g.edit \notin todo
  /\ pc \in Late => \A e \in edits : \/ e \in todo
                                     \/ \E g \in Reported : g.edit = e
                                     \/ ~editOverlapsDiff(e)
                                     \/ ~checkNoExec(e)
  /\ pc \in Late \union {"execs", "sessionEdits"} =>
       \A e \in begun \intersect Edits : e.file \in DOMAIN Changes => e \in edits

Shown ==
  /\ texts \in Seq({"prose", "template"})
  /\ pc \in {"explain", "done"} =>
       /\ ranked \in Seq(segments) /\ ToSet(ranked) = segments
       /\ \A i, j \in DOMAIN ranked : i < j => ranked[i].score >= ranked[j].score
       /\ Len(texts) <= Len(ranked)
  /\ pc \notin {"explain", "done"} => ranked = <<>> /\ texts = <<>>
  /\ pc = "done" /\ (\E r \in request : r.by = "report") => Len(texts) = Len(ranked)

IInv == Typed /\ Cached /\ Computed /\ Accounted /\ Shown

LEMMA InitIInv == Init => IInv
  <1> SUFFICES ASSUME Init PROVE IInv
    OBVIOUS
  <1>1. /\ trace = {} /\ begun = {} /\ pc = "idle" /\ edits = {} /\ todo = {}
        /\ seg = {} /\ segments = {} /\ execs = <<>> /\ sessionEdits = <<>>
        /\ ranked = <<>> /\ texts = <<>>
    BY DEF Init, AnalyzerInit
  <1>2. DOMAIN execs = {} /\ DOMAIN sessionEdits = {}
    BY <1>1
  <1>3. Typed
    BY <1>1, <1>2, FS_EmptySet DEF Typed, Late
  <1>4. Cached
    BY <1>1, <1>2 DEF Cached, Late
  <1>5. Computed /\ Accounted
    BY <1>1 DEF Computed, Accounted, Reported, Late
  <1>6. Shown
    BY <1>1 DEF Shown
  <1> QED  BY <1>3, <1>4, <1>5, <1>6 DEF IInv

LEMMA TypedStep == Typed /\ [Next]_vars => Typed'
  <1> SUFFICES ASSUME Typed, [Next]_vars PROVE Typed'
    OBVIOUS
  <1> USE DEF Typed, Late, traceVars, analysisVars, reportVars
  <1>1. ASSUME NEW r \in Rows, Record(r)  PROVE Typed'
    <2>1. IsFiniteSet(trace')
      BY <1>1, FS_AddElement DEF Record
    <2> QED  BY <1>1, <2>1 DEF Record
  <1>2. ASSUME NEW r \in Requests, Ask(r)  PROVE Typed'
    BY <1>2 DEF Ask, Analyze
  <1>3. CASE QueryFails
    BY <1>3 DEF QueryFails
  <1>4. CASE QueryEdits
    BY <1>4 DEF QueryEdits, EditsForFiles
  <1>5. CASE QueryExecutions
    BY <1>5 DEF QueryExecutions
  <1>6. CASE QuerySessionEdits
    BY <1>6 DEF QuerySessionEdits
  <1>7. ASSUME NEW e \in todo, Assess(e)  PROVE Typed'
    BY <1>7 DEF Assess
  <1>8. ASSUME NEW g \in seg, MatchIntent(g)  PROVE Typed'
    BY <1>8 DEF MatchIntent
  <1>9. ASSUME NEW g \in seg, RunPlugin(g)  PROVE Typed'
    BY <1>9 DEF RunPlugin
  <1>10. ASSUME NEW g \in seg, Keep(g)  PROVE Typed'
    <2>1. IsFiniteSet(segments')
      BY <1>10, FS_AddElement DEF Keep
    <2> QED  BY <1>10, <2>1 DEF Keep
  <1>11. CASE Assessed
    BY <1>11 DEF Assessed
  <1>12. CASE Rank
    BY <1>12 DEF Rank
  <1>13. CASE Explain \/ Render
    BY <1>13 DEF Explain, Render
  <1>14. CASE UNCHANGED vars
    BY <1>14 DEF vars
  <1> QED  BY <1>1, <1>2, <1>3, <1>4, <1>5, <1>6, <1>7, <1>8, <1>9, <1>10,
              <1>11, <1>12, <1>13, <1>14 DEF Next, Reporting, AnalysisStep

LEMMA ListedStable ==
  ASSUME NEW B, NEW T, NEW U, T \subseteq U, NEW q, NEW K, NEW s, Listed(B, T, q, K, s)
  PROVE  Listed(B, U, q, K, s)
  BY DEF Listed

(* A query is answered with such a list, whenever it is sent.              *)
LEMMA QueryListed ==
  ASSUME Typed, NEW K, NEW s, NEW q \in ByTime({r \in trace \intersect K : r.session = s})
  PROVE  Listed(begun, trace, q, K, s)
  <1> DEFINE S == {r \in trace \intersect K : r.session = s}
  <1>1. IsFiniteSet(S) /\ q \in SetToSeqs(S)
    <2>1. S \subseteq trace /\ q \in SetToSeqs(S)
      BY DEF ByTime
    <2> QED  BY <2>1, FS_Subset DEF Typed
  <1>2. \A i, j \in DOMAIN q : i < j => q[i].ts <= q[j].ts
    BY DEF ByTime
  <1>3. S \subseteq K
    OBVIOUS
  <1>4. {r \in begun \intersect K : r.session = s} \subseteq S
    BY DEF Typed
  <1> HIDE DEF S
  <1>5. /\ q \in Seq(S) /\ DOMAIN q = 1..Len(q) /\ ToSet(q) = S
        /\ \A i, j \in DOMAIN q : q[i] = q[j] => i = j
    BY <1>1, Enumeration
  <1>6. q \in Seq(K)
    BY <1>3, <1>5
  <1> QED  BY <1>2, <1>4, <1>5, <1>6 DEF Listed, S

LEMMA CachedStep == Typed /\ Cached /\ [Next]_vars => Cached'
  <1> SUFFICES ASSUME Typed, Cached, [Next]_vars PROVE Cached'
    OBVIOUS
  <1> USE DEF Late, traceVars, analysisVars, reportVars
  <1>0. ASSUME UNCHANGED <<begun, edits, execs, sessionEdits>>, trace \subseteq trace',
               pc' \in Late \union {"sessionEdits"} =>
                 pc' = pc \/ (pc \in Late /\ pc' \in Late)
        PROVE  Cached'
    BY <1>0, ListedStable DEF Cached
  <1>1. ASSUME NEW r \in Rows, Record(r)  PROVE Cached'
    BY <1>0, <1>1 DEF Record
  <1>2. ASSUME NEW r \in Requests, Ask(r)  PROVE Cached'
    BY <1>2 DEF Ask, Analyze, Cached, Typed
  <1>3. CASE QueryFails
    BY <1>0, <1>3 DEF QueryFails
  <1>4. CASE QueryEdits
    BY <1>4 DEF QueryEdits, Cached, Typed
  <1>5. CASE QueryExecutions
    <2>0. UNCHANGED <<begun, trace, edits, sessionEdits>>
      BY <1>5 DEF QueryExecutions
    <2>1. CASE Unread(execs) = {} /\ pc' = "sessionEdits" /\ UNCHANGED execs
      BY <1>5, <2>0, <2>1 DEF QueryExecutions, Cached, Unread
    <2>2. ASSUME NEW e \in Earliest(Unread(execs)), UNCHANGED pc,
                 NEW q \in ExecutionsForSession(e.session),
                 execs' = [s \in DOMAIN execs \union {e.session} |->
                           IF s \in DOMAIN execs THEN execs[s] ELSE q]
          PROVE  Cached'
      <3>1. Listed(begun, trace, q, Executions, e.session)
        BY <2>2, QueryListed DEF ExecutionsForSession
      <3>2. \A s \in DOMAIN execs' : Listed(begun, trace, execs'[s], Executions, s)
        BY <2>2, <3>1 DEF Cached
      <3> QED  BY <1>5, <2>0, <2>2, <3>2 DEF QueryExecutions, Cached
    <2> QED  BY <1>5, <2>1, <2>2 DEF QueryExecutions
  <1>6. CASE QuerySessionEdits
    <2>0. UNCHANGED <<begun, trace, edits, execs>>
      BY <1>6 DEF QuerySessionEdits
    <2>1. CASE Unread(sessionEdits) = {} /\ pc' = "assess" /\ UNCHANGED sessionEdits
      BY <1>6, <2>0, <2>1 DEF QuerySessionEdits, Cached, Unread
    <2>2. ASSUME NEW e \in Earliest(Unread(sessionEdits)), UNCHANGED pc,
                 NEW q \in EditsForSession(e.session),
                 sessionEdits' = [s \in DOMAIN sessionEdits \union {e.session} |->
                           IF s \in DOMAIN sessionEdits THEN sessionEdits[s] ELSE q]
          PROVE  Cached'
      <3>1. Listed(begun, trace, q, Edits, e.session)
        BY <2>2, QueryListed DEF EditsForSession
      <3>2. \A s \in DOMAIN sessionEdits' : Listed(begun, trace, sessionEdits'[s], Edits, s)
        BY <2>2, <3>1 DEF Cached
      <3> QED  BY <1>6, <2>0, <2>2, <3>2 DEF QuerySessionEdits, Cached
    <2> QED  BY <1>6, <2>1, <2>2 DEF QuerySessionEdits
  <1>7. ASSUME NEW e \in todo, Assess(e)  PROVE Cached'
    BY <1>0, <1>7 DEF Assess
  <1>8. ASSUME NEW g \in seg, MatchIntent(g)  PROVE Cached'
    BY <1>0, <1>8 DEF MatchIntent
  <1>9. ASSUME NEW g \in seg, RunPlugin(g)  PROVE Cached'
    BY <1>0, <1>9 DEF RunPlugin
  <1>10. ASSUME NEW g \in seg, Keep(g)  PROVE Cached'
    BY <1>0, <1>10 DEF Keep
  <1>11. CASE Assessed
    BY <1>0, <1>11 DEF Assessed
  <1>12. CASE Rank
    BY <1>0, <1>12 DEF Rank
  <1>13. CASE Explain \/ Render
    BY <1>0, <1>13 DEF Explain, Render
  <1>14. CASE UNCHANGED vars
    BY <1>0, <1>14 DEF vars
  <1> QED  BY <1>1, <1>2, <1>3, <1>4, <1>5, <1>6, <1>7, <1>8, <1>9, <1>10,
              <1>11, <1>12, <1>13, <1>14 DEF Next, Reporting, AnalysisStep

(* The signals are computed from the lists alone.                          *)
LEMMA CodesStable ==
  ASSUME NEW e, NEW sec, UNCHANGED <<execs, sessionEdits>>
  PROVE  Codes(e, sec)' = Codes(e, sec)
  <1>1. UNCHANGED <<checkNoExec(e), ExecutedAfter(e), EditedAfter(e)>>
    BY DEF checkNoExec, ExecutedAfter, EditedAfter
  <1>2. UNCHANGED checkTestFailNoRetest(e)
    BY DEF checkTestFailNoRetest
  <1>3. UNCHANGED checkHighRegen(e)
    BY DEF checkHighRegen
  <1>4. UNCHANGED <<checkCommitWithoutTest(e), distinctFiles(e)>>
    BY DEF checkCommitWithoutTest, distinctFiles
  <1> QED  BY <1>1, <1>2, <1>3, <1>4 DEF Codes, Fires, checkNeverReopened

LEMMA SignalledStable ==
  ASSUME NEW g, Signalled(g), UNCHANGED <<edits, execs, sessionEdits>>
  PROVE  Signalled(g)'
  BY CodesStable DEF Signalled

LEMMA ComputedStep == Typed /\ Computed /\ [Next]_vars => Computed'
  <1> SUFFICES ASSUME Typed, Computed, [Next]_vars PROVE Computed'
    OBVIOUS
  <1> USE DEF Reported, traceVars, analysisVars, reportVars
  <1>0. ASSUME UNCHANGED <<edits, execs, sessionEdits>>, Reported' \subseteq Reported,
               \A g \in segments' : g.score # 0, pc' = "match" => UNCHANGED <<pc, seg>>
        PROVE  Computed'
    BY <1>0, SignalledStable DEF Computed
  <1>none. ASSUME Reported' = {}  PROVE Computed'
    BY <1>none DEF Computed
  <1>kept. \A g \in segments : g.score # 0
    BY DEF Computed
  <1>1. ASSUME NEW r \in Rows, Record(r)  PROVE Computed'
    BY <1>0, <1>kept, <1>1 DEF Record
  <1>2. ASSUME NEW r \in Requests, Ask(r)  PROVE Computed'
    BY <1>none, <1>2 DEF Ask, Analyze, Typed, Late
  <1>3. CASE QueryFails
    BY <1>0, <1>kept, <1>3 DEF QueryFails
  <1>4. CASE QueryEdits
    BY <1>none, <1>4 DEF QueryEdits, Typed, Late
  <1>5. CASE QueryExecutions
    BY <1>none, <1>5 DEF QueryExecutions, Typed, Late
  <1>6. CASE QuerySessionEdits
    BY <1>none, <1>6 DEF QuerySessionEdits, Typed, Late
  <1>7. ASSUME NEW e \in todo, Assess(e)  PROVE Computed'
    <2>0. UNCHANGED <<edits, execs, sessionEdits, segments>> /\ e \in edits
      BY <1>7 DEF Assess, Typed
    <2>1. CASE UNCHANGED <<seg, pc>>
      BY <1>0, <1>kept, <2>0, <2>1
    <2>2. CASE seg' = {Segment(e, promptCache')}
      <3> DEFINE g == Segment(e, promptCache')
      <3>1. Weighed(g) /\ g.edit = e /\ g.plugins = <<>> /\ g.codes = Codes(e, g.accepted)
        BY SegmentWeighed
      <3>2. Mismatch \notin g.codes
        BY <3>1, CodesKnown DEF Weights, Mismatch
      <3> HIDE DEF g
      <3>3. PICK h : h = g
        OBVIOUS
      <3>4. Signalled(h)
        BY <2>0, <3>1, <3>3 DEF Signalled
      <3>5. Signalled(h)'
        BY <2>0, <3>4, SignalledStable
      <3>6. seg' = {h}
        BY <2>2, <3>3 DEF g
      <3> QED  BY <2>0, <3>1, <3>2, <3>3, <3>5, <3>6, SignalledStable DEF Computed
    <2> QED  BY <1>7, <2>1, <2>2 DEF Assess
  <1>8. ASSUME NEW g \in seg, MatchIntent(g)  PROVE Computed'
    <2>0. UNCHANGED <<edits, execs, sessionEdits, segments>> /\ pc = "match" /\ pc' = "plugins"
      BY <1>8 DEF MatchIntent
    <2>1. CASE UNCHANGED seg
      BY <1>0, <1>kept, <2>0, <2>1
    <2>2. CASE seg' = {AddMismatch(g)}
      <3>1. Weighed(g) /\ Signalled(g) /\ g.plugins = <<>> /\ Mismatch \notin g.codes
        BY <2>0 DEF Computed
      <3>2. PICK h : h = AddMismatch(g)
        OBVIOUS
      <3>3. Weighed(h) /\ h.edit = g.edit /\ h.accepted = g.accepted /\ h.codes = g.codes \union {Mismatch}
        BY <3>1, <3>2, MatchWeighed
      <3>4. Signalled(h)
        BY <3>1, <3>3 DEF Signalled
      <3>5. Signalled(h)'
        BY <2>0, <3>4, SignalledStable
      <3> QED  BY <2>0, <2>2, <3>2, <3>3, <3>5, SignalledStable DEF Computed
    <2> QED  BY <1>8, <2>1, <2>2 DEF MatchIntent
  <1>9. ASSUME NEW g \in seg, RunPlugin(g)  PROVE Computed'
    <2>0. UNCHANGED <<pc, edits, execs, sessionEdits, segments>> /\ pc = "plugins"
      BY <1>9 DEF RunPlugin
    <2>1. PICK reply \in PluginReplies \union {<<>>} : seg' = {AddSignals(g, reply)}
      BY <1>9 DEF RunPlugin
    <2>2. reply \in Seq(Int)
      BY PluginAssumption, EmptyPlugins
    <2>3. PICK h : h = AddSignals(g, reply)
      OBVIOUS
    <2>4. Weighed(g) /\ Signalled(g)
      BY DEF Computed
    <2>5. Weighed(h) /\ h.edit = g.edit /\ h.accepted = g.accepted /\ h.codes = g.codes
      BY <2>2, <2>3, <2>4, SignalsWeighed
    <2>6. Signalled(h)
      BY <2>4, <2>5 DEF Signalled
    <2>7. Signalled(h)'
      BY <2>0, <2>6, SignalledStable
    <2> QED  BY <2>0, <2>1, <2>3, <2>5, <2>7, SignalledStable DEF Computed
  <1>10. ASSUME NEW g \in seg, Keep(g)  PROVE Computed'
    BY <1>0, <1>kept, <1>10 DEF Keep
  <1>11. CASE Assessed
    BY <1>0, <1>kept, <1>11 DEF Assessed
  <1>12. CASE Rank
    BY <1>0, <1>kept, <1>12 DEF Rank
  <1>13. CASE Explain \/ Render
    BY <1>0, <1>kept, <1>13 DEF Explain, Render
  <1>14. CASE UNCHANGED vars
    BY <1>0, <1>kept, <1>14 DEF vars
  <1> QED  BY <1>1, <1>2, <1>3, <1>4, <1>5, <1>6, <1>7, <1>8, <1>9, <1>10,
              <1>11, <1>12, <1>13, <1>14 DEF Next, Reporting, AnalysisStep

LEMMA CodesFire ==
  ASSUME NEW e, NEW sec
  PROVE  /\ "NO_EXEC" \in Codes(e, sec) <=> checkNoExec(e)
         /\ "NEVER_REOPENED" \in Codes(e, sec) <=> checkNeverReopened(e)
         /\ "TEST_FAIL_NO_RETEST" \in Codes(e, sec) <=> checkTestFailNoRetest(e)
         /\ "HIGH_REGEN" \in Codes(e, sec) <=> checkHighRegen(e)
         /\ "LARGE_MULTIFILE" \in Codes(e, sec) <=> distinctFiles(e) > ManyFiles
         /\ "COMMIT_WITHOUT_TEST" \in Codes(e, sec) <=> checkCommitWithoutTest(e)
  BY DEF Codes, Fires

(* An edit that scores nothing was run.                                    *)
LEMMA NoScoreExecuted ==
  ASSUME NEW g, Weighed(g), Signalled(g), g.score = 0
  PROVE  ~checkNoExec(g.edit)
  <1> SUFFICES ASSUME "NO_EXEC" \in g.codes PROVE FALSE
    BY CodesFire DEF Signalled
  <1> DEFINE w == [c \in g.codes |-> PluginWeight(Severity(c))]
  <1>1. IsFiniteSet(g.codes) /\ CodeScore(g.codes) \in Nat /\ PluginScore(g.plugins) \in Nat
    BY CodeScoreTyped, PluginScoreTyped DEF Weighed
  <1>2. CodeScore(g.codes) = 0
    BY <1>1 DEF Weighed
  <1>3. \A c \in g.codes : w[c] \in Nat /\ w[c] # 0
    BY SeverityTyped
  <1> HIDE DEF w
  <1>4. SumOf(w, g.codes) = 0
    BY <1>2 DEF CodeScore, w
  <1>5. w["NO_EXEC"] = 0
    BY <1>1, <1>3, <1>4, SumZero
  <1> QED  BY <1>3, <1>5

LEMMA AccountedStep == Typed /\ Computed /\ Accounted /\ [Next]_vars => Accounted'
  <1> SUFFICES ASSUME Typed, Computed, Accounted, [Next]_vars PROVE Accounted'
    OBVIOUS
  <1> USE DEF traceVars, analysisVars, reportVars
  <1>a. ASSUME NEW e, range' = range  PROVE editOverlapsDiff(e)' = editOverlapsDiff(e)
    BY <1>a DEF editOverlapsDiff, Changes
  <1>b. ASSUME NEW e, execs' = execs  PROVE checkNoExec(e)' = checkNoExec(e)
    BY <1>b DEF checkNoExec
  <1>c. ASSUME UNCHANGED <<begun, range, edits, execs, todo, seg, segments>>,
               pc' \in Late => pc \in Late,
               pc' \in {"execs", "sessionEdits"} => pc' = pc
        PROVE  Accounted'
    BY <1>a, <1>b, <1>c DEF Accounted, Reported, Changes, Late
  <1>1. ASSUME NEW r \in Rows, Record(r)  PROVE Accounted'
    BY <1>c, <1>1 DEF Record, Late
  <1>2. ASSUME NEW r \in Requests, Ask(r)  PROVE Accounted'
    BY <1>2 DEF Ask, Analyze, Accounted, Reported, Typed, Late
  <1>3. CASE QueryFails
    BY <1>c, <1>3 DEF QueryFails, Late
  <1>4. CASE QueryEdits
    BY <1>4 DEF QueryEdits, EditsForFiles, Accounted, Reported, Typed, Late, Changes
  <1>5. CASE QueryExecutions
    BY <1>5 DEF QueryExecutions, Accounted, Reported, Typed, Late, Changes
  <1>6. CASE QuerySessionEdits
    BY <1>6 DEF QuerySessionEdits, Accounted, Reported, Typed, Late, Changes
  <1>7. ASSUME NEW e \in todo, Assess(e)  PROVE Accounted'
    <2>0. /\ UNCHANGED <<begun, range, edits, execs, segments>> /\ todo' = todo \ {e}
          /\ pc = "assess" /\ pc' \in Late /\ seg = {} /\ pc' \notin {"execs", "sessionEdits"}
      BY <1>7 DEF Assess, Typed, Late
    <2>1. CASE ~editOverlapsDiff(e) /\ UNCHANGED seg
      BY <1>a, <1>b, <2>0, <2>1 DEF Accounted, Reported, Changes, Late
    <2>2. CASE seg' = {Segment(e, promptCache')}
      <3>1. PICK h : seg' = {h} /\ h.edit = e
        BY <2>2, SegmentWeighed
      <3> QED  BY <1>a, <1>b, <2>0, <3>1 DEF Accounted, Reported, Changes, Late
    <2> QED  BY <1>7, <2>1, <2>2 DEF Assess
  <1>d. ASSUME UNCHANGED <<begun, range, edits, execs, segments, todo>>,
               pc \in Late, pc' \in Late, NEW g \in seg, NEW h, h.edit = g.edit, seg' = {h}
        PROVE  Accounted'
    <2>1. Reported = segments \union {g} /\ Reported' = segments \union {h}
      BY <1>d DEF Typed, Reported
    <2>2. \A i \in segments : i.edit # h.edit
      BY <1>d DEF Accounted
    <2>3. \A i \in Reported' : i.edit \notin todo
      BY <1>d, <2>1 DEF Accounted
    <2>4. \A e \in edits : \/ e \in todo \/ \E i \in Reported' : i.edit = e
                         \/ ~editOverlapsDiff(e) \/ ~checkNoExec(e)
      BY <1>d, <2>1 DEF Accounted
    <2> QED  BY <1>a, <1>b, <1>d, <2>2, <2>3, <2>4 DEF Accounted, Changes, Late
  <1>8. ASSUME NEW g \in seg, MatchIntent(g)  PROVE Accounted'
    <2>0. /\ UNCHANGED <<begun, range, edits, execs, segments, todo>>
          /\ pc = "match" /\ pc' = "plugins" /\ pc \in Late /\ pc' \in Late
      BY <1>8 DEF MatchIntent, Late
    <2>1. CASE UNCHANGED seg
      BY <1>c, <2>0, <2>1
    <2>2. CASE seg' = {AddMismatch(g)}
      <3>1. PICK h : h = AddMismatch(g)
        OBVIOUS
      <3>2. h.edit = g.edit
        BY <2>0, <3>1, MatchWeighed DEF Computed, Reported
      <3> QED  BY <1>d, <2>0, <2>2, <3>1, <3>2
    <2> QED  BY <1>8, <2>1, <2>2 DEF MatchIntent
  <1>9. ASSUME NEW g \in seg, RunPlugin(g)  PROVE Accounted'
    <2>0. UNCHANGED <<begun, range, edits, execs, segments, todo>> /\ pc \in Late /\ pc' \in Late
      BY <1>9 DEF RunPlugin, Late
    <2>1. PICK reply \in PluginReplies \union {<<>>} : seg' = {AddSignals(g, reply)}
      BY <1>9 DEF RunPlugin
    <2>2. reply \in Seq(Int)
      BY PluginAssumption, EmptyPlugins
    <2>3. PICK h : h = AddSignals(g, reply)
      OBVIOUS
    <2>4. h.edit = g.edit
      BY <2>2, <2>3, SignalsWeighed DEF Computed, Reported
    <2> QED  BY <1>d, <2>0, <2>1, <2>3, <2>4
  <1>10. ASSUME NEW g \in seg, Keep(g)  PROVE Accounted'
    <2>0. /\ UNCHANGED <<begun, range, edits, execs, todo>> /\ seg' = {} /\ seg = {g}
          /\ pc = "plugins" /\ pc' = "assess" /\ pc \in Late
      BY <1>10 DEF Keep, Typed, Late
    <2>1. CASE g.score = 0 /\ UNCHANGED segments
      <3>1. ~checkNoExec(g.edit)
        BY <2>1, NoScoreExecuted DEF Computed, Reported
      <3> QED  BY <1>a, <1>b, <2>0, <2>1, <3>1 DEF Accounted, Reported, Changes, Late
    <2>2. CASE segments' = segments \union {g}
      BY <1>a, <1>b, <2>0, <2>2 DEF Accounted, Reported, Changes, Late
    <2> QED  BY <1>10, <2>1, <2>2 DEF Keep
  <1>11. CASE Assessed
    BY <1>c, <1>11 DEF Assessed, Late
  <1>12. CASE Rank
    BY <1>c, <1>12 DEF Rank, Late
  <1>13. CASE Explain \/ Render
    BY <1>c, <1>13 DEF Explain, Render, Late
  <1>14. CASE UNCHANGED vars
    BY <1>c, <1>14 DEF vars
  <1> QED  BY <1>1, <1>2, <1>3, <1>4, <1>5, <1>6, <1>7, <1>8, <1>9, <1>10,
              <1>11, <1>12, <1>13, <1>14 DEF Next, Reporting, AnalysisStep

LEMMA ShownStep == Typed /\ Shown /\ [Next]_vars => Shown'
  <1> SUFFICES ASSUME Typed, Shown, [Next]_vars PROVE Shown'
    OBVIOUS
  <1> USE DEF traceVars, analysisVars, reportVars
  <1>a. ASSUME pc \notin {"explain", "done"}, pc' \notin {"explain", "done"},
               UNCHANGED <<ranked, texts>>
        PROVE  Shown'
    BY <1>a DEF Shown
  <1>1. ASSUME NEW r \in Rows, Record(r), UNCHANGED reportVars  PROVE Shown'
    BY <1>a, <1>1 DEF Record, Reading
  <1>2. ASSUME NEW r \in Requests, Ask(r)  PROVE Shown'
    BY <1>a, <1>2 DEF Ask, Analyze
  <1>3. CASE QueryFails /\ UNCHANGED reportVars
    BY <1>a, <1>3 DEF QueryFails
  <1>4. CASE QueryEdits /\ UNCHANGED reportVars
    BY <1>a, <1>4 DEF QueryEdits
  <1>5. CASE QueryExecutions /\ UNCHANGED reportVars
    BY <1>a, <1>5 DEF QueryExecutions
  <1>6. CASE QuerySessionEdits /\ UNCHANGED reportVars
    BY <1>a, <1>6 DEF QuerySessionEdits
  <1>7. ASSUME NEW e \in todo, Assess(e), UNCHANGED reportVars  PROVE Shown'
    BY <1>a, <1>7 DEF Assess
  <1>8. ASSUME NEW g \in seg, MatchIntent(g), UNCHANGED reportVars  PROVE Shown'
    BY <1>a, <1>8 DEF MatchIntent
  <1>9. ASSUME NEW g \in seg, RunPlugin(g), UNCHANGED reportVars  PROVE Shown'
    BY <1>a, <1>9 DEF RunPlugin
  <1>10. ASSUME NEW g \in seg, Keep(g), UNCHANGED reportVars  PROVE Shown'
    BY <1>a, <1>10 DEF Keep
  <1>11. CASE Assessed /\ UNCHANGED reportVars
    BY <1>a, <1>11 DEF Assessed
  <1>12. CASE Rank
    <2>0. /\ UNCHANGED <<segments, texts, request>> /\ texts = <<>>
          /\ pc' = IF \E r \in request : r.by = "report" THEN "explain" ELSE "done"
      BY <1>12 DEF Rank, Shown
    <2>1. PICK q \in Rankings(segments) : ranked' = q
      BY <1>12 DEF Rank
    <2>2. q \in SetToSeqs(segments) /\ \A i, j \in DOMAIN q : i < j => q[i].score >= q[j].score
      BY DEF Rankings
    <2>3. q \in Seq(segments) /\ ToSet(q) = segments
      BY <2>2, Enumeration DEF Typed
    <2>4. texts' \in Seq({"prose", "template"}) /\ Len(texts') = 0
      BY <2>0
    <2> QED  BY <2>0, <2>1, <2>2, <2>3, <2>4 DEF Shown
  <1>13. CASE Explain
    <2>0. /\ UNCHANGED <<segments, ranked, request, pc>>
          /\ pc = "explain" /\ Len(texts) < Len(ranked)
      BY <1>13 DEF Explain
    <2>1. PICK t \in {"prose", "template"} : texts' = Append(texts, t)
      BY <1>13 DEF Explain
    <2>2. texts' \in Seq({"prose", "template"}) /\ Len(texts') = Len(texts) + 1 /\ Len(texts) \in Nat
      BY <2>1 DEF Shown
    <2>3. Len(ranked) \in Nat
      BY <2>0 DEF Shown
    <2>4. Len(texts') <= Len(ranked)
      BY <2>0, <2>2, <2>3
    <2> QED  BY <2>0, <2>2, <2>4 DEF Shown
  <1>14. CASE Render
    BY <1>14 DEF Render, Shown
  <1>15. CASE UNCHANGED vars
    BY <1>15 DEF vars, Shown
  <1> QED  BY <1>1, <1>2, <1>3, <1>4, <1>5, <1>6, <1>7, <1>8, <1>9, <1>10,
              <1>11, <1>12, <1>13, <1>14, <1>15 DEF Next, Reporting, AnalysisStep

(* The invariant of the analysis and its report.                           *)
THEOREM ReportInvariant == Spec => []IInv
  <1>1. IInv /\ [Next]_vars => IInv'
    BY TypedStep, CachedStep, ComputedStep, AccountedStep, ShownStep DEF IInv
  <1> QED  BY InitIInv, <1>1, PTL DEF Spec

-----------------------------------------------------------------------------
(* What the invariant says of the properties of Report.                    *)

LEMMA WeighedTyped ==
  ASSUME NEW g, Weighed(g)
  PROVE  g.tier \in Int /\ g.score \in Nat
  <1>1. CodeScore(g.codes) \in Nat /\ PluginScore(g.plugins) \in Nat
    BY CodeScoreTyped, PluginScoreTyped DEF Weighed
  <1> QED  BY <1>1 DEF Weighed

(* The analysis and its report hold values of their kinds: what was read   *)
(* is stored, what is in work was read, and no explanation is without its  *)
(* segment.                                                                *)
THEOREM ReportTyped == Spec => []TypeOK
  <1>1. IInv => TypeOK
    <2> SUFFICES ASSUME IInv PROVE TypeOK
      OBVIOUS
    <2>1. /\ \A s \in DOMAIN execs : ToSet(execs[s]) \subseteq Executions \intersect trace
          /\ \A s \in DOMAIN sessionEdits : ToSet(sessionEdits[s]) \subseteq edits \union trace
      BY DEF IInv, Cached, Listed
    <2>2. \A g \in Reported : g.edit \in edits /\ g.tier \in Int /\ g.score \in Nat
      BY WeighedTyped DEF IInv, Computed, Signalled
    <2>3. texts \in Seq({"prose", "template"}) /\ Len(texts) <= Len(ranked)
      BY DEF IInv, Shown
    <2> QED  BY <2>1, <2>2, <2>3 DEF IInv, Typed, Late, TypeOK
  <1> QED  BY ReportInvariant, <1>1, PTL

(* An edit that was looked at, between the lists of its session.           *)
Read(e) ==
  /\ e \in Edits /\ begun \subseteq Rows /\ trace \subseteq Rows /\ IsFiniteSet(trace)
  /\ Listed(begun, trace, execs[e.session], Executions, e.session)
  /\ Listed(begun, trace, sessionEdits[e.session], Edits, e.session)

LEMMA LateRead ==
  ASSUME IInv, pc \in Late, NEW e \in edits
  PROVE  Read(e)
  BY DEF IInv, Typed, Cached, Read

LEMMA ReportedRead ==
  ASSUME IInv, NEW g \in Reported
  PROVE  Read(g.edit) /\ Weighed(g) /\ Signalled(g)
  <1>1. pc \in Late
    BY DEF IInv, Typed, Reported, Late
  <1> QED  BY <1>1, LateRead DEF IInv, Computed, Signalled

(* Whatever was stored while the lists were read, what they show of an     *)
(* edit lies between the two traces.                                       *)
LEMMA ExecutedBracketed ==
  ASSUME NEW e, Read(e)
  PROVE  /\ checkNoExec(e) <=> ~ExecutedAfter(e)
         /\ ExecutedAfter(e) => Runs(trace, e) # {}
         /\ Runs(begun, e) # {} => ExecutedAfter(e)
  <1> DEFINE xs == execs[e.session]
  <1>1. /\ {r \in begun \intersect Executions : r.session = e.session} \subseteq ToSet(xs)
        /\ ToSet(xs) \subseteq {r \in trace \intersect Executions : r.session = e.session}
    BY DEF Read, Listed
  <1>2. e.ts \in Int /\ \A x \in ToSet(xs) : x.ts \in Int
    BY <1>1, AnalyzerAssumption DEF Read, Edits
  <1>3. ToSet(xs) = {xs[i] : i \in DOMAIN xs}
    BY DEF ToSet
  <1>4. checkNoExec(e) <=> \A x \in ToSet(xs) : x.ts <= e.ts \/ ~execTouchesFile(x, e.file)
    BY <1>3 DEF checkNoExec
  <1>5. ExecutedAfter(e) <=> \E x \in ToSet(xs) : x.ts > e.ts /\ execTouchesFile(x, e.file)
    BY DEF ExecutedAfter
  <1> HIDE DEF xs
  <1>6. checkNoExec(e) <=> ~ExecutedAfter(e)
    BY <1>2, <1>4, <1>5
  <1> QED  BY <1>1, <1>5, <1>6 DEF Runs, InSession, execTouchesFile

LEMMA EditedBracketed ==
  ASSUME NEW e, Read(e)
  PROVE  /\ EditedAfter(e) => Reedits(trace, e) # {}
         /\ Reedits(begun, e) # {} => EditedAfter(e)
  <1>1. e.ts \in Int
    BY AnalyzerAssumption DEF Read, Edits
  <1> QED  BY <1>1 DEF Read, Listed, EditedAfter, Reedits, InSession

LEMMA FailedTestBracketed ==
  ASSUME NEW e, Read(e)
  PROVE  /\ checkTestFailNoRetest(e) =>
              FailedBefore(trace, e) # {} /\ TestedAfter(begun, e) = {}
         /\ FailedBefore(begun, e) # {} /\ TestedAfter(trace, e) = {} =>
              checkTestFailNoRetest(e)
  <1> DEFINE xs == execs[e.session]
  <1>1. /\ {r \in begun \intersect Executions : r.session = e.session} \subseteq ToSet(xs)
        /\ ToSet(xs) \subseteq {r \in trace \intersect Executions : r.session = e.session}
        /\ \A i, j \in DOMAIN xs : i < j => xs[i].ts <= xs[j].ts
        /\ Len(xs) \in Nat /\ DOMAIN xs = 1..Len(xs)
    BY DEF Read, Listed
  <1>2. e.ts \in Int /\ \A x \in ToSet(xs) : x.ts \in Int
    BY <1>1, AnalyzerAssumption DEF Read, Edits
  <1>3. /\ \A i \in DOMAIN xs : xs[i] \in ToSet(xs)
        /\ \A x \in ToSet(xs) : \E i \in DOMAIN xs : x = xs[i]
    BY DEF ToSet
  <1>4. checkTestFailNoRetest(e) <=>
          \E i \in DOMAIN xs :
            /\ FailedTest(xs[i]) /\ xs[i].ts <= e.ts
            /\ \A j \in (i + 1)..Len(xs) : ~(xs[j].class = "test" /\ xs[j].ts > e.ts)
    BY DEF checkTestFailNoRetest
  <1> HIDE DEF xs
  <1>5. ASSUME NEW i \in DOMAIN xs, FailedTest(xs[i]), xs[i].ts <= e.ts,
               \A j \in (i + 1)..Len(xs) : ~(xs[j].class = "test" /\ xs[j].ts > e.ts)
        PROVE  FailedBefore(trace, e) # {} /\ TestedAfter(begun, e) = {}
    <2>1. xs[i] \in FailedBefore(trace, e)
      BY <1>1, <1>3, <1>5 DEF FailedBefore, Tests, InSession, FailedTest
    <2>2. ASSUME NEW y \in TestedAfter(begun, e)  PROVE FALSE
      <3>1. y \in ToSet(xs) /\ y.class = "test" /\ y.ts > e.ts
        BY <1>1 DEF TestedAfter, Tests, InSession
      <3>2. PICK j \in DOMAIN xs : y = xs[j]
        BY <1>3, <3>1
      <3>3. xs[i].ts \in Int /\ xs[j].ts \in Int /\ i \in Nat /\ j \in Nat
        BY <1>1, <1>2, <1>3
      <3>4. ~(j < i) /\ j # i
        BY <1>1, <1>2, <1>5, <3>1, <3>2, <3>3
      <3>5. j \in (i + 1)..Len(xs)
        BY <1>1, <3>3, <3>4
      <3> QED  BY <1>5, <3>1, <3>2, <3>5
    <2> QED  BY <2>1, <2>2
  <1>6. ASSUME FailedBefore(begun, e) # {}, TestedAfter(trace, e) = {}
        PROVE  checkTestFailNoRetest(e)
    <2>1. PICK y \in FailedBefore(begun, e) : TRUE
      BY <1>6
    <2>2. y \in ToSet(xs) /\ FailedTest(y) /\ y.ts <= e.ts
      BY <1>1 DEF FailedBefore, Tests, InSession, FailedTest
    <2>3. PICK i \in DOMAIN xs : y = xs[i]
      BY <1>3, <2>2
    <2>4. \A j \in (i + 1)..Len(xs) : ~(xs[j].class = "test" /\ xs[j].ts > e.ts)
      <3>1. \A j \in (i + 1)..Len(xs) : j \in DOMAIN xs
        BY <1>1
      <3> QED  BY <1>1, <1>3, <1>6, <3>1 DEF TestedAfter, Tests, InSession
    <2> QED  BY <1>4, <2>2, <2>3, <2>4
  <1> QED  BY <1>4, <1>5, <1>6

LEMMA FilesBracketed ==
  ASSUME NEW e, Read(e)
  PROVE  /\ Files(begun, e) > ManyFiles => distinctFiles(e) > ManyFiles
         /\ distinctFiles(e) > ManyFiles => Files(trace, e) > ManyFiles
  <1> DEFINE file == [d \in Edits |-> d.file]
             F(S) == {file[d] : d \in S}
             A == InSession(begun, e) \intersect Edits
             B == ToSet(sessionEdits[e.session])
             C == InSession(trace, e) \intersect Edits
  <1>1. A \subseteq B /\ B \subseteq C /\ C \subseteq Edits
    BY DEF Read, Listed, InSession
  <1>2. IsFiniteSet(C)
    <2>1. C \subseteq trace /\ IsFiniteSet(trace)
      BY DEF Read, InSession
    <2> QED  BY <2>1, FS_Subset
  <1>3. /\ Files(begun, e) = Cardinality(F(A)) /\ distinctFiles(e) = Cardinality(F(B))
        /\ Files(trace, e) = Cardinality(F(C))
    <2>1. F(A) = {d.file : d \in A} /\ F(B) = {d.file : d \in B} /\ F(C) = {d.file : d \in C}
      BY <1>1
    <2> QED  BY <2>1 DEF Files, distinctFiles
  <1> HIDE DEF file, A, B, C
  <1>4. IsFiniteSet(F(C))
    BY <1>2, ImageFinite
  <1>5. F(A) \subseteq F(B) /\ F(B) \subseteq F(C)
    BY <1>1
  <1> HIDE DEF F
  <1>6. IsFiniteSet(F(B)) /\ Cardinality(F(B)) <= Cardinality(F(C))
    BY <1>4, <1>5, FS_Subset
  <1>7. IsFiniteSet(F(A)) /\ Cardinality(F(A)) <= Cardinality(F(B))
    BY <1>5, <1>6, FS_Subset
  <1>8. Cardinality(F(A)) \in Nat /\ Cardinality(F(B)) \in Nat /\ Cardinality(F(C)) \in Nat
    BY <1>4, <1>6, <1>7, FS_CardinalityType
  <1> QED  BY <1>3, <1>6, <1>7, <1>8, AnalyzerAssumption

(* The edits of one file, by their places in the list.                     *)
PlacesOf(e) == {i \in DOMAIN sessionEdits[e.session] : sessionEdits[e.session][i].file = e.file}

LEMMA PlacesFacts ==
  ASSUME NEW e, Read(e), NEW es, es = sessionEdits[e.session]
  PROVE  /\ PlacesOf(e) = {i \in DOMAIN es : es[i].file = e.file}
         /\ DOMAIN es = 1..Len(es) /\ Len(es) \in Nat
         /\ PlacesOf(e) \subseteq Nat /\ IsFiniteSet(PlacesOf(e))
         /\ \A i \in DOMAIN es : es[i].ts \in Int /\ es[i] \in ToSet(es)
         /\ \A d \in ToSet(es) : \E i \in DOMAIN es : d = es[i]
         /\ \A i, j \in DOMAIN es : i <= j => es[i].ts <= es[j].ts
         /\ \A i, j \in DOMAIN es : es[i] = es[j] => i = j
         /\ {r \in begun \intersect Edits : r.session = e.session} \subseteq ToSet(es)
         /\ ToSet(es) \subseteq {r \in trace \intersect Edits : r.session = e.session}
  <1>1. /\ {r \in begun \intersect Edits : r.session = e.session} \subseteq ToSet(es)
        /\ ToSet(es) \subseteq {r \in trace \intersect Edits : r.session = e.session}
        /\ \A i, j \in DOMAIN es : i < j => es[i].ts <= es[j].ts
        /\ \A i, j \in DOMAIN es : es[i] = es[j] => i = j
        /\ Len(es) \in Nat /\ DOMAIN es = 1..Len(es)
    BY DEF Read, Listed
  <1>2. PlacesOf(e) = {i \in DOMAIN es : es[i].file = e.file}
    BY DEF PlacesOf
  <1>3. PlacesOf(e) \subseteq 1..Len(es) /\ IsFiniteSet(1..Len(es))
    BY <1>1, <1>2, FS_Interval
  <1>4. IsFiniteSet(PlacesOf(e)) /\ PlacesOf(e) \subseteq Nat
    BY <1>1, <1>3, FS_Subset
  <1>5. /\ \A i \in DOMAIN es : es[i] \in ToSet(es)
        /\ \A d \in ToSet(es) : \E i \in DOMAIN es : d = es[i]
    BY DEF ToSet
  <1>6. \A d \in ToSet(es) : d.ts \in Int
    BY <1>1, AnalyzerAssumption DEF Read
  <1>7. \A i, j \in DOMAIN es : i <= j => es[i].ts <= es[j].ts
    BY <1>1, <1>5, <1>6
  <1> QED  BY <1>1, <1>2, <1>4, <1>5, <1>6, <1>7

(* checkHighRegen slides a window over the list; the first edit of a burst *)
(* opens a window in which the whole burst is.                             *)
LEMMA BurstFires ==
  ASSUME NEW e, Read(e), Burst(begun, e)
  PROVE  checkHighRegen(e)
  <1>1. PICK es : es = sessionEdits[e.session]
    OBVIOUS
  <1>2. PICK B \in SUBSET {d \in InSession(begun, e) \intersect Edits : d.file = e.file} :
          Cardinality(B) = Regens /\ \A d, f \in B : d.ts - f.ts <= Window
    BY DEF Burst
  <1> DEFINE I == {i \in DOMAIN es : es[i] \in B}
             J(i) == {j \in PlacesOf(e) : i <= j /\ es[j].ts - es[i].ts <= Window}
  <1>3. \A d \in B : d \in ToSet(es) /\ d.file = e.file
    BY <1>1, <1>2, PlacesFacts DEF InSession
  <1>4. I \subseteq PlacesOf(e) /\ I \subseteq Nat /\ IsFiniteSet(I)
    <2>1. I \subseteq PlacesOf(e)
      BY <1>1, <1>3, PlacesFacts
    <2> QED  BY <1>1, <2>1, PlacesFacts, FS_Subset
  <1>5. B = {es[i] : i \in I}
    <2>1. \A d \in B : \E i \in DOMAIN es : d = es[i]
      BY <1>1, <1>3, PlacesFacts
    <2> QED  BY <2>1
  <1>6. IsFiniteSet(B) /\ Regens <= Cardinality(I) /\ B # {}
    <2>1. IsFiniteSet({es[i] : i \in I}) /\ Cardinality({es[i] : i \in I}) <= Cardinality(I)
      BY <1>4, ImageFinite
    <2>2. B # {}
      BY <1>2, AnalyzerAssumption, FS_EmptySet
    <2> QED  BY <1>2, <1>5, <2>1, <2>2
  <1>7. PICK i \in I : \A j \in I : i <= j
    BY <1>4, <1>5, <1>6, LeastNatural
  <1>8. I \subseteq J(i)
    BY <1>2, <1>4, <1>7
  <1>9. IsFiniteSet(J(i)) /\ Cardinality(I) <= Cardinality(J(i))
    <2>1. IsFiniteSet(J(i))
      <3>1. J(i) \subseteq PlacesOf(e) /\ IsFiniteSet(PlacesOf(e))
        BY <1>1, PlacesFacts
      <3> HIDE DEF J
      <3> QED  BY <3>1, FS_Subset
    <2> HIDE DEF I, J
    <2> QED  BY <1>8, <2>1, FS_Subset
  <1>10. i \in PlacesOf(e) /\ Cardinality(J(i)) >= Regens
    <2>1. Cardinality(I) \in Nat /\ Cardinality(J(i)) \in Nat /\ Regens \in Nat
      BY <1>4, <1>9, FS_CardinalityType, AnalyzerAssumption
    <2> HIDE DEF I, J
    <2> QED  BY <1>4, <1>6, <1>7, <1>9, <2>1
  <1> QED  BY <1>1, <1>10 DEF checkHighRegen, PlacesOf

LEMMA FiresInBurst ==
  ASSUME NEW e, Read(e), checkHighRegen(e)
  PROVE  Burst(trace, e)
  <1>1. PICK es : es = sessionEdits[e.session]
    OBVIOUS
  <1>a. /\ \A j, k \in DOMAIN es : es[j] = es[k] => j = k
        /\ \A j \in DOMAIN es : es[j] \in ToSet(es)
    <2>1. \A j, k \in DOMAIN es : es[j] = es[k] => j = k
      BY <1>1, PlacesFacts
    <2>2. \A j \in DOMAIN es : es[j] \in ToSet(es)
      BY <1>1, PlacesFacts
    <2> QED  BY <2>1, <2>2
  <1>b. PlacesOf(e) = {j \in DOMAIN es : es[j].file = e.file}
    BY <1>1 DEF PlacesOf
  <1> DEFINE J(i) == {j \in PlacesOf(e) : i <= j /\ es[j].ts - es[i].ts <= Window}
  <1>2. PICK i \in PlacesOf(e) : Cardinality(J(i)) >= Regens
    BY <1>1 DEF checkHighRegen, PlacesOf
  <1>3. J(i) \subseteq PlacesOf(e) /\ IsFiniteSet(PlacesOf(e))
    BY <1>1, PlacesFacts
  <1>4. PICK K \in SUBSET J(i) : Cardinality(K) = Regens
    <2>1. IsFiniteSet(J(i)) /\ Cardinality(J(i)) \in Nat /\ Regens \in Nat
      <3> HIDE DEF J
      <3> QED  BY <1>3, FS_Subset, FS_CardinalityType, AnalyzerAssumption
    <2>2. Regens <= Cardinality(J(i))
      BY <1>2, <2>1
    <2> HIDE DEF J
    <2> QED  BY <2>1, <2>2, SubsetOfSize
  <1> DEFINE B == {es[j] : j \in K}
  <1>5. K \subseteq PlacesOf(e) /\ IsFiniteSet(K)
    <2>1. K \subseteq PlacesOf(e)
      BY <1>3, <1>4
    <2> QED  BY <1>3, <2>1, FS_Subset
  <1> HIDE DEF J
  <1>6. Cardinality(B) = Regens
    <2>1. \A j, k \in K : es[j] = es[k] => j = k
      BY <1>5, <1>a, <1>b
    <2> QED  BY <1>4, <1>5, <2>1, ImageFinite
  <1>7. B \subseteq {d \in InSession(trace, e) \intersect Edits : d.file = e.file}
    <2>1. \A j \in K : es[j] \in ToSet(es) /\ es[j].file = e.file
      BY <1>5, <1>a, <1>b
    <2> QED  BY <1>1, <2>1, PlacesFacts DEF InSession
  <1>8. ASSUME NEW j \in K, NEW k \in K  PROVE es[j].ts - es[k].ts <= Window
    <2>1. /\ i \in DOMAIN es /\ j \in DOMAIN es /\ k \in DOMAIN es
          /\ i <= k /\ es[j].ts - es[i].ts <= Window
      BY <1>1, <1>2, <1>4, <1>5, PlacesFacts DEF J
    <2>2. es[i].ts <= es[k].ts /\ es[i].ts \in Int /\ es[j].ts \in Int /\ es[k].ts \in Int
      BY <1>1, <2>1, PlacesFacts
    <2> QED  BY <2>1, <2>2, AnalyzerAssumption
  <1>9. \A d, f \in B : d.ts - f.ts <= Window
    BY <1>8
  <1> HIDE DEF B
  <1> QED  BY <1>6, <1>7, <1>9 DEF Burst

LEMMA CommitBracketed ==
  ASSUME NEW e, Read(e), checkCommitWithoutTest(e)
  PROVE  TestEdits(trace, e) # {} /\ Tests(begun, e) = {}
  BY DEF Read, Listed, checkCommitWithoutTest, TestEdits, Tests, InSession

(* Every signal that depends on other rows lies between what the trace     *)
(* said when the analysis began and what it says now, however many rows    *)
(* are written, and in which order, between the queries of computeSignals' *)
(* lists.                                                                  *)
THEOREM SignalsLieBetween == Spec => []SignalsBracketed
  <1>1. IInv => SignalsBracketed
    <2> SUFFICES ASSUME IInv, NEW g \in Reported, NEW e, e = g.edit, NEW C, C = g.codes
                 PROVE  /\ "NO_EXEC" \in C => Runs(begun, e) = {}
                        /\ "NO_EXEC" \notin C => Runs(trace, e) # {}
                        /\ "NEVER_REOPENED" \in C => Runs(begun, e) \union Reedits(begun, e) = {}
                        /\ "NEVER_REOPENED" \notin C =>
                             Runs(trace, e) \union Reedits(trace, e) # {}
                        /\ "TEST_FAIL_NO_RETEST" \in C =>
                             FailedBefore(trace, e) # {} /\ TestedAfter(begun, e) = {}
                        /\ FailedBefore(begun, e) # {} /\ TestedAfter(trace, e) = {} =>
                             "TEST_FAIL_NO_RETEST" \in C
                        /\ Burst(begun, e) => "HIGH_REGEN" \in C
                        /\ "HIGH_REGEN" \in C => Burst(trace, e)
                        /\ Files(begun, e) > ManyFiles => "LARGE_MULTIFILE" \in C
                        /\ "LARGE_MULTIFILE" \in C => Files(trace, e) > ManyFiles
                        /\ "COMMIT_WITHOUT_TEST" \in C =>
                             TestEdits(trace, e) # {} /\ Tests(begun, e) = {}
      BY Zenon DEF SignalsBracketed
    <2>1. Read(e) /\ Signalled(g)
      BY ReportedRead
    <2>2. /\ "NO_EXEC" \in C <=> checkNoExec(e)
          /\ "NEVER_REOPENED" \in C <=> ~EditedAfter(e) /\ ~ExecutedAfter(e)
          /\ "TEST_FAIL_NO_RETEST" \in C <=> checkTestFailNoRetest(e)
          /\ "HIGH_REGEN" \in C <=> checkHighRegen(e)
          /\ "LARGE_MULTIFILE" \in C <=> distinctFiles(e) > ManyFiles
          /\ "COMMIT_WITHOUT_TEST" \in C <=> checkCommitWithoutTest(e)
      BY <2>1, CodesFire DEF Signalled, Mismatch, checkNeverReopened
    <2>3. /\ checkNoExec(e) <=> ~ExecutedAfter(e)
          /\ ExecutedAfter(e) => Runs(trace, e) # {}
          /\ Runs(begun, e) # {} => ExecutedAfter(e)
      BY <2>1, ExecutedBracketed
    <2>4. /\ EditedAfter(e) => Reedits(trace, e) # {}
          /\ Reedits(begun, e) # {} => EditedAfter(e)
      BY <2>1, EditedBracketed
    <2>5. (Burst(begun, e) => checkHighRegen(e)) /\ (checkHighRegen(e) => Burst(trace, e))
      BY <2>1, BurstFires, FiresInBurst
    <2> QED  BY <2>1, <2>2, <2>3, <2>4, <2>5, FailedTestBracketed, FilesBracketed, CommitBracketed
  <1> QED  BY ReportInvariant, <1>1, PTL

(* An edit that was in the trace when the analysis began, falls into the   *)
(* diff and was never run is in the report, once, and the report command   *)
(* explains it: neither a matcher, a plugin nor a backend can lose it, for *)
(* NO_EXEC alone gives it a score.                                         *)
THEOREM NothingIsOverlooked == Spec => []NothingOverlooked
  <1>1. IInv => NothingOverlooked
    <2> SUFFICES ASSUME IInv PROVE NothingOverlooked
      OBVIOUS
    <2>1. \A g, h \in segments : g.edit = h.edit => g = h
      BY DEF IInv, Accounted
    <2>2. ASSUME pc \in {"rank", "explain", "done"}, NEW e \in begun \intersect Edits,
                 e.file \in DOMAIN Changes, editOverlapsDiff(e), Runs(trace, e) = {}
          PROVE  \E g \in segments : g.edit = e
      <3>1. pc \in Late /\ todo = {} /\ Reported = segments
        BY <2>2 DEF IInv, Typed, Late, Reported
      <3>2. e \in edits
        BY <2>2, <3>1 DEF IInv, Accounted
      <3>3. Read(e)
        BY <3>1, <3>2, LateRead
      <3>4. checkNoExec(e)
        BY <2>2, <3>3, ExecutedBracketed
      <3> QED  BY <2>2, <3>1, <3>2, <3>4 DEF IInv, Accounted
    <2>3. pc = "done" => /\ ToSet(ranked) = segments
                         /\ \A r \in request : r.by = "report" => Len(texts) = Len(ranked)
      BY DEF IInv, Shown
    <2> QED  BY <2>1, <2>2, <2>3 DEF NothingOverlooked
  <1> QED  BY ReportInvariant, <1>1, PTL

LEMMA WorstIsMin ==
  ASSUME NEW T, T \subseteq Int, NEW t, IsWorst(t, T)
  PROVE  t = IF T = {} THEN 0 ELSE Min(T)
  <1>1. CASE T = {}
    BY <1>1 DEF IsWorst
  <1>2. CASE T # {}
    <2>1. t \in T /\ \A u \in T : t <= u
      BY <1>2 DEF IsWorst
    <2>2. \A u \in T : u \in Int
      OBVIOUS
    <2>3. Min(T) \in T /\ \A u \in T : Min(T) <= u
      BY <2>1 DEF Min
    <2>4. PICK m : m = Min(T)
      OBVIOUS
    <2>5. m \in Int /\ t \in Int /\ t <= m /\ m <= t
      BY <2>1, <2>2, <2>3, <2>4
    <2>6. t = Min(T)
      BY <2>4, <2>5
    <2> QED  BY <1>2, <2>6
  <1> QED  BY <1>1, <1>2

(* A segment with a score has a tier, unless a plugin gives it another.    *)
LEMMA ScoredHasTier ==
  ASSUME NEW g, Weighed(g), g.score # 0, ToSet(g.plugins) \subseteq 1..3
  PROVE  g.tier \in 1..3
  <1>1. TiersOf(g) \subseteq 1..3 /\ 0 \notin ToSet(g.plugins)
    BY SeverityTyped DEF TiersOf
  <1>2. ASSUME TiersOf(g) = {}  PROVE FALSE
    <2>1. g.codes = {} /\ ToSet(g.plugins) = {}
      BY <1>2 DEF TiersOf
    <2>2. g.plugins = <<>>
      <3>1. PICK ts \in Seq(Int) : ts = g.plugins
        BY DEF Weighed
      <3>2. DOMAIN ts = {}
        BY <2>1, <3>1, Zenon DEF ToSet
      <3>3. Len(ts) \in Nat /\ DOMAIN ts = 1..Len(ts)
        OBVIOUS
      <3>4. Len(ts) = 0
        BY <3>2, <3>3
      <3> QED  BY <3>1, <3>4
    <2> DEFINE w == [c \in {} |-> PluginWeight(Severity(c))]
    <2>3. CodeScore({}) = 0
      <3>1. SumOf(w, {}) = 0
        BY SumEmpty
      <3> QED  BY <3>1 DEF CodeScore
    <2> QED  BY <2>1, <2>2, <2>3, EmptyPlugins DEF Weighed
  <1> QED  BY <1>1, <1>2 DEF Weighed, IsWorst

(* However signals, matcher and plugins follow one another, and however    *)
(* many plugins there are, a segment weighs as much as its signals         *)
(* together and has the tier of the worst of them, when no plugin sends    *)
(* the tier that stands for none; and every ranked one is in one of the    *)
(* tiers the report counts, when its plugins keep to these, best score     *)
(* first.                                                                  *)
THEOREM ScoresAlwaysAddUp == Spec => []ScoresAddUp
  <1>1. IInv => ScoresAddUp
    <2> SUFFICES ASSUME IInv PROVE ScoresAddUp
      OBVIOUS
    <2>1. ASSUME NEW g \in Reported
          PROVE  LET tiers == {Severity(c) : c \in g.codes} \union ToSet(g.plugins)
                 IN  /\ 0 \notin tiers => g.tier = IF tiers = {} THEN 0 ELSE Min(tiers)
                     /\ g.score = CodeScore(g.codes) + PluginScore(g.plugins)
      <3>1. Weighed(g)
        BY ReportedRead
      <3>2. TiersOf(g) \subseteq Int /\ (0 \notin TiersOf(g) => 0 \notin ToSet(g.plugins))
        BY <3>1, SeverityTyped DEF TiersOf, ToSet, Weighed
      <3>3. 0 \notin TiersOf(g) => g.tier = IF TiersOf(g) = {} THEN 0 ELSE Min(TiersOf(g))
        BY <3>1, <3>2, WorstIsMin DEF Weighed
      <3> QED  BY <3>1, <3>3 DEF Weighed, TiersOf
    <2>2. ASSUME NEW i \in DOMAIN ranked
          PROVE  /\ ToSet(ranked[i].plugins) \subseteq 1..3 => ranked[i].tier \in 1..3
                 /\ \A j \in 1..i : ranked[j].score >= ranked[i].score
      <3>1. pc \in {"explain", "done"}
        <4>1. CASE ranked = <<>>
          BY <4>1
        <4> QED  BY <4>1 DEF IInv, Shown
      <3>2. /\ ranked \in Seq(segments) /\ DOMAIN ranked = 1..Len(ranked) /\ Len(ranked) \in Nat
            /\ \A j, k \in DOMAIN ranked : j < k => ranked[j].score >= ranked[k].score
        BY <3>1 DEF IInv, Shown
      <3>3. ranked[i] \in segments
        BY <3>2
      <3>4. Weighed(ranked[i]) /\ ranked[i].score # 0 /\ ranked[i].score \in Nat
        BY <3>3, WeighedTyped DEF IInv, Computed, Reported
      <3>5. ASSUME NEW j \in 1..i  PROVE ranked[j].score >= ranked[i].score
        <4>1. j \in DOMAIN ranked /\ j \in Nat /\ i \in Nat /\ j <= i
          BY <3>2
        <4> QED  BY <3>2, <3>4, <4>1
      <3> QED  BY <3>4, <3>5, ScoredHasTier
    <2> QED  BY <2>1, <2>2, Zenon DEF ScoresAddUp, CodeScore, PluginScore
  <1> QED  BY ReportInvariant, <1>1, PTL
=============================================================================
