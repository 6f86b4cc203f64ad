---------------------------- MODULE ExportProofs ----------------------------
(***************************************************************************)
(* Proofs about Import and Export, for any logs, any imports of them and   *)
(* any rows that hooks store, and about the parser of AiderChat, for any   *)
(* chat.                                                                   *)
(***************************************************************************)
EXTENDS Export, DataLemmas, SequenceTheorems

-----------------------------------------------------------------------------
(* The parser of chats, against what a reader sees in a chat of what the   *)
(* parser knows.  First the reader: what changes in his view from one line *)
(* to the next.                                                            *)
Chat(chat) == chat \in Seq(ChatLines) /\ Familiar(chat)

LineKinds == {"header", "user", "assistant", "modified", "text", "blank", "sh", "plain"}

LEMMA LinesAre ==
  ASSUME NEW chat \in Seq(ChatLines)
  PROVE  /\ Len(chat) \in Nat /\ DOMAIN chat = 1..Len(chat)
         /\ \A n \in 1..Len(chat) : chat[n] \in ChatLines /\ chat[n].at \in Nat
  <1>1. Len(chat) \in Nat /\ DOMAIN chat = 1..Len(chat)
    OBVIOUS
  <1>2. \A n \in 1..Len(chat) : chat[n] \in ChatLines
    BY <1>1
  <1>3. \A l \in ChatLines : l.at \in Nat
    BY DEF ChatLines
  <1> QED  BY <1>1, <1>2, <1>3

LEMMA ChatIs ==
  ASSUME NEW chat, Chat(chat)
  PROVE  /\ Len(chat) \in Nat /\ DOMAIN chat = 1..Len(chat)
         /\ \A n \in 1..Len(chat) : chat[n].kind \in LineKinds /\ chat[n].at \in Nat
         /\ \A n \in Headings(chat) : n \in 1..Len(chat) /\ chat[n].kind \in {"user", "assistant"}
         /\ \A n \in 1..Len(chat) : chat[n].kind \in {"user", "assistant"} => n \in Headings(chat)
  <1>1. /\ Len(chat) \in Nat /\ DOMAIN chat = 1..Len(chat)
        /\ \A n \in 1..Len(chat) : chat[n] \in ChatLines /\ chat[n].at \in Nat
    BY LinesAre DEF Chat
  <1>2. \A n \in 1..Len(chat) : chat[n].kind \notin {"human", "other"}
    BY <1>1 DEF Chat, Familiar
  <1>3. \A l \in ChatLines : l.kind \in LineKinds \union {"human", "other"}
    BY DEF ChatLines, LineKinds, Fences
  <1>4. \A n \in 1..Len(chat) : chat[n].kind \in LineKinds
    BY <1>1, <1>2, <1>3
  <1> QED  BY <1>1, <1>2, <1>4 DEF Headings

LEMMA HeadingIs ==
  ASSUME NEW chat, Chat(chat), NEW n \in Nat
  PROVE  LET h == HeadingOf(chat, n)
         IN  /\ h \in Nat
             /\ \/ h = 0
                \/ h \in Headings(chat) /\ h < n /\ 0 < h
             /\ \A g \in Headings(chat) : g < n => g <= h
  <1> DEFINE H == {g \in Headings(chat) : g < n}
  <1>1. \A g \in Headings(chat) : g \in Nat /\ 0 < g
    BY ChatIs
  <1>2. CASE H = {}
    BY <1>2 DEF HeadingOf
  <1>3. CASE H # {}
    <2>1. H \subseteq Nat /\ \A g \in H : g <= n
      BY <1>1
    <2>2. \E h \in H : \A g \in H : g <= h
      <3>1. Max(H) \in H /\ \A g \in H : Max(H) >= g
        <4> HIDE DEF H
        <4> QED  BY <1>3, <2>1, GreatestNatural
      <3>2. \A g \in H : g <= Max(H)
        BY <2>1, <3>1
      <3> QED  BY <3>1, <3>2
    <2>3. PICK h : h = CHOOSE x \in H : \A g \in H : g <= x
      OBVIOUS
    <2>4. h \in H /\ \A g \in H : g <= h
      BY <2>2, <2>3
    <2>5. HeadingOf(chat, n) = h
      BY <1>3, <2>3 DEF HeadingOf
    <2> QED  BY <1>1, <2>4, <2>5
  <1> QED  BY <1>2, <1>3

LEMMA HeadingUnique ==
  ASSUME NEW chat, Chat(chat), NEW n \in Nat, NEW h \in Headings(chat), h < n,
         \A g \in Headings(chat) : g < n => g <= h
  PROVE  HeadingOf(chat, n) = h
  <1>1. PICK x : x = HeadingOf(chat, n)
    OBVIOUS
  <1>2. x \in Nat /\ (x = 0 \/ (x \in Headings(chat) /\ x < n)) /\ h <= x
    BY <1>1, HeadingIs
  <1>3. h \in Nat /\ 0 < h
    BY ChatIs
  <1>4. x # 0
    BY <1>2, <1>3
  <1>5. x <= h
    BY <1>2, <1>4
  <1> QED  BY <1>1, <1>2, <1>3, <1>5

LEMMA HeadingStep ==
  ASSUME NEW chat, Chat(chat), NEW n \in 1..Len(chat)
  PROVE  /\ n \in Headings(chat) => HeadingOf(chat, n + 1) = n
         /\ n \notin Headings(chat) => HeadingOf(chat, n + 1) = HeadingOf(chat, n)
  <1>1. n \in Nat /\ n + 1 \in Nat /\ \A g \in Headings(chat) : g \in Nat
    BY ChatIs
  <1>2. ASSUME n \in Headings(chat) PROVE HeadingOf(chat, n + 1) = n
    BY <1>1, <1>2, HeadingUnique
  <1>3. ASSUME n \notin Headings(chat) PROVE HeadingOf(chat, n + 1) = HeadingOf(chat, n)
    <2>1. \A g \in Headings(chat) : g < n + 1 <=> g < n
      BY <1>1, <1>3
    <2>2. PICK x, y : x = HeadingOf(chat, n) /\ y = HeadingOf(chat, n + 1)
      OBVIOUS
    <2>3. /\ x \in Nat /\ (x = 0 \/ (x \in Headings(chat) /\ x < n /\ 0 < x))
          /\ \A g \in Headings(chat) : g < n => g <= x
      BY <1>1, <2>2, HeadingIs
    <2>4. /\ y \in Nat /\ (y = 0 \/ (y \in Headings(chat) /\ y < n + 1 /\ 0 < y))
          /\ \A g \in Headings(chat) : g < n + 1 => g <= y
      BY <1>1, <2>2, HeadingIs
    <2>5. (x # 0 => x <= y) /\ (y # 0 => y <= x)
      BY <2>1, <2>3, <2>4
    <2> QED  BY <2>2, <2>3, <2>4, <2>5
  <1> QED  BY <1>2, <1>3

LEMMA FencesStep ==
  ASSUME NEW chat, Chat(chat), NEW n \in 1..Len(chat)
  PROVE  /\ n \in Headings(chat) => FencesBefore(chat, n + 1) = {}
         /\ n \notin Headings(chat) /\ chat[n].kind \in Fences =>
              FencesBefore(chat, n + 1) = FencesBefore(chat, n) \union {n}
         /\ n \notin Headings(chat) /\ chat[n].kind \notin Fences =>
              FencesBefore(chat, n + 1) = FencesBefore(chat, n)
  <1>1. n \in Nat /\ 0 < n
    BY ChatIs
  <1>2. PICK h \in Nat : h = HeadingOf(chat, n) /\ h <= n
    BY <1>1, HeadingIs
  <1>3. \A f : f \in FencesBefore(chat, n) <=> f \in h..(n - 1) /\ f > 0 /\ chat[f].kind \in Fences
    BY <1>2 DEF FencesBefore
  <1>4. ASSUME n \in Headings(chat) PROVE FencesBefore(chat, n + 1) = {}
    <2>1. HeadingOf(chat, n + 1) = n /\ n + 1 - 1 = n /\ n..n = {n}
      BY <1>1, <1>4, HeadingStep
    <2>2. chat[n].kind \notin Fences
      BY <1>4, ChatIs DEF Fences
    <2> QED  BY <2>1, <2>2 DEF FencesBefore
  <1>5. ASSUME n \notin Headings(chat)
        PROVE  \A f : f \in FencesBefore(chat, n + 1)
                        <=> f \in FencesBefore(chat, n) \/ (f = n /\ chat[n].kind \in Fences)
    <2>1. HeadingOf(chat, n + 1) = h /\ n + 1 - 1 = n
      BY <1>1, <1>2, <1>5, HeadingStep
    <2>2. \A f : f \in FencesBefore(chat, n + 1) <=> f \in h..n /\ f > 0 /\ chat[f].kind \in Fences
      BY <2>1 DEF FencesBefore
    <2>3. \A f : f \in h..n <=> f \in h..(n - 1) \/ f = n
      BY <1>1, <1>2
    <2> QED  BY <1>1, <1>3, <2>2, <2>3
  <1> QED  BY <1>4, <1>5

LEMMA FencesAre ==
  ASSUME NEW chat, Chat(chat), NEW n \in Nat
  PROVE  /\ IsFiniteSet(FencesBefore(chat, n)) /\ Cardinality(FencesBefore(chat, n)) \in Nat
         /\ \A f \in FencesBefore(chat, n) :
              f \in Nat /\ 0 < f /\ f < n /\ chat[f].kind \in Fences /\ HeadingOf(chat, n) <= f
  <1>1. PICK h \in Nat : h = HeadingOf(chat, n)
    BY HeadingIs
  <1>2. FencesBefore(chat, n) = {f \in h..(n - 1) : f > 0 /\ chat[f].kind \in Fences}
    BY <1>1 DEF FencesBefore
  <1>3. IsFiniteSet(h..(n - 1))
    BY FS_Interval
  <1>4. FencesBefore(chat, n) \in SUBSET (h..(n - 1))
    BY <1>2
  <1> QED  BY <1>1, <1>2, <1>3, <1>4, FS_Subset, FS_CardinalityType

(* The state of a block: is there one, does it hold anything.              *)
Says(chat, i) == chat[i].kind \notin {"blank", "header"}

Filled(chat, n) ==
  \E o \in FencesBefore(chat, n) :
    /\ \A f \in FencesBefore(chat, n) : f <= o
    /\ \E i \in (o + 1)..(n - 1) : Says(chat, i)

Said(chat, n) == \E i \in (HeadingOf(chat, n) + 1)..(n - 1) : Says(chat, i)

LEMMA AtHeading ==
  ASSUME NEW chat, Chat(chat), NEW n \in Headings(chat)
  PROVE  /\ Section(chat, n + 1) = chat[n].kind
         /\ ~InBlock(chat, n + 1) /\ ~Said(chat, n + 1)
  <1>1. n \in 1..Len(chat) /\ n \in Nat /\ 0 < n
    BY ChatIs
  <1>2. HeadingOf(chat, n + 1) = n /\ FencesBefore(chat, n + 1) = {}
    BY <1>1, HeadingStep, FencesStep
  <1>3. Section(chat, n + 1) = chat[n].kind
    <2>1. chat[n].kind \in {"user", "assistant"}
      BY ChatIs
    <2> QED  BY <1>1, <1>2, <2>1 DEF Section
  <1>4. ~InBlock(chat, n + 1)
    BY <1>2, FS_EmptySet DEF InBlock
  <1>5. ~Said(chat, n + 1)
    <2>1. PICK m \in Nat : m = n + 1
      BY <1>1
    <2>2. ASSUME Said(chat, m) PROVE FALSE
      <3>1. PICK i \in (HeadingOf(chat, m) + 1)..(m - 1) : Says(chat, i)
        BY <2>2 DEF Said
      <3> QED  BY <1>1, <1>2, <2>1, <3>1
    <2> QED  BY <2>1, <2>2
  <1> QED  BY <1>3, <1>4, <1>5

LEMMA AfterOther ==
  ASSUME NEW chat, Chat(chat), NEW n \in 1..Len(chat), n \notin Headings(chat)
  PROVE  /\ Section(chat, n + 1) = Section(chat, n)
         /\ Said(chat, n + 1) <=> Said(chat, n) \/ Says(chat, n)
         /\ chat[n].kind \in Fences =>
              /\ InBlock(chat, n + 1) <=> ~InBlock(chat, n)
              /\ ~Filled(chat, n + 1)
         /\ chat[n].kind \notin Fences =>
              /\ InBlock(chat, n + 1) <=> InBlock(chat, n)
              /\ InBlock(chat, n) =>
                   (Filled(chat, n + 1) <=> Filled(chat, n) \/ Says(chat, n))
  <1>1. n \in Nat /\ 0 < n /\ n + 1 - 1 = n
    BY ChatIs
  <1>2. HeadingOf(chat, n + 1) = HeadingOf(chat, n)
    BY HeadingStep
  <1>3. PICK h \in Nat : h = HeadingOf(chat, n) /\ h < n
    BY <1>1, HeadingIs
  <1>4. Section(chat, n + 1) = Section(chat, n)
    BY <1>2 DEF Section
  <1>5. Said(chat, n + 1) <=> Said(chat, n) \/ Says(chat, n)
    <2>1. \A i : i \in (h + 1)..n <=> i \in (h + 1)..(n - 1) \/ i = n
      BY <1>1, <1>3
    <2> QED  BY <1>1, <1>2, <1>3, <2>1 DEF Said
  <1>6. PICK F : F = FencesBefore(chat, n)
    OBVIOUS
  <1>7. /\ IsFiniteSet(F) /\ Cardinality(F) \in Nat
        /\ \A f \in F : f \in Nat /\ f < n
    BY <1>1, <1>6, FencesAre
  <1>8. ASSUME chat[n].kind \in Fences
        PROVE  /\ InBlock(chat, n + 1) <=> ~InBlock(chat, n)
               /\ ~Filled(chat, n + 1)
    <2>1. FencesBefore(chat, n + 1) = F \union {n} /\ n \notin F
      BY <1>1, <1>6, <1>7, <1>8, FencesStep
    <2>2. Cardinality(F \union {n}) = Cardinality(F) + 1
      BY <1>7, <2>1, FS_AddElement
    <2>3. InBlock(chat, n + 1) <=> ~InBlock(chat, n)
      <3>1. PICK c \in Nat : c = Cardinality(F)
        BY <1>7
      <3>2. (c + 1) % 2 = 1 <=> ~(c % 2 = 1)
        OBVIOUS
      <3> QED  BY <1>6, <2>1, <2>2, <3>1, <3>2 DEF InBlock
    <2>4. ~Filled(chat, n + 1)
      <3> SUFFICES ASSUME NEW o \in F \union {n}, \A f \in F \union {n} : f <= o,
                          NEW i \in (o + 1)..n
                   PROVE  FALSE
        BY <1>1, <2>1 DEF Filled
      <3>1. o \in Nat /\ n <= o
        BY <1>1, <1>7
      <3> QED  BY <1>1, <3>1
    <2> QED  BY <2>3, <2>4
  <1>9. ASSUME chat[n].kind \notin Fences
        PROVE  /\ InBlock(chat, n + 1) <=> InBlock(chat, n)
               /\ InBlock(chat, n) =>
                    (Filled(chat, n + 1) <=> Filled(chat, n) \/ Says(chat, n))
    <2>1. FencesBefore(chat, n + 1) = F
      BY <1>6, <1>9, FencesStep
    <2>2. ASSUME InBlock(chat, n)
          PROVE  Filled(chat, n + 1) <=> Filled(chat, n) \/ Says(chat, n)
      <3>1. F # {}
        <4>1. F = {} => Cardinality(F) = 0
          BY FS_EmptySet
        <4>2. 0 % 2 # 1
          OBVIOUS
        <4> QED  BY <1>6, <2>2, <4>1, <4>2 DEF InBlock
      <3>2. PICK o \in F : \A f \in F : f <= o
        <4>1. F \subseteq Nat /\ \A f \in F : f <= n
          BY <1>1, <1>7
        <4>2. Max(F) \in F /\ \A f \in F : Max(F) >= f
          BY <1>1, <3>1, <4>1, GreatestNatural
        <4> QED  BY <4>1, <4>2
      <3>3. \A q \in F : (\A f \in F : f <= q) => q = o
        BY <1>7, <3>2
      <3>4. \A i : i \in (o + 1)..n <=> i \in (o + 1)..(n - 1) \/ i = n
        BY <1>1, <1>7
      <3>5. Filled(chat, n + 1) <=> \E i \in (o + 1)..n : Says(chat, i)
        BY <1>1, <2>1, <3>2, <3>3 DEF Filled
      <3>6. Filled(chat, n) <=> \E i \in (o + 1)..(n - 1) : Says(chat, i)
        BY <1>6, <3>2, <3>3 DEF Filled
      <3> QED  BY <3>4, <3>5, <3>6
    <2> QED  BY <1>6, <2>1, <2>2 DEF InBlock
  <1> QED  BY <1>4, <1>5, <1>8, <1>9

-----------------------------------------------------------------------------
(* The parser: what a line does to its variables.                          *)
Records == [kind : RowKinds, line : Nat, ts : Nat]

ParserStates ==
  [started : Nat, sec : {"none", "user", "assistant"}, said : BOOLEAN,
   bash : {"closed", "empty", "filled"}, offset : Nat, rows : Seq(Records)]

Quiet(s, t) == t.rows = s.rows /\ t.offset = s.offset

Emits(s, t, k, n) ==
  /\ t.offset = s.offset + 1
  /\ t.rows = Append(s.rows, [kind |-> k, line |-> n, ts |-> s.started + s.offset + 1])

LEMMA StartIs ==
  /\ Start \in ParserStates /\ Start.started = 0 /\ Start.sec = "none" /\ ~Start.said
  /\ Start.bash = "closed" /\ Start.rows = <<>> /\ Start.offset = 0
  BY DEF Start, ParserStates

LEMMA EmitIs ==
  ASSUME NEW s \in ParserStates, NEW k \in RowKinds, NEW n \in Nat
  PROVE  /\ Emit(s, k, n) \in ParserStates
         /\ Emits(s, Emit(s, k, n), k, n)
         /\ Emit(s, k, n).started = s.started /\ Emit(s, k, n).sec = s.sec
         /\ Emit(s, k, n).said = s.said /\ Emit(s, k, n).bash = s.bash
  <1>1. PICK r : r = [kind |-> k, line |-> n, ts |-> s.started + s.offset + 1]
    OBVIOUS
  <1>2. /\ s.started \in Nat /\ s.sec \in {"none", "user", "assistant"} /\ s.said \in BOOLEAN
        /\ s.bash \in {"closed", "empty", "filled"} /\ s.offset \in Nat /\ s.rows \in Seq(Records)
    BY DEF ParserStates
  <1>3. r \in Records
    BY <1>1, <1>2 DEF Records
  <1>4. PICK old \in Seq(Records) : old = s.rows
    BY <1>2
  <1>5. PICK q : q = Append(old, r)
    OBVIOUS
  <1>6. q \in Seq(Records)
    BY <1>3, <1>4, <1>5, AppendProperties
  <1>7. PICK o \in Nat : o = s.offset + 1
    BY <1>2
  <1>8. PICK t : t = [s EXCEPT !.offset = o, !.rows = q]
    OBVIOUS
  <1>9. Emit(s, k, n) = t
    BY <1>1, <1>4, <1>5, <1>7, <1>8 DEF Emit
  <1>10. t \in ParserStates
    BY <1>6, <1>7, <1>8 DEF ParserStates
  <1>11. /\ t.offset = o /\ t.rows = q
         /\ t.started = s.started /\ t.sec = s.sec /\ t.said = s.said /\ t.bash = s.bash
    BY <1>8 DEF ParserStates
  <1>12. Emits(s, t, k, n)
    BY <1>1, <1>4, <1>5, <1>7, <1>11 DEF Emits
  <1> QED  BY <1>9, <1>10, <1>11, <1>12

LEMMA FlushIs ==
  ASSUME NEW s \in ParserStates, NEW n \in Nat
  PROVE  LET t == flushUser(s, n)
         IN  /\ t \in ParserStates
             /\ t.started = s.started /\ t.sec = s.sec /\ t.said = s.said /\ t.bash = s.bash
             /\ s.sec = "user" /\ s.said => Emits(s, t, "prompt", n)
             /\ ~(s.sec = "user" /\ s.said) => Quiet(s, t)
  <1>1. CASE s.sec = "user" /\ s.said
    <2>1. PICK t : t = Emit(s, "prompt", n)
      OBVIOUS
    <2>2. flushUser(s, n) = t
      BY <1>1, <2>1 DEF flushUser
    <2>3. /\ t \in ParserStates /\ Emits(s, t, "prompt", n) /\ t.started = s.started
          /\ t.sec = s.sec /\ t.said = s.said /\ t.bash = s.bash
      BY <2>1, EmitIs DEF RowKinds
    <2> QED  BY <1>1, <2>2, <2>3
  <1>2. CASE ~(s.sec = "user" /\ s.said)
    <2>1. flushUser(s, n) = s
      BY <1>2 DEF flushUser
    <2> QED  BY <1>2, <2>1 DEF Quiet
  <1> QED  BY <1>1, <1>2

LEMMA HeaderIs ==
  ASSUME NEW s \in ParserStates, NEW l \in ChatLines, NEW n \in Nat, l.kind = "header"
  PROVE  LET t == ParseLine(s, l, n)
         IN  /\ t \in ParserStates /\ Quiet(s, t)
             /\ t.started = l.at /\ t.sec = s.sec /\ t.said = s.said /\ t.bash = s.bash
  <1>1. PICK at \in Nat : at = l.at
    BY DEF ChatLines
  <1>2. ParseLine(s, l, n) = [s EXCEPT !.started = at]
    BY <1>1 DEF ParseLine, HeaderLine
  <1> QED  BY <1>1, <1>2 DEF ParserStates, Quiet

LEMMA HeadingLineIs ==
  ASSUME NEW s \in ParserStates, NEW l \in ChatLines, NEW n \in Nat, l.kind \in {"user", "assistant"}
  PROVE  LET t == ParseLine(s, l, n)
         IN  /\ t \in ParserStates
             /\ t.started = s.started /\ t.sec = l.kind /\ ~t.said /\ t.bash = "closed"
             /\ s.sec = "user" /\ s.said => Emits(s, t, "prompt", n)
             /\ ~(s.sec = "user" /\ s.said) => Quiet(s, t)
  <1>1. PICK u : u = flushUser(s, n)
    OBVIOUS
  <1>2. /\ u \in ParserStates /\ u.started = s.started
        /\ s.sec = "user" /\ s.said => Emits(s, u, "prompt", n)
        /\ ~(s.sec = "user" /\ s.said) => Quiet(s, u)
    BY <1>1, FlushIs
  <1>3. PICK k \in {"user", "assistant"} : k = l.kind
    OBVIOUS
  <1>4. PICK t : t = [u EXCEPT !.sec = k, !.said = FALSE, !.bash = "closed"]
    OBVIOUS
  <1>5. ParseLine(s, l, n) = t
    BY <1>1, <1>3, <1>4 DEF ParseLine, Heading
  <1>6. /\ t \in ParserStates /\ t.started = u.started /\ t.sec = k /\ t.said = FALSE
        /\ t.bash = "closed" /\ t.rows = u.rows /\ t.offset = u.offset
    BY <1>2, <1>4 DEF ParserStates
  <1> QED  BY <1>2, <1>3, <1>5, <1>6 DEF Emits, Quiet

OtherKinds == {"human", "modified", "text", "blank"} \union Fences

LEMMA UserLineIs ==
  ASSUME NEW s \in ParserStates, NEW l \in ChatLines, NEW n \in Nat,
         l.kind \in OtherKinds, s.sec # "assistant"
  PROVE  LET t == ParseLine(s, l, n)
         IN  /\ t \in ParserStates /\ Quiet(s, t)
             /\ t.started = s.started /\ t.sec = s.sec /\ t.bash = s.bash
             /\ s.sec = "user" => (t.said <=> s.said \/ l.kind # "blank")
  <1>1. l.kind # "header" /\ l.kind \notin {"user", "assistant"}
    BY DEF OtherKinds, Fences
  <1>2. CASE s.sec = "none"
    <2>1. ParseLine(s, l, n) = s
      BY <1>1, <1>2 DEF ParseLine
    <2> QED  BY <1>2, <2>1 DEF Quiet
  <1>3. CASE s.sec = "user"
    <2>1. PICK b \in BOOLEAN : b <=> (s.said \/ l.kind # "blank")
      <3>1. CASE s.said \/ l.kind # "blank"
        BY <3>1
      <3>2. CASE ~(s.said \/ l.kind # "blank")
        BY <3>2
      <3> QED  BY <3>1, <3>2
    <2>2. s.said \in BOOLEAN
      BY DEF ParserStates
    <2>3. (s.said \/ l.kind # "blank") = b
      BY <2>1, <2>2
    <2>4. ParseLine(s, l, n) = [s EXCEPT !.said = s.said \/ l.kind # "blank"]
      BY <1>1, <1>3 DEF ParseLine
    <2>5. ParseLine(s, l, n) = [s EXCEPT !.said = b]
      BY <2>3, <2>4
    <2> QED  BY <1>3, <2>1, <2>5 DEF ParserStates, Quiet
  <1> QED  BY <1>2, <1>3 DEF ParserStates

LEMMA AssistantLineIs ==
  ASSUME NEW s \in ParserStates, NEW l \in ChatLines, NEW n \in Nat,
         l.kind \in OtherKinds, s.sec = "assistant"
  PROVE  LET t == ParseLine(s, l, n)
         IN  /\ t \in ParserStates
             /\ t.started = s.started /\ t.sec = s.sec /\ t.said = s.said
             /\ l.kind \in Fences /\ s.bash = "closed" =>
                  /\ t.bash = IF l.kind = "other" THEN "closed" ELSE "empty"
                  /\ Quiet(s, t)
             /\ l.kind \in Fences /\ s.bash # "closed" =>
                  /\ t.bash = "closed"
                  /\ s.bash = "filled" => Emits(s, t, "exec", n)
                  /\ s.bash # "filled" => Quiet(s, t)
             /\ l.kind \notin Fences /\ s.bash # "closed" =>
                  /\ t.bash = IF l.kind = "blank" THEN s.bash ELSE "filled"
                  /\ Quiet(s, t)
             /\ l.kind \notin Fences /\ s.bash = "closed" =>
                  /\ t.bash = "closed"
                  /\ l.kind = "modified" => Emits(s, t, "edit", n)
                  /\ l.kind # "modified" => Quiet(s, t)
  <1>1. l.kind # "header" /\ l.kind \notin {"user", "assistant"}
    BY DEF OtherKinds, Fences
  <1>2. ParseLine(s, l, n) = AssistantLine(s, l.kind, n)
    BY <1>1 DEF ParseLine
  <1>3. s.bash \in {"closed", "empty", "filled"}
    BY DEF ParserStates
  <1>4. CASE l.kind \in Fences /\ s.bash = "closed"
    <2>1. PICK b \in {"closed", "empty"} : b = IF l.kind = "other" THEN "closed" ELSE "empty"
      OBVIOUS
    <2>2. ParseLine(s, l, n) = [s EXCEPT !.bash = b]
      BY <1>2, <1>4, <2>1 DEF AssistantLine, Fence
    <2> QED  BY <1>4, <2>1, <2>2 DEF ParserStates, Quiet
  <1>5. CASE l.kind \in Fences /\ s.bash = "filled"
    <2>1. PICK u : u = Emit(s, "exec", n)
      OBVIOUS
    <2>2. /\ u \in ParserStates /\ Emits(s, u, "exec", n)
          /\ u.started = s.started /\ u.sec = s.sec /\ u.said = s.said
      BY <2>1, EmitIs DEF RowKinds
    <2>3. PICK t : t = [u EXCEPT !.bash = "closed"]
      OBVIOUS
    <2>4. ParseLine(s, l, n) = t
      BY <1>2, <1>5, <2>1, <2>3 DEF AssistantLine, Fence
    <2>5. /\ t \in ParserStates /\ t.bash = "closed" /\ t.rows = u.rows /\ t.offset = u.offset
          /\ t.started = u.started /\ t.sec = u.sec /\ t.said = u.said
      BY <2>2, <2>3 DEF ParserStates
    <2> QED  BY <1>5, <2>2, <2>4, <2>5 DEF Emits
  <1>6. CASE l.kind \in Fences /\ s.bash = "empty"
    <2>1. ParseLine(s, l, n) = [s EXCEPT !.bash = "closed"]
      BY <1>2, <1>6 DEF AssistantLine, Fence
    <2> QED  BY <1>6, <2>1 DEF ParserStates, Quiet
  <1>7. CASE l.kind \notin Fences /\ s.bash # "closed"
    <2>1. PICK b \in {"empty", "filled"} : b = IF l.kind = "blank" THEN s.bash ELSE "filled"
      BY <1>3, <1>7
    <2>2. ParseLine(s, l, n) = [s EXCEPT !.bash = b]
      BY <1>2, <1>7, <2>1 DEF AssistantLine
    <2> QED  BY <1>7, <2>1, <2>2 DEF ParserStates, Quiet
  <1>8. CASE l.kind \notin Fences /\ s.bash = "closed" /\ l.kind = "modified"
    <2>1. ParseLine(s, l, n) = Emit(s, "edit", n)
      BY <1>2, <1>8 DEF AssistantLine
    <2> QED  BY <1>8, <2>1, EmitIs DEF RowKinds
  <1>9. CASE l.kind \notin Fences /\ s.bash = "closed" /\ l.kind # "modified"
    <2>1. ParseLine(s, l, n) = s
      BY <1>2, <1>9 DEF AssistantLine
    <2> QED  BY <1>9, <2>1 DEF Quiet
  <1> QED  BY <1>3, <1>4, <1>5, <1>6, <1>7, <1>8, <1>9

LEMMA AfterIs ==
  ASSUME NEW chat \in Seq(ChatLines)
  PROVE  /\ After(chat)[0] = Start
         /\ \A n \in 1..Len(chat) : After(chat)[n] = ParseLine(After(chat)[n - 1], chat[n], n)
  <1>1. PICK L \in Nat : L = Len(chat)
    BY LinesAre
  <1> DEFINE Line(f, n) == IF n = 0 THEN Start ELSE ParseLine(f[n - 1], chat[n], n)
             G == {m \in Nat : \E f : \A n \in 0..m : f[n] = Line(f, n)}
  <1>2. 0 \in G
    <2>1. PICK f : f = [n \in 0..0 |-> Start]
      OBVIOUS
    <2>2. \A n \in 0..0 : f[n] = Line(f, n)
      BY <2>1
    <2> QED  BY <2>2
  <1>3. \A m \in Nat : m \in G => m + 1 \in G
    <2> SUFFICES ASSUME NEW m \in Nat, NEW f, \A n \in 0..m : f[n] = Line(f, n)
                 PROVE  m + 1 \in G
      OBVIOUS
    <2>1. PICK x : x = ParseLine(f[m], chat[m + 1], m + 1)
      OBVIOUS
    <2>2. PICK g : g = [n \in 0..(m + 1) |-> IF n = m + 1 THEN x ELSE f[n]]
      OBVIOUS
    <2>3. \A n \in 0..m : g[n] = f[n]
      BY <2>2
    <2>4. g[m + 1] = x
      BY <2>2
    <2>5. \A n \in 0..m : g[n] = Line(g, n)
      <3> SUFFICES ASSUME NEW n \in 0..m PROVE g[n] = Line(g, n)
        OBVIOUS
      <3>1. CASE n = 0
        BY <2>3, <3>1
      <3>2. CASE n # 0
        <4>1. n - 1 \in 0..m
          BY <3>2
        <4> QED  BY <2>3, <3>2, <4>1
      <3> QED  BY <3>1, <3>2
    <2>6. g[m + 1] = Line(g, m + 1)
      <3>1. m + 1 - 1 = m /\ m + 1 # 0 /\ g[m] = f[m]
        BY <2>3
      <3> QED  BY <2>1, <2>4, <3>1
    <2>7. \A n \in 0..(m + 1) : g[n] = Line(g, n)
      <3>1. \A n \in 0..(m + 1) : n \in 0..m \/ n = m + 1
        OBVIOUS
      <3> HIDE DEF Line
      <3> QED  BY <2>5, <2>6, <3>1
    <2> HIDE DEF Line
    <2> QED  BY <2>7
  <1>4. L \in G
    <2> HIDE DEF G
    <2> QED  BY <1>2, <1>3, NatSetInduction
  <1>5. PICK f : \A n \in 0..L : f[n] = Line(f, n)
    BY <1>4
  <1>6. PICK g : g = [n \in 0..L |-> f[n]]
    OBVIOUS
  <1>7. g = [n \in 0..L |-> IF n = 0 THEN Start ELSE ParseLine(g[n - 1], chat[n], n)]
    <2>1. \A n \in 0..L : n # 0 => n - 1 \in 0..L
      OBVIOUS
    <2>2. \A n \in 0..L : f[n] = IF n = 0 THEN Start ELSE ParseLine(g[n - 1], chat[n], n)
      BY <1>5, <1>6, <2>1
    <2> QED  BY <1>6, <2>2
  <1>8. PICK a : a = After(chat)
    OBVIOUS
  <1>9. a = [n \in 0..L |-> IF n = 0 THEN Start ELSE ParseLine(a[n - 1], chat[n], n)]
    <2>1. a = CHOOSE after : after = [n \in 0..Len(chat) |->
                 IF n = 0 THEN Start ELSE ParseLine(after[n - 1], chat[n], n)]
      BY <1>8, Zenon DEF After
    <2> QED  BY <1>1, <1>7, <2>1
  <1>10. a[0] = Start /\ \A n \in 1..L : a[n] = ParseLine(a[n - 1], chat[n], n)
    BY <1>9
  <1> QED  BY <1>1, <1>8, <1>10

(* What is to be written at a line: at most one row, of this kind.         *)
Closing(chat, n) ==
  /\ n \in Headings(chat) \/ n = Len(chat) + 1
  /\ Section(chat, n) = "user" /\ Said(chat, n)

Due(chat, n, k) ==
  \/ k = "prompt" /\ Closing(chat, n)
  \/ k = "edit" /\ n \in SeenEdits(chat)
  \/ k = "exec" /\ n \in SeenCommands(chat)

Right(chat, n, k) ==
  \A j \in RowKinds : Due(chat, n, j) <=> j = k

(* The variables of the parser that is about to read line n.               *)
View(chat, n, s) ==
  /\ s.sec = Section(chat, n)
  /\ s.sec = "user" => (s.said <=> Said(chat, n))
  /\ s.sec = "assistant" =>
       /\ s.bash # "closed" <=> InBlock(chat, n)
       /\ s.bash # "closed" => (s.bash = "filled" <=> Filled(chat, n))

LEMMA DueIs ==
  ASSUME NEW chat, Chat(chat), NEW n \in 1..Len(chat)
  PROVE  /\ Closing(chat, n) <=>
              n \in Headings(chat) /\ Section(chat, n) = "user" /\ Said(chat, n)
         /\ n \in SeenEdits(chat) <=>
              /\ chat[n].kind = "modified" /\ Section(chat, n) = "assistant"
              /\ ~InBlock(chat, n)
         /\ n \in SeenCommands(chat) <=>
              /\ chat[n].kind \in Fences /\ Section(chat, n) = "assistant"
              /\ InBlock(chat, n) /\ Filled(chat, n)
  <1>1. n \in Nat /\ n # Len(chat) + 1 /\ DOMAIN chat = 1..Len(chat)
    BY ChatIs
  <1>2. \A o \in FencesBefore(chat, n) : chat[o].kind # "other"
    <2>1. \A o \in FencesBefore(chat, n) : o \in 1..Len(chat)
      <3>1. \A o \in FencesBefore(chat, n) : o \in Nat /\ 0 < o /\ o < n
        BY <1>1, FencesAre
      <3> QED  BY <1>1, <3>1, ChatIs
    <2> QED  BY <2>1, ChatIs DEF LineKinds
  <1>3. Filled(chat, n) <=>
          \E o \in FencesBefore(chat, n) :
            /\ \A f \in FencesBefore(chat, n) : f <= o
            /\ chat[o].kind # "other"
            /\ \E i \in (o + 1)..(n - 1) : chat[i].kind \notin {"blank", "header"}
    BY <1>2 DEF Filled, Says
  <1> QED  BY <1>1, <1>3 DEF Closing, SeenEdits, SeenCommands

LEMMA HeaderRead ==
  ASSUME NEW chat, Chat(chat), NEW n \in 1..Len(chat), NEW s \in ParserStates,
         View(chat, n, s), chat[n].kind = "header",
         NEW t, t = ParseLine(s, chat[n], n)
  PROVE  t \in ParserStates /\ View(chat, n + 1, t) /\ Quiet(s, t) /\ Right(chat, n, "none")
  <1>1. /\ n \in Nat /\ chat[n] \in ChatLines /\ n \notin Headings(chat)
        /\ chat[n].kind \notin Fences /\ ~Says(chat, n)
    BY ChatIs DEF Chat, Fences, Says
  <1>2. /\ t \in ParserStates /\ Quiet(s, t)
        /\ t.sec = s.sec /\ t.said = s.said /\ t.bash = s.bash
    BY <1>1, HeaderIs
  <1>3. /\ Section(chat, n + 1) = Section(chat, n)
        /\ Said(chat, n + 1) <=> Said(chat, n)
        /\ InBlock(chat, n + 1) <=> InBlock(chat, n)
        /\ InBlock(chat, n) => (Filled(chat, n + 1) <=> Filled(chat, n))
    BY <1>1, AfterOther
  <1>4. View(chat, n + 1, t)
    BY <1>2, <1>3 DEF View
  <1>5. Right(chat, n, "none")
    BY <1>1, DueIs DEF Right, Due, RowKinds
  <1> QED  BY <1>2, <1>4, <1>5

LEMMA HeadingRead ==
  ASSUME NEW chat, Chat(chat), NEW n \in 1..Len(chat), NEW s \in ParserStates,
         View(chat, n, s), chat[n].kind \in {"user", "assistant"},
         NEW t, t = ParseLine(s, chat[n], n)
  PROVE  /\ t \in ParserStates /\ View(chat, n + 1, t)
         /\ \/ Quiet(s, t) /\ Right(chat, n, "none")
            \/ Emits(s, t, "prompt", n) /\ Right(chat, n, "prompt")
  <1>1. /\ n \in Nat /\ chat[n] \in ChatLines /\ n \in Headings(chat)
        /\ chat[n].kind \notin Fences /\ chat[n].kind # "modified"
    BY ChatIs DEF Chat, Fences
  <1>2. /\ t \in ParserStates
        /\ t.sec = chat[n].kind /\ ~t.said /\ t.bash = "closed"
        /\ s.sec = "user" /\ s.said => Emits(s, t, "prompt", n)
        /\ ~(s.sec = "user" /\ s.said) => Quiet(s, t)
    BY <1>1, HeadingLineIs
  <1>3. /\ Section(chat, n + 1) = chat[n].kind
        /\ ~InBlock(chat, n + 1) /\ ~Said(chat, n + 1)
    BY <1>1, AtHeading
  <1>4. View(chat, n + 1, t)
    BY <1>2, <1>3 DEF View
  <1>5. Closing(chat, n) <=> s.sec = "user" /\ s.said
    BY <1>1, DueIs DEF View
  <1>6. n \notin SeenEdits(chat) /\ n \notin SeenCommands(chat)
    BY <1>1, DueIs
  <1>7. Closing(chat, n) => Right(chat, n, "prompt")
    BY <1>6 DEF Right, Due, RowKinds
  <1>8. ~Closing(chat, n) => Right(chat, n, "none")
    BY <1>6 DEF Right, Due, RowKinds
  <1> QED  BY <1>2, <1>4, <1>5, <1>7, <1>8

LEMMA UserLineRead ==
  ASSUME NEW chat, Chat(chat), NEW n \in 1..Len(chat), NEW s \in ParserStates,
         View(chat, n, s), chat[n].kind \in OtherKinds, s.sec # "assistant",
         NEW t, t = ParseLine(s, chat[n], n)
  PROVE  t \in ParserStates /\ View(chat, n + 1, t) /\ Quiet(s, t) /\ Right(chat, n, "none")
  <1>1. /\ n \in Nat /\ chat[n] \in ChatLines /\ n \notin Headings(chat)
        /\ Says(chat, n) <=> chat[n].kind # "blank"
    BY ChatIs DEF Chat, Fences, Says, OtherKinds
  <1>2. /\ t \in ParserStates /\ Quiet(s, t) /\ t.sec = s.sec
        /\ s.sec = "user" => (t.said <=> s.said \/ chat[n].kind # "blank")
    BY <1>1, UserLineIs
  <1>3. /\ Section(chat, n + 1) = Section(chat, n)
        /\ Said(chat, n + 1) <=> Said(chat, n) \/ Says(chat, n)
    BY <1>1, AfterOther
  <1>4. View(chat, n + 1, t)
    BY <1>1, <1>2, <1>3 DEF View
  <1>5. Section(chat, n) # "assistant"
    BY DEF View
  <1>6. Right(chat, n, "none")
    BY <1>1, <1>5, DueIs DEF Right, Due, RowKinds
  <1> QED  BY <1>2, <1>4, <1>6

LEMMA AssistantLineRead ==
  ASSUME NEW chat, Chat(chat), NEW n \in 1..Len(chat), NEW s \in ParserStates,
         View(chat, n, s), chat[n].kind \in OtherKinds, s.sec = "assistant",
         NEW t, t = ParseLine(s, chat[n], n)
  PROVE  /\ t \in ParserStates /\ View(chat, n + 1, t)
         /\ \/ Quiet(s, t) /\ Right(chat, n, "none")
            \/ Emits(s, t, "edit", n) /\ Right(chat, n, "edit")
            \/ Emits(s, t, "exec", n) /\ Right(chat, n, "exec")
  <1> DEFINE kind == chat[n].kind
  <1>1. /\ n \in Nat /\ chat[n] \in ChatLines /\ n \notin Headings(chat)
        /\ Says(chat, n) <=> kind # "blank"
    BY ChatIs DEF Chat, Fences, Says, OtherKinds
  <1>2. /\ t \in ParserStates /\ t.sec = s.sec
        /\ kind \in Fences /\ s.bash = "closed" =>
             /\ t.bash = IF kind = "other" THEN "closed" ELSE "empty"
             /\ Quiet(s, t)
        /\ kind \in Fences /\ s.bash # "closed" =>
             /\ t.bash = "closed"
             /\ s.bash = "filled" => Emits(s, t, "exec", n)
             /\ s.bash # "filled" => Quiet(s, t)
        /\ kind \notin Fences /\ s.bash # "closed" =>
             /\ t.bash = IF kind = "blank" THEN s.bash ELSE "filled"
             /\ Quiet(s, t)
        /\ kind \notin Fences /\ s.bash = "closed" =>
             /\ t.bash = "closed"
             /\ kind = "modified" => Emits(s, t, "edit", n)
             /\ kind # "modified" => Quiet(s, t)
    BY <1>1, AssistantLineIs
  <1>3. /\ Section(chat, n + 1) = Section(chat, n)
        /\ kind \in Fences =>
              /\ InBlock(chat, n + 1) <=> ~InBlock(chat, n)
              /\ ~Filled(chat, n + 1)
        /\ kind \notin Fences =>
              /\ InBlock(chat, n + 1) <=> InBlock(chat, n)
              /\ InBlock(chat, n) =>
                   (Filled(chat, n + 1) <=> Filled(chat, n) \/ Says(chat, n))
    BY <1>1, AfterOther
  <1>4. /\ Section(chat, n) = "assistant"
        /\ s.bash # "closed" <=> InBlock(chat, n)
        /\ s.bash # "closed" => (s.bash = "filled" <=> Filled(chat, n))
    BY DEF View
  <1>5. "modified" \notin Fences /\ kind # "other"
    BY ChatIs DEF Fences, LineKinds
  <1>6. s.bash \in {"closed", "empty", "filled"}
    BY DEF ParserStates
  <1>7. /\ ~Closing(chat, n)
        /\ n \in SeenEdits(chat) <=> kind = "modified" /\ ~InBlock(chat, n)
        /\ n \in SeenCommands(chat) <=>
             kind \in Fences /\ InBlock(chat, n) /\ Filled(chat, n)
    BY <1>4, DueIs
  <1> HIDE DEF kind
  <1>8. View(chat, n + 1, t)
    <2>1. t.sec = Section(chat, n + 1) /\ t.sec = "assistant"
      BY <1>2, <1>3, <1>4
    <2>2. /\ t.bash # "closed" <=> InBlock(chat, n + 1)
          /\ t.bash # "closed" => (t.bash = "filled" <=> Filled(chat, n + 1))
      <3>1. CASE kind \in Fences
        BY <1>2, <1>3, <1>4, <1>5, <3>1
      <3>2. CASE kind \notin Fences
        BY <1>1, <1>2, <1>3, <1>4, <1>6, <3>2
      <3> QED  BY <3>1, <3>2
    <2> QED  BY <2>1, <2>2 DEF View
  <1>9. /\ ~Due(chat, n, "prompt")
        /\ Due(chat, n, "edit") <=> n \in SeenEdits(chat)
        /\ Due(chat, n, "exec") <=> n \in SeenCommands(chat)
    BY <1>7 DEF Due
  <1>10. ASSUME n \notin SeenEdits(chat) /\ n \notin SeenCommands(chat)
         PROVE  Right(chat, n, "none")
    BY <1>9, <1>10 DEF Right, RowKinds
  <1>11. ASSUME n \in SeenEdits(chat) /\ n \notin SeenCommands(chat)
         PROVE  Right(chat, n, "edit")
    BY <1>9, <1>11 DEF Right, RowKinds
  <1>12. ASSUME n \notin SeenEdits(chat) /\ n \in SeenCommands(chat)
         PROVE  Right(chat, n, "exec")
    BY <1>9, <1>12 DEF Right, RowKinds
  <1>13. \/ Quiet(s, t) /\ n \notin SeenEdits(chat) /\ n \notin SeenCommands(chat)
         \/ Emits(s, t, "edit", n) /\ n \in SeenEdits(chat) /\ n \notin SeenCommands(chat)
         \/ Emits(s, t, "exec", n) /\ n \notin SeenEdits(chat) /\ n \in SeenCommands(chat)
    <2>1. CASE kind \in Fences
      BY <1>2, <1>4, <1>5, <1>6, <1>7, <2>1
    <2>2. CASE kind \notin Fences
      BY <1>2, <1>4, <1>5, <1>6, <1>7, <2>2
    <2> QED  BY <2>1, <2>2
  <1> QED  BY <1>2, <1>8, <1>10, <1>11, <1>12, <1>13

LEMMA LineRead ==
  ASSUME NEW chat, Chat(chat), NEW n \in 1..Len(chat), NEW s \in ParserStates,
         View(chat, n, s), NEW t, t = ParseLine(s, chat[n], n)
  PROVE  /\ t \in ParserStates /\ View(chat, n + 1, t)
         /\ \/ Quiet(s, t) /\ Right(chat, n, "none")
            \/ \E k \in RowKinds : Emits(s, t, k, n) /\ Right(chat, n, k)
  <1>1. chat[n].kind \in LineKinds
    BY ChatIs
  <1>2. \/ chat[n].kind = "header" \/ chat[n].kind \in {"user", "assistant"}
        \/ chat[n].kind \in OtherKinds
    BY <1>1 DEF LineKinds, OtherKinds, Fences
  <1> QED  BY <1>2, HeaderRead, HeadingRead, UserLineRead, AssistantLineRead DEF RowKinds

LEMMA LineWrites ==
  ASSUME NEW l \in ChatLines, NEW n \in Nat, NEW s \in ParserStates,
         NEW t, t = ParseLine(s, l, n)
  PROVE  /\ Quiet(s, t) \/ \E k \in RowKinds : Emits(s, t, k, n)
         /\ l.kind = "header" => t.started = l.at /\ Quiet(s, t)
         /\ l.kind # "header" => t.started = s.started
  <1>1. \/ l.kind = "header" \/ l.kind \in {"user", "assistant"} \/ l.kind \in OtherKinds
    BY DEF ChatLines, OtherKinds
  <1>2. s.bash \in {"closed", "empty", "filled"}
    BY DEF ParserStates
  <1>3. CASE l.kind = "header"
    BY <1>3, HeaderIs
  <1>4. CASE l.kind \in {"user", "assistant"}
    BY <1>4, HeadingLineIs DEF RowKinds
  <1>5. CASE l.kind \in OtherKinds /\ s.sec # "assistant"
    <2>1. l.kind # "header"
      BY <1>5 DEF OtherKinds, Fences
    <2> QED  BY <1>5, <2>1, UserLineIs
  <1>6. CASE l.kind \in OtherKinds /\ s.sec = "assistant"
    <2>1. l.kind # "header"
      BY <1>6 DEF OtherKinds, Fences
    <2>2. /\ t.started = s.started
          /\ l.kind \in Fences /\ s.bash = "closed" => Quiet(s, t)
          /\ l.kind \in Fences /\ s.bash # "closed" =>
               /\ s.bash = "filled" => Emits(s, t, "exec", n)
               /\ s.bash # "filled" => Quiet(s, t)
          /\ l.kind \notin Fences /\ s.bash # "closed" => Quiet(s, t)
          /\ l.kind \notin Fences /\ s.bash = "closed" =>
               /\ l.kind = "modified" => Emits(s, t, "edit", n)
               /\ l.kind # "modified" => Quiet(s, t)
      BY <1>6, AssistantLineIs
    <2> QED  BY <2>1, <2>2 DEF RowKinds
  <1> QED  BY <1>1, <1>3, <1>4, <1>5, <1>6

-----------------------------------------------------------------------------
(* The rows that come from the lines before line n.                        *)
Has(rows, k, m) == \E i \in 1..Len(rows) : rows[i].kind = k /\ rows[i].line = m

Listed(chat, n, rows) ==
  /\ rows \in Seq(Records)
  /\ \A i \in 1..Len(rows) : 0 < rows[i].line /\ rows[i].line < n
  /\ \A i, j \in 1..Len(rows) : i < j => rows[i].line < rows[j].line
  /\ \A m \in 1..(n - 1) : \A k \in RowKinds :
       Due(chat, m, k) <=> Has(rows, k, m)

LEMMA Appended ==
  ASSUME NEW S, NEW old \in Seq(S), NEW r \in S, NEW q, q = Append(old, r)
  PROVE  /\ q \in Seq(S) /\ Len(old) \in Nat /\ Len(q) = Len(old) + 1
         /\ \A i \in 1..Len(old) : q[i] = old[i] /\ old[i] \in S
         /\ q[Len(old) + 1] = r
         /\ \A i \in 1..Len(q) : i \in 1..Len(old) \/ i = Len(old) + 1
  <1>1. Len(old) \in Nat
    OBVIOUS
  <1>2. q \in Seq(S) /\ Len(q) = Len(old) + 1 /\ q[Len(old) + 1] = r
        /\ \A i \in 1..Len(old) : q[i] = old[i]
    BY AppendProperties
  <1>3. \A i \in 1..Len(old) : old[i] \in S
    OBVIOUS
  <1> QED  BY <1>1, <1>2, <1>3

LEMMA ListedQuiet ==
  ASSUME NEW chat, NEW n \in Nat, n > 0, NEW rows, Listed(chat, n, rows), Right(chat, n, "none")
  PROVE  Listed(chat, n + 1, rows)
  <1>1. /\ rows \in Seq(Records)
        /\ \A i \in 1..Len(rows) : 0 < rows[i].line /\ rows[i].line < n
        /\ \A i, j \in 1..Len(rows) : i < j => rows[i].line < rows[j].line
        /\ \A m \in 1..(n - 1) : \A k \in RowKinds :
             Due(chat, m, k) <=> Has(rows, k, m)
    BY DEF Listed
  <1>2. \A i \in 1..Len(rows) : rows[i].line \in Nat
    <2>1. \A i \in 1..Len(rows) : rows[i] \in Records
      BY <1>1
    <2> QED  BY <2>1 DEF Records
  <1>3. \A k \in RowKinds : ~Has(rows, k, n)
    BY <1>1, <1>2 DEF Has
  <1>4. \A k \in RowKinds : ~Due(chat, n, k)
    BY DEF Right, RowKinds
  <1>5. \A m \in 1..(n + 1 - 1) : m \in 1..(n - 1) \/ m = n
    OBVIOUS
  <1>6. \A i \in 1..Len(rows) : 0 < rows[i].line /\ rows[i].line < n + 1
    BY <1>1, <1>2
  <1> QED  BY <1>1, <1>3, <1>4, <1>5, <1>6 DEF Listed

LEMMA ListedRow ==
  ASSUME NEW chat, NEW n \in Nat, n > 0, NEW rows, Listed(chat, n, rows),
         NEW k \in RowKinds, Right(chat, n, k), NEW ts \in Nat,
         NEW q, q = Append(rows, [kind |-> k, line |-> n, ts |-> ts])
  PROVE  Listed(chat, n + 1, q)
  <1>1. /\ rows \in Seq(Records)
        /\ \A i \in 1..Len(rows) : 0 < rows[i].line /\ rows[i].line < n
        /\ \A i, j \in 1..Len(rows) : i < j => rows[i].line < rows[j].line
        /\ \A m \in 1..(n - 1) : \A x \in RowKinds :
             Due(chat, m, x) <=> Has(rows, x, m)
    BY DEF Listed
  <1>2. PICK r \in Records : r = [kind |-> k, line |-> n, ts |-> ts] /\ r.kind = k /\ r.line = n
    BY DEF Records
  <1>3. PICK e \in Nat : e = Len(rows)
    BY <1>1
  <1>4. /\ q \in Seq(Records) /\ Len(q) = e + 1
        /\ \A i \in 1..e : q[i] = rows[i] /\ rows[i] \in Records
        /\ q[e + 1] = r
        /\ \A i \in 1..Len(q) : i \in 1..e \/ i = e + 1
    BY <1>1, <1>2, <1>3, Appended
  <1>5. \A i \in 1..e : rows[i].line \in Nat
    BY <1>4 DEF Records
  <1>6. \A x, m : Has(q, x, m) <=> Has(rows, x, m) \/ (x = k /\ m = n)
    <2>1. 1..e \subseteq 1..Len(q) /\ e + 1 \in 1..Len(q)
      BY <1>4
    <2> QED  BY <1>2, <1>3, <1>4, <2>1 DEF Has
  <1>7. \A i \in 1..Len(q) : 0 < q[i].line /\ q[i].line < n + 1
    BY <1>1, <1>2, <1>3, <1>4, <1>5
  <1>8. ASSUME NEW i \in 1..Len(q), NEW j \in 1..Len(q), i < j PROVE q[i].line < q[j].line
    <2>1. i \in 1..e
      BY <1>4, <1>8
    <2>2. CASE j \in 1..e
      BY <1>1, <1>3, <1>4, <1>8, <2>1, <2>2
    <2>3. CASE j = e + 1
      BY <1>1, <1>2, <1>3, <1>4, <2>1, <2>3
    <2> QED  BY <1>4, <2>2, <2>3
  <1>9. ASSUME NEW m \in 1..(n + 1 - 1), NEW x \in RowKinds
        PROVE  Due(chat, m, x) <=> Has(q, x, m)
    <2>1. CASE m = n
      <3>1. ~Has(rows, x, n)
        BY <1>1, <1>3, <1>5 DEF Has
      <3>2. Due(chat, n, x) <=> x = k
        BY <2>1 DEF Right
      <3> QED  BY <1>6, <2>1, <3>1, <3>2
    <2>2. CASE m # n
      <3>1. m \in 1..(n - 1)
        BY <2>2
      <3> QED  BY <1>1, <1>6, <2>2, <3>1
    <2> QED  BY <2>1, <2>2
  <1> QED  BY <1>4, <1>7, <1>8, <1>9 DEF Listed

LEMMA ListedStep ==
  ASSUME NEW chat, NEW n \in Nat, n > 0, NEW s \in ParserStates, NEW t, Listed(chat, n, s.rows),
         \/ Quiet(s, t) /\ Right(chat, n, "none")
         \/ \E k \in RowKinds : Emits(s, t, k, n) /\ Right(chat, n, k)
  PROVE  Listed(chat, n + 1, t.rows)
  <1>1. CASE Quiet(s, t) /\ Right(chat, n, "none")
    <2>1. t.rows = s.rows
      BY <1>1 DEF Quiet
    <2> QED  BY <1>1, <2>1, ListedQuiet
  <1>2. ASSUME NEW k \in RowKinds, Emits(s, t, k, n), Right(chat, n, k)
        PROVE  Listed(chat, n + 1, t.rows)
    <2>1. PICK ts \in Nat : ts = s.started + s.offset + 1
      BY DEF ParserStates
    <2>2. t.rows = Append(s.rows, [kind |-> k, line |-> n, ts |-> ts])
      BY <1>2, <2>1 DEF Emits
    <2> QED  BY <1>2, <2>2, ListedRow
  <1> QED  BY <1>1, <1>2

(* The times of the rows, as long as the times of the headers do not fall. *)
NonFalling(chat) ==
  \A i, j \in {n \in DOMAIN chat : chat[n].kind = "header"} :
    i < j => chat[i].at <= chat[j].at

Rising(rows) == \A i, j \in 1..Len(rows) : i < j => rows[i].ts < rows[j].ts

Timed(chat, n, s) ==
  /\ Rising(s.rows)
  /\ \A i \in 1..Len(s.rows) : s.rows[i].ts <= s.started + s.offset
  /\ \A h \in n..Len(chat) : chat[h].kind = "header" => s.started <= chat[h].at

LEMMA RisingRow ==
  ASSUME NEW s \in ParserStates, NEW t, NEW k \in RowKinds, NEW n \in Nat, Emits(s, t, k, n),
         Rising(s.rows), \A i \in 1..Len(s.rows) : s.rows[i].ts <= s.started + s.offset
  PROVE  /\ Rising(t.rows)
         /\ \A i \in 1..Len(t.rows) : t.rows[i].ts <= s.started + t.offset
  <1>1. PICK rows, q : rows = s.rows /\ q = t.rows
    OBVIOUS
  <1>2. PICK c \in Nat : c = s.started + s.offset
    BY DEF ParserStates
  <1>3. rows \in Seq(Records) /\ Rising(rows) /\ \A i \in 1..Len(rows) : rows[i].ts <= c
    BY <1>1, <1>2 DEF ParserStates
  <1>4. s.started + t.offset = c + 1
    BY <1>2 DEF Emits, ParserStates
  <1>5. PICK r \in Records : /\ r = [kind |-> k, line |-> n, ts |-> s.started + s.offset + 1]
                             /\ r.ts = c + 1
    <2>1. PICK d \in Nat : d = c + 1
      OBVIOUS
    <2>2. d = s.started + s.offset + 1
      BY <1>2, <2>1
    <2>3. [kind |-> k, line |-> n, ts |-> d] \in Records
      BY DEF Records
    <2> QED  BY <2>1, <2>2, <2>3
  <1>6. q = Append(rows, r)
    BY <1>1, <1>5 DEF Emits
  <1>7. PICK e \in Nat : e = Len(rows)
    BY <1>3
  <1>8. /\ Len(q) = e + 1
        /\ \A i \in 1..e : q[i] = rows[i] /\ rows[i] \in Records
        /\ q[e + 1] = r
        /\ \A i \in 1..Len(q) : i \in 1..e \/ i = e + 1
    BY <1>3, <1>6, <1>7, Appended
  <1>9. \A i \in 1..e : q[i].ts \in Nat /\ q[i].ts <= c
    BY <1>3, <1>7, <1>8 DEF Records
  <1>10. \A i \in 1..Len(q) : q[i].ts <= c + 1
    BY <1>5, <1>8, <1>9
  <1>11. ASSUME NEW i \in 1..Len(q), NEW j \in 1..Len(q), i < j PROVE q[i].ts < q[j].ts
    <2>1. i \in 1..e
      BY <1>8, <1>11
    <2>2. CASE j \in 1..e
      BY <1>3, <1>7, <1>8, <1>11, <2>1, <2>2 DEF Rising
    <2>3. CASE j = e + 1
      BY <1>5, <1>8, <1>9, <2>1, <2>3
    <2> QED  BY <1>8, <2>2, <2>3
  <1> QED  BY <1>1, <1>4, <1>10, <1>11 DEF Rising

LEMMA TimedStep ==
  ASSUME NEW chat \in Seq(ChatLines), NonFalling(chat), NEW n \in 1..Len(chat), NEW s \in ParserStates,
         Timed(chat, n, s), NEW t \in ParserStates, t = ParseLine(s, chat[n], n)
  PROVE  Timed(chat, n + 1, t)
  <1>1. /\ n \in Nat /\ Len(chat) \in Nat /\ chat[n] \in ChatLines /\ DOMAIN chat = 1..Len(chat)
        /\ \A h \in 1..Len(chat) : chat[h].at \in Nat
    BY LinesAre
  <1>2. /\ Quiet(s, t) \/ \E k \in RowKinds : Emits(s, t, k, n)
        /\ chat[n].kind = "header" => t.started = chat[n].at /\ Quiet(s, t)
        /\ chat[n].kind # "header" => t.started = s.started
    BY <1>1, LineWrites
  <1>3. /\ Rising(s.rows)
        /\ \A i \in 1..Len(s.rows) : s.rows[i].ts <= s.started + s.offset
        /\ \A h \in n..Len(chat) : chat[h].kind = "header" => s.started <= chat[h].at
    BY DEF Timed
  <1>4. \A h \in (n + 1)..Len(chat) : h \in n..Len(chat) /\ h \in 1..Len(chat) /\ n < h
    BY <1>1
  <1>5. \A h \in (n + 1)..Len(chat) : chat[h].kind = "header" => t.started <= chat[h].at
    <2>1. CASE chat[n].kind = "header"
      BY <1>1, <1>2, <1>4, <2>1 DEF NonFalling
    <2>2. CASE chat[n].kind # "header"
      BY <1>2, <1>3, <1>4, <2>2
    <2> QED  BY <2>1, <2>2
  <1>6. s.started <= t.started /\ s.started \in Nat /\ s.offset \in Nat
    <2>1. s.started \in Nat /\ s.offset \in Nat
      BY DEF ParserStates
    <2>2. n \in n..Len(chat)
      BY <1>1
    <2> QED  BY <1>2, <1>3, <2>1, <2>2
  <1>7. CASE Quiet(s, t)
    <2>1. t.rows = s.rows /\ t.offset = s.offset /\ t.started \in Nat
      BY <1>7 DEF Quiet, ParserStates
    <2>2. \A i \in 1..Len(s.rows) : s.rows[i].ts \in Nat
      <3>1. s.rows \in Seq(Records)
        BY DEF ParserStates
      <3>2. \A i \in 1..Len(s.rows) : s.rows[i] \in Records
        BY <3>1
      <3> QED  BY <3>2 DEF Records
    <2>3. PICK a \in Nat, b \in Nat, c \in Nat : a = s.started /\ b = t.started /\ c = s.offset
      BY <1>6, <2>1
    <2>4. \A i \in 1..Len(s.rows) : s.rows[i].ts <= b + c
      <3>1. a <= b /\ \A i \in 1..Len(s.rows) : s.rows[i].ts <= a + c
        BY <1>3, <1>6, <2>3
      <3>2. \A x \in Nat : x <= a + c => x <= b + c
        BY <3>1
      <3> QED  BY <2>2, <3>1, <3>2
    <2> QED  BY <1>3, <1>5, <2>1, <2>3, <2>4 DEF Timed
  <1>8. ASSUME NEW k \in RowKinds, Emits(s, t, k, n), ~Quiet(s, t)
        PROVE  Timed(chat, n + 1, t)
    <2>1. t.started = s.started
      BY <1>2, <1>8
    <2>2. /\ Rising(t.rows)
          /\ \A i \in 1..Len(t.rows) : t.rows[i].ts <= s.started + t.offset
      BY <1>1, <1>3, <1>8, RisingRow
    <2> QED  BY <1>5, <2>1, <2>2 DEF Timed
  <1> QED  BY <1>2, <1>7, <1>8

-----------------------------------------------------------------------------
(* The whole parse.                                                        *)
Reading(chat, n, s) ==
  /\ s \in ParserStates
  /\ \A i \in 1..Len(s.rows) : s.rows[i].line < n
  /\ NonFalling(chat) => Timed(chat, n, s)

LEMMA ReadingStarts ==
  ASSUME NEW chat \in Seq(ChatLines)
  PROVE  Reading(chat, 1, Start)
  <1>1. Start.rows = <<>> /\ Start \in ParserStates /\ Start.started = 0
    BY StartIs
  <1>2. Len(<<>>) = 0 /\ 1..0 = {}
    OBVIOUS
  <1>3. \A n \in 1..Len(chat) : 0 <= chat[n].at
    BY LinesAre
  <1>4. Timed(chat, 1, Start)
    BY <1>1, <1>2, <1>3 DEF Timed, Rising
  <1> QED  BY <1>1, <1>2, <1>4 DEF Reading

LEMMA LineTyped ==
  ASSUME NEW l \in ChatLines, NEW n \in Nat, NEW s \in ParserStates
  PROVE  ParseLine(s, l, n) \in ParserStates
  <1>1. \/ l.kind = "header" \/ l.kind \in {"user", "assistant"} \/ l.kind \in OtherKinds
    BY DEF ChatLines, OtherKinds
  <1> QED  BY <1>1, HeaderIs, HeadingLineIs, UserLineIs, AssistantLineIs

LEMMA RowsBelow ==
  ASSUME NEW n \in Nat, NEW s \in ParserStates, NEW t,
         \A i \in 1..Len(s.rows) : s.rows[i].line < n,
         Quiet(s, t) \/ \E k \in RowKinds : Emits(s, t, k, n)
  PROVE  \A i \in 1..Len(t.rows) : t.rows[i].line < n + 1
  <1>1. PICK rows, q : rows = s.rows /\ q = t.rows
    OBVIOUS
  <1>2. rows \in Seq(Records) /\ \A i \in 1..Len(rows) : rows[i] \in Records
    BY <1>1 DEF ParserStates
  <1>3. \A i \in 1..Len(rows) : rows[i].line \in Nat /\ rows[i].line < n
    BY <1>1, <1>2 DEF Records
  <1>4. CASE Quiet(s, t)
    BY <1>1, <1>3, <1>4 DEF Quiet
  <1>5. ASSUME NEW k \in RowKinds, Emits(s, t, k, n)
        PROVE  \A i \in 1..Len(q) : q[i].line < n + 1
    <2>1. PICK ts \in Nat : ts = s.started + s.offset + 1
      BY DEF ParserStates
    <2>2. PICK x : x \in Records /\ x = [kind |-> k, line |-> n, ts |-> ts] /\ x.line = n
      <3>1. [kind |-> k, line |-> n, ts |-> ts] \in Records
        BY <2>1 DEF Records
      <3> QED  BY <3>1
    <2>3. q = Append(rows, x)
      BY <1>1, <1>5, <2>1, <2>2 DEF Emits
    <2>4. /\ \A i \in 1..Len(rows) : q[i] = rows[i]
          /\ q[Len(rows) + 1] = x
          /\ \A i \in 1..Len(q) : i \in 1..Len(rows) \/ i = Len(rows) + 1
      BY <1>2, <2>3, Appended
    <2> QED  BY <1>3, <2>2, <2>4
  <1> QED  BY <1>1, <1>4, <1>5

LEMMA ReadingStep ==
  ASSUME NEW chat \in Seq(ChatLines), NEW n \in 1..Len(chat), NEW s, Reading(chat, n, s)
  PROVE  Reading(chat, n + 1, ParseLine(s, chat[n], n))
  <1>1. PICK t : t = ParseLine(s, chat[n], n)
    OBVIOUS
  <1>2. /\ s \in ParserStates /\ \A i \in 1..Len(s.rows) : s.rows[i].line < n
        /\ NonFalling(chat) => Timed(chat, n, s)
    BY DEF Reading
  <1>3. n \in Nat /\ chat[n] \in ChatLines
    BY LinesAre
  <1>4. t \in ParserStates
    BY <1>1, <1>2, <1>3, LineTyped
  <1>5. Quiet(s, t) \/ \E k \in RowKinds : Emits(s, t, k, n)
    BY <1>1, <1>2, <1>3, LineWrites
  <1>6. \A i \in 1..Len(t.rows) : t.rows[i].line < n + 1
    BY <1>2, <1>3, <1>5, RowsBelow
  <1>7. NonFalling(chat) => Timed(chat, n + 1, t)
    BY <1>1, <1>2, <1>4, TimedStep
  <1> QED  BY <1>1, <1>4, <1>6, <1>7 DEF Reading

LEMMA Reads ==
  ASSUME NEW chat \in Seq(ChatLines)
  PROVE  \A n \in 0..Len(chat) : Reading(chat, n + 1, After(chat)[n])
  <1>1. PICK L \in Nat : L = Len(chat)
    BY LinesAre
  <1> DEFINE G == {n \in Nat : n <= L => Reading(chat, n + 1, After(chat)[n])}
  <1>2. 0 \in G
    BY AfterIs, ReadingStarts
  <1>3. \A n \in Nat : n \in G => n + 1 \in G
    <2> SUFFICES ASSUME NEW n \in Nat, n \in G, n + 1 <= L
                 PROVE  Reading(chat, n + 1 + 1, After(chat)[n + 1])
      OBVIOUS
    <2>1. PICK m : m = n + 1
      OBVIOUS
    <2>2. m \in 1..L /\ m - 1 = n /\ n <= L
      BY <2>1
    <2>3. Reading(chat, m, After(chat)[n])
      BY <2>1, <2>2
    <2>4. After(chat)[m] = ParseLine(After(chat)[n], chat[m], m)
      BY <1>1, <2>2, AfterIs
    <2>5. Reading(chat, m + 1, After(chat)[m])
      BY <1>1, <2>2, <2>3, <2>4, ReadingStep
    <2> QED  BY <2>1, <2>5
  <1>4. \A n \in 0..L : n \in G /\ n <= L
    <2> HIDE DEF G
    <2>1. Nat \subseteq G
      BY <1>2, <1>3, NatSetInduction
    <2> QED  BY <2>1
  <1> QED  BY <1>1, <1>4

(* The records of any chat, and their times.                               *)
LEMMA ParseIs ==
  ASSUME NEW chat \in Seq(ChatLines)
  PROVE  /\ Parse(chat) \in Seq(Records)
         /\ NonFalling(chat) => Rising(Parse(chat))
  <1>1. PICK n \in Nat : n = Len(chat) + 1 /\ Len(chat) \in 0..Len(chat)
    BY LinesAre
  <1>2. PICK s : s = After(chat)[Len(chat)]
    OBVIOUS
  <1>3. s \in ParserStates /\ (NonFalling(chat) => Timed(chat, n, s))
    BY <1>1, <1>2, Reads DEF Reading
  <1>4. PICK t : t = flushUser(s, n)
    OBVIOUS
  <1>5. Parse(chat) = t.rows
    BY <1>1, <1>2, <1>4 DEF Parse
  <1>6. /\ t \in ParserStates
        /\ s.sec = "user" /\ s.said => Emits(s, t, "prompt", n)
        /\ ~(s.sec = "user" /\ s.said) => Quiet(s, t)
    BY <1>3, <1>4, FlushIs
  <1>7. ASSUME NonFalling(chat) PROVE Rising(t.rows)
    <2>1. Rising(s.rows) /\ \A i \in 1..Len(s.rows) : s.rows[i].ts <= s.started + s.offset
      BY <1>3, <1>7 DEF Timed
    <2>2. CASE Quiet(s, t)
      BY <2>1, <2>2 DEF Quiet
    <2>3. CASE Emits(s, t, "prompt", n)
      BY <1>3, <2>1, <2>3, RisingRow DEF RowKinds
    <2> QED  BY <1>6, <2>2, <2>3
  <1> QED  BY <1>5, <1>6, <1>7 DEF ParserStates

LEMMA OrderKept ==
  ASSUME NEW chat \in Seq(ChatLines)
  PROVE  InOrder(chat, Parse(chat))
  <1>1. DOMAIN Parse(chat) = 1..Len(Parse(chat))
    BY ParseIs
  <1> QED  BY <1>1, ParseIs DEF InOrder, NonFalling, Rising

(* What a chat of what the parser knows adds.                              *)
Parsing(chat, n, s) ==
  /\ s \in ParserStates
  /\ View(chat, n, s)
  /\ Listed(chat, n, s.rows)

LEMMA ParsingStarts ==
  ASSUME NEW chat, Chat(chat)
  PROVE  Parsing(chat, 1, Start)
  <1>1. \A n \in Headings(chat) : 1 <= n
    BY ChatIs
  <1>2. HeadingOf(chat, 1) = 0
    <2>1. PICK h \in Nat : h = HeadingOf(chat, 1) /\ (h = 0 \/ (h \in Headings(chat) /\ h < 1))
      BY HeadingIs
    <2> QED  BY <2>1, ChatIs
  <1>3. Section(chat, 1) = "none"
    BY <1>2 DEF Section
  <1>4. Start.sec = "none" /\ Start.rows = <<>> /\ Start \in ParserStates
    BY StartIs
  <1>5. View(chat, 1, Start)
    BY <1>3, <1>4 DEF View
  <1>6. Len(<<>>) = 0 /\ 1..0 = {} /\ <<>> \in Seq(Records) /\ 1 - 1 = 0
    OBVIOUS
  <1>7. Listed(chat, 1, <<>>)
    BY <1>6 DEF Listed
  <1> QED  BY <1>4, <1>5, <1>7 DEF Parsing

LEMMA ParsingStep ==
  ASSUME NEW chat, Chat(chat), NEW n \in 1..Len(chat), NEW s, Parsing(chat, n, s)
  PROVE  Parsing(chat, n + 1, ParseLine(s, chat[n], n))
  <1>1. PICK t : t = ParseLine(s, chat[n], n)
    OBVIOUS
  <1>2. s \in ParserStates /\ View(chat, n, s) /\ Listed(chat, n, s.rows)
    BY DEF Parsing
  <1>3. /\ t \in ParserStates /\ View(chat, n + 1, t)
        /\ \/ Quiet(s, t) /\ Right(chat, n, "none")
           \/ \E k \in RowKinds : Emits(s, t, k, n) /\ Right(chat, n, k)
    BY <1>1, <1>2, LineRead
  <1>4. n \in Nat /\ n > 0
    BY ChatIs
  <1>5. Listed(chat, n + 1, t.rows)
    BY <1>2, <1>3, <1>4, ListedStep
  <1> QED  BY <1>1, <1>3, <1>5 DEF Parsing

LEMMA ParsingEnds ==
  ASSUME NEW chat, Chat(chat)
  PROVE  Parsing(chat, Len(chat) + 1, After(chat)[Len(chat)])
  <1>1. PICK L \in Nat : L = Len(chat) /\ chat \in Seq(ChatLines)
    BY ChatIs DEF Chat
  <1> DEFINE G == {n \in Nat : n <= L => Parsing(chat, n + 1, After(chat)[n])}
  <1>2. 0 \in G
    BY <1>1, AfterIs, ParsingStarts
  <1>3. \A n \in Nat : n \in G => n + 1 \in G
    <2> SUFFICES ASSUME NEW n \in Nat, n \in G, n + 1 <= L
                 PROVE  Parsing(chat, n + 1 + 1, After(chat)[n + 1])
      OBVIOUS
    <2>1. PICK m : m = n + 1
      OBVIOUS
    <2>2. m \in 1..L /\ m - 1 = n /\ n <= L
      BY <2>1
    <2>3. Parsing(chat, m, After(chat)[n])
      BY <2>1, <2>2
    <2>4. After(chat)[m] = ParseLine(After(chat)[n], chat[m], m)
      BY <1>1, <2>2, AfterIs
    <2>5. Parsing(chat, m + 1, After(chat)[m])
      BY <1>1, <2>2, <2>3, <2>4, ParsingStep
    <2> QED  BY <2>1, <2>5
  <1>4. L \in G
    <2> HIDE DEF G
    <2> QED  BY <1>2, <1>3, NatSetInduction
  <1>5. L <= L
    OBVIOUS
  <1> QED  BY <1>1, <1>4, <1>5

LEMMA Parsed ==
  ASSUME NEW chat, Chat(chat)
  PROVE  Listed(chat, Len(chat) + 2, Parse(chat))
  <1>1. PICK n \in Nat : n = Len(chat) + 1 /\ n > 0 /\ n + 1 = Len(chat) + 2
    BY ChatIs
  <1>2. PICK s : s = After(chat)[Len(chat)]
    OBVIOUS
  <1>3. s \in ParserStates /\ View(chat, n, s) /\ Listed(chat, n, s.rows)
    BY <1>1, <1>2, ParsingEnds DEF Parsing
  <1>4. PICK t : t = flushUser(s, n)
    OBVIOUS
  <1>5. Parse(chat) = t.rows
    BY <1>1, <1>2, <1>4 DEF Parse
  <1>6. /\ s.sec = "user" /\ s.said => Emits(s, t, "prompt", n)
        /\ ~(s.sec = "user" /\ s.said) => Quiet(s, t)
    BY <1>3, <1>4, FlushIs
  <1>7. n \notin SeenEdits(chat) /\ n \notin SeenCommands(chat)
    BY <1>1, ChatIs DEF SeenEdits, SeenCommands
  <1>8. Closing(chat, n) <=> s.sec = "user" /\ s.said
    BY <1>1, <1>3 DEF View, Closing
  <1>9. Closing(chat, n) => Right(chat, n, "prompt")
    BY <1>7 DEF Right, Due, RowKinds
  <1>10. ~Closing(chat, n) => Right(chat, n, "none")
    BY <1>7 DEF Right, Due, RowKinds
  <1>11. Listed(chat, n + 1, t.rows)
    <2>1. "prompt" \in RowKinds
      BY DEF RowKinds
    <2> QED  BY <1>1, <1>3, <1>6, <1>8, <1>9, <1>10, <2>1, ListedStep
  <1> QED  BY <1>1, <1>5, <1>11

(* Each prompt of the reader's ends at one place, and each place ends one. *)
LEMMA ClosingEnds ==
  ASSUME NEW chat, Chat(chat), NEW m \in 1..(Len(chat) + 1), Closing(chat, m)
  PROVE  HeadingOf(chat, m) \in SeenPrompts(chat) /\ HeadingOf(chat, m) < m
  <1>1. PICK h \in Nat : h = HeadingOf(chat, m)
    BY HeadingIs
  <1>2. /\ m \in Nat
        /\ h = 0 \/ (h \in Headings(chat) /\ h < m /\ 0 < h)
        /\ \A g \in Headings(chat) : g < m => g <= h
    BY <1>1, HeadingIs
  <1>3. Section(chat, m) = "user" /\ Said(chat, m)
    BY DEF Closing
  <1>4. h # 0 /\ chat[h].kind = "user"
    <2>1. h # 0 /\ chat[h].kind # "assistant"
      BY <1>1, <1>3 DEF Section
    <2> QED  BY <1>2, <2>1, ChatIs
  <1>5. PICK i \in (h + 1)..(m - 1) : Says(chat, i)
    BY <1>1, <1>3 DEF Said
  <1>6. Len(chat) \in Nat /\ \A g \in Headings(chat) : g \in 1..Len(chat)
    BY ChatIs
  <1>7. i \in 1..Len(chat) /\ i \in Nat /\ h < i /\ i < m
    BY <1>2, <1>5, <1>6
  <1>8. i \notin Headings(chat)
    BY <1>2, <1>6, <1>7
  <1>9. chat[i].kind \notin {"blank", "header", "user", "assistant"}
    BY <1>5, <1>7, <1>8, ChatIs DEF Says
  <1>10. HeadingOf(chat, i) = h
    <2>1. \A g \in Headings(chat) : g < i => g <= h
      BY <1>2, <1>6, <1>7
    <2> QED  BY <1>2, <1>4, <1>7, <2>1, HeadingUnique
  <1>11. h \in DOMAIN chat /\ i \in DOMAIN chat
    BY <1>2, <1>4, <1>6, <1>7, ChatIs
  <1> QED  BY <1>1, <1>2, <1>4, <1>9, <1>10, <1>11 DEF SeenPrompts

LEMMA ClosingFound ==
  ASSUME NEW chat, Chat(chat), NEW h \in SeenPrompts(chat)
  PROVE  \E m \in 1..(Len(chat) + 1) : Closing(chat, m) /\ HeadingOf(chat, m) = h
  <1>1. PICK L \in Nat : L = Len(chat) /\ DOMAIN chat = 1..L
    BY ChatIs
  <1>2. PICK n \in 1..L : /\ HeadingOf(chat, n) = h
                          /\ chat[n].kind \notin {"blank", "header", "user", "assistant"}
    <2>1. PICK n \in 1..L : /\ n \notin Headings(chat) /\ HeadingOf(chat, n) = h
                            /\ chat[n].kind \notin {"blank", "header"}
      BY <1>1 DEF SeenPrompts
    <2> QED  BY <1>1, <2>1, ChatIs
  <1>3. h \in 1..L /\ chat[h].kind = "user"
    <2>1. h \in Headings(chat) /\ chat[h].kind # "assistant"
      BY DEF SeenPrompts
    <2> QED  BY <1>1, <2>1, ChatIs
  <1>4. h \in Headings(chat) /\ \A g \in Headings(chat) : g \in 1..L
    BY <1>1, <1>3, ChatIs
  <1>5. n \in Nat /\ h < n /\ n \notin Headings(chat) /\ \A g \in Headings(chat) : g < n => g <= h
    <2>1. n \in Nat
      OBVIOUS
    <2>2. PICK x \in Nat : /\ x = HeadingOf(chat, n) /\ (x = 0 \/ x < n)
                           /\ \A g \in Headings(chat) : g < n => g <= x
      BY <2>1, HeadingIs
    <2>3. n \notin Headings(chat)
      BY <1>2, ChatIs
    <2> QED  BY <1>2, <1>3, <2>1, <2>2, <2>3
  <1> DEFINE later == {x \in Headings(chat) : n < x} \union {L + 1}
  <1>6. later # {} /\ later \subseteq Nat
    BY <1>1, <1>4
  <1>7. PICK m \in later : \A x \in later : m <= x
    <2> HIDE DEF later
    <2>1. \E m \in later : \A x \in later : m <= x
      BY <1>6, LeastNatural
    <2> QED  BY <2>1
  <1>8. /\ m \in 1..(L + 1) /\ m \in Nat /\ n < m /\ (m \in Headings(chat) \/ m = L + 1)
    BY <1>1, <1>4, <1>5, <1>7
  <1>9. \A g \in Headings(chat) : g < m => g <= h
    <2> SUFFICES ASSUME NEW g \in Headings(chat), g < m PROVE g <= h
      OBVIOUS
    <2>1. g \in Nat /\ g # n
      BY <1>4, <1>5
    <2>2. ~(n < g)
      <3>1. n < g => m <= g
        BY <1>7
      <3> QED  BY <1>8, <2>1, <3>1
    <2> QED  BY <1>5, <2>1, <2>2
  <1>10. HeadingOf(chat, m) = h
    <2>1. h < m
      BY <1>3, <1>5, <1>8
    <2> QED  BY <1>4, <1>8, <1>9, <2>1, HeadingUnique
  <1>11. Section(chat, m) = "user"
    BY <1>3, <1>10 DEF Section
  <1>12. Said(chat, m)
    <2>1. n \in (h + 1)..(m - 1)
      BY <1>3, <1>5, <1>8
    <2> QED  BY <1>2, <1>10, <2>1 DEF Said, Says
  <1> QED  BY <1>1, <1>8, <1>10, <1>11, <1>12 DEF Closing

LEMMA PromptsCounted ==
  ASSUME NEW chat, Chat(chat), NEW rows, Listed(chat, Len(chat) + 2, rows)
  PROVE  Cardinality(OfKind(rows, "prompt")) = Cardinality(SeenPrompts(chat))
  <1>1. PICK L \in Nat : L = Len(chat) /\ L + 2 - 1 = L + 1
    BY ChatIs
  <1>2. /\ rows \in Seq(Records)
        /\ \A i \in 1..Len(rows) : 0 < rows[i].line /\ rows[i].line < L + 2
        /\ \A i, j \in 1..Len(rows) : i < j => rows[i].line < rows[j].line
        /\ \A m \in 1..(L + 1) :
             Closing(chat, m) <=> \E i \in 1..Len(rows) : rows[i].kind = "prompt" /\ rows[i].line = m
    <2>1. \A m : Due(chat, m, "prompt") <=> Closing(chat, m)
      BY DEF Due
    <2>2. "prompt" \in RowKinds
      BY DEF RowKinds
    <2> QED  BY <1>1, <2>1, <2>2 DEF Listed, Has
  <1>3. Len(rows) \in Nat /\ DOMAIN rows = 1..Len(rows) /\ \A i \in 1..Len(rows) : rows[i].line \in Nat
    <2>1. \A i \in 1..Len(rows) : rows[i] \in Records
      BY <1>2
    <2> QED  BY <1>2, <2>1 DEF Records
  <1> DEFINE I == OfKind(rows, "prompt")
             f == [i \in I |-> HeadingOf(chat, rows[i].line)]
  <1>4. \A i : i \in I <=> i \in 1..Len(rows) /\ rows[i].kind = "prompt"
    BY <1>3 DEF OfKind
  <1>5. IsFiniteSet(I)
    <2>1. IsFiniteSet(1..Len(rows))
      BY <1>3, FS_Interval
    <2>2. I \in SUBSET (1..Len(rows))
      BY <1>4
    <2> HIDE DEF I
    <2> QED  BY <2>1, <2>2, FS_Subset
  <1> HIDE DEF I
  <1>6. \A i \in I : /\ rows[i].line \in 1..(L + 1) /\ Closing(chat, rows[i].line)
                     /\ f[i] = HeadingOf(chat, rows[i].line)
                     /\ f[i] \in SeenPrompts(chat) /\ f[i] < rows[i].line
    <2> SUFFICES ASSUME NEW i \in I
                 PROVE  /\ rows[i].line \in 1..(L + 1) /\ Closing(chat, rows[i].line)
                        /\ HeadingOf(chat, rows[i].line) \in SeenPrompts(chat)
                        /\ HeadingOf(chat, rows[i].line) < rows[i].line
      OBVIOUS
    <2>1. PICK m : m = rows[i].line
      OBVIOUS
    <2>2. m \in 1..(L + 1) /\ i \in 1..Len(rows) /\ rows[i].kind = "prompt"
      BY <1>2, <1>3, <1>4, <2>1
    <2>3. Closing(chat, m)
      BY <1>2, <2>1, <2>2
    <2> QED  BY <1>1, <2>1, <2>2, <2>3, ClosingEnds
  <1>7. ASSUME NEW i \in I, NEW j \in I, i < j PROVE f[i] < f[j]
    <2>1. PICK m, o : m = rows[i].line /\ o = rows[j].line
      OBVIOUS
    <2>2. m \in 1..(L + 1) /\ o \in 1..(L + 1) /\ m < o
      BY <1>2, <1>4, <1>6, <1>7, <2>1
    <2>3. m \in Headings(chat)
      <3>1. m # L + 1
        BY <2>2
      <3> QED  BY <1>1, <1>6, <2>1, <3>1 DEF Closing
    <2>4. HeadingOf(chat, o) \in Nat /\ m <= HeadingOf(chat, o)
      BY <2>2, <2>3, HeadingIs
    <2>5. HeadingOf(chat, m) \in Nat /\ HeadingOf(chat, m) < m
      <3>1. HeadingOf(chat, m) \in Nat
        BY <2>2, HeadingIs
      <3> QED  BY <1>6, <2>1, <3>1
    <2>6. f[i] = HeadingOf(chat, m) /\ f[j] = HeadingOf(chat, o)
      BY <1>6, <2>1
    <2> HIDE DEF f
    <2> QED  BY <2>2, <2>4, <2>5, <2>6
  <1>8. \A i, j \in I : f[i] = f[j] => i = j
    <2> SUFFICES ASSUME NEW i \in I, NEW j \in I, f[i] = f[j], i # j PROVE FALSE
      OBVIOUS
    <2>1. i \in Nat /\ j \in Nat
      BY <1>4
    <2>2. i < j \/ j < i
      BY <2>1
    <2>3. f[i] < f[j] \/ f[j] < f[i]
      BY <1>7, <2>2
    <2>4. f[i] \in Nat
      BY <1>6, ChatIs DEF SeenPrompts
    <2> HIDE DEF f
    <2> QED  BY <2>3, <2>4
  <1>9. {f[i] : i \in I} = SeenPrompts(chat)
    <2>1. ASSUME NEW h \in SeenPrompts(chat) PROVE \E i \in I : f[i] = h
      <3>1. PICK m \in 1..(L + 1) : Closing(chat, m) /\ HeadingOf(chat, m) = h
        BY <1>1, ClosingFound
      <3>2. PICK i \in 1..Len(rows) : rows[i].kind = "prompt" /\ rows[i].line = m
        BY <1>2, <3>1
      <3> QED  BY <1>4, <1>6, <3>1, <3>2
    <2> HIDE DEF f
    <2> QED  BY <1>6, <2>1
  <1>10. Cardinality({f[i] : i \in I}) = Cardinality(I)
    <2> HIDE DEF f
    <2> QED  BY <1>5, <1>8, ImageFinite
  <1> QED  BY <1>9, <1>10 DEF I

LEMMA EnoughExtracted ==
  ASSUME NEW chat, Chat(chat), NEW rows \in Seq(Records),
         \A k \in {"edit", "exec"} : \A m : Has(rows, k, m) => m \in 1..Len(chat),
         \A k \in {"edit", "exec"} : \A m \in 1..Len(chat) : Due(chat, m, k) <=> Has(rows, k, m),
         Cardinality(OfKind(rows, "prompt")) = Cardinality(SeenPrompts(chat))
  PROVE  Extracted(chat, rows)
  <1>1. DOMAIN chat = 1..Len(chat) /\ DOMAIN rows = 1..Len(rows)
    BY ChatIs
  <1>2. \A k, m : m \in Found(rows, k) <=> Has(rows, k, m)
    BY <1>1 DEF Found, OfKind, Has
  <1>3. \A m \in DOMAIN chat : /\ Due(chat, m, "edit") <=> m \in SeenEdits(chat)
                               /\ Due(chat, m, "exec") <=> m \in SeenCommands(chat)
    BY DEF Due
  <1>4. SeenEdits(chat) \subseteq DOMAIN chat /\ SeenCommands(chat) \subseteq DOMAIN chat
    BY DEF SeenEdits, SeenCommands
  <1>5. \A m : /\ m \in Found(rows, "edit") <=> m \in SeenEdits(chat)
               /\ m \in Found(rows, "exec") <=> m \in SeenCommands(chat)
    BY <1>1, <1>2, <1>3, <1>4
  <1>6. Found(rows, "edit") = SeenEdits(chat)
    BY <1>5
  <1>7. Found(rows, "exec") = SeenCommands(chat)
    BY <1>5
  <1> QED  BY <1>6, <1>7 DEF Extracted

LEMMA ParsedRows ==
  ASSUME NEW chat, Chat(chat)
  PROVE  /\ Parse(chat) \in Seq(Records)
         /\ \A k \in {"edit", "exec"} : \A m : Has(Parse(chat), k, m) => m \in 1..Len(chat)
         /\ \A k \in {"edit", "exec"} : \A m \in 1..Len(chat) :
              Due(chat, m, k) <=> Has(Parse(chat), k, m)
         /\ Cardinality(OfKind(Parse(chat), "prompt")) = Cardinality(SeenPrompts(chat))
  <1>1. PICK L \in Nat : /\ L = Len(chat) /\ 1..L \subseteq 1..(L + 2 - 1)
                         /\ DOMAIN chat = 1..L
    BY ChatIs
  <1>2. PICK rows : rows = Parse(chat) /\ Listed(chat, L + 2, rows)
    BY <1>1, Parsed
  <1>3. Cardinality(OfKind(rows, "prompt")) = Cardinality(SeenPrompts(chat))
    BY <1>1, <1>2, PromptsCounted
  <1>4. \A k \in {"edit", "exec"} : \A m \in 1..(L + 2 - 1) : Due(chat, m, k) <=> Has(rows, k, m)
    BY <1>2 DEF Listed, RowKinds
  <1>5. \A k : \A m : Has(rows, k, m) => m \in 1..(L + 2 - 1)
    <2>1. \A i \in 1..Len(rows) : rows[i] \in Records
      BY <1>2 DEF Listed
    <2>2. \A i \in 1..Len(rows) : rows[i].line \in Nat
      BY <2>1 DEF Records
    <2>3. \A i \in 1..Len(rows) : 0 < rows[i].line /\ rows[i].line < L + 2
      BY <1>2 DEF Listed
    <2> QED  BY <2>2, <2>3 DEF Has
  <1>6. \A k \in {"edit", "exec"} : \A m : Due(chat, m, k) => m \in 1..L
    BY <1>1 DEF Due, SeenEdits, SeenCommands
  <1>7. \A k \in {"edit", "exec"} : \A m : Has(rows, k, m) => m \in 1..L
    BY <1>4, <1>5, <1>6
  <1> QED  BY <1>1, <1>2, <1>3, <1>4, <1>7 DEF Listed

(* Of a chat without a ## Human and without a fence in another language,   *)
(* however long, and however its blocks are opened and left open, the      *)
(* parser finds exactly the edits, the commands and as many prompts as a   *)
(* reader does.                                                            *)
THEOREM ParserExtracts ==
  ASSUME NEW chat \in Seq(ChatLines),
         \A n \in DOMAIN chat : chat[n].kind \notin {"human", "other"}
  PROVE  Extracted(chat, Parse(chat))
  <1>1. Chat(chat)
    BY DEF Chat, Familiar
  <1> QED  BY <1>1, ParsedRows, EnoughExtracted

-----------------------------------------------------------------------------
(* A parse that begins at a heading, next to the parse of the whole chat:  *)
(* s after a line of the chat, u after the same line, counted from h.      *)
Alike(s, u) ==
  s.sec # "none" /\ s.sec = u.sec /\ (s.said <=> u.said) /\ s.bash = u.bash

SameRows(h, rows, urows) ==
  /\ \A k, m : Has(urows, k, m) => m \in Nat /\ 1 < m
  /\ \A k : \A m \in Nat : h < m => (Has(rows, k, m) <=> Has(urows, k, m - h + 1))

Apart(h, s, u) ==
  s \in ParserStates /\ u \in ParserStates /\ Alike(s, u) /\ SameRows(h, s.rows, u.rows)

(* Both write the same.                                                    *)
BothWrite(s, t, n, u, v, m) ==
  \/ Quiet(s, t) /\ Quiet(u, v)
  \/ \E k \in RowKinds : Emits(s, t, k, n) /\ Emits(u, v, k, m)

LEMMA HasMore ==
  ASSUME NEW n \in Nat, NEW s \in ParserStates, NEW t, NEW k \in RowKinds, Emits(s, t, k, n)
  PROVE  \A x, m : Has(t.rows, x, m) <=> Has(s.rows, x, m) \/ (x = k /\ m = n)
  <1>1. PICK rows, q : rows = s.rows /\ q = t.rows
    OBVIOUS
  <1>2. rows \in Seq(Records)
    BY <1>1 DEF ParserStates
  <1>3. PICK ts \in Nat : ts = s.started + s.offset + 1
    BY DEF ParserStates
  <1>4. PICK r : r \in Records /\ r = [kind |-> k, line |-> n, ts |-> ts]
    BY <1>3 DEF Records
  <1>5. r.kind = k /\ r.line = n
    BY <1>4
  <1>6. q = Append(rows, r)
    BY <1>1, <1>3, <1>4 DEF Emits
  <1>7. PICK e \in Nat : e = Len(rows)
    BY <1>2
  <1>8. /\ Len(q) = e + 1 /\ q[e + 1] = r
        /\ \A i \in 1..e : q[i] = rows[i]
        /\ \A i \in 1..Len(q) : i \in 1..e \/ i = e + 1
    BY <1>2, <1>4, <1>6, <1>7, Appended
  <1>9. 1..e \subseteq 1..Len(q) /\ e + 1 \in 1..Len(q)
    BY <1>8
  <1>10. \A x, m : Has(q, x, m) <=> Has(rows, x, m) \/ (x = k /\ m = n)
    BY <1>5, <1>7, <1>8, <1>9 DEF Has
  <1> QED  BY <1>1, <1>10

LEMMA AlikeStep ==
  ASSUME NEW l \in ChatLines, NEW n \in Nat, NEW m \in Nat,
         NEW s \in ParserStates, NEW u \in ParserStates, Alike(s, u),
         NEW t, t = ParseLine(s, l, n), NEW v, v = ParseLine(u, l, m)
  PROVE  t \in ParserStates /\ v \in ParserStates /\ Alike(t, v) /\ BothWrite(s, t, n, u, v, m)
  <1>1. \/ l.kind = "header" \/ l.kind \in {"user", "assistant"} \/ l.kind \in OtherKinds
    BY DEF ChatLines, OtherKinds
  <1>2. /\ s.sec \in {"user", "assistant"} /\ s.sec = u.sec
        /\ s.said <=> u.said
        /\ s.bash = u.bash /\ s.bash \in {"closed", "empty", "filled"}
    BY DEF Alike, ParserStates
  <1>3. t \in ParserStates /\ v \in ParserStates
    BY LineTyped
  <1>4. CASE l.kind = "header"
    <2>1. /\ Quiet(s, t) /\ t.sec = s.sec /\ (t.said <=> s.said) /\ t.bash = s.bash
          /\ Quiet(u, v) /\ v.sec = u.sec /\ (v.said <=> u.said) /\ v.bash = u.bash
      BY <1>4, HeaderIs
    <2> QED  BY <1>2, <1>3, <2>1 DEF Alike, BothWrite
  <1>5. CASE l.kind \in {"user", "assistant"}
    <2>1. /\ t.sec = l.kind /\ ~t.said /\ t.bash = "closed"
          /\ s.sec = "user" /\ s.said => Emits(s, t, "prompt", n)
          /\ ~(s.sec = "user" /\ s.said) => Quiet(s, t)
      BY <1>5, HeadingLineIs
    <2>2. /\ v.sec = l.kind /\ ~v.said /\ v.bash = "closed"
          /\ u.sec = "user" /\ u.said => Emits(u, v, "prompt", m)
          /\ ~(u.sec = "user" /\ u.said) => Quiet(u, v)
      BY <1>5, HeadingLineIs
    <2>3. Alike(t, v)
      BY <1>5, <2>1, <2>2 DEF Alike
    <2>4. BothWrite(s, t, n, u, v, m)
      BY <1>2, <2>1, <2>2 DEF BothWrite, RowKinds
    <2> QED  BY <1>3, <2>3, <2>4
  <1>6. CASE l.kind \in OtherKinds /\ s.sec = "user"
    <2>1. /\ Quiet(s, t) /\ t.sec = "user" /\ t.bash = s.bash
          /\ t.said <=> s.said \/ l.kind # "blank"
      BY <1>6, UserLineIs
    <2>2. /\ Quiet(u, v) /\ v.sec = "user" /\ v.bash = u.bash
          /\ v.said <=> u.said \/ l.kind # "blank"
      BY <1>2, <1>6, UserLineIs
    <2> QED  BY <1>2, <1>3, <2>1, <2>2 DEF Alike, BothWrite
  <1>7. CASE l.kind \in OtherKinds /\ s.sec = "assistant"
    <2>1. u.sec = "assistant"
      BY <1>2, <1>7
    <2>2. t.sec = "assistant" /\ v.sec = "assistant" /\ (t.said <=> v.said)
      BY <1>2, <1>7, <2>1, AssistantLineIs
    <2>3. CASE l.kind \in Fences /\ s.bash = "closed"
      <3>1. Quiet(s, t) /\ t.bash = IF l.kind = "other" THEN "closed" ELSE "empty"
        BY <1>7, <2>3, AssistantLineIs
      <3>2. u.bash = "closed"
        BY <1>2, <2>3
      <3>3. Quiet(u, v) /\ v.bash = IF l.kind = "other" THEN "closed" ELSE "empty"
        BY <1>7, <2>1, <2>3, <3>2, AssistantLineIs
      <3> QED  BY <1>3, <2>2, <3>1, <3>3 DEF Alike, BothWrite
    <2>4. CASE l.kind \in Fences /\ s.bash # "closed"
      <3>1. /\ t.bash = "closed" /\ v.bash = "closed"
            /\ s.bash = "filled" => Emits(s, t, "exec", n) /\ Emits(u, v, "exec", m)
            /\ s.bash # "filled" => Quiet(s, t) /\ Quiet(u, v)
        BY <1>2, <1>7, <2>1, <2>4, AssistantLineIs
      <3> QED  BY <1>3, <2>2, <3>1 DEF Alike, BothWrite, RowKinds
    <2>5. CASE l.kind \notin Fences /\ s.bash # "closed"
      <3>1. Quiet(s, t) /\ t.bash = IF l.kind = "blank" THEN s.bash ELSE "filled"
        BY <1>7, <2>5, AssistantLineIs
      <3>2. Quiet(u, v) /\ v.bash = IF l.kind = "blank" THEN u.bash ELSE "filled"
        BY <1>2, <1>7, <2>1, <2>5, AssistantLineIs
      <3> QED  BY <1>2, <1>3, <2>2, <3>1, <3>2 DEF Alike, BothWrite
    <2>6. CASE l.kind \notin Fences /\ s.bash = "closed"
      <3>1. /\ t.bash = "closed"
            /\ l.kind = "modified" => Emits(s, t, "edit", n)
            /\ l.kind # "modified" => Quiet(s, t)
        BY <1>7, <2>6, AssistantLineIs
      <3>2. u.bash = "closed"
        BY <1>2, <2>6
      <3>3. /\ v.bash = "closed"
            /\ l.kind = "modified" => Emits(u, v, "edit", m)
            /\ l.kind # "modified" => Quiet(u, v)
        BY <1>7, <2>1, <2>6, <3>2, AssistantLineIs
      <3> QED  BY <1>3, <2>2, <3>1, <3>3 DEF Alike, BothWrite, RowKinds
    <2> QED  BY <2>3, <2>4, <2>5, <2>6
  <1> QED  BY <1>1, <1>2, <1>4, <1>5, <1>6, <1>7

LEMMA SameRowsStep ==
  ASSUME NEW h \in Nat, NEW n \in Nat, h < n,
         NEW s \in ParserStates, NEW u \in ParserStates, SameRows(h, s.rows, u.rows),
         NEW t, NEW v, BothWrite(s, t, n, u, v, n - h + 1)
  PROVE  SameRows(h, t.rows, v.rows)
  <1>1. CASE Quiet(s, t) /\ Quiet(u, v)
    BY <1>1 DEF Quiet
  <1>2. ASSUME NEW k \in RowKinds, Emits(s, t, k, n), Emits(u, v, k, n - h + 1)
        PROVE  SameRows(h, t.rows, v.rows)
    <2>1. PICK e \in Nat : e = n - h + 1 /\ 1 < e
      OBVIOUS
    <2>2. \A x, m : Has(t.rows, x, m) <=> Has(s.rows, x, m) \/ (x = k /\ m = n)
      BY <1>2, HasMore
    <2>3. \A x, m : Has(v.rows, x, m) <=> Has(u.rows, x, m) \/ (x = k /\ m = e)
      BY <1>2, <2>1, HasMore
    <2>4. \A m \in Nat : h < m => (m - h + 1 = e <=> m = n)
      BY <2>1
    <2>5. \A x, m : Has(v.rows, x, m) => m \in Nat /\ 1 < m
      BY <2>1, <2>3 DEF SameRows
    <2>6. ASSUME NEW x, NEW m \in Nat, h < m
          PROVE  Has(t.rows, x, m) <=> Has(v.rows, x, m - h + 1)
      <3>1. Has(s.rows, x, m) <=> Has(u.rows, x, m - h + 1)
        BY <2>6 DEF SameRows
      <3> QED  BY <2>2, <2>3, <2>4, <2>6, <3>1
    <2> QED  BY <2>5, <2>6 DEF SameRows
  <1> QED  BY <1>1, <1>2 DEF BothWrite

LEMMA SuffixIs ==
  ASSUME NEW chat \in Seq(ChatLines), NEW h \in 1..Len(chat)
  PROVE  LET c == SubSeq(chat, h, Len(chat))
         IN  /\ c \in Seq(ChatLines) /\ Len(c) = Len(chat) - h + 1
             /\ \A n \in h..Len(chat) : c[n - h + 1] = chat[n]
  <1>1. PICK L \in Nat : L = Len(chat)
    BY LinesAre
  <1>2. PICK c : c = SubSeq(chat, h, L)
    OBVIOUS
  <1>3. c \in Seq(ChatLines) /\ Len(c) = L - h + 1
    BY <1>1, <1>2, SubSeqProperties
  <1>4. ASSUME NEW n \in h..L PROVE c[n - h + 1] = chat[n]
    <2>1. PICK i \in 1..(L - h + 1) : i = n - h + 1 /\ h + i - 1 = n
      BY <1>1
    <2>2. c[i] = chat[h + i - 1]
      BY <1>1, <1>2, SubSeqProperties
    <2> QED  BY <2>1, <2>2
  <1> QED  BY <1>1, <1>2, <1>3, <1>4

LEMMA ApartStarts ==
  ASSUME NEW chat \in Seq(ChatLines), NEW h \in 1..Len(chat),
         chat[h].kind \in {"user", "assistant"}
  PROVE  Apart(h, After(chat)[h], ParseLine(Start, chat[h], 1))
  <1>1. /\ Len(chat) \in Nat /\ h \in Nat /\ chat[h] \in ChatLines
        /\ h \in 0..Len(chat) /\ h - 1 \in 0..Len(chat)
    BY LinesAre
  <1>2. PICK r, s, u : /\ r = After(chat)[h - 1] /\ s = After(chat)[h]
                       /\ u = ParseLine(Start, chat[h], 1)
    OBVIOUS
  <1>3. s = ParseLine(r, chat[h], h)
    BY <1>2, AfterIs
  <1>4. r \in ParserStates /\ s \in ParserStates /\ \A i \in 1..Len(s.rows) : s.rows[i].line < h + 1
    BY <1>1, <1>2, Reads DEF Reading
  <1>5. s.sec = chat[h].kind /\ ~s.said /\ s.bash = "closed"
    BY <1>1, <1>3, <1>4, HeadingLineIs
  <1>6. u \in ParserStates /\ u.sec = chat[h].kind /\ ~u.said /\ u.bash = "closed" /\ Quiet(Start, u)
    BY <1>1, <1>2, StartIs, HeadingLineIs
  <1>7. Alike(s, u)
    BY <1>5, <1>6 DEF Alike
  <1>8. u.rows = <<>>
    BY <1>6, StartIs DEF Quiet
  <1>9. \A k, m : ~Has(u.rows, k, m)
    BY <1>8 DEF Has
  <1>10. \A k : \A m \in Nat : h < m => ~Has(s.rows, k, m)
    BY <1>1, <1>4 DEF Has
  <1>11. SameRows(h, s.rows, u.rows)
    BY <1>9, <1>10 DEF SameRows
  <1> QED  BY <1>2, <1>4, <1>6, <1>7, <1>11 DEF Apart

LEMMA StaysApart ==
  ASSUME NEW chat \in Seq(ChatLines), NEW h \in 1..Len(chat),
         chat[h].kind \in {"user", "assistant"}
  PROVE  Apart(h, After(chat)[Len(chat)], After(SubSeq(chat, h, Len(chat)))[Len(chat) - h + 1])
  <1>1. PICK L \in Nat : L = Len(chat) /\ h \in Nat /\ h <= L /\ 0 < h
    BY LinesAre
  <1> DEFINE c == SubSeq(chat, h, Len(chat))
  <1>2. /\ c \in Seq(ChatLines) /\ Len(c) = L - h + 1
        /\ \A n \in h..L : c[n - h + 1] = chat[n]
    BY <1>1, SuffixIs
  <1> HIDE DEF c
  <1> DEFINE G == {j \in Nat : h + j <= L => Apart(h, After(chat)[h + j], After(c)[j + 1])}
  <1>3. 0 \in G
    <2>1. c[1] = chat[h] /\ 1 \in 1..Len(c) /\ 1 - 1 = 0 /\ 1 \in Nat
      <3>1. h \in h..L /\ h - h + 1 = 1
        BY <1>1
      <3> QED  BY <1>1, <1>2, <3>1
    <2>2. After(c)[1] = ParseLine(Start, chat[h], 1)
      <3>1. After(c)[0] = Start /\ After(c)[1] = ParseLine(After(c)[1 - 1], c[1], 1)
        BY <1>2, <2>1, AfterIs
      <3> QED  BY <2>1, <3>1
    <2>3. Apart(h, After(chat)[h], After(c)[1])
      BY <2>2, ApartStarts
    <2>4. h + 0 = h /\ 0 + 1 = 1
      BY <1>1
    <2> QED  BY <2>3, <2>4
  <1>4. \A j \in Nat : j \in G => j + 1 \in G
    <2> SUFFICES ASSUME NEW j \in Nat, j \in G, h + (j + 1) <= L
                 PROVE  Apart(h, After(chat)[h + (j + 1)], After(c)[j + 1 + 1])
      OBVIOUS
    <2>1. PICK n, m : n = h + (j + 1) /\ m = j + 1 + 1
      OBVIOUS
    <2>2. /\ n \in Nat /\ m \in Nat /\ n \in 1..L /\ n \in h..L /\ m \in 1..Len(c)
          /\ n - 1 = h + j /\ m - 1 = j + 1 /\ m = n - h + 1 /\ h < n /\ h + j <= L
      BY <1>1, <1>2, <2>1
    <2>3. PICK s, u : s = After(chat)[n - 1] /\ u = After(c)[m - 1]
      OBVIOUS
    <2>4. Apart(h, s, u)
      BY <2>2, <2>3
    <2>5. c[m] = chat[n] /\ chat[n] \in ChatLines
      BY <1>1, <1>2, <2>2, LinesAre
    <2>6. PICK t, v : t = ParseLine(s, chat[n], n) /\ v = ParseLine(u, chat[n], m)
      OBVIOUS
    <2>7. After(chat)[n] = t /\ After(c)[m] = v
      BY <1>1, <1>2, <2>2, <2>3, <2>5, <2>6, AfterIs
    <2>8. t \in ParserStates /\ v \in ParserStates /\ Alike(t, v) /\ BothWrite(s, t, n, u, v, m)
      BY <2>2, <2>4, <2>5, <2>6, AlikeStep DEF Apart
    <2>9. SameRows(h, t.rows, v.rows)
      BY <1>1, <2>2, <2>4, <2>8, SameRowsStep DEF Apart
    <2> QED  BY <2>1, <2>7, <2>8, <2>9 DEF Apart
  <1>5. L - h \in G
    <2> HIDE DEF G
    <2>1. Nat \subseteq G
      BY <1>3, <1>4, NatSetInduction
    <2> QED  BY <1>1, <2>1
  <1>6. h + (L - h) = L /\ h + (L - h) <= L
    BY <1>1
  <1> QED  BY <1>1, <1>5, <1>6 DEF c

(* Whatever the parser misreads in a section, a fence in another language  *)
(* or a ## Human included, the heading it knows next ends it: of what      *)
(* follows it finds what it finds in a chat that begins there.             *)
THEOREM FencesStayInside == \A chat \in Seq(ChatLines) : SectionsApart(chat)
  <1> SUFFICES ASSUME NEW chat \in Seq(ChatLines), NEW h \in DOMAIN chat,
                      chat[h].kind \in {"user", "assistant"}, NEW k \in RowKinds
               PROVE  {n \in Found(Parse(chat), k) : n > h}
                        = {n + h - 1 : n \in Found(Parse(SubSeq(chat, h, Len(chat))), k)}
    BY DEF SectionsApart
  <1>1. PICK L : L = Len(chat) /\ L \in Nat /\ h \in 1..L /\ h \in Nat
    BY LinesAre
  <1>2. PICK c : c = SubSeq(chat, h, Len(chat)) /\ c \in Seq(ChatLines) /\ Len(c) = L - h + 1
    BY <1>1, SuffixIs
  <1>3. PICK s, u : s = After(chat)[L] /\ u = After(c)[L - h + 1]
    OBVIOUS
  <1>4. Apart(h, s, u)
    BY <1>1, <1>2, <1>3, StaysApart
  <1>5. PICK n, m : n = L + 1 /\ m = n - h + 1
    OBVIOUS
  <1>6. n \in Nat /\ h < n /\ m \in Nat /\ m = L - h + 1 + 1
    BY <1>1, <1>5
  <1>7. PICK t, v : t = flushUser(s, n) /\ v = flushUser(u, m)
    OBVIOUS
  <1>8. Parse(chat) = t.rows /\ Parse(c) = v.rows
    BY <1>1, <1>2, <1>3, <1>5, <1>6, <1>7 DEF Parse
  <1>9. /\ s.sec = "user" /\ s.said => Emits(s, t, "prompt", n)
        /\ ~(s.sec = "user" /\ s.said) => Quiet(s, t)
    BY <1>4, <1>6, <1>7, FlushIs DEF Apart
  <1>10. /\ u.sec = "user" /\ u.said => Emits(u, v, "prompt", m)
         /\ ~(u.sec = "user" /\ u.said) => Quiet(u, v)
    BY <1>4, <1>6, <1>7, FlushIs DEF Apart
  <1>11. BothWrite(s, t, n, u, v, m)
    <2>1. s.sec = u.sec /\ (s.said <=> u.said)
      BY <1>4 DEF Apart, Alike
    <2>2. CASE s.sec = "user" /\ s.said
      <3>1. Emits(s, t, "prompt", n)
        BY <1>9, <2>2
      <3>2. u.sec = "user" /\ u.said
        BY <2>1, <2>2
      <3>3. Emits(u, v, "prompt", m)
        BY <1>10, <3>2
      <3> QED  BY <3>1, <3>3 DEF BothWrite, RowKinds
    <2>3. CASE ~(s.sec = "user" /\ s.said)
      BY <1>9, <1>10, <2>1, <2>3 DEF BothWrite
    <2> QED  BY <2>2, <2>3
  <1>12. SameRows(h, t.rows, v.rows)
    BY <1>1, <1>4, <1>5, <1>6, <1>11, SameRowsStep DEF Apart
  <1>13. /\ \A x : x \in Found(t.rows, k) <=> Has(t.rows, k, x)
         /\ \A x : x \in Found(v.rows, k) <=> Has(v.rows, k, x)
    <2>1. t.rows \in Seq(Records) /\ v.rows \in Seq(Records)
      BY <1>2, <1>8, ParseIs
    <2>2. DOMAIN t.rows = 1..Len(t.rows) /\ DOMAIN v.rows = 1..Len(v.rows)
      BY <2>1
    <2> QED  BY <2>2 DEF Found, OfKind, Has
  <1>14. \A x : Has(t.rows, k, x) => x \in Nat
    <2>1. t.rows \in Seq(Records)
      BY <1>8, ParseIs
    <2>2. \A i \in 1..Len(t.rows) : t.rows[i] \in Records
      BY <2>1
    <2> QED  BY <2>2 DEF Has, Records
  <1>15. ASSUME NEW x
         PROVE  x \in Found(t.rows, k) /\ x > h <=> \E e \in Found(v.rows, k) : x = e + h - 1
    <2>1. ASSUME x \in Found(t.rows, k), x > h
          PROVE  \E e \in Found(v.rows, k) : x = e + h - 1
      <3>1. x \in Nat /\ Has(t.rows, k, x)
        BY <1>13, <1>14, <2>1
      <3>2. Has(v.rows, k, x - h + 1)
        BY <1>1, <1>12, <2>1, <3>1 DEF SameRows
      <3>3. x = (x - h + 1) + h - 1
        BY <1>1, <3>1
      <3> QED  BY <1>13, <3>2, <3>3
    <2>2. ASSUME NEW e \in Found(v.rows, k), x = e + h - 1
          PROVE  x \in Found(t.rows, k) /\ x > h
      <3>1. e \in Nat /\ 1 < e /\ Has(v.rows, k, e)
        BY <1>12, <1>13 DEF SameRows
      <3>2. x \in Nat /\ h < x /\ x - h + 1 = e
        BY <1>1, <2>2, <3>1
      <3>3. Has(t.rows, k, x)
        BY <1>12, <3>1, <3>2 DEF SameRows
      <3> QED  BY <1>13, <3>2, <3>3
    <2> QED  BY <2>1, <2>2
  <1>16. {x \in Found(t.rows, k) : x > h} = {e + h - 1 : e \in Found(v.rows, k)}
    BY <1>15
  <1> QED  BY <1>2, <1>8, <1>16

(* The rows in the order of insertion.                                     *)
LEMMA KeptKind ==
  ASSUME NEW rows \in Seq(Records), NEW k
  PROVE  LET of == Kept(rows, OfKind(rows, k))
         IN  /\ of \in Seq(Records) /\ Len(of) \in Nat /\ DOMAIN of = 1..Len(of)
             /\ Len(of) = Cardinality(OfKind(rows, k))
             /\ \A x \in 1..Len(of) : of[x].kind = k
             /\ \A m : Has(of, k, m) <=> Has(rows, k, m)
  <1>1. PICK I : I = OfKind(rows, k)
    OBVIOUS
  <1>2. PICK n \in Nat : n = Len(rows) /\ DOMAIN rows = 1..n
    OBVIOUS
  <1>3. I \in SUBSET (1..n) /\ \A i : i \in I <=> i \in 1..n /\ rows[i].kind = k
    BY <1>1, <1>2 DEF OfKind
  <1>4. PICK c \in Nat : c = Cardinality(I)
    BY <1>3, Places
  <1>5. /\ \A i \in I : Place(I, i) \in 1..c
        /\ \A x \in 1..c : \E i \in I : Place(I, i) = x
    BY <1>3, <1>4, Places
  <1>6. PICK of : of = Kept(rows, I)
    OBVIOUS
  <1>7. of \in Seq(Records) /\ DOMAIN of = 1..c /\ \A i \in I : of[Place(I, i)] = rows[i]
    BY <1>2, <1>3, <1>4, <1>6, KeptInOrder
  <1>8. Len(of) = c
    BY <1>7
  <1>9. \A x \in 1..c : \E i \in I : of[x] = rows[i]
    BY <1>5, <1>7
  <1>10. \A x \in 1..c : of[x].kind = k
    BY <1>3, <1>9
  <1>11. ASSUME NEW m PROVE Has(of, k, m) <=> Has(rows, k, m)
    <2>1. ASSUME Has(of, k, m) PROVE Has(rows, k, m)
      <3>1. PICK x \in 1..c : of[x].kind = k /\ of[x].line = m
        BY <1>8, <2>1 DEF Has
      <3>2. PICK i \in I : of[x] = rows[i]
        BY <1>9
      <3> QED  BY <1>2, <1>3, <3>1, <3>2 DEF Has
    <2>2. ASSUME Has(rows, k, m) PROVE Has(of, k, m)
      <3>1. PICK i \in 1..n : rows[i].kind = k /\ rows[i].line = m
        BY <1>2, <2>2 DEF Has
      <3>2. i \in I
        BY <1>3, <3>1
      <3>3. Place(I, i) \in 1..c /\ of[Place(I, i)] = rows[i]
        BY <1>5, <1>7, <3>2
      <3> QED  BY <1>8, <3>1, <3>3 DEF Has
    <2> QED  BY <2>1, <2>2
  <1> QED  BY <1>1, <1>4, <1>6, <1>7, <1>8, <1>10, <1>11

LEMMA Joined ==
  ASSUME NEW a \in Seq(Records), NEW b \in Seq(Records)
  PROVE  /\ a \o b \in Seq(Records)
         /\ \A k, m : Has(a \o b, k, m) <=> Has(a, k, m) \/ Has(b, k, m)
         /\ \A k : (\A j \in 1..Len(b) : b[j].kind # k) => OfKind(a \o b, k) = OfKind(a, k)
  <1>1. PICK q : q = a \o b
    OBVIOUS
  <1>2. PICK c \in Nat, d \in Nat : c = Len(a) /\ d = Len(b)
    OBVIOUS
  <1>3. /\ q \in Seq(Records) /\ Len(q) = c + d
        /\ \A i \in 1..(c + d) : q[i] = IF i <= c THEN a[i] ELSE b[i - c]
    BY <1>1, <1>2, ConcatProperties
  <1>4. /\ \A i \in 1..c : i \in 1..(c + d) /\ q[i] = a[i]
        /\ \A j \in 1..d : c + j \in 1..(c + d) /\ q[c + j] = b[j]
        /\ \A i \in 1..(c + d) : i \in 1..c \/ \E j \in 1..d : i = c + j
    <2>1. \A i \in 1..c : i \in 1..(c + d) /\ i <= c
      OBVIOUS
    <2>2. \A j \in 1..d : c + j \in 1..(c + d) /\ ~(c + j <= c) /\ c + j - c = j
      OBVIOUS
    <2>3. ASSUME NEW i \in 1..(c + d), i \notin 1..c PROVE \E j \in 1..d : i = c + j
      <3>1. i - c \in 1..d /\ i = c + (i - c)
        BY <2>3
      <3> QED  BY <3>1
    <2> QED  BY <1>3, <2>1, <2>2, <2>3
  <1>5. ASSUME NEW k, NEW m PROVE Has(q, k, m) <=> Has(a, k, m) \/ Has(b, k, m)
    <2>1. ASSUME Has(q, k, m) PROVE Has(a, k, m) \/ Has(b, k, m)
      <3>1. PICK i \in 1..(c + d) : q[i].kind = k /\ q[i].line = m
        BY <1>3, <2>1 DEF Has
      <3>2. CASE i \in 1..c
        BY <1>2, <1>4, <3>1, <3>2 DEF Has
      <3>3. ASSUME NEW j \in 1..d, i = c + j PROVE Has(b, k, m)
        <4>1. q[i] = b[j]
          BY <1>4, <3>3
        <4> QED  BY <1>2, <3>1, <4>1 DEF Has
      <3> QED  BY <1>4, <3>2, <3>3
    <2>2. ASSUME Has(a, k, m) PROVE Has(q, k, m)
      <3>1. PICK i \in 1..c : a[i].kind = k /\ a[i].line = m
        BY <1>2, <2>2 DEF Has
      <3> QED  BY <1>3, <1>4, <3>1 DEF Has
    <2>3. ASSUME Has(b, k, m) PROVE Has(q, k, m)
      <3>1. PICK j \in 1..d : b[j].kind = k /\ b[j].line = m
        BY <1>2, <2>3 DEF Has
      <3>2. PICK i : i = c + j
        OBVIOUS
      <3>3. i \in 1..(c + d) /\ q[i] = b[j]
        BY <1>4, <3>2
      <3> QED  BY <1>3, <3>1, <3>3 DEF Has
    <2> QED  BY <2>1, <2>2, <2>3
  <1>6. ASSUME NEW k, \A j \in 1..d : b[j].kind # k
        PROVE  OfKind(q, k) = OfKind(a, k)
    <2>1. DOMAIN q = 1..(c + d) /\ DOMAIN a = 1..c
      BY <1>2, <1>3
    <2>2. ASSUME NEW i \in 1..(c + d), i \notin 1..c PROVE q[i].kind # k
      <3>1. PICK j \in 1..d : i = c + j
        BY <1>4, <2>2
      <3>2. q[i] = b[j]
        BY <1>4, <3>1
      <3> QED  BY <1>6, <3>2
    <2> QED  BY <1>4, <2>1, <2>2 DEF OfKind
  <1> QED  BY <1>1, <1>2, <1>3, <1>5, <1>6

LEMMA ChatRowsAre ==
  ASSUME NEW chat \in Seq(ChatLines)
  PROVE  ChatRows(chat) \in Seq(Records)
  <1>1. PICK rows \in Seq(Records) : rows = Parse(chat)
    BY ParseIs
  <1>2. \A k : Kept(rows, OfKind(rows, k)) \in Seq(Records)
    BY KeptKind
  <1>3. PICK p \in Seq(Records), e \in Seq(Records), x \in Seq(Records) :
          /\ p = Kept(rows, OfKind(rows, "prompt"))
          /\ e = Kept(rows, OfKind(rows, "edit"))
          /\ x = Kept(rows, OfKind(rows, "exec"))
    BY <1>2
  <1>4. ChatRows(chat) = (p \o e) \o x
    BY <1>1, <1>3 DEF ChatRows
  <1>5. (p \o e) \o x \in Seq(Records)
    BY <1>3, ConcatProperties
  <1> QED  BY <1>4, <1>5

LEMMA ChatRowsExtracted ==
  ASSUME NEW chat, Chat(chat)
  PROVE  Extracted(chat, ChatRows(chat))
  <1>1. PICK rows : rows = Parse(chat)
    OBVIOUS
  <1>2. /\ rows \in Seq(Records)
        /\ \A k \in {"edit", "exec"} : \A m : Has(rows, k, m) => m \in 1..Len(chat)
        /\ \A k \in {"edit", "exec"} : \A m \in 1..Len(chat) : Due(chat, m, k) <=> Has(rows, k, m)
        /\ Cardinality(OfKind(rows, "prompt")) = Cardinality(SeenPrompts(chat))
    BY <1>1, ParsedRows
  <1>3. PICK p, e, x : /\ p = Kept(rows, OfKind(rows, "prompt"))
                       /\ e = Kept(rows, OfKind(rows, "edit"))
                       /\ x = Kept(rows, OfKind(rows, "exec"))
    OBVIOUS
  <1>4. /\ p \in Seq(Records) /\ Len(p) \in Nat /\ DOMAIN p = 1..Len(p)
        /\ Len(p) = Cardinality(OfKind(rows, "prompt"))
        /\ \A i \in 1..Len(p) : p[i].kind = "prompt"
    BY <1>2, <1>3, KeptKind
  <1>5. /\ e \in Seq(Records) /\ \A i \in 1..Len(e) : e[i].kind = "edit"
        /\ \A m : Has(e, "edit", m) <=> Has(rows, "edit", m)
    BY <1>2, <1>3, KeptKind
  <1>6. /\ x \in Seq(Records) /\ \A i \in 1..Len(x) : x[i].kind = "exec"
        /\ \A m : Has(x, "exec", m) <=> Has(rows, "exec", m)
    BY <1>2, <1>3, KeptKind
  <1>7. PICK pe : pe = p \o e
    OBVIOUS
  <1>8. /\ pe \in Seq(Records)
        /\ \A k, m : Has(pe, k, m) <=> Has(p, k, m) \/ Has(e, k, m)
        /\ OfKind(pe, "prompt") = OfKind(p, "prompt")
    BY <1>4, <1>5, <1>7, Joined
  <1>9. PICK q : q = pe \o x
    OBVIOUS
  <1>10. /\ q \in Seq(Records)
         /\ \A k, m : Has(q, k, m) <=> Has(pe, k, m) \/ Has(x, k, m)
         /\ OfKind(q, "prompt") = OfKind(pe, "prompt")
    BY <1>6, <1>8, <1>9, Joined
  <1>11. ChatRows(chat) = q
    BY <1>1, <1>3, <1>7, <1>9 DEF ChatRows
  <1>12. \A m : /\ ~Has(p, "edit", m) /\ ~Has(p, "exec", m)
                /\ ~Has(e, "exec", m) /\ ~Has(x, "edit", m)
    BY <1>4, <1>5, <1>6 DEF Has
  <1>13. \A k \in {"edit", "exec"} : \A m : Has(q, k, m) <=> Has(rows, k, m)
    BY <1>5, <1>6, <1>8, <1>10, <1>12
  <1>14. Cardinality(OfKind(q, "prompt")) = Cardinality(OfKind(rows, "prompt"))
    <2>1. OfKind(p, "prompt") = 1..Len(p)
      BY <1>4 DEF OfKind
    <2>2. Cardinality(1..Len(p)) = Len(p)
      BY <1>4, FS_Interval
    <2> QED  BY <1>4, <1>8, <1>10, <2>1, <2>2
  <1>15. /\ \A k \in {"edit", "exec"} : \A m : Has(q, k, m) => m \in 1..Len(chat)
         /\ \A k \in {"edit", "exec"} : \A m \in 1..Len(chat) : Due(chat, m, k) <=> Has(q, k, m)
    BY <1>2, <1>13
  <1>16. Cardinality(OfKind(q, "prompt")) = Cardinality(SeenPrompts(chat))
    BY <1>2, <1>14
  <1> QED  BY <1>10, <1>11, <1>15, <1>16, EnoughExtracted

LEMMA InItself ==
  ASSUME NEW S, NEW q \in Seq(S)
  PROVE  q \in Seq(ToSet(q))
  <1>1. PICK n \in Nat : n = Len(q) /\ DOMAIN q = 1..n /\ q = [i \in 1..n |-> q[i]]
    OBVIOUS
  <1>2. \A i \in 1..n : q[i] \in ToSet(q)
    BY <1>1 DEF ToSet
  <1>3. q \in [1..n -> ToSet(q)]
    BY <1>1, <1>2
  <1> QED  BY <1>1, <1>3

(* Whatever a log holds, it is turned into a sequence of rows.             *)
LEMMA RowsAreSequences == \A l \in Logs : RowsOf[l] \in Seq(ToSet(RowsOf[l]))
  <1> SUFFICES ASSUME NEW l \in Logs PROVE \E S : RowsOf[l] \in Seq(S)
    BY InItself
  <1>1. CASE l.tool = "cursor" /\ l.events \in Seq(ToSet(l.events))
    <2>1. PICK I \in SUBSET DOMAIN l.events : CursorRows(l) = Kept(l.events, I)
      BY DEF CursorRows
    <2>2. CursorRows(l) \in Seq(ToSet(l.events))
      BY <1>1, <2>1, KeptInOrder
    <2>3. RowsOf[l] = CursorRows(l)
      BY <1>1 DEF RowsOf
    <2> QED  BY <2>2, <2>3
  <1>2. CASE /\ l.tool = "codex" /\ l.patches \in Seq(ToSet(l.patches))
             /\ l.executions \in Seq(ToSet(l.executions))
    <2>1. PICK p, x, S : p = l.patches /\ x = l.executions /\ S = ToSet(l.patches) \union ToSet(l.executions)
      OBVIOUS
    <2>2. p \in Seq(S) /\ x \in Seq(S)
      <3>1. \A A, B : \A q \in Seq(A) : q \in Seq(A \union B)
        OBVIOUS
      <3> QED  BY <1>2, <2>1, <3>1
    <2>3. p \o x \in Seq(S)
      BY <2>2, ConcatProperties
    <2>4. RowsOf[l] = p \o x
      BY <1>2, <2>1 DEF RowsOf, CodexRows
    <2> QED  BY <2>3, <2>4
  <1>3. CASE l.tool = "aider" /\ l.lines \in Seq(ChatLines)
    <2>1. RowsOf[l] = ChatRows(l.lines)
      BY <1>3 DEF RowsOf
    <2> QED  BY <1>3, <2>1, ChatRowsAre
  <1> QED  BY <1>1, <1>2, <1>3, ImportAssumption

-----------------------------------------------------------------------------
(* The rows stored are a prefix of the rows of the log.                    *)
Prefix(q, s) ==
  /\ q \in Seq(ToSet(s)) /\ Len(q) <= Len(s)
  /\ \A i \in 1..Len(q) : q[i] = s[i]

LEMMA PrefixGrows ==
  ASSUME NEW s, s \in Seq(ToSet(s)), NEW q, Prefix(q, s), Len(q) + 1 <= Len(s)
  PROVE  /\ Prefix(Append(q, s[Len(q) + 1]), s)
         /\ Len(Append(q, s[Len(q) + 1])) = Len(q) + 1
         /\ Append(q, s[Len(q) + 1]) # <<>>
  <1> DEFINE e == s[Len(q) + 1]
  <1>1. Len(q) \in Nat /\ Len(s) \in Nat /\ q \in Seq(ToSet(s))
    BY LenProperties DEF Prefix
  <1>2. e \in ToSet(s)
    BY <1>1, ElementOfSeq
  <1>3. /\ Append(q, e) \in Seq(ToSet(s)) /\ Append(q, e) # <<>>
        /\ Len(Append(q, e)) = Len(q) + 1
        /\ \A i \in 1..Len(q) : Append(q, e)[i] = q[i]
        /\ Append(q, e)[Len(q) + 1] = e
    BY <1>1, <1>2, AppendProperties
  <1> HIDE DEF e
  <1>4. ASSUME NEW i \in 1..(Len(q) + 1)
        PROVE  Append(q, e)[i] = s[i]
    <2>1. CASE i = Len(q) + 1
      BY <1>3, <2>1 DEF e
    <2>2. CASE i \in 1..Len(q)
      BY <1>3, <2>2 DEF Prefix
    <2> QED  BY <1>1, <2>1, <2>2
  <1>5. Prefix(Append(q, e), s)
    BY <1>3, <1>4 DEF Prefix
  <1> QED  BY <1>3, <1>5 DEF e

LEMMA PrefixIsCut ==
  ASSUME NEW s, s \in Seq(ToSet(s)), NEW q, Prefix(q, s)
  PROVE  q = SubSeq(s, 1, Len(q)) /\ (Len(q) = Len(s) => q = s)
  <1>1. Len(q) \in Nat /\ Len(s) \in Nat /\ q \in Seq(ToSet(s))
    BY LenProperties DEF Prefix
  <1>2. \A i \in 1..Len(q) : s[i] \in ToSet(s)
    BY <1>1, ElementOfSeq DEF Prefix
  <1> DEFINE cut == SubSeq(s, 1, Len(q))
  <1>3. /\ cut \in Seq(ToSet(s))
        /\ Len(cut) = IF 1 <= Len(q) THEN Len(q) - 1 + 1 ELSE 0
        /\ \A i \in 1..(Len(q) - 1 + 1) : cut[i] = s[1 + i - 1]
    BY <1>1, <1>2, SubSeqProperties
  <1> HIDE DEF cut
  <1>4. Len(cut) = Len(q)
    BY <1>1, <1>3
  <1>5. \A i \in 1..Len(q) : q[i] = cut[i]
    BY <1>1, <1>3 DEF Prefix
  <1>6. q = cut
    BY <1>1, <1>3, <1>4, <1>5, SeqEqual
  <1>7. Len(q) = Len(s) => q = s
    BY <1>1, SeqEqual DEF Prefix
  <1> QED  BY <1>6, <1>7 DEF cut

-----------------------------------------------------------------------------
(* The invariant of the imports: how far an import has come is what it has *)
(* stored, and a session belongs to the import that inserted it.           *)
States == Running \union {"idle", "ok", "skipped", "failed"}

ImportTyped ==
  /\ state \in [Imports -> States]
  /\ log \in [Imports -> SUBSET Logs]
  /\ next \in [Imports -> Nat]
  /\ stored = [p \in Imports |-> stored[p]]
  /\ said = [p \in Imports |-> said[p]]

Holds(p) == \E l \in log[p] : [id |-> SessionOf(l), by |-> p] \in sessions

Faithful(p) ==
  /\ \A l, k \in log[p] : l = k
  /\ state[p] = "idle" => log[p] = {}
  /\ Len(stored[p]) = next[p] - 1
  /\ \A l \in log[p] : Prefix(stored[p], RowsOf[l])
  /\ state[p] \in {"idle", "session", "skipped"} => stored[p] = <<>>
  /\ state[p] \in {"rows", "ok"} \/ stored[p] # <<>> => Holds(p)
  /\ state[p] = "ok" => \A l \in log[p] : /\ next[p] = Len(RowsOf[l]) + 1
                                          /\ said[p] = NumberOfEdits(RowsOf[l])
  /\ state[p] = "skipped" => \A l \in log[p] : \E r \in sessions : r.id = SessionOf(l) /\ r.by # p
  /\ said[p] # -1 => state[p] \in {"ok", "skipped"}

SessionsOwned ==
  /\ \A r, q \in sessions : r.id = q.id => r = q
  /\ \A r \in sessions : /\ r.by \in Imports
                         /\ state[r.by] \in {"rows", "ok", "failed"}
                         /\ \A l \in log[r.by] : SessionOf(l) = r.id

ImportInv == ImportTyped /\ SessionsOwned /\ \A p \in Imports : Faithful(p)

LEMMA ImportInitInv == ImportInit => ImportInv
  BY DEF ImportInit, ImportInv, ImportTyped, States, Running, SessionsOwned, Faithful,
     Prefix, Holds

(* An import that does not move keeps what it has.                         *)
LEMMA OthersFaithful ==
  ASSUME NEW p \in Imports, Faithful(p), sessions \subseteq sessions',
         state'[p] = state[p], log'[p] = log[p], next'[p] = next[p],
         stored'[p] = stored[p], said'[p] = said[p]
  PROVE  Faithful(p)'
  BY DEF Faithful, Holds

(* One step of import p, whose own invariant is left to show.              *)
LEMMA StepOwnImport ==
  ASSUME ImportInv, NEW p \in Imports, ImportStep(p)
  PROVE  ImportTyped' /\ SessionsOwned' /\ Faithful(p)'
  <1> USE DEF ImportInv, ImportTyped
  <1>1. ASSUME NEW l \in Logs, StartImport(p, l)
        PROVE  ImportTyped' /\ SessionsOwned' /\ Faithful(p)'
    <2>1. state[p] = "idle" /\ stored[p] = <<>>
      BY <1>1 DEF StartImport, Faithful
    <2>2. Prefix(<<>>, RowsOf[l])
      BY EmptySeq, RowsAreSequences, LenProperties DEF Prefix
    <2>3. ImportTyped' /\ SessionsOwned'
      BY <1>1, <2>1 DEF StartImport, States, Running, SessionsOwned
    <2> QED  BY <1>1, <2>1, <2>2, <2>3 DEF StartImport, Faithful, Holds
  <1>2. ASSUME NEW l \in log[p], InsertSession(p, l), Taken(SessionOf(l))
        PROVE  ImportTyped' /\ SessionsOwned' /\ Faithful(p)'
    <2>1. PICK r \in sessions : r.id = SessionOf(l)
      BY <1>2 DEF Taken
    <2>2. r.by # p /\ state[p] = "session"
      BY <1>2, <2>1 DEF InsertSession, SessionsOwned
    <2>3. /\ state' = [state EXCEPT ![p] = "skipped"] /\ said' = [said EXCEPT ![p] = 0]
          /\ UNCHANGED <<sessions, stored, log, next>>
      BY <1>2 DEF InsertSession
    <2>4. ImportTyped' /\ SessionsOwned'
      BY <2>2, <2>3 DEF States, Running, SessionsOwned
    <2> QED  BY <2>1, <2>2, <2>3, <2>4 DEF Faithful, Holds
  <1>3. ASSUME NEW l \in log[p], InsertSession(p, l), ~Taken(SessionOf(l))
        PROVE  ImportTyped' /\ SessionsOwned' /\ Faithful(p)'
    <2> DEFINE r == [id |-> SessionOf(l), by |-> p]
    <2>1. /\ state[p] = "session" /\ state' = [state EXCEPT ![p] = "rows"]
          /\ sessions' = sessions \union {r}
          /\ UNCHANGED <<stored, log, next, said>>
      BY <1>3 DEF InsertSession
    <2>2. \A q \in sessions : q.id # r.id
      BY <1>3 DEF Taken
    <2>3. \A k \in log[p] : k = l
      BY DEF Faithful
    <2>4. ImportTyped'
      BY <2>1 DEF States, Running
    <2>5. SessionsOwned'
      BY <2>1, <2>2, <2>3 DEF SessionsOwned
    <2> QED  BY <2>1, <2>3, <2>4, <2>5 DEF Faithful, Holds
  <1>4. ASSUME NEW l \in log[p], InsertRow(p, l)
        PROVE  ImportTyped' /\ SessionsOwned' /\ Faithful(p)'
    <2> DEFINE grown == Append(stored[p], RowsOf[l][next[p]])
    <2>1. /\ state[p] = "rows" /\ next[p] <= Len(RowsOf[l])
          /\ stored' = [stored EXCEPT ![p] = grown] /\ next' = [next EXCEPT ![p] = @ + 1]
          /\ UNCHANGED <<sessions, state, log, said>>
      BY <1>4 DEF InsertRow
    <2>2. /\ \A k \in log[p] : k = l
          /\ Len(stored[p]) = next[p] - 1 /\ Prefix(stored[p], RowsOf[l])
          /\ Holds(p) /\ said[p] = -1
      BY <2>1 DEF Faithful
    <2>3. RowsOf[l] \in Seq(ToSet(RowsOf[l]))
      BY RowsAreSequences
    <2>4. Len(stored[p]) + 1 = next[p]
      BY <2>2
    <2>5. Prefix(grown, RowsOf[l]) /\ Len(grown) = next[p] /\ grown # <<>>
      BY <2>1, <2>2, <2>3, <2>4, PrefixGrows
    <2> HIDE DEF grown
    <2>6. ImportTyped'
      <3>1. stored' = [q \in Imports |-> IF q = p THEN grown ELSE stored[q]]
        BY <2>1
      <3>2. next' \in [Imports -> Nat]
        BY <2>1
      <3> QED  BY <2>1, <3>1, <3>2
    <2>7. SessionsOwned'
      BY <2>1 DEF SessionsOwned
    <2>8. stored'[p] = grown /\ next'[p] = next[p] + 1
      BY <2>1
    <2> QED  BY <2>1, <2>2, <2>5, <2>6, <2>7, <2>8 DEF Faithful, Holds
  <1>5. ASSUME NEW l \in log[p], Announce(p, l)
        PROVE  ImportTyped' /\ SessionsOwned' /\ Faithful(p)'
    <2>1. \A k \in log[p] : k = l
      BY DEF Faithful
    <2>2. ImportTyped' /\ SessionsOwned'
      BY <1>5 DEF Announce, States, Running, SessionsOwned
    <2> QED  BY <1>5, <2>1, <2>2 DEF Announce, Faithful, Holds
  <1>6. CASE Fail(p)
    <2>1. said[p] = -1
      BY <1>6 DEF Fail, Running, Faithful
    <2>2. ImportTyped'
      BY <1>6 DEF Fail, States, Running
    <2>3. \A r \in sessions : r.by = p => state[p] = "rows"
      BY <1>6 DEF Fail, Running, SessionsOwned
    <2>4. SessionsOwned'
      BY <1>6, <2>3 DEF Fail, SessionsOwned
    <2> QED  BY <1>6, <2>1, <2>2, <2>4 DEF Fail, Running, Faithful, Holds
  <1> QED  BY <1>1, <1>2, <1>3, <1>4, <1>5, <1>6 DEF ImportStep

LEMMA StepImport ==
  ASSUME ImportInv, [ImportNext]_importVars
  PROVE  ImportInv'
  <1>1. CASE UNCHANGED importVars
    BY <1>1 DEF importVars, ImportInv, ImportTyped, SessionsOwned, Faithful, Holds
  <1>2. ASSUME NEW p \in Imports, ImportStep(p)
        PROVE  ImportInv'
    <2>1. ImportTyped' /\ SessionsOwned' /\ Faithful(p)'
      BY <1>2, StepOwnImport
    <2>2. ASSUME NEW q \in Imports, q # p
          PROVE  Faithful(q)'
      <3>1. /\ sessions \subseteq sessions'
            /\ state'[q] = state[q] /\ log'[q] = log[q] /\ next'[q] = next[q]
            /\ stored'[q] = stored[q] /\ said'[q] = said[q]
        BY <1>2, <2>2 DEF ImportInv, ImportTyped, ImportStep, StartImport, InsertSession,
           InsertRow, Announce, Fail
      <3> QED  BY <3>1, OthersFaithful DEF ImportInv
    <2> QED  BY <2>1, <2>2 DEF ImportInv
  <1> QED  BY <1>1, <1>2 DEF ImportNext

(* To the imports, hooks and the export are no step.                       *)
LEMMA ImportsAlone == [Next]_vars => [ImportNext]_importVars
  BY DEF Next, HookWrites, ExportStep, StartExport, ListSessions, ReadPrompts, ReadEdits,
     ReadExecutions, ExportFails, TruncateFile, WriteFile, vars

LEMMA ImportInvariant == Spec => []ImportInv
  <1>1. Init => ImportInv
    BY ImportInitInv DEF Init
  <1>2. ImportInv /\ [Next]_vars => ImportInv'
    BY StepImport, ImportsAlone
  <1> QED  BY <1>1, <1>2, PTL DEF Spec

(* An import that is through has stored all of its log.                    *)
LEMMA DoneIsComplete ==
  ASSUME ImportInv, NEW p \in Imports, state[p] = "ok", NEW l \in log[p]
  PROVE  stored[p] = RowsOf[l]
  <1>1. /\ Prefix(stored[p], RowsOf[l]) /\ next[p] = Len(RowsOf[l]) + 1
        /\ Len(stored[p]) = next[p] - 1 /\ l \in Logs
    BY DEF ImportInv, ImportTyped, Faithful
  <1>2. RowsOf[l] \in Seq(ToSet(RowsOf[l]))
    BY <1>1, RowsAreSequences
  <1>3. Len(stored[p]) = Len(RowsOf[l])
    BY <1>1, <1>2, LenProperties
  <1> QED  BY <1>1, <1>2, <1>3, PrefixIsCut

(* The rows of a session come from one import of one log, in its order.    *)
THEOREM RowsHaveOneImport == Spec => []OneImportPerSession
  <1>1. ASSUME ImportInv
        PROVE  OneImportPerSession
    <2>1. ASSUME NEW p \in Imports, stored[p] # <<>>
          PROVE  \E l \in log[p] : /\ [id |-> SessionOf(l), by |-> p] \in sessions
                                   /\ stored[p] = SubSeq(RowsOf[l], 1, Len(stored[p]))
      <3>1. PICK l \in log[p] : [id |-> SessionOf(l), by |-> p] \in sessions
        BY <1>1, <2>1 DEF ImportInv, Faithful, Holds
      <3>2. RowsOf[l] \in Seq(ToSet(RowsOf[l])) /\ Prefix(stored[p], RowsOf[l])
        BY <1>1, RowsAreSequences DEF ImportInv, ImportTyped, Faithful
      <3> QED  BY <3>1, <3>2, PrefixIsCut
    <2> QED  BY <1>1, <2>1 DEF OneImportPerSession, ImportInv, SessionsOwned
  <1> QED  BY <1>1, ImportInvariant, PTL

(* What an import says it imported is in the trace.                        *)
THEOREM AnnouncementsTrue == Spec => []AnnouncedIsStored
  <1>1. ASSUME ImportInv
        PROVE  AnnouncedIsStored
    <2>1. ASSUME NEW p \in Imports, NEW l \in log[p], state[p] = "ok"
          PROVE  stored[p] = RowsOf[l] /\ said[p] = NumberOfEdits(stored[p])
      BY <1>1, <2>1, DoneIsComplete DEF ImportInv, Faithful
    <2> QED  BY <1>1, <2>1 DEF AnnouncedIsStored, ImportInv, Faithful
  <1> QED  BY <1>1, ImportInvariant, PTL

(* Whatever the parser misreads of a chat, it does not misread the         *)
(* sections that follow, nor does it mix up the order; and a chat of what  *)
(* it knows is in the trace as it said once an import of it was announced, *)
(* whatever other imports did.                                             *)
THEOREM ChatsExtracted == Spec => []ChatExtracted
  <1>1. Misread = {}
    <2>1. \A chat \in Chats : /\ SectionsApart(chat) /\ InOrder(chat, Parse(chat))
                              /\ Familiar(chat) => Extracted(chat, Parse(chat))
      BY FencesStayInside, OrderKept, ParserExtracts, ChatsAssumption DEF Familiar
    <2> QED  BY <2>1 DEF Misread
  <1>2. ASSUME ImportInv
        PROVE  ChatExtracted
    <2>1. ASSUME NEW p \in Imports, NEW l \in log[p], state[p] = "ok", l.tool = "aider",
                 Familiar(l.lines)
          PROVE  Extracted(l.lines, stored[p])
      <3>1. stored[p] = RowsOf[l] /\ l \in Logs
        BY <1>2, <2>1, DoneIsComplete DEF ImportInv, ImportTyped
      <3>2. l.lines \in Seq(ChatLines)
        BY <2>1, <3>1, ImportAssumption
      <3>3. RowsOf[l] = ChatRows(l.lines)
        BY <2>1, <3>1 DEF RowsOf
      <3>4. Chat(l.lines)
        BY <2>1, <3>2 DEF Chat
      <3> QED  BY <3>1, <3>3, <3>4, ChatRowsExtracted
    <2> QED  BY <1>1, <2>1 DEF ChatExtracted
  <1> QED  BY <1>2, ImportInvariant, PTL

(* A session with a gap is one whose import still runs, or did not end.    *)
THEOREM GapsExplained == Spec => []GapsHaveCause
  <1>1. ImportInv => GapsHaveCause
    BY DoneIsComplete DEF GapsHaveCause, ImportInv, SessionsOwned
  <1> QED  BY <1>1, ImportInvariant, PTL

(* Importing the log again never fills a gap.                              *)
THEOREM GapsNeverFilled == Spec => GapsStay
  <1> DEFINE Stay == \A r \in sessions :
        state[r.by] = "failed" =>
          /\ r \in sessions'
          /\ \A p \in Imports :
               (\E l \in log[p] : SessionOf(l) = r.id) => stored'[p] = stored[p]
  <1>1. ASSUME ImportInv, NEW p \in Imports, ImportStep(p)
        PROVE  Stay
    <2> SUFFICES ASSUME NEW r \in sessions, state[r.by] = "failed"
                 PROVE  /\ r \in sessions'
                        /\ \A q \in Imports :
                             (\E l \in log[q] : SessionOf(l) = r.id) => stored'[q] = stored[q]
      OBVIOUS
    <2>1. r \in sessions'
      BY <1>1 DEF ImportStep, StartImport, InsertSession, InsertRow, Announce, Fail
    <2>2. ASSUME NEW q \in Imports, NEW l \in log[q], SessionOf(l) = r.id
          PROVE  stored'[q] = stored[q]
      <3>1. CASE q = p
        <4>1. r.by \in Imports /\ (state[q] = "rows" => Holds(q))
          BY <1>1 DEF ImportInv, SessionsOwned, Faithful
        <4>2. \A k \in log[q] : k = l
          BY <1>1 DEF ImportInv, Faithful
        <4>3. state[q] # "rows"
          <5>1. SUFFICES ASSUME state[q] = "rows"
                         PROVE  FALSE
            OBVIOUS
          <5>2. [id |-> SessionOf(l), by |-> q] \in sessions
            BY <4>1, <4>2, <5>1 DEF Holds
          <5>3. r = [id |-> SessionOf(l), by |-> q]
            BY <1>1, <2>2, <5>2 DEF ImportInv, SessionsOwned
          <5> QED  BY <5>1, <5>3
        <4> QED
          BY <1>1, <3>1, <4>3 DEF ImportStep, StartImport, InsertSession, InsertRow, Announce, Fail
      <3>2. CASE q # p
        BY <1>1, <3>2 DEF ImportInv, ImportTyped, ImportStep, StartImport, InsertSession,
           InsertRow, Announce, Fail
      <3> QED  BY <3>1, <3>2
    <2> QED  BY <2>1, <2>2
  <1>2. ImportInv /\ [Next]_vars => [Stay]_importVars
    BY <1>1, ImportsAlone DEF ImportNext
  <1> QED  BY <1>2, ImportInvariant, PTL DEF Spec, GapsStay

-----------------------------------------------------------------------------
(* The trace under the export: rows only come.                             *)
LEMMA EmptyDomain == DOMAIN <<>> = {}
  BY EmptySeq, LenProperties

RowsIn(s) ==
  IF s = Live THEN hooked
  ELSE UNION {ToSet(stored[q.by]) : q \in {t \in sessions : t.id = s}}

LEMMA ContentsByKind ==
  ASSUME NEW s
  PROVE  /\ \A r \in Contents(s) : r.kind \in Kinds /\ r \in SessionRows(s, r.kind)
         /\ \A k \in Kinds : SessionRows(s, k) \subseteq Contents(s)
         /\ \A r : r \in Contents(s) <=> r \in RowsIn(s) /\ r.kind \in Kinds
  BY DEF Contents, SessionRows, RowsIn

LEMMA ImportedGrow ==
  ASSUME ImportInv, ImportNext
  PROVE  sessions \subseteq sessions' /\ \A p \in Imports : ToSet(stored[p]) \subseteq ToSet(stored'[p])
  <1> SUFFICES ASSUME NEW q \in Imports, ImportStep(q), NEW p \in Imports
               PROVE  sessions \subseteq sessions' /\ ToSet(stored[p]) \subseteq ToSet(stored'[p])
    BY DEF ImportNext, ImportStep, StartImport, InsertSession, InsertRow, Announce, Fail
  <1>1. sessions \subseteq sessions'
    BY DEF ImportStep, StartImport, InsertSession, InsertRow, Announce, Fail
  <1>2. ASSUME NEW l \in log[q], InsertRow(q, l), p = q
        PROVE  ToSet(stored[p]) \subseteq ToSet(stored'[p])
    <2>1. /\ Prefix(stored[p], RowsOf[l]) /\ Len(stored[p]) = next[p] - 1 /\ next[p] \in Nat
          /\ RowsOf[l] \in Seq(ToSet(RowsOf[l])) /\ next[p] <= Len(RowsOf[l])
      BY <1>2, RowsAreSequences DEF ImportInv, ImportTyped, Faithful, InsertRow
    <2>2. next[p] \in 1..Len(RowsOf[l])
      BY <2>1, LenProperties DEF Prefix
    <2>3. stored'[p] = Append(stored[p], RowsOf[l][next[p]])
      BY <1>2 DEF ImportInv, ImportTyped, InsertRow
    <2>4. RowsOf[l][next[p]] \in ToSet(RowsOf[l])
      BY <2>1, <2>2, ElementOfSeq
    <2>5. stored[p] \in Seq(ToSet(RowsOf[l]))
      BY <2>1 DEF Prefix
    <2>6. /\ stored'[p] \in Seq(ToSet(RowsOf[l])) /\ Len(stored'[p]) = Len(stored[p]) + 1
          /\ \A i \in 1..Len(stored[p]) : stored'[p][i] = stored[p][i]
      BY <2>3, <2>4, <2>5, AppendProperties
    <2>7. /\ Len(stored[p]) \in Nat /\ DOMAIN stored[p] = 1..Len(stored[p])
          /\ DOMAIN stored'[p] = 1..Len(stored'[p])
      BY <2>5, <2>6, LenProperties
    <2> QED  BY <2>6, <2>7 DEF ToSet
  <1>3. CASE stored'[p] = stored[p]
    BY <1>1, <1>3
  <1>4. stored'[p] = stored[p] \/ \E l \in log[q] : InsertRow(q, l) /\ p = q
    BY DEF ImportInv, ImportTyped, ImportStep, StartImport, InsertSession, InsertRow, Announce, Fail
  <1> QED  BY <1>1, <1>2, <1>3, <1>4

LEMMA TraceGrows ==
  ASSUME ImportInv, [Next]_vars
  PROVE  SessionIds \subseteq SessionIds' /\ \A s : Contents(s) \subseteq Contents(s)'
  <1>1. /\ hooked \subseteq hooked' /\ sessions \subseteq sessions'
        /\ \A p \in Imports : ToSet(stored[p]) \subseteq ToSet(stored'[p])
    <2>1. CASE ImportNext /\ UNCHANGED exportVars
      BY <2>1, ImportedGrow DEF exportVars
    <2>2. CASE UNCHANGED importVars /\ hooked \subseteq hooked'
      BY <2>2 DEF importVars
    <2> QED
      BY <2>1, <2>2 DEF Next, HookWrites, ExportStep, StartExport, ListSessions, ReadPrompts,
         ReadEdits, ReadExecutions, ExportFails, TruncateFile, WriteFile, vars, exportVars
  <1>2. ASSUME NEW s
        PROVE  Contents(s) \subseteq Contents(s)'
    <2>1. ASSUME NEW r \in RowsIn(s)
          PROVE  r \in RowsIn(s)'
      <3>1. CASE s = Live
        BY <1>1, <2>1, <3>1 DEF RowsIn
      <3>2. CASE s # Live
        <4>1. PICK q \in sessions : q.id = s /\ r \in ToSet(stored[q.by])
          BY <2>1, <3>2 DEF RowsIn
        <4>2. q \in sessions' /\ r \in ToSet(stored'[q.by])
          BY <1>1, <4>1 DEF ImportInv, SessionsOwned
        <4> QED  BY <3>2, <4>1, <4>2 DEF RowsIn
      <3> QED  BY <3>1, <3>2
    <2> QED  BY <2>1 DEF Contents, SessionRows, RowsIn
  <1> QED  BY <1>1, <1>2 DEF SessionIds

-----------------------------------------------------------------------------
(* The document.  Of each session it holds the kinds read so far, as they  *)
(* were at a moment since the export began.                                *)
Collecting == {"prompts", "edits", "execs"}

KindsRead(s) ==
  IF s \notin left \/ xpc = "execs" THEN IF s \in left THEN {"prompt", "edit"} ELSE Kinds
  ELSE {"prompt"}

ExportInv ==
  /\ \A s \in DOMAIN doc : doc[s] \subseteq Contents(s)
  /\ \A s \in DOMAIN before : s \in SessionIds /\ before[s] \subseteq Contents(s)
  /\ \A s \in DOMAIN doc \intersect DOMAIN before :
       \A r \in before[s] : r.kind \in KindsRead(s) => r \in doc[s]
  /\ xpc \in {"idle", "sessions", "failed"} => DOMAIN doc = {} /\ left = {}
  /\ xpc \in {"prompts", "write", "close", "done"} => Current = {}
  /\ xpc \in {"write", "close", "done"} => left = {}
  /\ \A s, t \in Current : s = t
  /\ xpc \in Collecting \union {"write", "close", "done"} =>
       \A s \in DOMAIN before :
         filter = Everything \/ s \in filter => s \in left \union DOMAIN doc
  /\ xpc \in {"idle", "failed"} \/ Live \in DOMAIN before

LEMMA StepExport ==
  ASSUME ImportInv, ExportInv, [Next]_vars
  PROVE  ExportInv'
  <1>1. SessionIds \subseteq SessionIds' /\ \A s : Contents(s) \subseteq Contents(s)'
    BY TraceGrows
  <1>2. CASE UNCHANGED <<before, filter, xpc, left, doc>>
    BY <1>1, <1>2 DEF ExportInv, KindsRead, Current
  <1>3. ASSUME NEW f \in Filters, StartExport(f)
        PROVE  ExportInv'
    <2>1. /\ DOMAIN doc = {} /\ left = {}
          /\ xpc' = "sessions" /\ doc' = doc /\ left' = left
          /\ before' = [s \in SessionIds |-> Contents(s)]
      BY <1>3 DEF StartExport, ExportInv
    <2>2. Live \in SessionIds
      BY DEF SessionIds
    <2> QED  BY <1>1, <2>1, <2>2 DEF ExportInv, KindsRead, Current, Collecting
  <1>4. CASE ListSessions
    <2>1. /\ DOMAIN doc = {} /\ doc' = doc /\ before' = before /\ filter' = filter
          /\ left' = IF filter = Everything THEN SessionIds ELSE SessionIds \intersect filter
          /\ xpc' = IF left' = {} THEN "write" ELSE "prompts"
          /\ Live \in DOMAIN before
      BY <1>4 DEF ListSessions, ExportInv
    <2> QED  BY <1>1, <2>1 DEF ExportInv, KindsRead, Current, Collecting
  <1>5. ASSUME NEW s \in left, ReadPrompts(s)
        PROVE  ExportInv'
    <2>1. /\ xpc = "prompts" /\ xpc' = "edits" /\ UNCHANGED <<before, filter, left>>
          /\ DOMAIN doc' = DOMAIN doc \union {s}
          /\ \A t \in DOMAIN doc : t # s => doc'[t] = doc[t]
          /\ doc'[s] = SessionRows(s, "prompt")
      BY <1>5 DEF ReadPrompts
    <2>2. \A t \in DOMAIN doc : t \notin left
      BY <2>1 DEF ExportInv, Current
    <2>3. doc'[s] \subseteq Contents(s)
      BY <2>1, ContentsByKind DEF Kinds
    <2>4. ASSUME s \in DOMAIN before, NEW r \in before[s], r.kind = "prompt"
          PROVE  r \in doc'[s]
      BY <2>1, <2>4, ContentsByKind DEF ExportInv
    <2>5. ASSUME NEW t \in DOMAIN doc' \intersect DOMAIN before'
          PROVE  \A r \in before'[t] : r.kind \in KindsRead(t)' => r \in doc'[t]
      <3>1. CASE t = s
        BY <2>1, <2>4, <3>1 DEF KindsRead
      <3>2. CASE t # s
        BY <2>1, <2>2, <3>2 DEF KindsRead, ExportInv
      <3> QED  BY <3>1, <3>2
    <2>6. \A t \in DOMAIN doc' : doc'[t] \subseteq Contents(t)'
      BY <1>1, <2>1, <2>3 DEF ExportInv
    <2>7. \A t, u \in Current' : t = u
      BY <2>1, <2>2 DEF Current
    <2> QED  BY <1>1, <2>1, <2>5, <2>6, <2>7 DEF ExportInv, Collecting
  <1>6. ASSUME NEW s \in left, ReadEdits(s)
        PROVE  ExportInv'
    <2>1. /\ xpc = "edits" /\ xpc' = "execs" /\ UNCHANGED <<before, filter, left>>
          /\ DOMAIN doc' = DOMAIN doc /\ s \in Current
          /\ \A t \in DOMAIN doc : t # s => doc'[t] = doc[t]
          /\ doc'[s] = doc[s] \union SessionRows(s, "edit")
      BY <1>6 DEF ReadEdits, Current
    <2>2. \A t \in DOMAIN doc : t # s => t \notin left
      BY <2>1 DEF ExportInv, Current
    <2>3. doc'[s] \subseteq Contents(s)
      BY <2>1, ContentsByKind DEF ExportInv, Kinds, Current
    <2>4. ASSUME s \in DOMAIN before, NEW r \in before[s], r.kind \in {"prompt", "edit"}
          PROVE  r \in doc'[s]
      BY <2>1, <2>4, ContentsByKind DEF ExportInv, KindsRead, Current
    <2>5. ASSUME NEW t \in DOMAIN doc' \intersect DOMAIN before'
          PROVE  \A r \in before'[t] : r.kind \in KindsRead(t)' => r \in doc'[t]
      <3>1. CASE t = s
        BY <2>1, <2>4, <3>1 DEF KindsRead
      <3>2. CASE t # s
        BY <2>1, <2>2, <3>2 DEF KindsRead, ExportInv
      <3> QED  BY <3>1, <3>2
    <2>6. \A t \in DOMAIN doc' : doc'[t] \subseteq Contents(t)'
      BY <1>1, <2>1, <2>3 DEF ExportInv
    <2>7. Current' = Current
      BY <2>1 DEF Current
    <2> QED  BY <1>1, <2>1, <2>5, <2>6, <2>7 DEF ExportInv, Collecting
  <1>7. ASSUME NEW s \in left, ReadExecutions(s)
        PROVE  ExportInv'
    <2>1. /\ xpc = "execs" /\ UNCHANGED <<before, filter>> /\ left' = left \ {s}
          /\ xpc' = IF left' = {} THEN "write" ELSE "prompts"
          /\ DOMAIN doc' = DOMAIN doc /\ s \in Current
          /\ \A t \in DOMAIN doc : t # s => doc'[t] = doc[t]
          /\ doc'[s] = doc[s] \union SessionRows(s, "exec")
      BY <1>7 DEF ReadExecutions, Current
    <2>2. \A t \in DOMAIN doc : t # s => t \notin left
      BY <2>1 DEF ExportInv, Current
    <2>3. doc'[s] \subseteq Contents(s)
      BY <2>1, ContentsByKind DEF ExportInv, Kinds, Current
    <2>4. ASSUME s \in DOMAIN before, NEW r \in before[s]
          PROVE  r \in doc'[s]
      BY <2>1, <2>4, ContentsByKind DEF ExportInv, KindsRead, Current, Kinds
    <2>5. ASSUME NEW t \in DOMAIN doc' \intersect DOMAIN before'
          PROVE  \A r \in before'[t] : r.kind \in KindsRead(t)' => r \in doc'[t]
      <3>1. CASE t = s
        BY <2>1, <2>4, <3>1
      <3>2. CASE t # s
        BY <2>1, <2>2, <3>2 DEF KindsRead, ExportInv
      <3> QED  BY <3>1, <3>2
    <2>6. \A t \in DOMAIN doc' : doc'[t] \subseteq Contents(t)'
      BY <1>1, <2>1, <2>3 DEF ExportInv
    <2>7. Current' = {}
      BY <2>1, <2>2 DEF Current
    <2> QED  BY <1>1, <2>1, <2>5, <2>6, <2>7 DEF ExportInv, Collecting, Current
  <1>8. CASE ExportFails
    BY <1>8, EmptyDomain DEF ExportFails, ExportInv, Current, Collecting
  <1>9. CASE TruncateFile \/ WriteFile
    BY <1>1, <1>9 DEF TruncateFile, WriteFile, ExportInv, KindsRead, Current, Collecting
  <1> QED
    BY <1>2, <1>3, <1>4, <1>5, <1>6, <1>7, <1>8, <1>9
    DEF Next, HookWrites, ExportStep, vars, exportVars

LEMMA ExportInvariant == Spec => []ExportInv
  <1>1. Init => ExportInv
    BY EmptyDomain DEF Init, ExportInv, Current, Collecting
  <1>2. ImportInv /\ ExportInv /\ [Next]_vars => ExportInv'
    BY StepExport
  <1> QED  BY <1>1, <1>2, ImportInvariant, PTL DEF Spec

(* A document says of every session what the trace said at moments between *)
(* the beginning of the export and now.                                    *)
THEOREM DocumentsBracketed == Spec => []DocumentBracketed
  <1>1. ASSUME ExportInv
        PROVE  DocumentBracketed
    <2>1. \A s \in Exported \intersect DOMAIN before : before[s] \subseteq doc[s]
      BY <1>1, ContentsByKind DEF ExportInv, KindsRead, Exported
    <2> QED  BY <1>1, <2>1 DEF ExportInv, DocumentBracketed
  <1> QED  BY <1>1, ExportInvariant, PTL

(* Hooks store no link to a prompt that is not there.                      *)
HooksLinked ==
  /\ hooked \subseteq HookRows
  /\ \A e \in hooked : e.kind = "edit" /\ e.prompt # 0 => \E q \in hooked : q.id = e.prompt

LEMMA HooksInvariant == Spec => []HooksLinked
  <1>1. Init => HooksLinked
    BY DEF Init, HooksLinked
  <1>2. ASSUME HooksLinked, [Next]_vars
        PROVE  HooksLinked'
    <2>1. CASE hooked' = hooked
      BY <1>2, <2>1 DEF HooksLinked
    <2>2. ASSUME NEW r \in HookRows, HookWrites(r)
          PROVE  HooksLinked'
      BY <1>2, <2>2 DEF HookWrites, HooksLinked
    <2>3. hooked' = hooked \/ \E r \in HookRows : HookWrites(r)
      BY <1>2 DEF Next, ExportStep, StartExport, ListSessions, ReadPrompts, ReadEdits,
         ReadExecutions, ExportFails, TruncateFile, WriteFile, vars, exportVars
    <2> QED  BY <2>1, <2>2, <2>3
  <1> QED  BY <1>1, <1>2, PTL DEF Spec

(* A link in the document leads to a prompt in it, or to one stored while  *)
(* the export ran.                                                         *)
THEOREM DocumentLinksLead == Spec => []LinksLead
  <1>1. ASSUME ExportInv, HooksLinked
        PROVE  LinksLead
    <2> SUFFICES ASSUME Live \in DOMAIN doc,
                        NEW e \in doc[Live], e.kind = "edit", e.prompt # 0
                 PROVE  \E q \in Contents(Live) :
                          /\ q.id = e.prompt /\ q.kind = "prompt"
                          /\ q \in doc[Live] \/ q \notin before[Live]
      BY DEF LinksLead
    <2>1. e \in hooked
      BY <1>1, ContentsByKind DEF ExportInv, RowsIn
    <2>2. PICK q \in hooked : q.id = e.prompt
      BY <1>1, <2>1 DEF HooksLinked
    <2>3. q.kind = "prompt"
      BY <1>1, <2>1, <2>2, ExportAssumption DEF HooksLinked
    <2>4. q \in Contents(Live)
      BY <2>2, <2>3, ContentsByKind DEF RowsIn, Kinds
    <2>5. Live \in DOMAIN before
      BY <1>1 DEF ExportInv
    <2>6. q \in doc[Live] \/ q \notin before[Live]
      BY <1>1, <2>3, <2>5 DEF ExportInv, KindsRead, Kinds
    <2> QED  BY <2>2, <2>3, <2>4, <2>6
  <1> QED  BY <1>1, ExportInvariant, HooksInvariant, PTL

(* What the export leaves behind when it says that the file is written.    *)
FileInv ==
  /\ xpc \in {"idle", "sessions", "prompts", "edits", "execs", "write"} => file = "old"
  /\ FileWhole

THEOREM FilesWhole == Spec => []FileWhole
  <1>1. Init => FileInv
    BY DEF Init, FileInv, FileWhole
  <1>2. FileInv /\ [Next]_vars => FileInv'
    BY DEF FileInv, FileWhole, Next, HookWrites, ExportStep, StartExport, ListSessions,
       ReadPrompts, ReadEdits, ReadExecutions, ExportFails, TruncateFile, WriteFile, vars,
       exportVars
  <1>3. FileInv => FileWhole
    BY DEF FileInv
  <1> QED  BY <1>1, <1>2, <1>3, PTL DEF Spec

-----------------------------------------------------------------------------
(* The kinds of values; an import that has begun has a log, and an export  *)
(* works on sessions of the trace.                                         *)
KindInv ==
  /\ \A p \in Imports : state[p] # "idle" => log[p] # {}
  /\ left \subseteq SessionIds /\ DOMAIN doc \subseteq SessionIds
  /\ file \in {"old", "torn", "new"}

LEMMA AtMostOne ==
  ASSUME NEW S, \A s, t \in S : s = t
  PROVE  Cardinality(S) <= 1
  <1>1. CASE S = {}
    BY <1>1, FS_EmptySet
  <1>2. CASE S # {}
    <2>1. PICK s \in S : S = {s}
      BY <1>2
    <2> QED  BY <2>1, FS_Singleton
  <1> QED  BY <1>1, <1>2

LEMMA KindInvariant == Spec => []KindInv
  <1>1. Init => KindInv
    BY EmptyDomain DEF Init, ImportInit, KindInv
  <1>2. ASSUME ImportInv, KindInv, [Next]_vars
        PROVE  KindInv'
    <2>1. SessionIds \subseteq SessionIds'
      BY <1>2, TraceGrows
    <2>2. \A p \in Imports : state'[p] # "idle" => log'[p] # {}
      <3>1. CASE UNCHANGED importVars
        BY <1>2, <3>1 DEF KindInv, importVars
      <3>2. ASSUME NEW q \in Imports, ImportStep(q), NEW p \in Imports, state'[p] # "idle"
            PROVE  log'[p] # {}
        <4>1. CASE q = p
          BY <1>2, <3>2, <4>1
          DEF KindInv, ImportInv, ImportTyped, ImportStep, StartImport, InsertSession,
              InsertRow, Announce, Fail, Running
        <4>2. CASE q # p
          BY <1>2, <3>2, <4>2
          DEF KindInv, ImportInv, ImportTyped, ImportStep, StartImport, InsertSession,
              InsertRow, Announce, Fail
        <4> QED  BY <4>1, <4>2
      <3> QED  BY <1>2, <3>1, <3>2, ImportsAlone DEF ImportNext
    <2>3. left' \subseteq SessionIds' /\ DOMAIN doc' \subseteq SessionIds'
      <3>1. left' \subseteq SessionIds /\ DOMAIN doc' \subseteq SessionIds
        <4>1. CASE UNCHANGED <<left, doc>>
          BY <1>2, <4>1 DEF KindInv
        <4>2. CASE ListSessions
          BY <1>2, <4>2 DEF KindInv, ListSessions
        <4>3. ASSUME NEW s \in left, ReadPrompts(s) \/ ReadEdits(s) \/ ReadExecutions(s)
              PROVE  left' \subseteq SessionIds /\ DOMAIN doc' \subseteq SessionIds
          BY <1>2, <4>3 DEF KindInv, ReadPrompts, ReadEdits, ReadExecutions
        <4>4. CASE ExportFails
          BY <4>4, EmptyDomain DEF ExportFails
        <4> QED
          BY <1>2, <4>1, <4>2, <4>3, <4>4 DEF Next, HookWrites, ExportStep, StartExport,
             TruncateFile, WriteFile, vars, exportVars
      <3> QED  BY <2>1, <3>1
    <2>4. file' \in {"old", "torn", "new"}
      BY <1>2 DEF KindInv, Next, HookWrites, ExportStep, StartExport, ListSessions,
         ReadPrompts, ReadEdits, ReadExecutions, ExportFails, TruncateFile, WriteFile, vars,
         exportVars
    <2> QED  BY <2>2, <2>3, <2>4 DEF KindInv
  <1> QED  BY <1>1, <1>2, ImportInvariant, PTL DEF Spec

(* Imports, the trace under them and the document have values of their     *)
(* kinds; an import has a log from its start on, and one session at a time *)
(* is in work.                                                             *)
THEOREM ExportTyped == Spec => []TypeOK
  <1>1. ASSUME ImportInv, ExportInv, HooksLinked, KindInv
        PROVE  TypeOK
    <2>1. ASSUME NEW p \in Imports
          PROVE  /\ state[p] \in Running \union {"idle", "ok", "skipped", "failed"}
                 /\ log[p] \subseteq Logs /\ Cardinality(log[p]) <= 1
                 /\ state[p] = "idle" <=> log[p] = {}
                 /\ Len(stored[p]) = next[p] - 1
      <3>1. Cardinality(log[p]) <= 1
        BY <1>1, AtMostOne DEF ImportInv, Faithful
      <3> QED  BY <1>1, <3>1 DEF ImportInv, ImportTyped, Faithful, KindInv, States
    <2>2. Cardinality(Current) <= 1
      BY <1>1, AtMostOne DEF ExportInv
    <2> QED  BY <1>1, <2>1, <2>2 DEF TypeOK, HooksLinked, KindInv
  <1> QED  BY <1>1, ImportInvariant, ExportInvariant, HooksInvariant, KindInvariant, PTL
=============================================================================
