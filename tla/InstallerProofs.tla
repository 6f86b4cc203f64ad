-------------------------- MODULE InstallerProofs --------------------------
(***************************************************************************)
(* What holds of overlapping opens for every set of openers, provided all  *)
(* of them go through store.Open, which applies the schema before it       *)
(* migrates; that inits are such openers; and what holds of the settings   *)
(* they merge, for every file the user may save.                           *)
(***************************************************************************)
EXTENDS Installer, DataLemmas

AllTables == Schema \union {"meta", "intent_matches"}

(* What an opener knows of the database at each of its statements.  It     *)
(* stays true while others go on: tables and the column only come.         *)
Reached(o) ==
  /\ pc[o] \in {"meta", "version", "create"} => Schema \subseteq tables
  /\ pc[o] \in {"version", "create"} => "meta" \in tables
  /\ pc[o] \in {"set1", "check", "alter", "set2", "opened", "closed"} => AllTables \subseteq tables
  /\ pc[o] \in {"set2", "opened", "closed"} => source

(* OpenedStoreUsable is not inductive by itself: an opener trusts the      *)
(* recorded version, so what the version promises has to be there too.     *)
MigrationInv ==
  /\ TypeOK
  /\ version >= 1 => "intent_matches" \in tables
  /\ version = 2 => source
  /\ \A o \in Openers : Reached(o)

-----------------------------------------------------------------------------
LEMMA SessionsInSchema == "sessions" \in Schema
  BY DEF Schema, Statements

LEMMA InitMigrationInv == Init => MigrationInv
  <1> SUFFICES ASSUME Init PROVE MigrationInv  OBVIOUS
  <1>1. \/ tables = {} /\ version = 0
        \/ tables = Schema /\ version = 0
        \/ tables = Schema \union {"meta", "intent_matches"} /\ version \in {1, 2}
    BY DEF Init
  <1>2. source \in BOOLEAN /\ (version = 2 => source)
    <2>1. source \in BOOLEAN  BY Zenon DEF Init
    <2>2. version \in {0, 1} \/ source = TRUE  BY Zenon DEF Init
    <2> QED  BY <2>1, <2>2
  <1>3. tables \subseteq AllTables /\ (version >= 1 => "intent_matches" \in tables)
    <2>1. CASE tables = {} /\ version = 0  BY <2>1
    <2>2. CASE tables = Schema /\ version = 0  BY <2>2 DEF AllTables
    <2>3. CASE tables = Schema \union {"meta", "intent_matches"}  BY <2>3 DEF AllTables
    <2> QED  BY <1>1, <2>1, <2>2, <2>3
  <1>4. pc = [o \in Openers |-> "idle"] /\ alone = Openers  BY DEF Init
  <1>5. TypeOK  BY <1>1, <1>2, <1>3, <1>4 DEF TypeOK, Ended, AllTables
  <1>6. \A o \in Openers : Reached(o)  BY <1>4 DEF Reached
  <1> QED  BY <1>2, <1>3, <1>5, <1>6 DEF MigrationInv

(* What others do leaves what an opener knows as it is.                    *)
LEMMA OthersKeepReached ==
  ASSUME NEW q, Reached(q), pc'[q] = pc[q], tables \subseteq tables', source => source'
  PROVE  Reached(q)'
  BY DEF Reached, AllTables

(* No statement drops a table or the column.                               *)
LEMMA StoreGrows ==
  ASSUME TypeOK, [Next]_vars
  PROVE  tables \subseteq tables' /\ (source => source')
  BY DEF TypeOK, Next, Begin, Step, Close, Kill, ApplySchema, CreateMeta, ReadVersion,
         CreateIntentMatches, SetVersionOne, CheckColumn, AddColumn, SetVersionTwo,
         Busy, vars

LEMMA StepTyped ==
  ASSUME TypeOK, [Next]_vars
  PROVE  TypeOK'
  <1>1. CASE UNCHANGED vars  BY <1>1 DEF TypeOK, vars
  <1>2. ASSUME NEW o \in Openers, Begin(o) \/ Step(o) \/ Close(o) \/ Kill(o) PROVE TypeOK'
    <2>1. CASE Begin(o)
      BY <2>1 DEF TypeOK, Begin, Goto, Ended
    <2>2. CASE ApplySchema(o)
      BY <2>2 DEF TypeOK, ApplySchema, Goto, Schema
    <2>3. CASE CreateMeta(o) \/ CreateIntentMatches(o)
      BY <2>3 DEF TypeOK, CreateMeta, CreateIntentMatches, Goto
    <2>4. CASE ReadVersion(o)
      BY <2>4 DEF TypeOK, ReadVersion, Goto, Ended
    <2>5. CASE SetVersionOne(o) \/ SetVersionTwo(o)
      BY <2>5 DEF TypeOK, SetVersionOne, SetVersionTwo, Goto, Ended
    <2>6. CASE CheckColumn(o) \/ AddColumn(o)
      BY <2>6 DEF TypeOK, CheckColumn, AddColumn, Goto, Ended
    <2>7. CASE Busy(o) \/ Close(o) \/ Kill(o)
      BY <2>7 DEF TypeOK, Busy, Close, Kill, Goto, Ended
    <2> QED  BY <1>2, <2>1, <2>2, <2>3, <2>4, <2>5, <2>6, <2>7 DEF Step
  <1> QED  BY <1>1, <1>2 DEF Next

LEMMA StepMigrationInv ==
  ASSUME MigrationInv, [Next]_vars
  PROVE  MigrationInv'
  <1> USE DEF MigrationInv
  <1>1. TypeOK /\ TypeOK'  BY StepTyped
  <1>2. tables \subseteq tables' /\ (source => source')  BY StoreGrows
  <1>3. CASE UNCHANGED vars
    BY <1>1, <1>3, OthersKeepReached DEF vars
  <1>4. ASSUME NEW o \in Openers, Begin(o) \/ Step(o) \/ Close(o) \/ Kill(o) PROVE MigrationInv'
    <2>1. ASSUME NEW q \in Openers, q # o PROVE Reached(q)'
      <3>1. pc'[q] = pc[q]
        BY <1>1, <1>4, <2>1
        DEF TypeOK, Begin, Step, Close, Kill, ApplySchema, CreateMeta, ReadVersion,
            CreateIntentMatches, SetVersionOne, CheckColumn, AddColumn, SetVersionTwo,
            Busy, Goto
      <3> QED  BY <1>2, <3>1, OthersKeepReached
    <2>2. ASSUME UNCHANGED version, Reached(o)' PROVE MigrationInv'
      BY <1>1, <1>2, <2>1, <2>2
    <2> USE <1>1 DEF TypeOK, Reached, Goto
    <2>3. CASE Begin(o)  BY <2>2, <2>3 DEF Begin
    <2>4. CASE ApplySchema(o)  BY <2>2, <2>4 DEF ApplySchema
    <2>5. CASE CreateMeta(o)  BY <2>2, <2>5 DEF CreateMeta
    <2>6. CASE ReadVersion(o)
      BY <2>2, <2>6 DEF ReadVersion, AllTables
    <2>7. CASE CreateIntentMatches(o)  BY <2>2, <2>7 DEF CreateIntentMatches, AllTables
    <2>8. CASE SetVersionOne(o)
      BY <2>1, <2>8 DEF SetVersionOne, AllTables
    <2>9. CASE CheckColumn(o)
      BY <2>2, <2>9, SessionsInSchema DEF CheckColumn, AllTables
    <2>10. CASE AddColumn(o)  BY <2>2, <2>10 DEF AddColumn
    <2>11. CASE SetVersionTwo(o)
      BY <2>1, <2>11 DEF SetVersionTwo, AllTables
    <2>12. CASE Busy(o) \/ Close(o) \/ Kill(o)  BY <2>2, <2>12 DEF Busy, Close, Kill
    <2> QED  BY <1>4, <2>3, <2>4, <2>5, <2>6, <2>7, <2>8, <2>9, <2>10, <2>11, <2>12 DEF Step
  <1> QED  BY <1>3, <1>4 DEF Next

LEMMA MigrationInvariant == Spec => []MigrationInv
  <1>1. MigrationInv /\ [Next]_vars => MigrationInv'  BY StepMigrationInv
  <1> QED  BY <1>1, InitMigrationInv, PTL DEF Spec

(* A database marked as migrated has the column, however many processes    *)
(* open it at once and wherever they are killed.                           *)
THEOREM MarkedIsMigrated == Spec => []VersionTwoHasColumn
  <1>1. MigrationInv => VersionTwoHasColumn
    BY DEF MigrationInv, VersionTwoHasColumn
  <1> QED  BY <1>1, MigrationInvariant, PTL

(* Whatever store.Open returns is complete: all tables, and the column.    *)
THEOREM OpenedIsUsable == Spec => []OpenedStoreUsable
  <1>1. MigrationInv => OpenedStoreUsable
    BY DEF MigrationInv, Reached, AllTables, OpenedStoreUsable
  <1> QED  BY <1>1, MigrationInvariant, PTL

-----------------------------------------------------------------------------
(* Openers that have met nobody at the database: what such an opener has   *)
(* read is still so when it acts on it, because no other process has the   *)
(* database open, neither inside Open nor with a store it works on.        *)
LoneInv ==
  /\ TypeOK
  /\ \A o \in alone \intersect Active : Active = {o}
  /\ \A o \in alone : /\ pc[o] = "alter" => ~source
                      /\ pc[o] \in {"create", "set1"} => version = 0
                      /\ pc[o] # "failed"

LEMMA StepLoneInv ==
  ASSUME LoneInv, [Next]_vars
  PROVE  LoneInv'
  <1> USE DEF LoneInv
  <1>1. TypeOK /\ TypeOK'  BY StepTyped
  <1>2. CASE UNCHANGED vars
    BY <1>1, <1>2 DEF vars, Active
  <1>3. ASSUME NEW o \in Openers, Begin(o)
        PROVE  LoneInv'
    BY <1>1, <1>3 DEF Begin, Goto, TypeOK, Active, Ended
  <1>4. ASSUME NEW o \in Openers, Step(o) \/ Close(o) \/ Kill(o)
        PROVE  LoneInv'
    <2>1. o \in Active /\ alone' = alone
      BY <1>4 DEF Step, Close, Kill, ApplySchema, CreateMeta, ReadVersion,
         CreateIntentMatches, SetVersionOne, CheckColumn, AddColumn, SetVersionTwo,
         Busy, Active, Ended
    <2>2. \A q \in Openers : q # o => pc'[q] = pc[q]
      BY <1>1, <1>4
      DEF TypeOK, Step, Close, Kill, ApplySchema, CreateMeta, ReadVersion,
          CreateIntentMatches, SetVersionOne, CheckColumn, AddColumn, SetVersionTwo,
          Busy, Goto
    <2>3. Active' \subseteq Active
      BY <2>1, <2>2 DEF Active
    <2>4. \A q \in alone' \intersect Active' : Active' = {q}
      BY <2>1, <2>3
    <2>5. \A q \in alone : q # o => q \notin Active
      BY <2>1
    <2>6. \A q \in alone : q # o => /\ (pc[q] = "alter" => ~source)'
                                   /\ (pc[q] \in {"create", "set1"} => version = 0)'
                                   /\ (pc[q] # "failed")'
      BY <1>1, <2>2, <2>5 DEF TypeOK, Active, Ended
    <2>7. ASSUME o \in alone
          PROVE  /\ (pc[o] = "alter" => ~source)'
                 /\ (pc[o] \in {"create", "set1"} => version = 0)'
                 /\ (pc[o] # "failed")'
      <3>1. Active = {o}
        BY <2>1, <2>7
      <3> USE <1>1, <2>7 DEF TypeOK, Goto, Ended
      <3>2. CASE ApplySchema(o) \/ CreateMeta(o) \/ CreateIntentMatches(o)
        BY <3>2 DEF ApplySchema, CreateMeta, CreateIntentMatches
      <3>3. CASE ReadVersion(o)
        BY <3>1, <3>3 DEF ReadVersion
      <3>4. CASE SetVersionOne(o) \/ SetVersionTwo(o)
        BY <3>4 DEF SetVersionOne, SetVersionTwo
      <3>5. CASE CheckColumn(o) \/ AddColumn(o)
        BY <3>5 DEF CheckColumn, AddColumn
      <3>6. CASE Busy(o) \/ Close(o) \/ Kill(o)
        BY <3>1, <3>6 DEF Busy, Close, Kill
      <3> QED  BY <1>4, <3>2, <3>3, <3>4, <3>5, <3>6 DEF Step
    <2> QED  BY <1>1, <2>1, <2>4, <2>6, <2>7
  <1> QED  BY <1>2, <1>3, <1>4 DEF Next

LEMMA LoneInvariant == Spec => []LoneInv
  <1>1. Init => LoneInv
    <2>1. Init => TypeOK  BY InitMigrationInv DEF MigrationInv
    <2> QED  BY <2>1 DEF Init, LoneInv, Active, Ended
  <1>2. LoneInv /\ [Next]_vars => LoneInv'  BY StepLoneInv
  <1> QED  BY <1>1, <1>2, PTL DEF Spec

(* An open fails on a lock or on a column that is there by now only when   *)
(* another process opened the database or had it open meanwhile: what was  *)
(* killed before, and the state it left, make no open fail.                *)
THEOREM LoneOpenSucceeds == Spec => []FailsOnlyInCompany
  <1>1. LoneInv => FailsOnlyInCompany
    BY DEF LoneInv, FailsOnlyInCompany
  <1> QED  BY <1>1, LoneInvariant, PTL

(* An open that meets no process at the database never takes the schema    *)
(* version back, whatever state it finds and whatever was killed before.   *)
THEOREM LoneOpenAdvances == Spec => RegressesOnlyInCompany
  <1>1. ASSUME LoneInv, [Next]_vars, version' < version
        PROVE  \E o \in Openers \ alone : pc[o] = "set1"
    <2>1. PICK o \in Openers : SetVersionOne(o)
      BY <1>1 DEF LoneInv, TypeOK, Next, Begin, Step, Close, Kill, ApplySchema, CreateMeta,
         ReadVersion, CreateIntentMatches, CheckColumn, AddColumn, SetVersionTwo,
         Busy, vars
    <2> QED  BY <1>1, <2>1 DEF LoneInv, TypeOK, SetVersionOne
  <1>2. LoneInv /\ [Next]_vars =>
          [version' < version => \E o \in Openers \ alone : pc[o] = "set1"]_vars
    BY <1>1
  <1> QED  BY <1>2, LoneInvariant, PTL DEF Spec, RegressesOnlyInCompany

-----------------------------------------------------------------------------
(* Whatever init does with its own files, it is an opener among others.    *)
LEMMA InitsAreOpeners == InstallSpec => Spec
  <1>1. InstallInit => Init
    BY DEF InstallInit
  <1>2. [InstallNext]_allVars => [Next]_vars
    BY DEF InstallNext, allVars
  <1> QED  BY <1>1, <1>2, PTL DEF InstallSpec, Spec

(* The store is usable while an init writes its hooks and for ever after:  *)
(* no hook is installed that finds a store without tables or the column.   *)
THEOREM InstalledHooksFindStore == InstallSpec => []OpenedStoreUsable
  BY InitsAreOpeners, OpenedIsUsable, PTL

(* An init run while no process opens the trace or has it open never fails *)
(* to open it.                                                             *)
THEOREM LoneInitOpens == InstallSpec => []FailsOnlyInCompany
  BY InitsAreOpeners, LoneOpenSucceeds, PTL

-----------------------------------------------------------------------------
(* The settings.  An init is disturbed by whoever writes after it has read *)
(* the file; what it has planned is sound as long as nobody was writing    *)
(* when it read, or whoever was has finished and so disturbed it.          *)
AllHooks == [Events -> Seq(Seq(Hooks))]

SettingsTyped ==
  /\ ipc \in [Inits -> {"ignore", "append", "read", "truncate", "write", "ok",
                        "failed", "killed"}]
  /\ ignored \in BOOLEAN /\ spoilt \in BOOLEAN
  /\ settings \in [kind : {"absent", "empty", "broken", "whole"}, hooks : AllHooks]
  /\ settings.kind # "whole" => settings.hooks = NoHooks
  /\ saved \in [kind : {"absent", "empty", "broken", "whole"}, hooks : AllHooks]
  /\ plan \in [Inits -> AllHooks]
  /\ saves \in 0..MaxSaves
  /\ raced \subseteq Inits
  /\ last = {} \/ \E o \in Inits : last = {o}

(* An init that has taken a step of its own has opened and closed the      *)
(* trace.                                                                  *)
Begun == \A o \in Inits : ipc[o] # "ignore" => pc[o] = "closed"

Once(hooks) == \A e \in Events : EachOnce(hooks[e], OwnCommands(e))

Hooked(hooks, o) ==
  \A e \in Events :
    /\ hasBarqHooks(hooks[e])
    /\ o \in Forced =>
         OwnCommands(e) \subseteq {HookAt(hooks[e], s).command : s \in Slots(hooks[e])}

Planned ==
  /\ Once(settings.hooks)
  /\ \A o \in Inits : Once(plan[o])
  /\ \A o \in Inits : ipc[o] \in {"truncate", "write"} => Hooked(plan[o], o)
  /\ \A o \in last : Hooked(settings.hooks, o)
  /\ \A o \in Inits \ raced : ipc[o] = "write" => settings = File("empty", NoHooks)

SavedIn(hooks) ==
  saved.kind # "broken" /\ \A e \in Events : SameForUser(saved.hooks[e], hooks[e])

Writing == {o \in Inits : ipc[o] = "write"}

Unspoilt ==
  ~spoilt =>
    /\ Writing = {} =>
         settings = saved \/ (settings.kind = "whole" /\ SavedIn(settings.hooks))
    /\ \A o \in Inits \ raced :
         ipc[o] \in {"truncate", "write"} /\ Writing \subseteq {o} => SavedIn(plan[o])

SettingsInv == TypeOK /\ SettingsTyped /\ Begun /\ Planned /\ Unspoilt

-----------------------------------------------------------------------------
(* Hooks by their places.                                                  *)
LEMMA SlotIs ==
  ASSUME NEW g \in Seq(Seq(Hooks)), NEW s \in Slots(g)
  PROVE  /\ s = <<s[1], s[2]>>
         /\ s[1] \in DOMAIN g /\ s[2] \in DOMAIN g[s[1]]
         /\ s[1] \in Nat /\ s[2] \in Nat
         /\ HookAt(g, s) = g[s[1]][s[2]] /\ HookAt(g, s) \in Hooks
  <1>1. PICK i \in DOMAIN g : s \in {i} \X DOMAIN g[i]
    BY DEF Slots
  <1>2. g[i] \in Seq(Hooks) /\ s = <<i, s[2]>> /\ s[1] = i /\ s[2] \in DOMAIN g[i]
    BY <1>1
  <1>3. i \in Nat /\ s[2] \in Nat /\ g[i][s[2]] \in Hooks
    BY <1>2
  <1> QED  BY <1>2, <1>3 DEF HookAt

LEMMA IsSlot ==
  ASSUME NEW g, NEW i \in DOMAIN g, NEW j \in DOMAIN g[i]
  PROVE  <<i, j>> \in Slots(g) /\ HookAt(g, <<i, j>>) = g[i][j]
  <1>1. <<i, j>> \in {i} \X DOMAIN g[i]
    OBVIOUS
  <1> QED  BY <1>1 DEF Slots, HookAt

LEMMA UserSlotsIn == \A g : UserSlots(g) \subseteq Slots(g)
  BY DEF UserSlots

(* A map that preserves places, commands and order is enough.              *)
LEMMA SameCommands ==
  ASSUME NEW a \in Seq(Seq(Hooks)), NEW b \in Seq(Seq(Hooks)),
         UserSlots(b) = UserSlots(a),
         \A s \in UserSlots(a) : HookAt(b, s).command = HookAt(a, s).command
  PROVE  SameForUser(a, b)
  <1> DEFINE f == [s \in UserSlots(a) |-> s]
  <1>1. f \in [UserSlots(a) -> UserSlots(b)]
    OBVIOUS
  <1>2. \A s \in UserSlots(a) : f[s] = s
    OBVIOUS
  <1> HIDE DEF f
  <1> QED  BY <1>1, <1>2 DEF SameForUser

LEMMA SameTransitive ==
  ASSUME NEW a, NEW b, NEW c, SameForUser(a, b), SameForUser(b, c)
  PROVE  SameForUser(a, c)
  <1>1. PICK f \in [UserSlots(a) -> UserSlots(b)] :
          /\ \A t \in UserSlots(b) : \E s \in UserSlots(a) : f[s] = t
          /\ \A s \in UserSlots(a) : HookAt(b, f[s]).command = HookAt(a, s).command
          /\ \A s, t \in UserSlots(a) : Before(s, t) => Before(f[s], f[t])
    BY DEF SameForUser
  <1>2. PICK g \in [UserSlots(b) -> UserSlots(c)] :
          /\ \A t \in UserSlots(c) : \E s \in UserSlots(b) : g[s] = t
          /\ \A s \in UserSlots(b) : HookAt(c, g[s]).command = HookAt(b, s).command
          /\ \A s, t \in UserSlots(b) : Before(s, t) => Before(g[s], g[t])
    BY DEF SameForUser
  <1> DEFINE h == [s \in UserSlots(a) |-> g[f[s]]]
  <1>3. h \in [UserSlots(a) -> UserSlots(c)] /\ \A s \in UserSlots(a) : h[s] = g[f[s]] /\ f[s] \in UserSlots(b)
    OBVIOUS
  <1> HIDE DEF h
  <1>4. \A t \in UserSlots(c) : \E s \in UserSlots(a) : h[s] = t
    <2> SUFFICES ASSUME NEW t \in UserSlots(c) PROVE \E s \in UserSlots(a) : h[s] = t
      OBVIOUS
    <2>1. PICK u \in UserSlots(b) : g[u] = t
      BY <1>2
    <2>2. PICK s \in UserSlots(a) : f[s] = u
      BY <1>1
    <2> QED  BY <1>3, <2>1, <2>2
  <1>5. \A s \in UserSlots(a) : HookAt(c, h[s]).command = HookAt(a, s).command
    BY <1>1, <1>2, <1>3
  <1>6. \A s, t \in UserSlots(a) : Before(s, t) => Before(h[s], h[t])
    <2> SUFFICES ASSUME NEW s \in UserSlots(a), NEW t \in UserSlots(a), Before(s, t)
                 PROVE  Before(h[s], h[t])
      OBVIOUS
    <2>1. Before(f[s], f[t]) /\ f[s] \in UserSlots(b) /\ f[t] \in UserSlots(b)
      BY <1>1, <1>3
    <2>2. Before(g[f[s]], g[f[t]])
      BY <1>2, <2>1
    <2> QED  BY <1>3, <2>2
  <1> QED  BY <1>3, <1>4, <1>5, <1>6 DEF SameForUser

(* The hooks of two lists, one behind the other.                           *)
LEMMA SlotsOfBoth ==
  ASSUME NEW a \in Seq(Seq(Hooks)), NEW b \in Seq(Seq(Hooks))
  PROVE  /\ a \o b \in Seq(Seq(Hooks))
         /\ \A s \in Slots(a) : s \in Slots(a \o b) /\ HookAt(a \o b, s) = HookAt(a, s)
         /\ \A t \in Slots(b) : /\ <<t[1] + Len(a), t[2]>> \in Slots(a \o b)
                                /\ HookAt(a \o b, <<t[1] + Len(a), t[2]>>) = HookAt(b, t)
         /\ \A s \in Slots(a \o b) :
              \/ s \in Slots(a)
              \/ /\ <<s[1] - Len(a), s[2]>> \in Slots(b)
                 /\ HookAt(b, <<s[1] - Len(a), s[2]>>) = HookAt(a \o b, s)
                 /\ s = <<s[1], s[2]>> /\ s[1] \in Nat
  <1>1. PICK m \in Nat : m = Len(a) /\ DOMAIN a = 1..m
    OBVIOUS
  <1>2. PICK n \in Nat : n = Len(b) /\ DOMAIN b = 1..n
    OBVIOUS
  <1>3. PICK c : c = a \o b
    OBVIOUS
  <1>4. /\ c \in Seq(Seq(Hooks)) /\ DOMAIN c = 1..(m + n)
        /\ \A i \in 1..m : c[i] = a[i]
        /\ \A i \in 1..n : c[i + m] = b[i]
        /\ \A i \in 1..(m + n) : i > m => c[i] = b[i - m]
    BY <1>1, <1>2, <1>3
  <1>5. ASSUME NEW s \in Slots(a)
        PROVE  s \in Slots(c) /\ HookAt(c, s) = HookAt(a, s)
    <2>1. /\ s = <<s[1], s[2]>> /\ s[1] \in 1..m /\ s[2] \in DOMAIN a[s[1]]
          /\ HookAt(a, s) = a[s[1]][s[2]]
      BY <1>1, SlotIs
    <2>2. s[1] \in DOMAIN c /\ c[s[1]] = a[s[1]]
      BY <1>1, <1>2, <1>4, <2>1
    <2>3. <<s[1], s[2]>> \in Slots(c) /\ HookAt(c, <<s[1], s[2]>>) = c[s[1]][s[2]]
      BY <2>1, <2>2, IsSlot
    <2> QED  BY <2>1, <2>2, <2>3
  <1>6. ASSUME NEW t \in Slots(b)
        PROVE  <<t[1] + m, t[2]>> \in Slots(c) /\ HookAt(c, <<t[1] + m, t[2]>>) = HookAt(b, t)
    <2>1. /\ t = <<t[1], t[2]>> /\ t[1] \in 1..n /\ t[2] \in DOMAIN b[t[1]]
          /\ HookAt(b, t) = b[t[1]][t[2]]
      BY <1>2, SlotIs
    <2>2. t[1] + m \in DOMAIN c /\ c[t[1] + m] = b[t[1]]
      BY <1>1, <1>2, <1>4, <2>1
    <2> QED  BY <2>1, <2>2, IsSlot
  <1>7. ASSUME NEW s \in Slots(c), s \notin Slots(a)
        PROVE  /\ <<s[1] - m, s[2]>> \in Slots(b)
               /\ HookAt(b, <<s[1] - m, s[2]>>) = HookAt(c, s)
               /\ s = <<s[1], s[2]>> /\ s[1] \in Nat
    <2>1. /\ s = <<s[1], s[2]>> /\ s[1] \in 1..(m + n) /\ s[2] \in DOMAIN c[s[1]]
          /\ HookAt(c, s) = c[s[1]][s[2]]
      BY <1>4, SlotIs
    <2>2. s[1] > m
      <3>1. ASSUME ~(s[1] > m) PROVE FALSE
        <4>1. s[1] \in DOMAIN a /\ c[s[1]] = a[s[1]]
          BY <1>1, <1>2, <1>4, <2>1, <3>1
        <4>2. <<s[1], s[2]>> \in Slots(a)
          BY <2>1, <4>1, IsSlot
        <4> QED  BY <1>7, <2>1, <4>2
      <3> QED  BY <3>1
    <2>3. s[1] - m \in DOMAIN b /\ c[s[1]] = b[s[1] - m] /\ s[1] \in Nat
      BY <1>1, <1>2, <1>4, <2>1, <2>2
    <2> QED  BY <2>1, <2>3, IsSlot
  <1> QED  BY <1>1, <1>3, <1>4, <1>5, <1>6, <1>7

LEMMA ReadIs ==
  ASSUME NEW g \in Seq(Seq(Hooks))
  PROVE  /\ Read(g) \in Seq(Seq(Hooks))
         /\ Slots(Read(g)) = Slots(g)
         /\ \A s \in Slots(g) : HookAt(Read(g), s).command = HookAt(g, s).command
  <1> DEFINE plain(h) == [h EXCEPT !.plain = TRUE]
             group(i) == [j \in DOMAIN g[i] |-> plain(g[i][j])]
             r == [i \in DOMAIN g |-> group(i)]
  <1>1. Read(g) = r
    BY DEF Read
  <1>2. \A h \in Hooks : plain(h) \in Hooks /\ plain(h).command = h.command
    BY DEF Hooks
  <1> HIDE DEF plain
  <1>3. ASSUME NEW i \in DOMAIN g PROVE group(i) \in Seq(Hooks) /\ DOMAIN group(i) = DOMAIN g[i]
    <2>1. g[i] \in Seq(Hooks)
      OBVIOUS
    <2>2. \A j \in DOMAIN g[i] : g[i][j] \in Hooks
      BY <2>1
    <2>3. PICK n \in Nat : DOMAIN g[i] = 1..n
      BY <2>1
    <2> QED  BY <1>2, <2>2, <2>3
  <1>4. \A i \in DOMAIN g : \A j \in DOMAIN g[i] : r[i][j] = plain(g[i][j])
    OBVIOUS
  <1> HIDE DEF group
  <1>5. PICK n \in Nat : DOMAIN g = 1..n
    OBVIOUS
  <1>6. r \in Seq(Seq(Hooks)) /\ DOMAIN r = DOMAIN g /\ \A i \in DOMAIN g : DOMAIN r[i] = DOMAIN g[i]
    <2>1. r = [i \in 1..n |-> r[i]] /\ \A i \in DOMAIN g : r[i] = group(i)
      BY <1>5, Zenon
    <2>2. \A i \in 1..n : r[i] \in Seq(Hooks) /\ DOMAIN r[i] = DOMAIN g[i]
      BY <1>3, <1>5, <2>1
    <2>3. DOMAIN r = 1..n
      BY <1>5
    <2> HIDE DEF r
    <2>4. r \in [1..n -> Seq(Hooks)]
      BY <2>1, <2>2, <2>3
    <2>5. r \in Seq(Seq(Hooks))
      BY <2>4
    <2> QED  BY <1>5, <2>2, <2>3, <2>5
  <1> HIDE DEF r
  <1>7. Slots(r) = Slots(g)
    <2>1. ASSUME NEW s \in Slots(r) PROVE s \in Slots(g)
      <3>1. s = <<s[1], s[2]>> /\ s[1] \in DOMAIN r /\ s[2] \in DOMAIN r[s[1]]
        BY <1>6, SlotIs
      <3> QED  BY <1>6, <3>1, IsSlot
    <2>2. ASSUME NEW s \in Slots(g) PROVE s \in Slots(r)
      <3>1. s = <<s[1], s[2]>> /\ s[1] \in DOMAIN g /\ s[2] \in DOMAIN g[s[1]]
        BY SlotIs
      <3>2. s[1] \in DOMAIN r /\ s[2] \in DOMAIN r[s[1]]
        BY <1>6, <3>1
      <3> QED  BY <3>1, <3>2, IsSlot
    <2> QED  BY <2>1, <2>2
  <1>8. ASSUME NEW s \in Slots(g) PROVE HookAt(r, s).command = HookAt(g, s).command
    <2>1. /\ s[1] \in DOMAIN g /\ s[2] \in DOMAIN g[s[1]] /\ HookAt(g, s) = g[s[1]][s[2]]
          /\ HookAt(g, s) \in Hooks
      BY SlotIs
    <2>2. HookAt(r, s) = plain(g[s[1]][s[2]])
      BY <1>4, <2>1 DEF HookAt
    <2> QED  BY <1>2, <2>1, <2>2
  <1> QED  BY <1>1, <1>6, <1>7, <1>8

(* What is left without the hooks of barq-witness are the others, in order.*)
LEMMA RemovedIs ==
  ASSUME NEW g \in Seq(Seq(Hooks))
  PROVE  /\ removeBarqHooks(g) \in Seq(Seq(Hooks))
         /\ \A t \in Slots(removeBarqHooks(g)) : ~IsBarq(HookAt(removeBarqHooks(g), t))
         /\ SameForUser(g, removeBarqHooks(g))
  <1>1. PICK mine : mine = [i \in DOMAIN g |-> {j \in DOMAIN g[i] : ~IsBarq(g[i][j])}]
    OBVIOUS
  <1>2. PICK cut : cut = [i \in DOMAIN g |-> Kept(g[i], mine[i])]
    OBVIOUS
  <1>3. PICK full : full = {i \in DOMAIN cut : cut[i] # <<>>}
    OBVIOUS
  <1>4. PICK r : r = Kept(cut, full)
    OBVIOUS
  <1>5. r = removeBarqHooks(g)
    <2>1. cut = [i \in DOMAIN g |-> Kept(g[i], {j \in DOMAIN g[i] : ~IsBarq(g[i][j])})]
      BY <1>1, <1>2
    <2> QED  BY <1>3, <1>4, <2>1, Zenon DEF removeBarqHooks
  <1>6. \A i \in DOMAIN g : /\ g[i] \in Seq(Hooks) /\ mine[i] \in SUBSET DOMAIN g[i]
                            /\ cut[i] = Kept(g[i], mine[i])
    BY <1>1, <1>2
  <1>7. ASSUME NEW i \in DOMAIN g
        PROVE  /\ cut[i] \in Seq(Hooks) /\ DOMAIN cut[i] = 1..Cardinality(mine[i])
               /\ \A j \in mine[i] : cut[i][Place(mine[i], j)] = g[i][j]
               /\ \A j \in mine[i] : Place(mine[i], j) \in DOMAIN cut[i]
               /\ \A j, k \in mine[i] : j < k => Place(mine[i], j) < Place(mine[i], k)
               /\ \A k \in DOMAIN cut[i] : \E j \in mine[i] : Place(mine[i], j) = k
    <2>1. PICK n \in Nat : DOMAIN g[i] = 1..n
      BY <1>6
    <2>2. mine[i] \in SUBSET (1..n)
      BY <1>6, <2>1
    <2>3. /\ cut[i] \in Seq(Hooks) /\ DOMAIN cut[i] = 1..Cardinality(mine[i])
          /\ \A j \in mine[i] : cut[i][Place(mine[i], j)] = g[i][j]
      <3>1. PICK q, I : q = g[i] /\ I = mine[i]
        OBVIOUS
      <3>2. q \in Seq(Hooks) /\ I \in SUBSET DOMAIN q
        BY <1>6, <3>1
      <3>3. /\ Kept(q, I) \in Seq(Hooks)
            /\ DOMAIN Kept(q, I) = 1..Cardinality(I)
            /\ \A j \in I : Kept(q, I)[Place(I, j)] = q[j]
        BY <3>2, KeptInOrder
      <3>4. cut[i] = Kept(q, I)
        BY <1>6, <3>1
      <3> QED  BY <3>1, <3>3, <3>4
    <2> QED  BY <2>2, <2>3, Places
  <1>8. cut \in Seq(Seq(Hooks)) /\ DOMAIN cut = DOMAIN g
    <2>1. PICK n \in Nat : DOMAIN g = 1..n
      OBVIOUS
    <2>2. DOMAIN cut = 1..n
      BY <1>2, <2>1
    <2>3. cut = [i \in 1..n |-> cut[i]]
      BY <1>2, <2>1
    <2>4. cut \in [1..n -> Seq(Hooks)]
      BY <1>7, <2>1, <2>3
    <2> QED  BY <2>1, <2>2, <2>4
  <1>9. /\ r \in Seq(Seq(Hooks)) /\ DOMAIN r = 1..Cardinality(full)
        /\ \A i \in full : r[Place(full, i)] = cut[i]
        /\ \A i \in full : Place(full, i) \in DOMAIN r
        /\ \A i, k \in full : i < k => Place(full, i) < Place(full, k)
        /\ \A k \in DOMAIN r : \E i \in full : Place(full, i) = k
    <2>1. PICK n \in Nat : DOMAIN cut = 1..n
      BY <1>8
    <2>2. full \in SUBSET DOMAIN cut /\ full \in SUBSET (1..n)
      BY <1>3, <2>1
    <2>3. /\ r \in Seq(Seq(Hooks)) /\ DOMAIN r = 1..Cardinality(full)
          /\ \A i \in full : r[Place(full, i)] = cut[i]
      BY <1>4, <1>8, <2>2, KeptInOrder
    <2> QED  BY <2>2, <2>3, Places
  <1>10. \A i \in DOMAIN g : \A j \in mine[i] : i \in full
    <2> SUFFICES ASSUME NEW i \in DOMAIN g, NEW j \in mine[i] PROVE cut[i] # <<>>
      BY <1>3, <1>8
    <2>1. Place(mine[i], j) \in DOMAIN cut[i]
      BY <1>7
    <2> QED  BY <2>1
  <1>11. full \subseteq DOMAIN g
    BY <1>3, <1>8
  <1>12. \A s \in UserSlots(g) :
           /\ s = <<s[1], s[2]>> /\ s[1] \in DOMAIN g /\ s[2] \in mine[s[1]] /\ s[1] \in full
           /\ HookAt(g, s) = g[s[1]][s[2]] /\ ~IsBarq(HookAt(g, s))
           /\ s[1] \in Nat /\ s[2] \in Nat
    <2> SUFFICES ASSUME NEW s \in UserSlots(g)
                 PROVE  /\ s = <<s[1], s[2]>> /\ s[1] \in DOMAIN g /\ s[2] \in mine[s[1]]
                        /\ s[1] \in full
                        /\ HookAt(g, s) = g[s[1]][s[2]] /\ ~IsBarq(HookAt(g, s))
                        /\ s[1] \in Nat /\ s[2] \in Nat
      OBVIOUS
    <2>1. s \in Slots(g) /\ ~IsBarq(HookAt(g, s))
      BY DEF UserSlots
    <2>2. /\ s = <<s[1], s[2]>> /\ s[1] \in DOMAIN g /\ s[2] \in DOMAIN g[s[1]]
          /\ HookAt(g, s) = g[s[1]][s[2]] /\ s[1] \in Nat /\ s[2] \in Nat
      BY <2>1, SlotIs
    <2>3. s[2] \in mine[s[1]]
      BY <1>1, <2>1, <2>2
    <2> QED  BY <1>10, <2>1, <2>2, <2>3
  <1> DEFINE f == [s \in UserSlots(g) |-> <<Place(full, s[1]), Place(mine[s[1]], s[2])>>]
  <1>13. \A s \in UserSlots(g) : f[s] = <<Place(full, s[1]), Place(mine[s[1]], s[2])>>
    OBVIOUS
  <1>14. DOMAIN f = UserSlots(g) /\ f = [s \in UserSlots(g) |-> f[s]]
    OBVIOUS
  <1> HIDE DEF f
  <1>15. \A s \in UserSlots(g) : f[s] \in UserSlots(r) /\ HookAt(r, f[s]) = HookAt(g, s)
    <2> SUFFICES ASSUME NEW s \in UserSlots(g)
                 PROVE  f[s] \in UserSlots(r) /\ HookAt(r, f[s]) = HookAt(g, s)
      OBVIOUS
    <2>1. PICK i, j : i = Place(full, s[1]) /\ j = Place(mine[s[1]], s[2])
      OBVIOUS
    <2>2. i \in DOMAIN r /\ r[i] = cut[s[1]] /\ j \in DOMAIN cut[s[1]] /\ cut[s[1]][j] = g[s[1]][s[2]]
      BY <1>7, <1>9, <1>12, <2>1
    <2>3. <<i, j>> \in Slots(r) /\ HookAt(r, <<i, j>>) = HookAt(g, s)
      BY <1>12, <2>2, IsSlot
    <2>4. f[s] = <<i, j>>
      BY <1>13, <2>1
    <2> QED  BY <1>12, <2>3, <2>4 DEF UserSlots
  <1>16. \A t \in Slots(r) : \E s \in UserSlots(g) : f[s] = t
    <2> SUFFICES ASSUME NEW t \in Slots(r) PROVE \E s \in UserSlots(g) : f[s] = t
      OBVIOUS
    <2>1. t = <<t[1], t[2]>> /\ t[1] \in DOMAIN r /\ t[2] \in DOMAIN r[t[1]]
      BY <1>9, SlotIs
    <2>2. PICK i \in full : Place(full, i) = t[1]
      BY <1>9, <2>1
    <2>3. i \in DOMAIN g /\ r[t[1]] = cut[i]
      BY <1>9, <1>11, <2>2
    <2>4. PICK j \in mine[i] : Place(mine[i], j) = t[2]
      BY <1>7, <2>1, <2>3
    <2>5. j \in DOMAIN g[i] /\ ~IsBarq(g[i][j])
      BY <1>1, <2>3
    <2>6. <<i, j>> \in UserSlots(g)
      BY <2>3, <2>5, IsSlot DEF UserSlots
    <2>7. f[<<i, j>>] = t
      BY <1>13, <2>1, <2>2, <2>4, <2>6
    <2> QED  BY <2>6, <2>7
  <1>17. \A s, t \in UserSlots(g) : Before(s, t) => Before(f[s], f[t])
    <2> SUFFICES ASSUME NEW s \in UserSlots(g), NEW t \in UserSlots(g), Before(s, t)
                 PROVE  Before(f[s], f[t])
      OBVIOUS
    <2>1. s[1] \in full /\ t[1] \in full /\ s[1] \in DOMAIN g /\ t[1] \in DOMAIN g
      BY <1>12
    <2>2. CASE s[1] < t[1]
      <3>1. Place(full, s[1]) < Place(full, t[1])
        BY <1>9, <2>1, <2>2
      <3> QED  BY <1>13, <3>1 DEF Before
    <2>3. CASE s[1] = t[1] /\ s[2] < t[2]
      <3>1. s[2] \in mine[s[1]] /\ t[2] \in mine[s[1]]
        BY <1>12, <2>3
      <3>2. Place(mine[s[1]], s[2]) < Place(mine[s[1]], t[2])
        BY <1>7, <2>1, <2>3, <3>1
      <3> QED  BY <1>13, <2>3, <3>2 DEF Before
    <2> QED  BY <2>2, <2>3 DEF Before
  <1>18. \A t \in Slots(r) : ~IsBarq(HookAt(r, t))
    <2> SUFFICES ASSUME NEW t \in Slots(r) PROVE ~IsBarq(HookAt(r, t))
      OBVIOUS
    <2>1. PICK s \in UserSlots(g) : f[s] = t
      BY <1>16
    <2> QED  BY <1>12, <1>15, <2>1
  <1>19. SameForUser(g, r)
    <2>1. f \in [UserSlots(g) -> UserSlots(r)]
      BY <1>14, <1>15, Zenon
    <2>2. \A t \in UserSlots(r) : \E s \in UserSlots(g) : f[s] = t
      BY <1>16, UserSlotsIn
    <2>3. \A s \in UserSlots(g) : HookAt(r, f[s]).command = HookAt(g, s).command
      BY <1>15
    <2> QED  BY <1>17, <2>1, <2>2, <2>3 DEF SameForUser
  <1> QED  BY <1>5, <1>9, <1>18, <1>19

-----------------------------------------------------------------------------
(* What a merge does to the hooks of one event.                            *)
OwnIn(g, e) == OwnCommands(e) \subseteq {HookAt(g, s).command : s \in Slots(g)}

LEMMA OwnIs ==
  ASSUME NEW e \in Events
  PROVE  /\ Own[e] \in Seq(Seq(Hooks)) /\ Slots(Own[e]) # {}
         /\ \A s \in Slots(Own[e]) : HookAt(Own[e], s).command \in OwnCommands(e)
         /\ OwnCommands(e) \subseteq Barq
         /\ \A s, t \in Slots(Own[e]) :
              HookAt(Own[e], s).command = HookAt(Own[e], t).command => s = t
  BY OwnAssumption DEF Events, OwnCommands, EachOnce

LEMMA ReadKeeps ==
  ASSUME NEW g \in Seq(Seq(Hooks)), NEW C
  PROVE  /\ Read(g) \in Seq(Seq(Hooks))
         /\ SameForUser(g, Read(g))
         /\ EachOnce(g, C) => EachOnce(Read(g), C)
         /\ hasBarqHooks(Read(g)) <=> hasBarqHooks(g)
  <1>1. PICK r : r = Read(g)
    OBVIOUS
  <1>2. /\ r \in Seq(Seq(Hooks)) /\ Slots(r) = Slots(g)
        /\ \A s \in Slots(g) : HookAt(r, s).command = HookAt(g, s).command
    BY <1>1, ReadIs
  <1>3. UserSlots(r) = UserSlots(g)
    BY <1>2 DEF UserSlots, IsBarq
  <1>4. SameForUser(g, r)
    BY <1>2, <1>3, UserSlotsIn, SameCommands
  <1>5. EachOnce(g, C) => EachOnce(r, C)
    BY <1>2 DEF EachOnce
  <1>6. hasBarqHooks(r) <=> hasBarqHooks(g)
    BY <1>2 DEF hasBarqHooks, IsBarq
  <1> QED  BY <1>1, <1>2, <1>4, <1>5, <1>6

LEMMA OwnAppended ==
  ASSUME NEW e \in Events, NEW a \in Seq(Seq(Hooks)), ~hasBarqHooks(a)
  PROVE  /\ a \o Own[e] \in Seq(Seq(Hooks))
         /\ SameForUser(a, a \o Own[e])
         /\ EachOnce(a \o Own[e], OwnCommands(e))
         /\ hasBarqHooks(a \o Own[e]) /\ OwnIn(a \o Own[e], e)
  <1>1. PICK b : b = Own[e]
    OBVIOUS
  <1>2. PICK m : m = a \o b
    OBVIOUS
  <1>3. /\ b \in Seq(Seq(Hooks)) /\ Slots(b) # {}
        /\ \A s \in Slots(b) : HookAt(b, s).command \in OwnCommands(e)
        /\ OwnCommands(e) \subseteq Barq
        /\ \A s, t \in Slots(b) : HookAt(b, s).command = HookAt(b, t).command => s = t
    BY <1>1, OwnIs
  <1>4. PICK n \in Nat : n = Len(a)
    OBVIOUS
  <1>5. /\ m \in Seq(Seq(Hooks))
        /\ \A s \in Slots(a) : s \in Slots(m) /\ HookAt(m, s) = HookAt(a, s)
        /\ \A t \in Slots(b) : /\ <<t[1] + n, t[2]>> \in Slots(m)
                               /\ HookAt(m, <<t[1] + n, t[2]>>) = HookAt(b, t)
        /\ \A s \in Slots(m) : \/ s \in Slots(a)
                               \/ /\ <<s[1] - n, s[2]>> \in Slots(b)
                                  /\ HookAt(b, <<s[1] - n, s[2]>>) = HookAt(m, s)
                                  /\ s = <<s[1], s[2]>> /\ s[1] \in Nat
    BY <1>2, <1>3, <1>4, SlotsOfBoth
  <1>6. \A s \in Slots(a) : HookAt(m, s).command \notin Barq
    BY <1>5 DEF hasBarqHooks, IsBarq
  <1>7. \A s \in Slots(m) : s \notin Slots(a) => HookAt(m, s).command \in Barq
    BY <1>3, <1>5
  <1>8. UserSlots(m) = UserSlots(a)
    BY <1>5, <1>6, <1>7 DEF UserSlots, IsBarq
  <1>9. SameForUser(a, m)
    BY <1>5, <1>8, UserSlotsIn, SameCommands
  <1>10. EachOnce(m, OwnCommands(e))
    <2> SUFFICES ASSUME NEW s \in Slots(m), NEW t \in Slots(m),
                        HookAt(m, s).command \in OwnCommands(e),
                        HookAt(m, t).command = HookAt(m, s).command
                 PROVE  s = t
      BY DEF EachOnce
    <2>1. s \notin Slots(a) /\ t \notin Slots(a)
      BY <1>3, <1>6
    <2>2. /\ <<s[1] - n, s[2]>> \in Slots(b) /\ HookAt(b, <<s[1] - n, s[2]>>) = HookAt(m, s)
          /\ s = <<s[1], s[2]>> /\ s[1] \in Nat
      BY <1>5, <2>1
    <2>3. /\ <<t[1] - n, t[2]>> \in Slots(b) /\ HookAt(b, <<t[1] - n, t[2]>>) = HookAt(m, t)
          /\ t = <<t[1], t[2]>> /\ t[1] \in Nat
      BY <1>5, <2>1
    <2>4. <<s[1] - n, s[2]>> = <<t[1] - n, t[2]>>
      BY <1>3, <2>2, <2>3
    <2>5. s[1] = t[1] /\ s[2] = t[2]
      BY <2>2, <2>3, <2>4
    <2> QED  BY <2>2, <2>3, <2>5
  <1>11. hasBarqHooks(m)
    <2>1. PICK t \in Slots(b) : TRUE
      BY <1>3
    <2>2. PICK s \in Slots(m) : HookAt(m, s) = HookAt(b, t)
      BY <1>5
    <2> QED  BY <1>3, <2>2 DEF hasBarqHooks, IsBarq
  <1>12. OwnIn(m, e)
    <2> SUFFICES ASSUME NEW c \in OwnCommands(e) PROVE \E s \in Slots(m) : HookAt(m, s).command = c
      BY DEF OwnIn
    <2>1. PICK t \in Slots(b) : HookAt(b, t).command = c
      BY <1>1 DEF OwnCommands
    <2> QED  BY <1>5, <2>1
  <1> QED  BY <1>1, <1>2, <1>5, <1>9, <1>10, <1>11, <1>12

LEMMA MergedEvent ==
  ASSUME NEW h \in AllHooks, NEW o, NEW e \in Events
  PROVE  /\ Merge(h, o \in Forced)[e] \in Seq(Seq(Hooks))
         /\ SameForUser(h[e], Merge(h, o \in Forced)[e])
         /\ EachOnce(h[e], OwnCommands(e)) => EachOnce(Merge(h, o \in Forced)[e], OwnCommands(e))
         /\ hasBarqHooks(Merge(h, o \in Forced)[e])
         /\ o \in Forced => OwnIn(Merge(h, o \in Forced)[e], e)
  <1>1. PICK g : g = h[e]
    OBVIOUS
  <1>2. PICK m : m = Merge(h, o \in Forced)[e]
    OBVIOUS
  <1>3. g \in Seq(Seq(Hooks))
    BY <1>1 DEF AllHooks
  <1>4. /\ Read(g) \in Seq(Seq(Hooks)) /\ SameForUser(g, Read(g))
        /\ EachOnce(g, OwnCommands(e)) => EachOnce(Read(g), OwnCommands(e))
        /\ hasBarqHooks(Read(g)) <=> hasBarqHooks(g)
    BY <1>3, ReadKeeps
  <1>5. m = IF ~hasBarqHooks(g) THEN Read(g) \o Own[e]
            ELSE IF o \in Forced THEN removeBarqHooks(Read(g)) \o Own[e] ELSE Read(g)
    BY <1>1, <1>2 DEF Merge
  <1> SUFFICES /\ m \in Seq(Seq(Hooks)) /\ SameForUser(g, m)
               /\ EachOnce(g, OwnCommands(e)) => EachOnce(m, OwnCommands(e))
               /\ hasBarqHooks(m) /\ (o \in Forced => OwnIn(m, e))
    BY <1>1, <1>2
  <1>6. CASE ~hasBarqHooks(g)
    <2>1. PICK a : a = Read(g)
      OBVIOUS
    <2>2. m = a \o Own[e] /\ a \in Seq(Seq(Hooks)) /\ ~hasBarqHooks(a) /\ SameForUser(g, a)
      BY <1>4, <1>5, <1>6, <2>1
    <2>3. /\ m \in Seq(Seq(Hooks)) /\ SameForUser(a, m) /\ EachOnce(m, OwnCommands(e))
          /\ hasBarqHooks(m) /\ OwnIn(m, e)
      BY <2>2, OwnAppended
    <2> QED  BY <2>2, <2>3, SameTransitive
  <1>7. CASE hasBarqHooks(g) /\ o \in Forced
    <2>1. PICK a : a = removeBarqHooks(Read(g))
      OBVIOUS
    <2>2. /\ a \in Seq(Seq(Hooks)) /\ SameForUser(Read(g), a)
          /\ \A t \in Slots(a) : ~IsBarq(HookAt(a, t))
      BY <1>4, <2>1, RemovedIs
    <2>3. m = a \o Own[e] /\ ~hasBarqHooks(a)
      BY <1>5, <1>7, <2>1, <2>2 DEF hasBarqHooks
    <2>4. /\ m \in Seq(Seq(Hooks)) /\ SameForUser(a, m) /\ EachOnce(m, OwnCommands(e))
          /\ hasBarqHooks(m) /\ OwnIn(m, e)
      BY <2>2, <2>3, OwnAppended
    <2>5. SameForUser(g, a)
      BY <1>4, <2>2, SameTransitive
    <2> QED  BY <2>4, <2>5, SameTransitive
  <1>8. CASE hasBarqHooks(g) /\ o \notin Forced
    BY <1>4, <1>5, <1>8
  <1> QED  BY <1>6, <1>7, <1>8

LEMMA MergedHooks ==
  ASSUME NEW h \in AllHooks, NEW o
  PROVE  LET m == Merge(h, o \in Forced)
         IN  /\ m \in AllHooks
             /\ \A e \in Events : SameForUser(h[e], m[e])
             /\ Once(h) => Once(m)
             /\ Hooked(m, o)
  <1>1. PICK m : m = Merge(h, o \in Forced)
    OBVIOUS
  <1>4. \A e \in Events : /\ m[e] \in Seq(Seq(Hooks))
                          /\ SameForUser(h[e], m[e])
                          /\ EachOnce(h[e], OwnCommands(e)) => EachOnce(m[e], OwnCommands(e))
                          /\ hasBarqHooks(m[e])
                          /\ o \in Forced => OwnIn(m[e], e)
    BY <1>1, MergedEvent
  <1>5. m = [e \in Events |-> m[e]]
    BY <1>1, Zenon DEF Merge
  <1>6. m \in AllHooks
    BY <1>4, <1>5 DEF AllHooks
  <1>7. Once(h) => Once(m)
    BY <1>4 DEF Once
  <1>8. Hooked(m, o)
    BY <1>4 DEF Hooked, OwnIn
  <1> QED  BY <1>1, <1>4, <1>6, <1>7, <1>8

-----------------------------------------------------------------------------
(* The steps of the inits and of the user.                                 *)
LEMMA NoHooksIs == NoHooks \in AllHooks /\ Once(NoHooks)
  <1>1. \A e \in Events : NoHooks[e] = <<>>
    BY DEF NoHooks
  <1>2. NoHooks = [e \in Events |-> NoHooks[e]]
    BY DEF NoHooks
  <1>3. <<>> \in Seq(Seq(Hooks)) /\ DOMAIN (<<>>) = {}
    OBVIOUS
  <1>4. Slots(<<>>) = {}
    BY <1>3 DEF Slots
  <1>5. \A C : EachOnce(<<>>, C)
    BY <1>4 DEF EachOnce
  <1>6. NoHooks \in AllHooks
    BY <1>1, <1>2, <1>3 DEF AllHooks
  <1> QED  BY <1>1, <1>5, <1>6 DEF Once

LEMMA FileIs == \A k, h : File(k, h).kind = k /\ File(k, h).hooks = h
  BY DEF File

LEMMA UserFileIs ==
  ASSUME NEW f \in UserFiles
  PROVE  /\ f \in [kind : {"absent", "empty", "broken", "whole"}, hooks : AllHooks]
         /\ f.kind # "whole" => f.hooks = NoHooks
         /\ Once(f.hooks)
  BY FilesAssumption DEF AllHooks, Once

LEMMA InitSettingsInv == InstallInit => SettingsInv
  <1> SUFFICES ASSUME InstallInit PROVE SettingsInv
    OBVIOUS
  <1> USE DEF InstallInit
  <1>1. TypeOK
    BY InitMigrationInv DEF MigrationInv
  <1>2. \A o \in Inits : ipc[o] = "ignore" /\ plan[o] = NoHooks
    OBVIOUS
  <1>3. /\ settings \in [kind : {"absent", "empty", "broken", "whole"}, hooks : AllHooks]
        /\ settings.kind # "whole" => settings.hooks = NoHooks
        /\ Once(settings.hooks)
    <2>1. CASE settings \in UserFiles
      BY <2>1, UserFileIs
    <2>2. CASE settings = File("absent", NoHooks)
      BY <2>2, NoHooksIs DEF File
    <2> QED  BY <2>1, <2>2
  <1>4. SettingsTyped
    <2>1. /\ ipc \in [Inits -> {"ignore", "append", "read", "truncate", "write", "ok",
                                "failed", "killed"}]
          /\ plan \in [Inits -> AllHooks]
      BY NoHooksIs
    <2>2. saves \in 0..MaxSaves
      BY InstallAssumption
    <2> QED  BY <1>3, <2>1, <2>2 DEF SettingsTyped
  <1>5. Begun
    BY <1>2 DEF Begun
  <1>6. Planned
    BY <1>2, <1>3, NoHooksIs DEF Planned
  <1>7. Unspoilt
    BY <1>2 DEF Unspoilt
  <1> QED  BY <1>1, <1>4, <1>5, <1>6, <1>7 DEF SettingsInv

(* The openers' own steps leave the settings alone, and a process that has *)
(* closed the trace stays at that.                                         *)
LEMMA ClosedStaysClosed ==
  ASSUME TypeOK, [Next]_vars, NEW o \in Openers, pc[o] = "closed"
  PROVE  pc'[o] = "closed"
  <1>1. CASE UNCHANGED vars
    BY <1>1 DEF vars
  <1>2. ASSUME NEW q \in Openers, Begin(q) \/ Step(q) \/ Close(q) \/ Kill(q)
        PROVE  pc'[o] = "closed"
    <2>1. q # o /\ \E next : pc' = [pc EXCEPT ![q] = next] \/ pc' = pc
      BY <1>2 DEF Begin, Step, Close, Kill, ApplySchema, CreateMeta, ReadVersion,
         CreateIntentMatches, SetVersionOne, CheckColumn, AddColumn, SetVersionTwo,
         Busy, Goto, Active, Ended
    <2> QED  BY <2>1 DEF TypeOK
  <1> QED  BY <1>1, <1>2 DEF Next

LEMMA OpenersStep ==
  ASSUME SettingsInv, [Next]_vars, UNCHANGED installVars
  PROVE  SettingsInv'
  <1> USE DEF SettingsInv, installVars
  <1>1. TypeOK'
    BY StepTyped
  <1>2. SettingsTyped'
    BY DEF SettingsTyped
  <1>3. Begun'
    BY ClosedStaysClosed, InstallAssumption DEF Begun
  <1>4. Planned'
    BY DEF Planned
  <1>5. Unspoilt'
    <2>1. Writing' = Writing /\ \A h : SavedIn(h)' <=> SavedIn(h)
      BY DEF Writing, SavedIn
    <2> QED  BY <2>1 DEF Unspoilt
  <1> QED  BY <1>1, <1>2, <1>3, <1>4, <1>5

LEMMA InstallTypedStep ==
  ASSUME SettingsTyped, NEW o \in Inits, InitStep(o)
  PROVE  SettingsTyped'
  <1> USE DEF SettingsTyped, InitGoto
  <1>1. CASE ScanIgnore(o)
    BY <1>1 DEF ScanIgnore
  <1>2. CASE AppendIgnore(o)
    BY <1>2 DEF AppendIgnore
  <1>3. CASE ReadSettings(o)
    <2>1. PICK m : m = Merge(settings.hooks, o \in Forced)
      OBVIOUS
    <2>2. m \in AllHooks
      <3>1. settings.hooks \in AllHooks
        OBVIOUS
      <3> QED  BY <2>1, <3>1, MergedHooks
    <2>3. plan' \in [Inits -> AllHooks] /\ raced' \subseteq Inits
      <3>1. plan' = plan \/ plan' = [plan EXCEPT ![o] = m]
        BY <1>3, <2>1 DEF ReadSettings
      <3>2. raced' \subseteq raced
        BY <1>3 DEF ReadSettings
      <3> QED  BY <2>2, <3>1, <3>2
    <2>4. /\ ipc' = [ipc EXCEPT ![o] = "failed"] \/ ipc' = [ipc EXCEPT ![o] = "truncate"]
          /\ UNCHANGED <<ignored, settings, saves, saved, spoilt, last>>
      BY <1>3 DEF ReadSettings
    <2> QED  BY <2>3, <2>4
  <1>4. CASE TruncateSettings(o)
    <2>1. settings' = settings \/ settings' = File("empty", NoHooks)
      BY <1>4 DEF TruncateSettings
    <2>2. /\ settings' \in [kind : {"absent", "empty", "broken", "whole"}, hooks : AllHooks]
          /\ settings'.kind # "whole" => settings'.hooks = NoHooks
      BY <2>1, NoHooksIs DEF File
    <2>3. /\ ipc' = [ipc EXCEPT ![o] = "failed"] \/ ipc' = [ipc EXCEPT ![o] = "write"]
          /\ raced' \subseteq Inits /\ spoilt' \in BOOLEAN /\ (last' = {} \/ last' = last)
          /\ UNCHANGED <<ignored, plan, saves, saved>>
      BY <1>4 DEF TruncateSettings
    <2> QED  BY <2>2, <2>3
  <1>5. CASE WriteSettings(o)
    <2>1. \/ settings' = settings \/ settings' = File("whole", plan[o])
          \/ settings' = File("broken", NoHooks)
      BY <1>5 DEF WriteSettings, Written
    <2>2. /\ settings' \in [kind : {"absent", "empty", "broken", "whole"}, hooks : AllHooks]
          /\ settings'.kind # "whole" => settings'.hooks = NoHooks
      BY <2>1, NoHooksIs DEF File
    <2>3. /\ ipc' = [ipc EXCEPT ![o] = "failed"] \/ ipc' = [ipc EXCEPT ![o] = "ok"]
          /\ raced' \subseteq Inits /\ spoilt' \in BOOLEAN /\ (last' = {} \/ last' = {o})
          /\ UNCHANGED <<ignored, plan, saves, saved>>
      BY <1>5 DEF WriteSettings
    <2> QED  BY <2>2, <2>3
  <1>6. CASE KillInit(o)
    BY <1>6 DEF KillInit
  <1> QED  BY <1>1, <1>2, <1>3, <1>4, <1>5, <1>6 DEF InitStep

LEMMA InstallBegunStep ==
  ASSUME SettingsTyped, Begun, NEW o \in Inits, InitStep(o), UNCHANGED vars
  PROVE  Begun'
  <1>1. pc[o] = "closed" /\ \E next : ipc' = [ipc EXCEPT ![o] = next]
    BY DEF InitStep, ScanIgnore, AppendIgnore, ReadSettings, TruncateSettings,
       WriteSettings, KillInit, At, InitGoto
  <1>2. \A q \in Inits : q # o => ipc'[q] = ipc[q]
    BY <1>1 DEF SettingsTyped
  <1>3. pc' = pc
    BY DEF vars
  <1> QED  BY <1>1, <1>2, <1>3 DEF Begun

LEMMA InstallPlannedStep ==
  ASSUME SettingsTyped, Planned, NEW o \in Inits, InitStep(o)
  PROVE  Planned'
  <1> USE DEF InitGoto
  <1>1. ASSUME UNCHANGED <<settings, plan, last, raced>>,
               \A q \in Inits : ipc'[q] \in {"truncate", "write"} => ipc'[q] = ipc[q]
        PROVE  Planned'
    BY <1>1 DEF Planned
  <1>2. CASE ScanIgnore(o) \/ AppendIgnore(o) \/ KillInit(o)
    BY <1>1, <1>2 DEF ScanIgnore, AppendIgnore, KillInit, SettingsTyped
  <1>3. CASE ReadSettings(o)
    <2>1. CASE ipc' = [ipc EXCEPT ![o] = "failed"] /\ UNCHANGED <<plan, raced>>
      BY <1>1, <1>3, <2>1 DEF ReadSettings, SettingsTyped
    <2>2. CASE /\ ipc' = [ipc EXCEPT ![o] = "truncate"]
               /\ plan' = [plan EXCEPT ![o] = Merge(settings.hooks, o \in Forced)]
               /\ raced' = raced \ {o}
      <3>1. PICK m : m = Merge(settings.hooks, o \in Forced)
        OBVIOUS
      <3>2. settings.hooks \in AllHooks
        BY DEF SettingsTyped
      <3>3. Once(m) /\ Hooked(m, o)
        BY <3>1, <3>2, MergedHooks DEF Planned
      <3>4. /\ plan'[o] = m /\ ipc'[o] = "truncate"
            /\ \A q \in Inits : q # o => plan'[q] = plan[q] /\ ipc'[q] = ipc[q]
        BY <2>2, <3>1 DEF SettingsTyped
      <3>5. settings' = settings /\ last' = last
        BY <1>3 DEF ReadSettings
      <3> QED  BY <2>2, <3>3, <3>4, <3>5 DEF Planned
    <2> QED  BY <1>3, <2>1, <2>2 DEF ReadSettings
  <1>4. CASE TruncateSettings(o)
    <2>1. CASE ipc' = [ipc EXCEPT ![o] = "failed"] /\ UNCHANGED <<settings, raced, spoilt, last>>
      BY <1>1, <1>4, <2>1 DEF TruncateSettings, SettingsTyped
    <2>2. CASE /\ ipc' = [ipc EXCEPT ![o] = "write"]
               /\ settings' = File("empty", NoHooks)
               /\ raced' = raced \union (Inits \ {o})
               /\ last' = {}
      <3>1. plan' = plan /\ ipc[o] = "truncate"
        BY <1>4 DEF TruncateSettings, At
      <3>2. \A q \in Inits : q # o => ipc'[q] = ipc[q] /\ q \in raced'
        BY <2>2 DEF SettingsTyped
      <3>3. Once(settings'.hooks)
        BY <2>2, NoHooksIs, FileIs
      <3> QED  BY <2>2, <3>1, <3>2, <3>3 DEF Planned
    <2> QED  BY <1>4, <2>1, <2>2 DEF TruncateSettings
  <1>5. CASE WriteSettings(o)
    <2>1. /\ plan' = plan /\ ipc[o] = "write" /\ ipc'[o] \in {"ok", "failed"}
          /\ \A q \in Inits : q # o => ipc'[q] = ipc[q] /\ q \in raced'
      BY <1>5 DEF WriteSettings, At, SettingsTyped
    <2>2. Once(settings'.hooks)
      <3>1. \/ settings' = settings \/ settings' = File("whole", plan[o])
            \/ settings' = File("broken", NoHooks)
        BY <1>5 DEF WriteSettings, Written
      <3> QED  BY <3>1, NoHooksIs, FileIs DEF Planned
    <2>3. \A q \in last' : Hooked(settings'.hooks, q)
      <3> SUFFICES ASSUME NEW q \in last' PROVE Hooked(settings'.hooks, q)
        OBVIOUS
      <3>1. q = o /\ o \notin raced /\ settings' \in Written(o)
        BY <1>5 DEF WriteSettings
      <3>2. settings = File("empty", NoHooks)
        BY <2>1, <3>1 DEF Planned
      <3>3. settings' = File("whole", plan[o])
        BY <3>1, <3>2, FileIs DEF Written
      <3> QED  BY <2>1, <3>1, <3>3, FileIs DEF Planned
    <2> QED  BY <2>1, <2>2, <2>3 DEF Planned
  <1> QED  BY <1>2, <1>3, <1>4, <1>5 DEF InitStep

LEMMA InstallUnspoiltStep ==
  ASSUME SettingsTyped, Planned, Unspoilt, NEW o \in Inits, InitStep(o)
  PROVE  Unspoilt'
  <1> USE DEF InitGoto
  <1>0. saved' = saved /\ \A h : SavedIn(h)' <=> SavedIn(h)
    <2>1. saved' = saved
      BY DEF InitStep, ScanIgnore, AppendIgnore, ReadSettings, TruncateSettings,
         WriteSettings, KillInit
    <2> QED  BY <2>1 DEF SavedIn
  <1>1. ASSUME UNCHANGED <<settings, plan, raced>>, spoilt \/ Writing' = Writing,
               spoilt => spoilt',
               \A q \in Inits : ipc'[q] \in {"truncate", "write"} => ipc'[q] = ipc[q]
        PROVE  Unspoilt'
    BY <1>0, <1>1 DEF Unspoilt
  <1>2. CASE ScanIgnore(o) \/ AppendIgnore(o)
    <2>1. /\ UNCHANGED <<settings, plan, raced, spoilt>>
          /\ ipc[o] # "write" /\ ipc'[o] \notin {"truncate", "write"}
          /\ \A q \in Inits : q # o => ipc'[q] = ipc[q]
      BY <1>2 DEF ScanIgnore, AppendIgnore, At, SettingsTyped
    <2>2. Writing' = Writing
      BY <2>1 DEF Writing
    <2> QED  BY <1>1, <2>1, <2>2
  <1>3. CASE KillInit(o)
    <2>1. /\ UNCHANGED <<settings, plan, raced>>
          /\ spoilt' = (spoilt \/ ipc[o] = "write") /\ ipc'[o] = "killed"
          /\ \A q \in Inits : q # o => ipc'[q] = ipc[q]
      BY <1>3 DEF KillInit, SettingsTyped
    <2>2. CASE ipc[o] = "write"
      BY <2>1, <2>2 DEF Unspoilt
    <2>3. CASE ipc[o] # "write"
      <3>1. Writing' = Writing
        BY <2>1, <2>3 DEF Writing
      <3> QED  BY <1>1, <2>1, <2>3, <3>1
    <2> QED  BY <2>2, <2>3
  <1>4. CASE ReadSettings(o)
    <2>1. /\ ipc[o] = "read" /\ UNCHANGED <<settings, spoilt>>
          /\ \A q \in Inits : q # o => ipc'[q] = ipc[q]
          /\ ipc'[o] \in {"failed", "truncate"}
      BY <1>4 DEF ReadSettings, At, SettingsTyped
    <2>2. Writing' = Writing
      BY <2>1 DEF Writing
    <2>3. CASE ipc' = [ipc EXCEPT ![o] = "failed"] /\ UNCHANGED <<plan, raced>>
      <3>1. ipc'[o] = "failed"
        BY <2>3 DEF SettingsTyped
      <3> QED  BY <1>1, <2>1, <2>2, <2>3, <3>1
    <2>4. CASE /\ settings.kind # "broken"
               /\ plan' = [plan EXCEPT ![o] = Merge(settings.hooks, o \in Forced)]
               /\ raced' = raced \ {o}
      <3>1. PICK m : m = Merge(settings.hooks, o \in Forced)
        OBVIOUS
      <3>2. /\ plan'[o] = m
            /\ \A q \in Inits : q # o => plan'[q] = plan[q] /\ (q \notin raced' => q \notin raced)
        BY <2>4, <3>1 DEF SettingsTyped
      <3>3. ASSUME ~spoilt, Writing = {} PROVE SavedIn(m)
        <4>1. settings.hooks \in AllHooks
          BY DEF SettingsTyped
        <4>2. \A e \in Events : SameForUser(settings.hooks[e], m[e])
          BY <3>1, <4>1, MergedHooks
        <4>3. CASE settings = saved
          BY <2>4, <4>2, <4>3 DEF SavedIn
        <4>4. CASE SavedIn(settings.hooks)
          BY <4>2, <4>4, SameTransitive DEF SavedIn
        <4> QED  BY <3>3, <4>3, <4>4 DEF Unspoilt
      <3>4. o \notin Writing
        BY <2>1 DEF Writing
      <3>5. ASSUME ~spoilt, NEW q \in Inits, q \notin raced', ipc'[q] \in {"truncate", "write"},
                   Writing \subseteq {q}
            PROVE  SavedIn(plan'[q])
        <4>1. CASE q = o
          <5>1. Writing = {}
            BY <3>4, <3>5, <4>1
          <5> QED  BY <3>2, <3>3, <3>5, <4>1, <5>1
        <4>2. CASE q # o
          BY <2>1, <3>2, <3>5, <4>2 DEF Unspoilt
        <4> QED  BY <4>1, <4>2
      <3>6. ~spoilt /\ Writing = {} =>
              settings = saved \/ (settings.kind = "whole" /\ SavedIn(settings.hooks))
        BY DEF Unspoilt
      <3> QED  BY <1>0, <2>1, <2>2, <3>5, <3>6 DEF Unspoilt
    <2> QED  BY <1>4, <2>3, <2>4 DEF ReadSettings
  <1>5. CASE TruncateSettings(o)
    <2>1. ipc[o] = "truncate" /\ UNCHANGED plan /\ \A q \in Inits : q # o => ipc'[q] = ipc[q]
      BY <1>5 DEF TruncateSettings, At, SettingsTyped
    <2>2. CASE ipc' = [ipc EXCEPT ![o] = "failed"] /\ UNCHANGED <<settings, raced, spoilt, last>>
      <3>1. ipc'[o] = "failed"
        BY <2>2 DEF SettingsTyped
      <3>2. Writing' = Writing
        BY <2>1, <3>1 DEF Writing
      <3> QED  BY <1>1, <2>1, <2>2, <3>1, <3>2
    <2>3. CASE /\ ipc' = [ipc EXCEPT ![o] = "write"]
               /\ raced' = raced \union (Inits \ {o})
               /\ spoilt' = (spoilt \/ o \in raced)
      <3>1. ipc'[o] = "write" /\ \A q \in Inits : q # o => q \in raced'
        BY <2>3 DEF SettingsTyped
      <3>2. Writing' = Writing \union {o}
        BY <2>1, <3>1 DEF Writing
      <3>3. ASSUME ~spoilt', Writing' \subseteq {o} PROVE SavedIn(plan[o])
        <4>1. ~spoilt /\ o \notin raced /\ Writing \subseteq {o}
          BY <2>3, <3>2, <3>3
        <4> QED  BY <2>1, <4>1 DEF Unspoilt
      <3>4. ASSUME ~spoilt', NEW q \in Inits, q \notin raced', Writing' \subseteq {q}
            PROVE  SavedIn(plan'[q])
        BY <2>1, <3>1, <3>3, <3>4
      <3>5. Writing' # {}
        BY <3>2
      <3> QED  BY <1>0, <3>4, <3>5 DEF Unspoilt
    <2> QED  BY <1>5, <2>2, <2>3 DEF TruncateSettings
  <1>6. CASE WriteSettings(o)
    <2>1. /\ ipc[o] = "write" /\ UNCHANGED plan /\ ipc'[o] \in {"ok", "failed"}
          /\ \A q \in Inits : q # o => ipc'[q] = ipc[q] /\ q \in raced'
      BY <1>6 DEF WriteSettings, At, SettingsTyped
    <2>2. CASE spoilt'
      BY <2>2 DEF Unspoilt
    <2>3. CASE ~spoilt'
      <3>1. ~spoilt /\ o \notin raced /\ settings' \in Written(o)
        BY <1>6, <2>3 DEF WriteSettings
      <3>2. settings' = File("whole", plan[o])
        <4>1. settings = File("empty", NoHooks)
          BY <2>1, <3>1 DEF Planned
        <4> QED  BY <3>1, <4>1, FileIs DEF Written
      <3>3. Writing' = {} => SavedIn(plan[o])
        <4>1. Writing' = {} => Writing \subseteq {o}
          BY <2>1 DEF Writing
        <4> QED  BY <2>1, <3>1, <4>1 DEF Unspoilt
      <3>4. \A q \in Inits \ raced' : ipc'[q] \notin {"truncate", "write"}
        BY <2>1
      <3> QED  BY <1>0, <3>2, <3>3, <3>4, FileIs DEF Unspoilt
    <2> QED  BY <2>2, <2>3
  <1> QED  BY <1>2, <1>3, <1>4, <1>5, <1>6 DEF InitStep

LEMMA SaveStep ==
  ASSUME SettingsInv, NEW f \in UserFiles, SaveSettings(f), UNCHANGED vars
  PROVE  SettingsInv'
  <1> USE DEF SettingsInv, SaveSettings
  <1>1. /\ f \in [kind : {"absent", "empty", "broken", "whole"}, hooks : AllHooks]
        /\ f.kind # "whole" => f.hooks = NoHooks
        /\ Once(f.hooks)
    BY UserFileIs
  <1>2. TypeOK'
    BY StepTyped
  <1>3. SettingsTyped'
    <2>1. saves' \in 0..MaxSaves
      BY InstallAssumption DEF SettingsTyped
    <2>2. /\ settings' = f /\ saved' = f /\ raced' = Inits /\ spoilt' = FALSE /\ last' = {}
          /\ UNCHANGED <<ipc, ignored, plan>>
      OBVIOUS
    <2> QED  BY <1>1, <2>1, <2>2 DEF SettingsTyped
  <1>4. Begun'
    BY DEF Begun, vars
  <1>5. Planned'
    BY <1>1 DEF Planned
  <1>6. Unspoilt'
    BY DEF Unspoilt
  <1> QED  BY <1>2, <1>3, <1>4, <1>5, <1>6

LEMMA InstallStep ==
  ASSUME SettingsInv, [InstallNext]_allVars
  PROVE  SettingsInv'
  <1>1. CASE [Next]_vars /\ UNCHANGED installVars
    BY <1>1, OpenersStep
  <1>2. ASSUME NEW o \in Inits, InitStep(o), UNCHANGED vars PROVE SettingsInv'
    <2>1. TypeOK'
      BY <1>2, StepTyped DEF SettingsInv
    <2> QED
      BY <1>2, <2>1, InstallTypedStep, InstallBegunStep, InstallPlannedStep,
         InstallUnspoiltStep DEF SettingsInv
  <1>3. ASSUME NEW f \in UserFiles, SaveSettings(f), UNCHANGED vars PROVE SettingsInv'
    BY <1>3, SaveStep
  <1> QED  BY <1>1, <1>2, <1>3 DEF InstallNext, allVars

LEMMA SettingsInvariant == InstallSpec => []SettingsInv
  <1>1. SettingsInv /\ [InstallNext]_allVars => SettingsInv'
    BY InstallStep
  <1> QED  BY <1>1, InitSettingsInv, PTL DEF InstallSpec

(* The inits, the settings file and what each init plans to write have     *)
(* values of their kinds, whatever the user saves and when.                *)
THEOREM InstallTyped == InstallSpec => []InstallTypeOK
  <1>1. SettingsInv => InstallTypeOK
    <2> SUFFICES ASSUME SettingsInv PROVE InstallTypeOK
      OBVIOUS
    <2>1. last \subseteq Inits /\ Cardinality(last) <= 1
      <3>1. CASE last = {}
        BY <3>1, FS_EmptySet
      <3>2. ASSUME NEW o \in Inits, last = {o} PROVE last \subseteq Inits /\ Cardinality(last) <= 1
        BY <3>2, FS_Singleton
      <3> QED  BY <3>1, <3>2 DEF SettingsInv, SettingsTyped
    <2> QED  BY <2>1 DEF SettingsInv, SettingsTyped, InstallTypeOK
  <1> QED  BY <1>1, SettingsInvariant, PTL

(* No order of inits, kills and saves loses a hook of the user's or leaves *)
(* a command of his out of order, but for an init cut off while it writes  *)
(* and one that writes over a change it has not seen.                      *)
THEOREM UserHooksAreKept == InstallSpec => []UserHooksKept
  <1>1. SettingsInv => UserHooksKept
    <2> SUFFICES ASSUME SettingsInv, ~spoilt, \A o \in Inits : ~At(o, "write")
                 PROVE  \/ settings = saved
                        \/ /\ settings.kind = "whole" /\ saved.kind # "broken"
                           /\ \A e \in Events : SameForUser(saved.hooks[e], settings.hooks[e])
      BY DEF UserHooksKept
    <2>1. Writing = {}
      BY DEF SettingsInv, Begun, Writing, At
    <2> QED  BY <2>1 DEF SettingsInv, Unspoilt, SavedIn
  <1> QED  BY <1>1, SettingsInvariant, PTL

(* No number of inits, with or without --force, one after the other or     *)
(* interleaved, makes a second hook with a command of barq-witness, and    *)
(* one that nobody disturbed leaves every event hooked.                    *)
THEOREM EventsAreHookedOnce == InstallSpec => []EventsHookedOnce
  <1>1. SettingsInv => EventsHookedOnce
    BY DEF SettingsInv, Planned, Once, Hooked, EventsHookedOnce
  <1> QED  BY <1>1, SettingsInvariant, PTL
=============================================================================
