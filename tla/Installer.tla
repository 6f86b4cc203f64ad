----------------------------- MODULE Installer -----------------------------
(***************************************************************************)
(* barq-witness init: it opens and closes the trace, adds                  *)
(* .witness/ to .gitignore, and merges its hooks into the agent's          *)
(* .claude/settings.json, which the user goes on editing.  Other inits and *)
(* openers run beside it; each may be killed between two steps.            *)
(***************************************************************************)
EXTENDS Migrate, Data

CONSTANTS
  Inits,     (* the openers that are inits; the others open the trace only *)
  Forced,    (* the inits that run with --force                            *)
  Commands,  (* the commands hooks may have                                *)
  Barq,      (* those that contain "barq-witness"                          *)
  Own,       (* Own[e]: the groups barqHooks() has for the event e         *)
  UserFiles, (* the settings a user may save, see File                     *)
  MaxSaves   (* bound: how often the user saves                            *)

(* The events of barqHooks; init passes over all others.                   *)
Events == DOMAIN Own

(* The hooks of an event are a sequence of groups of hooks.  A hook is     *)
(* plain when it has no fields besides its type and its command.           *)
Hooks == [command : Commands, plain : BOOLEAN]

NoHooks == [e \in Events |-> <<>>]

(* settings.json: "absent", "empty", "broken" (no settings in JSON) or     *)
(* "whole", then with hooks.                                               *)
File(k, hooks) == [kind |-> k, hooks |-> hooks]

(* The hooks of an event by group and place in the group, and their order. *)
Slots(groups) == UNION {{i} \X DOMAIN groups[i] : i \in DOMAIN groups}

HookAt(groups, s) == groups[s[1]][s[2]]

Before(s, t) == s[1] < t[1] \/ (s[1] = t[1] /\ s[2] < t[2])

(* No two hooks have the same command of those in C.                       *)
EachOnce(groups, C) ==
  \A s, t \in Slots(groups) :
    /\ HookAt(groups, s).command \in C
    /\ HookAt(groups, t).command = HookAt(groups, s).command
    => s = t

OwnCommands(e) == {HookAt(Own[e], s).command : s \in Slots(Own[e])}

ASSUME InstallAssumption ==
  /\ Inits \subseteq Openers /\ Barq \subseteq Commands /\ MaxSaves \in Nat

(* barqHooks has hooks of barq-witness only, some for every event, and no  *)
(* command twice.                                                          *)
ASSUME OwnAssumption ==
  /\ Own \in [Events -> Seq(Seq(Hooks))]
  /\ \A e \in Events : /\ Slots(Own[e]) # {} /\ OwnCommands(e) \subseteq Barq
                       /\ EachOnce(Own[e], OwnCommands(e))

(* The user adds hooks of barq-witness, but none that is there already:    *)
(* init would leave both.                                                  *)
ASSUME FilesAssumption ==
  \A f \in UserFiles :
    /\ f \in [kind : {"empty", "broken", "whole"}, hooks : [Events -> Seq(Seq(Hooks))]]
    /\ f.kind # "whole" => f.hooks = NoHooks
    /\ \A e \in Events : EachOnce(f.hooks[e], OwnCommands(e))

VARIABLES
  ipc,       (* ipc[o]: the next step of the init o after closing the trace*)
  ignored,   (* does .gitignore have the entry?                            *)
  settings,  (* the settings file                                          *)
  plan,      (* plan[o]: the hooks o is going to write                     *)
  saves,     (* how often the user has saved                               *)
  saved,     (* history: the file the user saved last                      *)
  raced,     (* history: the inits whose settings changed since they read  *)
  spoilt,    (* history: was an init cut off while it wrote the saved      *)
             (* file, or did it write over a change it had not seen?       *)
  last       (* history: the init that wrote the file as it is, if any     *)

installVars == <<ipc, ignored, settings, plan, saves, saved, raced, spoilt, last>>
allVars     == <<vars, installVars>>

InitGoto(o, next) == ipc' = [ipc EXCEPT ![o] = next]

-----------------------------------------------------------------------------
(* Merging.                                                                *)

IsBarq(h) == h.command \in Barq

hasBarqHooks(groups) == \E s \in Slots(groups) : IsBarq(HookAt(groups, s))

(* The hooks of barq-witness go, and then the groups without a hook.       *)
removeBarqHooks(groups) ==
  LET cut == [i \in DOMAIN groups |->
                Kept(groups[i], {j \in DOMAIN groups[i] : ~IsBarq(groups[i][j])})]
  IN  Kept(cut, {i \in DOMAIN cut : cut[i] # <<>>})

(* Reading a group into hookEntry keeps type and command of its hooks.     *)
Read(groups) ==
  [i \in DOMAIN groups |->
     [j \in DOMAIN groups[i] |-> [groups[i][j] EXCEPT !.plain = TRUE]]]

(* Faulty form of Merge: the hooks there are not looked at.                *)
BugAppends(hooks, force) == [e \in Events |-> Read(hooks[e]) \o Own[e]]

(* An event that has any hook of barq-witness is skipped, or, with --force, *)
(* has them replaced.                                                      *)
Merge(hooks, force) ==
  [e \in Events |->
     IF ~hasBarqHooks(hooks[e]) THEN Read(hooks[e]) \o Own[e]
     ELSE IF force THEN removeBarqHooks(Read(hooks[e])) \o Own[e]
     ELSE Read(hooks[e])]

-----------------------------------------------------------------------------
(* runInit opens the trace, closes it at once, and goes on.                *)
At(o, step) == pc[o] = "closed" /\ ipc[o] = step

(* A .gitignore that cannot be read or written is a warning.               *)
ScanIgnore(o) ==
  /\ At(o, "ignore")
  /\ \/ ~ignored /\ InitGoto(o, "append")
     \/ InitGoto(o, "read")
  /\ UNCHANGED <<ignored, settings, plan, saves, saved, raced, spoilt, last>>

AppendIgnore(o) ==
  /\ At(o, "append")
  /\ InitGoto(o, "read")
  /\ ignored' \in {ignored, TRUE}
  /\ UNCHANGED <<settings, plan, saves, saved, raced, spoilt, last>>

(* Faulty form of ReadSettings: what cannot be parsed is taken for empty.  *)
BugBrokenIsEmpty(o) ==
  /\ At(o, "read")
  /\ InitGoto(o, "truncate")
  /\ plan' = [plan EXCEPT ![o] = Merge(settings.hooks, o \in Forced)]
  /\ raced' = raced \ {o}
  /\ UNCHANGED <<ignored, settings, saves, saved, spoilt, last>>

(* Install reads the file and merges; one that is absent or empty has no   *)
(* hooks, one that is broken ends the command.                             *)
ReadSettings(o) ==
  /\ At(o, "read")
  /\ \/ /\ InitGoto(o, "failed")
        /\ UNCHANGED <<plan, raced>>
     \/ /\ settings.kind # "broken"
        /\ InitGoto(o, "truncate")
        /\ plan' = [plan EXCEPT ![o] = Merge(settings.hooks, o \in Forced)]
        /\ raced' = raced \ {o}
  /\ UNCHANGED <<ignored, settings, saves, saved, spoilt, last>>

(* WriteFile truncates the file when it opens it ...                       *)
TruncateSettings(o) ==
  /\ At(o, "truncate")
  /\ \/ /\ InitGoto(o, "write")
        /\ settings' = File("empty", NoHooks)
        /\ raced' = raced \union (Inits \ {o})
        /\ spoilt' = (spoilt \/ o \in raced)
        /\ last' = {}
     \/ /\ InitGoto(o, "failed")
        /\ UNCHANGED <<settings, raced, spoilt, last>>
  /\ UNCHANGED <<ignored, plan, saves, saved>>

(* What is there after o wrote: its plan, unless somebody else has written *)
(* since o truncated the file.  Then the longer one's end may stick out,   *)
(* or the file o has open is no longer the one with that name.             *)
Written(o) ==
  {File("whole", plan[o])} \union
    (IF settings.kind = "empty" THEN {} ELSE {settings, File("broken", NoHooks)})

(* ... and then writes it, whole or not.                                   *)
WriteSettings(o) ==
  /\ At(o, "write")
  /\ \/ /\ InitGoto(o, "ok")
        /\ settings' \in Written(o)
        /\ spoilt' = (spoilt \/ o \in raced)
        /\ last' = IF o \in raced THEN {} ELSE {o}
     \/ /\ InitGoto(o, "failed")
        /\ settings' \in {settings, File("broken", NoHooks)}
        /\ spoilt' = TRUE
        /\ last' = {}
  /\ raced' = raced \union (Inits \ {o})
  /\ UNCHANGED <<ignored, plan, saves, saved>>

KillInit(o) ==
  /\ pc[o] = "closed" /\ ipc[o] \notin {"ok", "failed", "killed"}
  /\ InitGoto(o, "killed")
  /\ spoilt' = (spoilt \/ ipc[o] = "write")
  /\ UNCHANGED <<ignored, settings, plan, saves, saved, raced, last>>

(* The user, an editor or the agent saves other settings.                  *)
SaveSettings(f) ==
  /\ saves < MaxSaves
  /\ saves' = saves + 1
  /\ settings' = f /\ saved' = f
  /\ raced' = Inits
  /\ spoilt' = FALSE
  /\ last' = {}
  /\ UNCHANGED <<ipc, ignored, plan>>

-----------------------------------------------------------------------------
InstallInit ==
  /\ Init
  /\ ipc = [o \in Inits |-> "ignore"]
  /\ ignored \in BOOLEAN
  /\ settings \in UserFiles \union {File("absent", NoHooks)} /\ saved = settings
  /\ plan = [o \in Inits |-> NoHooks]
  /\ saves = 0 /\ raced = {} /\ spoilt = FALSE /\ last = {}

InitStep(o) ==
  \/ ScanIgnore(o) \/ AppendIgnore(o)
  \/ ReadSettings(o) \/ TruncateSettings(o) \/ WriteSettings(o)
  \/ KillInit(o)

InstallNext ==
  \/ Next /\ UNCHANGED installVars
  \/ (\/ \E o \in Inits : InitStep(o)
      \/ \E f \in UserFiles : SaveSettings(f)) /\ UNCHANGED vars

InstallSpec == InstallInit /\ [][InstallNext]_allVars

-----------------------------------------------------------------------------
(* Properties.                                                             *)

(* The inits, and the openers they are, hold values of their kinds.        *)
InstallTypeOK ==
  /\ TypeOK
  /\ ipc \in [Inits -> {"ignore", "append", "read", "truncate", "write", "ok",
                        "failed", "killed"}]
  /\ ignored \in BOOLEAN /\ spoilt \in BOOLEAN
  /\ settings.kind \in {"absent", "empty", "broken", "whole"}
  /\ settings.kind # "whole" => settings.hooks = NoHooks
  /\ saves \in 0..MaxSaves
  /\ raced \subseteq Inits /\ last \subseteq Inits /\ Cardinality(last) <= 1

UserSlots(groups) == {s \in Slots(groups) : ~IsBarq(HookAt(groups, s))}

(* The hooks that are not of barq-witness have the same commands in the    *)
(* same order: f takes each one of a to the one of b in its place.         *)
SameForUser(a, b) ==
  \E f \in [UserSlots(a) -> UserSlots(b)] :
    /\ \A t \in UserSlots(b) : \E s \in UserSlots(a) : f[s] = t
    /\ \A s \in UserSlots(a) : HookAt(b, f[s]).command = HookAt(a, s).command
    /\ \A s, t \in UserSlots(a) : Before(s, t) => Before(f[s], f[t])

(* The commands the user had saved are all there, in their order, and a    *)
(* file that could not be parsed is left as it is, however often and with  *)
(* which options init runs, fails or is killed: only an init cut off       *)
(* between truncating and writing, or one that writes over a change it has *)
(* not seen, loses any.                                                    *)
UserHooksKept ==
  ~spoilt /\ (\A o \in Inits : ~At(o, "write")) =>
    \/ settings = saved
    \/ /\ settings.kind = "whole" /\ saved.kind # "broken"
       /\ \A e \in Events : SameForUser(saved.hooks[e], settings.hooks[e])

(* Nothing is recorded twice because of the settings, however many inits   *)
(* ran over them, beside one another or after one was killed; and after an *)
(* init that nobody disturbed each event has a hook, with --force each of  *)
(* the hooks of barq-witness.                                              *)
EventsHookedOnce ==
  \A e \in Events :
    LET hooks == settings.hooks[e]
    IN  /\ EachOnce(hooks, OwnCommands(e))
        /\ \A o \in last :
             /\ hasBarqHooks(hooks)
             /\ o \in Forced =>
                  OwnCommands(e) \subseteq {HookAt(hooks, s).command : s \in Slots(hooks)}
=============================================================================
