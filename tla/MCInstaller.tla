---------------------------- MODULE MCInstaller ----------------------------
(* Instances of Installer for TLC.                                         *)
EXTENDS Installer

CONSTANTS o1, o2, o3

Hook(c) == [command |-> c, plain |-> TRUE]

(* One event with one hook of barq-witness, one with two.                  *)
SomeOwn ==
  [e \in {"SessionStart", "PostToolUse"} |->
     IF e = "SessionStart" THEN <<<<Hook("start")>>>>
     ELSE <<<<Hook("edit")>>, <<Hook("exec")>>>>]

SomeCommands == {"start", "edit", "exec", "greet", "lint", "edit2"}

SomeBarq == {"start", "edit", "exec"}

(* Hooks of the user's; one of them in a group with a hook of barq-witness *)
(* whose companion is missing; and a file that cannot be parsed.           *)
SomeFiles ==
  {File("whole", [SessionStart |-> <<<<[command |-> "greet", plain |-> FALSE]>>>>,
                  PostToolUse  |-> <<>>]),
   File("whole", [SessionStart |-> <<>>,
                  PostToolUse  |-> <<<<Hook("lint"), Hook("edit")>>, <<Hook("edit2")>>>>]),
   File("broken", [SessionStart |-> <<>>, PostToolUse |-> <<>>])}
=============================================================================
