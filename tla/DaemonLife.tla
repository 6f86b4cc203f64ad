----------------------------- MODULE DaemonLife -----------------------------
(***************************************************************************)
(* Starting, stopping and probing the recording daemon.  A daemon process  *)
(* and the `barq-witness daemon start|stop|status' commands meet only in   *)
(* two files of .witness: the Unix socket daemon.sock and daemon.pid.  A   *)
(* file is named by its path: whoever removes it removes whatever is there.*)
(***************************************************************************)
CONSTANTS
  Daemons,    (* the daemon processes that may be forked, each once        *)
  NoDaemon    (* a file that does not exist                                *)

ASSUME LifeAssumption == NoDaemon \notin Daemons

VARIABLES
  proc,     (* proc[d]: the next statement of daemon process d             *)
  sock,     (* the process that created daemon.sock, alive or dead         *)
  pidFile,  (* the process named in daemon.pid, alive or dead              *)
  signalled,(* the processes whose SIGTERM awaits their signal handler     *)
  hasty,    (* history: a command was issued before the last had its       *)
            (* effect, while a daemon was starting or stopping             *)
  ended     (* history: a daemon was stopped, has crashed or gave up       *)

history == <<hasty, ended>>
vars == <<proc, sock, pidFile, signalled, history>>

Unbound   == {"unborn", "stat", "dial", "remove", "open", "listen"}
Starting  == {"stat", "dial", "remove", "open", "listen", "bound", "written"}
Stopping  == {"close", "closestore", "removesock", "removepid", "exit"}
Listening == {"bound", "written", "serving", "close"}

Alive(d) == proc[d] \notin {"unborn", "gone"}

Goto(d, next) == proc' = [proc EXCEPT ![d] = next]

(* A connection to daemon.sock is accepted by the kernel.                  *)
Connects == sock # NoDaemon /\ proc[sock] \in Listening

(* ... and a ping is answered: acceptLoop runs once the pid is written.    *)
IsDaemonRunning == Connects /\ proc[sock] \in {"written", "serving"}

-----------------------------------------------------------------------------
(* The process `barq-witness --daemon-foreground': New, then Start.        *)

NewStat(d) ==
  /\ proc[d] = "stat"
  /\ Goto(d, IF sock = NoDaemon THEN "open" ELSE "dial")
  /\ UNCHANGED <<sock, pidFile, signalled, history>>

(* Somebody listens: "daemon already running", exit 1.                     *)
NewDial(d) ==
  /\ proc[d] = "dial"
  /\ Goto(d, IF Connects THEN "gone" ELSE "remove")
  /\ UNCHANGED <<sock, pidFile, signalled, history>>

(* Faulty form of NewRemove: the stale socket is left where it is.         *)
BugKeepsSocket(d) ==
  /\ proc[d] = "remove"
  /\ Goto(d, "open")
  /\ UNCHANGED <<sock, pidFile, signalled, history>>

NewRemove(d) ==
  /\ proc[d] = "remove"
  /\ sock' = NoDaemon
  /\ Goto(d, "open")
  /\ UNCHANGED <<pidFile, signalled, history>>

(* Faulty form of NewOpen: the pid is written before the socket is bound,  *)
(* by processes too that will find it taken.                               *)
BugPIDFirst(d) ==
  /\ proc[d] = "open"
  /\ pidFile' = d
  /\ Goto(d, "listen")
  /\ UNCHANGED <<sock, signalled, history>>

(* store.Open may fail: exit 1.                                            *)
NewOpen(d) ==
  /\ proc[d] = "open"
  /\ \/ Goto(d, "listen") /\ UNCHANGED ended
     \/ Goto(d, "gone") /\ ended' = TRUE
  /\ UNCHANGED <<sock, pidFile, signalled, hasty>>

(* bind(2) refuses a path that exists.                                     *)
NewListen(d) ==
  /\ proc[d] = "listen"
  /\ \/ /\ sock = NoDaemon
        /\ sock' = d
        /\ Goto(d, "bound")
     \/ /\ sock # NoDaemon
        /\ Goto(d, "gone")
        /\ UNCHANGED sock
  /\ UNCHANGED <<pidFile, signalled, history>>

(* Faulty form of StartWritePID: the file is not written.                  *)
BugNoPID(d) ==
  /\ proc[d] = "bound"
  /\ Goto(d, "written")
  /\ UNCHANGED <<sock, pidFile, signalled, history>>

StartWritePID(d) ==
  /\ proc[d] = "bound"
  /\ pidFile' = d
  /\ Goto(d, "written")
  /\ UNCHANGED <<sock, signalled, history>>

(* The goroutine of handleSignals has reached signal.Notify.               *)
StartNotify(d) ==
  /\ proc[d] = "written"
  /\ Goto(d, "serving")
  /\ UNCHANGED <<sock, pidFile, signalled, history>>

-----------------------------------------------------------------------------
(* handleSignals and Stop.                                                 *)

(* Faulty form of ReceiveSignal: the signal is swallowed.                  *)
BugSignalSwallowed(d) ==
  /\ proc[d] = "serving"
  /\ d \in signalled
  /\ signalled' = signalled \ {d}
  /\ UNCHANGED <<proc, sock, pidFile, history>>

ReceiveSignal(d) ==
  /\ proc[d] = "serving"
  /\ d \in signalled
  /\ signalled' = signalled \ {d}
  /\ Goto(d, "close")
  /\ UNCHANGED <<sock, pidFile, history>>

(* Closing a listener of package net unlinks its path.                     *)
StopCloseListener(d) ==
  /\ proc[d] = "close"
  /\ sock' = NoDaemon
  /\ Goto(d, "closestore")
  /\ UNCHANGED <<pidFile, signalled, history>>

StopCloseStore(d) ==
  /\ proc[d] = "closestore"
  /\ Goto(d, "removesock")
  /\ UNCHANGED <<sock, pidFile, signalled, history>>

StopRemoveSocket(d) ==
  /\ proc[d] = "removesock"
  /\ sock' = NoDaemon
  /\ Goto(d, "removepid")
  /\ UNCHANGED <<pidFile, signalled, history>>

StopRemovePID(d) ==
  /\ proc[d] = "removepid"
  /\ pidFile' = NoDaemon
  /\ Goto(d, "exit")
  /\ UNCHANGED <<sock, signalled, history>>

(* Faulty form of Exit: os.Exit is missing.                                *)
BugLivesOn(d) ==
  /\ proc[d] = "exit"
  /\ Goto(d, "serving")
  /\ UNCHANGED <<sock, pidFile, signalled, history>>

Exit(d) ==
  /\ proc[d] = "exit"
  /\ Goto(d, "gone")
  /\ signalled' = signalled \ {d}
  /\ UNCHANGED <<sock, pidFile, history>>

(* A crash or SIGKILL at any point leaves both files as they are.          *)
Crash(d) ==
  /\ Alive(d)
  /\ Goto(d, "gone")
  /\ signalled' = signalled \ {d}
  /\ ended' = TRUE
  /\ UNCHANGED <<sock, pidFile, hasty>>

-----------------------------------------------------------------------------
(* The commands.                                                           *)

(* No daemon is starting or about to stop.                                 *)
Settled ==
  \A d \in Daemons : proc[d] \in {"unborn", "serving", "gone"} /\ d \notin signalled

Command == hasty' = (hasty \/ ~Settled)

(* daemon start: a ping decides whether to fork.  A socket whose owner     *)
(* listens but does not accept yet keeps the command waiting.              *)
StartCommand(d) ==
  /\ proc[d] = "unborn"
  /\ ~Connects
  /\ Goto(d, "stat")
  /\ Command
  /\ UNCHANGED <<sock, pidFile, signalled, ended>>

(* daemon stop: signal the process named in the pid file and return.  A    *)
(* process that has not installed its handler yet dies of the signal.      *)
StopCommand(d) ==
  /\ pidFile = d
  /\ Alive(d)
  /\ \/ /\ proc[d] \in Starting
        /\ Goto(d, "gone")
        /\ UNCHANGED signalled
     \/ /\ proc[d] \notin Starting
        /\ signalled' = signalled \union {d}
        /\ UNCHANGED proc
  /\ Command
  /\ ended' = TRUE
  /\ UNCHANGED <<sock, pidFile>>

-----------------------------------------------------------------------------
(* Daemons of the past may have crashed and left either file behind.       *)
Init ==
  /\ \E dead \in SUBSET Daemons :
       /\ proc = [d \in Daemons |-> IF d \in dead THEN "gone" ELSE "unborn"]
       /\ sock \in dead \union {NoDaemon}
       /\ pidFile \in dead \union {NoDaemon}
  /\ signalled = {}
  /\ hasty = FALSE
  /\ ended = FALSE

(* What a daemon process does by itself.                                   *)
Progress(d) ==
  \/ NewStat(d)
  \/ NewDial(d)
  \/ NewRemove(d)
  \/ NewOpen(d)
  \/ NewListen(d)
  \/ StartWritePID(d)
  \/ StartNotify(d)
  \/ ReceiveSignal(d)
  \/ StopCloseListener(d)
  \/ StopCloseStore(d)
  \/ StopRemoveSocket(d)
  \/ StopRemovePID(d)
  \/ Exit(d)

Next == \E d \in Daemons :
  Progress(d) \/ Crash(d) \/ StartCommand(d) \/ StopCommand(d)

Spec == Init /\ [][Next]_vars

(* The kernel runs every daemon process; commands and crashes may cease.   *)
FairSpec == Spec /\ \A d \in Daemons : WF_vars(Progress(d))

-----------------------------------------------------------------------------
(* Properties.                                                             *)

(* The type of every variable.  The files name only processes that have    *)
(* got as far as to own them: the losers of a race for the socket never    *)
(* have their number in the pid file.                                      *)
TypeOK ==
  /\ proc \in [Daemons -> {"unborn", "serving", "gone"} \union Starting \union Stopping]
  /\ sock \in Daemons \union {NoDaemon}
  /\ pidFile \in Daemons \union {NoDaemon}
  /\ sock # NoDaemon => proc[sock] \notin Unbound
  /\ pidFile # NoDaemon => proc[pidFile] \notin Unbound \union {"bound"}
  /\ signalled \subseteq Daemons
  /\ hasty \in BOOLEAN
  /\ ended \in BOOLEAN

(* As long as commands are issued one by one, each after the daemon has    *)
(* settled, two daemons never have the trace open at once, whatever files  *)
(* earlier daemons left behind when they crashed.                          *)
AtMostOneDaemon ==
  ~hasty => \A d, e \in Daemons :
    {proc[d], proc[e]} \subseteq {"listen"} \union Listening \union Stopping => d = e

(* ... and `daemon stop' reaches the daemon that serves: the pid file      *)
(* names it and the socket is its own.                                     *)
FilesNameServingDaemon ==
  ~hasty => \A d \in Daemons : proc[d] = "serving" => pidFile = d /\ sock = d

(* A daemon that was told to stop ends, however busy the other daemons.    *)
StopEnds ==
  \A d \in Daemons : d \in signalled ~> proc[d] = "gone"

(* However many starts race, and whatever socket a crash left behind, as   *)
(* long as nothing fails a daemon can be reached in the end: the processes *)
(* that lose the race give way to one that serves.                         *)
StartsLeaveDaemon ==
  [](~ended) => ((\E d \in Daemons : proc[d] \in Starting) ~> [](IsDaemonRunning))

=============================================================================
