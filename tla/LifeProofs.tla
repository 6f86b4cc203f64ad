----------------------------- MODULE LifeProofs -----------------------------
(***************************************************************************)
(* What holds of the daemon's life cycle for any set of daemon processes,  *)
(* over whatever files the past left, as long as commands are given one by *)
(* one.                                                                    *)
(***************************************************************************)
EXTENDS DaemonLife, TLAPS

(* At most one daemon is alive, and from bind(2) and the pid file on it    *)
(* owns what names a daemon.  AtMostOneDaemon is not inductive: a start    *)
(* command sees a daemon only if the socket is that daemon's.              *)
LifeInv ==
  /\ TypeOK
  /\ ~hasty =>
       /\ \A d, e \in Daemons : Alive(d) /\ Alive(e) => d = e
       /\ \A d \in Daemons :
            /\ proc[d] \in Listening => sock = d
            /\ proc[d] \in {"written", "serving"} => pidFile = d

-----------------------------------------------------------------------------
LEMMA StepTyped ==
  ASSUME TypeOK, [Next]_vars
  PROVE  TypeOK'
  <1> USE DEF TypeOK, Goto, Unbound, Starting, Stopping, history
  <1>1. CASE UNCHANGED vars
    BY <1>1 DEF vars
  <1>2. ASSUME NEW d \in Daemons, Progress(d)
        PROVE  TypeOK'
    <2>1. CASE NewStat(d) \/ NewDial(d) \/ NewRemove(d)
      BY <2>1 DEF NewStat, NewDial, NewRemove
    <2>2. CASE NewOpen(d) \/ NewListen(d)
      BY <2>2 DEF NewOpen, NewListen
    <2>3. CASE StartWritePID(d) \/ StartNotify(d) \/ ReceiveSignal(d)
      BY <2>3 DEF StartWritePID, StartNotify, ReceiveSignal
    <2>4. CASE StopCloseListener(d) \/ StopCloseStore(d) \/ StopRemoveSocket(d)
      BY <2>4 DEF StopCloseListener, StopCloseStore, StopRemoveSocket
    <2>5. CASE StopRemovePID(d) \/ Exit(d)
      BY <2>5 DEF StopRemovePID, Exit
    <2> QED  BY <1>2, <2>1, <2>2, <2>3, <2>4, <2>5 DEF Progress
  <1>3. ASSUME NEW d \in Daemons, Crash(d)
        PROVE  TypeOK'
    BY <1>3 DEF Crash, Alive
  <1>4. ASSUME NEW d \in Daemons, StartCommand(d) \/ StopCommand(d)
        PROVE  TypeOK'
    <2>1. hasty' \in BOOLEAN
      BY <1>4, Zenon DEF StartCommand, StopCommand, Command
    <2> QED  BY <1>4, <2>1 DEF StartCommand, StopCommand, Alive
  <1> QED  BY <1>1, <1>2, <1>3, <1>4 DEF Next

(* A daemon that was dead stays so unless a start command is given, and    *)
(* only a command makes the history hasty.                                 *)
LEMMA WhoLives ==
  ASSUME TypeOK, NEW d \in Daemons, Progress(d) \/ Crash(d) \/ StopCommand(d)
  PROVE  /\ Alive(d)
         /\ \A e \in Daemons \ {d} : proc'[e] = proc[e]
         /\ hasty => hasty'
  BY DEF TypeOK, Alive, Progress, Crash, StopCommand, Command, Goto, history,
         NewStat, NewDial, NewRemove, NewOpen, NewListen, StartWritePID, StartNotify,
         ReceiveSignal, StopCloseListener, StopCloseStore, StopRemoveSocket,
         StopRemovePID, Exit

LEMMA StepLifeInv ==
  ASSUME LifeInv, [Next]_vars
  PROVE  LifeInv'
  <1>1. TypeOK /\ TypeOK'
    BY StepTyped DEF LifeInv
  <1>2. CASE UNCHANGED vars
    BY <1>1, <1>2 DEF LifeInv, Alive, vars, history
  <1>3. ASSUME NEW d \in Daemons, Progress(d) \/ Crash(d) \/ StopCommand(d)
        PROVE  LifeInv'
    <2> SUFFICES ASSUME ~hasty'
                 PROVE  /\ \A x, y \in Daemons : Alive(x)' /\ Alive(y)' => x = y
                        /\ \A x \in Daemons :
                             /\ proc'[x] \in Listening => sock' = x
                             /\ proc'[x] \in {"written", "serving"} => pidFile' = x
      BY <1>1 DEF LifeInv
    <2>1. ~hasty /\ Alive(d) /\ \A e \in Daemons \ {d} : proc'[e] = proc[e]
      BY <1>1, <1>3, WhoLives
    <2>2. \A e \in Daemons \ {d} : ~Alive(e) /\ ~Alive(e)'
      BY <2>1 DEF LifeInv, Alive
    <2>3. \A e \in Daemons \ {d} : proc'[e] \notin Listening \union {"written", "serving"}
      BY <2>2 DEF Alive, Listening
    <2>4. /\ proc[d] \in Listening => sock = d
          /\ proc[d] \in {"written", "serving"} => pidFile = d
      BY <2>1 DEF LifeInv
    <2>5. /\ proc'[d] \in Listening => sock' = d
          /\ proc'[d] \in {"written", "serving"} => pidFile' = d
      <3> USE <1>1, <2>4 DEF TypeOK, Goto, Listening, history
      <3>1. CASE NewStat(d) \/ NewDial(d) \/ NewRemove(d) \/ NewOpen(d) \/ NewListen(d)
        BY <3>1 DEF NewStat, NewDial, NewRemove, NewOpen, NewListen
      <3>2. CASE StartWritePID(d) \/ StartNotify(d) \/ ReceiveSignal(d)
        BY <3>2 DEF StartWritePID, StartNotify, ReceiveSignal
      <3>3. CASE \/ StopCloseListener(d) \/ StopCloseStore(d) \/ StopRemoveSocket(d)
                 \/ StopRemovePID(d) \/ Exit(d)
        BY <3>3 DEF StopCloseListener, StopCloseStore, StopRemoveSocket, StopRemovePID, Exit
      <3>4. CASE Crash(d) \/ StopCommand(d)
        BY <3>4 DEF Crash, StopCommand
      <3> QED  BY <1>3, <3>1, <3>2, <3>3, <3>4 DEF Progress
    <2> QED  BY <2>2, <2>3, <2>5
  <1>4. ASSUME NEW d \in Daemons, StartCommand(d)
        PROVE  LifeInv'
    <2> SUFFICES ASSUME ~hasty'
                 PROVE  /\ \A x, y \in Daemons : Alive(x)' /\ Alive(y)' => x = y
                        /\ \A x \in Daemons :
                             /\ proc'[x] \in Listening => sock' = x
                             /\ proc'[x] \in {"written", "serving"} => pidFile' = x
      BY <1>1 DEF LifeInv
    <2>1. ~hasty /\ Settled
      BY <1>4 DEF StartCommand, Command
    <2>2. \A e \in Daemons : ~Alive(e)
      <3> SUFFICES ASSUME NEW e \in Daemons, Alive(e) PROVE FALSE
        OBVIOUS
      <3>1. proc[e] = "serving"
        BY <2>1 DEF Settled, Alive
      <3>2. sock = e
        BY <2>1, <3>1 DEF LifeInv, Listening
      <3> QED  BY <1>4, <3>1, <3>2, LifeAssumption DEF StartCommand, Connects, Listening
    <2>3. \A e \in Daemons : proc'[e] = IF e = d THEN "stat" ELSE proc[e]
      BY <1>1, <1>4 DEF StartCommand, Goto, TypeOK
    <2> QED  BY <2>2, <2>3 DEF Alive, Listening
  <1> QED  BY <1>2, <1>3, <1>4 DEF Next

LEMMA LifeInvariant == Spec => []LifeInv
  <1>1. Init => LifeInv
    <2> SUFFICES ASSUME Init PROVE LifeInv
      OBVIOUS
    <2>1. \A d \in Daemons : proc[d] \in {"gone", "unborn"}
      BY DEF Init
    <2>2. TypeOK
      BY DEF Init, TypeOK, Unbound
    <2> QED  BY <2>1, <2>2 DEF LifeInv, Alive, Listening
  <1> QED  BY <1>1, StepLifeInv, PTL DEF Spec

(* Processes and files hold values of their kinds.                         *)
THEOREM LifeTyped == Spec => []TypeOK
  <1>1. LifeInv => TypeOK
    BY DEF LifeInv
  <1> QED  BY <1>1, LifeInvariant, PTL

(* Commands given one by one never lead to two daemons on one trace.       *)
THEOREM OneDaemon == Spec => []AtMostOneDaemon
  <1>1. LifeInv => AtMostOneDaemon
    BY DEF LifeInv, AtMostOneDaemon, Alive, Listening, Stopping
  <1> QED  BY <1>1, LifeInvariant, PTL

(* ... and the socket and the pid file are those of the daemon that serves. *)
THEOREM FilesOfServingDaemon == Spec => []FilesNameServingDaemon
  <1>1. LifeInv => FilesNameServingDaemon
    BY DEF LifeInv, FilesNameServingDaemon, Listening
  <1> QED  BY <1>1, LifeInvariant, PTL
=============================================================================
