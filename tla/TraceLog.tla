------------------------------ MODULE TraceLog ------------------------------
(***************************************************************************)
(* What the recording path promises, without hooks, daemons or sockets: a  *)
(* log to which events are appended.  An event that is offered is stored,  *)
(* or a complaint about it is left, before the offer returns; it is stored *)
(* a second time only after a complaint; nothing stored is taken back, and *)
(* nothing is stored after the offer has returned.  An offer that is       *)
(* abandoned may still be stored, once.                                    *)
(***************************************************************************)
CONSTANTS
  Events,   (* the events that may be offered                              *)
  Paths     (* the ways an event can reach the log                         *)

VARIABLES
  status,    (* status[e]: how far the offer of e has come                 *)
  copies,    (* copies[e]: the paths on which e has been stored            *)
  complaints (* the events somebody has been told about                    *)

vars == <<status, copies, complaints>>

Init ==
  /\ status = [e \in Events |-> "waiting"]
  /\ copies = [e \in Events |-> {}]
  /\ complaints = {}

Offer(e) ==
  /\ status[e] = "waiting"
  /\ status' = [status EXCEPT ![e] = "open"]
  /\ UNCHANGED <<copies, complaints>>

(* What is offered is no event: refused, with a complaint.                 *)
Refuse(e) ==
  /\ status[e] = "waiting"
  /\ status' = [status EXCEPT ![e] = "returned"]
  /\ complaints' = complaints \union {e}
  /\ UNCHANGED copies

Complain(e) ==
  /\ status[e] = "open"
  /\ complaints' = complaints \union {e}
  /\ UNCHANGED <<status, copies>>

(* Stored while the offer is open or abandoned, for the first time.        *)
Store(e) ==
  /\ status[e] \in {"open", "abandoned"}
  /\ copies[e] = {}
  /\ \E p \in Paths : copies' = [copies EXCEPT ![e] = {p}]
  /\ UNCHANGED <<status, complaints>>

(* The offer returns: with a copy stored before or now, or a complaint.    *)
Return(e) ==
  /\ status[e] = "open"
  /\ status' = [status EXCEPT ![e] = "returned"]
  /\ \/ /\ copies[e] # {} \/ e \in complaints
        /\ UNCHANGED <<copies, complaints>>
     \/ /\ complaints' = complaints \union {e}
        /\ UNCHANGED copies
     \/ /\ copies[e] # {} => e \in complaints
        /\ \E p \in Paths \ copies[e] :
             copies' = [copies EXCEPT ![e] = @ \union {p}]
        /\ UNCHANGED complaints

Abandon(e) ==
  /\ status[e] = "open"
  /\ status' = [status EXCEPT ![e] = "abandoned"]
  /\ UNCHANGED <<copies, complaints>>

Next == \E e \in Events :
  Offer(e) \/ Refuse(e) \/ Complain(e) \/ Store(e) \/ Return(e) \/ Abandon(e)

Spec == Init /\ [][Next]_vars

(* Every offer returns unless it is abandoned.                             *)
FairSpec == Spec /\ \A e \in Events : WF_vars(Return(e))

=============================================================================
