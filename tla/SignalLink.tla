------------------------------ MODULE SignalLink ------------------------------
(***************************************************************************)
(* What a signalling transport promises to its listener: the callbacks of  *)
(* AbsWebSocketTransport.Listener and the order they may come in, without  *)
(* sockets, threads or retries.  WebSocketTransport.tla implements it and  *)
(* ProtooPeer.tla is built on it.                                          *)
(***************************************************************************)

VARIABLES
  last,     \* the last callback the listener was given, "none" before any
  opened    \* onOpen has been given at least once

linkVars == <<last, opened>>

Callbacks == {"onOpen", "onFail", "onDisconnected", "onClose"}

LinkInit == last = "none" /\ opened = FALSE

(* A connection is established; never twice without losing it in between.  *)
Open == /\ last \notin {"onOpen", "onClose"}
        /\ last' = "onOpen"
        /\ opened' = TRUE

(* No connection could be established so far, another attempt is scheduled. *)
Fail == /\ ~opened
        /\ last # "onClose"
        /\ last' = "onFail"
        /\ UNCHANGED opened

(* A connection existed once and there is none now, another attempt is     *)
(* scheduled.                                                              *)
Disconnect == /\ opened
              /\ last # "onClose"
              /\ last' = "onDisconnected"
              /\ UNCHANGED opened

(* The transport is finished: its retries ran out.                         *)
End == /\ last # "onClose"
       /\ last' = "onClose"
       /\ UNCHANGED opened

LinkNext == Open \/ Fail \/ Disconnect \/ End

LinkSpec == LinkInit /\ [][LinkNext]_linkVars

===============================================================================
