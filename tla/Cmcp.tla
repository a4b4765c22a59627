-------------------------------- MODULE Cmcp --------------------------------
(***************************************************************************)
(* net/cmcp: the state machine of a protocol that looks for its peer.  One *)
(* thread runs it on the events of the command line; another sends what it *)
(* builds, on both interfaces.  Each thread makes its own queue and sets   *)
(* the flag that keeps it running.                                         *)
(***************************************************************************)
EXTENDS Naturals, Sequences

CONSTANTS QueueCap,     \* CMCP_FSM_MSGQ_CAP, CMCP_TX_MSGQ_CAP
          MaxEvents,    \* bound: commands given
          None          \* a queue that is not there

\* Assumed of the constants.
CmcpAssumption == None \notin Seq(Nat)

VARIABLES
  fsm, running, mq,     \* the thread of the machine, its flag, its queue
  state,                \* g_cmcp_fsm_mgnt.state
  tx, tx_running, txq,  \* the thread that sends
  frame,                \* where the memory of each hello is, by its number
  given,                \* events pushed
  exit,                 \* cmcp_module_exit, as far as it is
  refused,              \* history: a queue was full
  wild                  \* a queue that is not there was used, or memory that
                        \* was given away: the model ends

fsmVars == <<fsm, running, mq, state>>
txVars == <<tx, tx_running, txq>>
vars == <<fsmVars, txVars, frame, given, exit, refused, wild>>

\* cmcp_module_init (cmcp_pkt_init registers filters: Zcap) creates the threads.
Init ==
  /\ fsm = "start" /\ running = FALSE /\ mq = None /\ state = "IDLE"
  /\ tx = "start" /\ tx_running = FALSE /\ txq = None
  /\ frame = <<>> /\ given = 0 /\ exit = "none"
  /\ refused = FALSE /\ wild = FALSE

\* cmcp_on_cli_hook and cmcp_off_cli_hook.
Command ==
  /\ given < MaxEvents /\ exit = "none" /\ given' = given + 1
  /\ \E ev \in {"START", "ABORT"} :
       mq' = IF mq # None /\ Len(mq) < QueueCap THEN Append(mq, ev) ELSE mq
  /\ wild' = (mq = None) /\ refused' = (refused \/ mq' = mq)
  /\ UNCHANGED <<fsm, running, state, txVars, frame, exit>>

-----------------------------------------------------------------------------
(* _cmcp_fsm *)

FsmInit ==
  /\ fsm = "start" /\ fsm' = "test"
  /\ running' = TRUE /\ mq' = <<>> /\ state' = "IDLE"
  /\ UNCHANGED <<txVars, frame, given, exit, refused, wild>>

FsmTest ==
  /\ fsm = "test" /\ fsm' = IF running THEN "pop" ELSE "end"
  /\ UNCHANGED <<running, mq, state, txVars, frame, given, exit, refused, wild>>

Polled_Again(s, ev) ==          \* mutant: a start is taken in every state
  IF ev = "ABORT" THEN "ABORT" ELSE "MATCH"

\* What the poll functions of the four states make of an event: that of the
\* abort state is the one of the match state.
Polled(s, ev) ==
  CASE ev = "ABORT" -> "ABORT"
    [] ev = "START" /\ s = "IDLE" -> "MATCH"
    [] OTHER -> s

\* _cmcp_tx_hello: without memory nothing is sent, and a full queue loses it.
Hello(n) ==
  \/ UNCHANGED <<frame, txq, wild, refused>>
  \/ /\ wild' = (txq = None)
     /\ IF txq # None /\ Len(txq) < QueueCap
        THEN txq' = Append(txq, n) /\ frame' = Append(frame, "queued") /\ UNCHANGED refused
        ELSE UNCHANGED txq /\ frame' = Append(frame, "lost") /\ refused' = TRUE

\* One message: poll, and enter of the match state when it is new; the others
\* have neither enter nor exit.
FsmPop ==
  /\ fsm = "pop" /\ mq # None
  /\ \/ mq = <<>> /\ fsm' = "test" /\ UNCHANGED <<mq, state, frame, txq, wild, refused>>
     \/ /\ mq # <<>> /\ mq' = Tail(mq) /\ fsm' = "test"
        /\ state' = Polled(state, Head(mq))
        /\ IF state' # state /\ state' = "MATCH" THEN Hello(Len(frame) + 1)
           ELSE UNCHANGED <<frame, txq, wild, refused>>
  /\ UNCHANGED <<running, tx, tx_running, given, exit>>

Fsm == FsmInit \/ FsmTest \/ FsmPop

-----------------------------------------------------------------------------
(* _cmcp_tx *)

TxInit ==
  /\ tx = "start" /\ tx' = "test" /\ tx_running' = TRUE /\ txq' = <<>>
  /\ UNCHANGED <<fsmVars, frame, given, exit, refused, wild>>

\* At the end the queue goes, with what is in it.
TxTest ==
  /\ tx = "test"
  /\ IF tx_running THEN tx' = "pop" /\ UNCHANGED txq ELSE tx' = "end" /\ txq' = None
  /\ UNCHANGED <<fsmVars, tx_running, frame, given, exit, refused, wild>>

\* ftx_send on eth0: the frame is queued there, and freed when it has been
\* sent, or freed at once if there is no such interface, or lost with one that
\* goes down; then the same memory is given to wlan0.
TxPop ==
  /\ tx = "pop"
  /\ \/ txq = <<>> /\ tx' = "test" /\ UNCHANGED <<txq, frame, wild>>
     \/ /\ txq # <<>> /\ tx' = "test" /\ txq' = Tail(txq)
        /\ \E eth0, wlan0 \in {"given", "lost"} :
             /\ frame' = [frame EXCEPT ![Head(txq)] =
                            IF eth0 = wlan0 THEN eth0 ELSE "given"]
             /\ wild' = (eth0 = "given" /\ wlan0 = "given")
  /\ UNCHANGED <<fsmVars, tx_running, given, exit, refused>>

Tx == TxInit \/ TxTest \/ TxPop

-----------------------------------------------------------------------------
(* cmcp_module_exit *)

\* cmcp_fsm_exit clears the flag,
ExitFlag ==
  /\ exit = "none" /\ exit' = "free" /\ running' = FALSE
  /\ UNCHANGED <<fsm, mq, state, txVars, frame, given, refused, wild>>

\* and frees the queue, in which the thread is waiting most of the time; it is
\* joined;
ExitFree ==
  /\ exit = "free" /\ exit' = "joinFsm" /\ mq' = None
  /\ wild' = (mq = None \/ fsm = "pop")
  /\ UNCHANGED <<fsm, running, state, txVars, frame, given, refused>>

\* cmcp_pkt_exit clears the other flag, and joins.
ExitTx ==
  /\ exit = "joinFsm" /\ fsm = "end" /\ exit' = "joinTx" /\ tx_running' = FALSE
  /\ UNCHANGED <<fsmVars, tx, txq, frame, given, refused, wild>>

ExitDone ==
  /\ exit = "joinTx" /\ tx = "end" /\ exit' = "done"
  /\ UNCHANGED <<fsmVars, txVars, frame, given, refused, wild>>

Exit == ExitFlag \/ ExitFree \/ ExitTx \/ ExitDone

Next == ~wild /\ (Command \/ Fsm \/ Tx \/ Exit)

Spec == Init /\ [][Next]_vars

-----------------------------------------------------------------------------
\* A hello is built once in the life of the machine: an abort is for good.  It
\* then waits to be sent, has been handed to an interface, or was lost with
\* one or to a full queue.
HelloOnce ==
  /\ Len(frame) <= 1 /\ (Len(frame) = 1 => state # "IDLE")
  /\ \A n \in 1..Len(frame) :
       frame[n] = "queued" /\ ~wild => txq \in {None, <<n>>}
=============================================================================
