--------------------------------- MODULE Ftx ---------------------------------
(***************************************************************************)
(* net/ftx/ftx.c: frames are sent on an interface by a thread that takes   *)
(* them from a queue and gives them to the kernel in batches; datagrams go *)
(* to the kernel at once.  A sender gives its memory away with the frame.  *)
(***************************************************************************)
EXTENDS Naturals, Sequences, FiniteSets

CONSTANTS Senders,
          QueueCap,     \* FTX_TX_MSGQ_SIZE, of the queue and of a batch
          MaxSends      \* bound: frames of each sender

\* Assumed of the constants.
FtxAssumption == MaxSends \in Nat

VARIABLES
  listed, alive,    \* the interface is in g_ftx_hash; its memory is not freed
  status, fds,      \* its flag, and its open sockets
  txq, tx, batch,   \* tx_q, the thread, and what it has taken
  sender, sends,    \* calls under way, and how many there have been
  node,             \* where the memory of each frame is
  tx_count,         \* stat
  wire, dgrams,     \* external: what the kernel has sent
  deinit,           \* _ftx_deinit, as far as it is
  failed, wild      \* history: sendmmsg failed; memory that is not there was used

iface == <<listed, alive, status, fds>>
vars == <<iface, txq, tx, batch, sender, sends, node, tx_count, wire, dgrams, deinit,
          failed, wild>>

Frames == Senders \X (1..MaxSends)
Frame(s) == <<s, sends[s]>>
Ready == [s \in Senders |-> "ready"]

\* _ftx_init: an interface that is up, in the table before it has its queue, or
\* one whose sockets fail; _ftx_cleanup closes the raw socket twice, and not the
\* other.
Init ==
  /\ \/ listed = TRUE /\ status = TRUE /\ fds = {"raw", "udp"} /\ tx = "create"
     \/ listed = FALSE /\ status = FALSE /\ tx = "off"
        /\ fds \in {{}, {"udp"}}
  /\ alive = listed /\ txq = <<>> /\ batch = <<>>
  /\ sender = Ready /\ sends = [s \in Senders |-> 0]
  /\ node = [f \in Frames |-> "none"]
  /\ tx_count = 0 /\ wire = <<>> /\ dgrams = 0
  /\ deinit = "none" /\ failed = FALSE /\ wild = FALSE

Place(F, where) == node' = [f \in Frames |-> IF f \in F THEN where ELSE node[f]]
ToSet(q) == {q[i] : i \in 1..Len(q)}

-----------------------------------------------------------------------------
(* _ftx_send and _ftx_send_udp; ftx_status_get, ftx_mac_get, ftx_ip_get *)

\* The interface is looked up under the read lock; without it, the frame goes
\* back to its pool, and a datagram does not.
Call(s, kind) ==
  /\ sender[s] = "ready" /\ sends[s] < MaxSends
  /\ sends' = [sends EXCEPT ![s] = @ + 1]
  /\ sender' = [sender EXCEPT ![s] = IF listed THEN kind ELSE "ready"]
  /\ Place({<<s, sends'[s]>>},
           IF listed THEN "user" ELSE IF kind = "udp" THEN "lost" ELSE "free")
  /\ UNCHANGED <<iface, txq, tx, batch, tx_count, wire, dgrams, deinit, failed, wild>>

\* The flag is looked at before each try,
SendTest(s) ==
  /\ sender[s] = "frame" /\ wild' = ~alive
  /\ sender' = [sender EXCEPT ![s] = IF status THEN "push" ELSE "ready"]
  /\ Place({f \in {Frame(s)} : ~status}, "lost")
  /\ UNCHANGED <<iface, txq, tx, batch, sends, tx_count, wire, dgrams, deinit, failed>>

SendPush_Full(s) ==             \* mutant: a full queue is not tried again
  /\ sender[s] = "push" /\ wild' = (tx = "create" \/ deinit \notin {"none", "join"})
  /\ sender' = [sender EXCEPT ![s] = "ready"]
  /\ IF Len(txq) < QueueCap
     THEN txq' = Append(txq, Frame(s)) /\ Place({Frame(s)}, "queued")
     ELSE Place({Frame(s)}, "lost") /\ UNCHANGED txq
  /\ UNCHANGED <<iface, tx, batch, sends, tx_count, wire, dgrams, deinit, failed>>

\* and a try finds the queue full or not.
SendPush(s) ==
  /\ sender[s] = "push" /\ wild' = (tx = "create" \/ deinit \notin {"none", "join"})
  /\ IF Len(txq) < QueueCap
     THEN /\ txq' = Append(txq, Frame(s)) /\ Place({Frame(s)}, "queued")
          /\ sender' = [sender EXCEPT ![s] = "ready"]
     ELSE sender' = [sender EXCEPT ![s] = "frame"] /\ UNCHANGED <<txq, node>>
  /\ UNCHANGED <<iface, tx, batch, sends, tx_count, wire, dgrams, deinit, failed>>

\* Only a datagram that was sent has its memory freed.
SendUdp(s) ==
  /\ sender[s] = "udp" /\ wild' = ~alive
  /\ sender' = [sender EXCEPT ![s] = "ready"]
  /\ \/ /\ status /\ tx_count' = tx_count + 1 /\ dgrams' = dgrams + 1
        /\ Place({Frame(s)}, "free") /\ UNCHANGED failed
     \/ Place({Frame(s)}, "lost") /\ failed' = (failed \/ status)
        /\ UNCHANGED <<tx_count, dgrams>>
  /\ UNCHANGED <<iface, txq, tx, batch, sends, wire, deinit>>

\* What was found is read after the lock is left.
Query(s) ==
  /\ \/ sender[s] = "ready" /\ listed /\ sender' = [sender EXCEPT ![s] = "query"]
        /\ UNCHANGED wild
     \/ sender[s] = "query" /\ sender' = [sender EXCEPT ![s] = "ready"]
        /\ wild' = ~alive
  /\ UNCHANGED <<iface, txq, tx, batch, sends, node, tx_count, wire, dgrams, deinit,
                 failed>>

-----------------------------------------------------------------------------
(* the thread: _ftx_tx_routine *)

\* The queue is made, and the thread.
TxStart ==
  /\ tx = "create" /\ tx' = "test"
  /\ UNCHANGED <<iface, txq, batch, sender, sends, node, tx_count, wire, dgrams, deinit,
                 failed, wild>>

TxTest ==
  /\ tx = "test" /\ tx' = IF status THEN "pop" ELSE "end"
  /\ UNCHANGED <<iface, txq, batch, sender, sends, node, tx_count, wire, dgrams, deinit,
                 failed, wild>>

\* It takes all there is, or what there is after 2 s.
TxPop ==
  /\ tx = "pop"
  /\ tx' = IF txq = <<>> THEN "test" ELSE "send"
  /\ batch' = txq /\ txq' = <<>> /\ Place(ToSet(txq), "batch")
  /\ UNCHANGED <<iface, sender, sends, tx_count, wire, dgrams, deinit, failed, wild>>

TxSend_Again ==                 \* mutant: a batch of which some are sent is sent again
  /\ tx = "send" /\ batch # <<>>
  /\ \E n \in 1..Len(batch) :
       /\ wire' = wire \o SubSeq(batch, 1, n) /\ tx_count' = tx_count + n
       /\ Place({batch[i] : i \in 1..n}, "free")
       /\ batch' = SubSeq(batch, n, Len(batch) - 1)
  /\ tx' = IF batch' = <<>> THEN "test" ELSE "send"
  /\ UNCHANGED <<iface, txq, sender, sends, dgrams, deinit, failed, wild>>

\* sendmmsg takes as many as it likes: those are counted and freed; the rest
\* are for another call.
TxSend ==
  /\ tx = "send" /\ batch # <<>>
  /\ \E n \in 1..Len(batch) :
       /\ wire' = wire \o SubSeq(batch, 1, n) /\ tx_count' = tx_count + n
       /\ Place({batch[i] : i \in 1..n}, "free")
       /\ batch' = SubSeq(batch, n + 1, Len(batch))
  /\ tx' = IF batch' = <<>> THEN "test" ELSE "send"
  /\ UNCHANGED <<iface, txq, sender, sends, dgrams, deinit, failed, wild>>

\* An error drops the batch, with its memory.
TxFail ==
  /\ tx = "send" /\ tx' = "test"
  /\ Place(ToSet(batch), "lost") /\ batch' = <<>> /\ failed' = TRUE
  /\ UNCHANGED <<iface, txq, sender, sends, tx_count, wire, dgrams, deinit, wild>>

Tx == TxStart \/ TxTest \/ TxPop \/ TxSend

-----------------------------------------------------------------------------
(* _ftx_deinit *)

DeinitFlag ==
  /\ deinit = "none" /\ listed /\ tx # "create" /\ deinit' = "join" /\ status' = FALSE
  /\ UNCHANGED <<listed, alive, fds, txq, tx, batch, sender, sends, node, tx_count,
                 wire, dgrams, failed, wild>>

\* The thread has ended: its queue goes, and what is in it;
DeinitQueue ==
  /\ deinit = "join" /\ tx = "end" /\ deinit' = "unlist"
  /\ txq' = <<>> /\ Place(ToSet(txq), "lost")
  /\ UNCHANGED <<iface, tx, batch, sender, sends, tx_count, wire, dgrams, failed, wild>>

DeinitUnlist ==
  /\ deinit = "unlist" /\ deinit' = "free" /\ listed' = FALSE
  /\ UNCHANGED <<alive, status, fds, txq, tx, batch, sender, sends, node, tx_count,
                 wire, dgrams, failed, wild>>

\* _ftx_cleanup.
DeinitFree ==
  /\ deinit = "free" /\ deinit' = "done" /\ alive' = FALSE
  /\ fds' = fds \ {"raw"}
  /\ UNCHANGED <<listed, status, txq, tx, batch, sender, sends, node, tx_count, wire,
                 dgrams, failed, wild>>

Deinit == DeinitFlag \/ DeinitQueue \/ DeinitUnlist \/ DeinitFree

Next ==
  /\ ~wild
  /\ \/ \E s \in Senders : \/ Call(s, "frame") \/ Call(s, "udp") \/ Query(s)
                           \/ SendTest(s) \/ SendPush(s) \/ SendUdp(s)
     \/ Tx \/ TxFail \/ Deinit

Spec == Init /\ [][Next]_vars

-----------------------------------------------------------------------------
\* Frames of a sender go out in its order and once each, however the kernel
\* cuts the batches, and each that went out was counted and gave its memory
\* back; memory is lost only to an error of the kernel or to an interface that
\* is going away, or was never up.
SentOnce ==
  ~wild =>
  /\ \A i, j \in 1..Len(wire) : i < j /\ wire[i][1] = wire[j][1] => wire[i][2] < wire[j][2]
  /\ tx_count = Len(wire) + dgrams
  /\ \A f \in ToSet(wire) : node[f] = "free"
  /\ (\E f \in Frames : node[f] = "lost") => failed \/ ~status

\* Frames that are queued do not stay there: they go out, or are lost with the
\* interface: when no more are sent, []<>QueueDrained.
QueueDrained == wild \/ \A f \in Frames : node[f] # "queued"
=============================================================================
