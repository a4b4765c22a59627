-------------------------------- MODULE MCNet --------------------------------
(* The modules of net/, one at a time: which says whose behaviour it is, and *)
(* the others stay as they begin.  One run checks them all.                  *)
EXTENDS Naturals

CONSTANTS Senders, Ips, Cells, Workers, None,
          Queues, Shard, Blocks, PoolSize, Kinds, Filters,      \* of Zcap
          QueueCap, PingRequests, PingWaits, PingTries,
          \* Bounds: packets that arrive, and what is sent and asked for.
          ZcapPackets, TftpLens, TftpPackets, PingPackets, MaxSends, MaxReplies, MaxCalls,
          MaxEvents

\* A Shard of two queues; short frames share that of the others'.
TwoQueues == [k \in {"arp", "icmp", "tftp", "own", "err"} |-> IF k = "icmp" THEN 1 ELSE 2]

VARIABLE which
Components == {"zcap", "ftx", "arp", "ping", "tftp", "cmcp"}

VARIABLES z_ready, z_running, z_listed, z_ring, z_kernel, z_rx, z_block_idx,
          z_frames, z_aq, z_alz, z_filters, z_pool, z_kind,
          z_analyzed, z_called, z_since, z_wild
z_vars == <<z_ready, z_running, z_listed, z_ring, z_kernel, z_rx, z_block_idx,
            z_frames, z_aq, z_alz, z_filters, z_pool, z_kind,
            z_analyzed, z_called, z_since, z_wild>>
Z == INSTANCE Zcap WITH MaxPackets <- ZcapPackets, ready <- z_ready,
    running <- z_running, listed <- z_listed, ring <- z_ring, kernel <- z_kernel, rx <- z_rx, block_idx <- z_block_idx,
    frames <- z_frames, aq <- z_aq, alz <- z_alz, filters <- z_filters,
    pool <- z_pool, kind <- z_kind,
    analyzed <- z_analyzed, called <- z_called, since <- z_since, wild <- z_wild

VARIABLES f_listed, f_alive, f_status, f_fds, f_txq, f_tx, f_batch, f_sender,
          f_sends, f_node, f_tx_count, f_wire, f_dgrams, f_deinit, f_failed,
          f_wild
f_vars == <<f_listed, f_alive, f_status, f_fds, f_txq, f_tx, f_batch, f_sender,
            f_sends, f_node, f_tx_count, f_wire, f_dgrams, f_deinit, f_failed,
            f_wild>>
F == INSTANCE Ftx WITH listed <- f_listed,
    alive <- f_alive, status <- f_status, fds <- f_fds, txq <- f_txq,
    tx <- f_tx, batch <- f_batch, sender <- f_sender, sends <- f_sends,
    node <- f_node, tx_count <- f_tx_count, wire <- f_wire, dgrams <- f_dgrams,
    deinit <- f_deinit, failed <- f_failed, wild <- f_wild

VARIABLES a_table, a_cell, a_writer, a_reply, a_tasks, a_worker, a_user,
          a_calls, a_up, a_asked, a_heard, a_wild
a_vars == <<a_table, a_cell, a_writer, a_reply, a_tasks, a_worker, a_user,
            a_calls, a_up, a_asked, a_heard, a_wild>>
A == INSTANCE ArpCache WITH table <- a_table,
    cell <- a_cell, writer <- a_writer, reply <- a_reply, tasks <- a_tasks,
    worker <- a_worker, user <- a_user, calls <- a_calls, up <- a_up,
    asked <- a_asked, heard <- a_heard, wild <- a_wild

VARIABLES p_session, p_user, p_sent, p_count, p_thread, p_wire, p_heard, p_took
p_vars == <<p_session, p_user, p_sent, p_count, p_thread, p_wire, p_heard,
            p_took>>
P == INSTANCE Ping WITH Threads <- Workers, Requests <- PingRequests,
    Waits <- PingWaits, ArpTries <- PingTries, MaxPackets <- PingPackets, session <- p_session, user <- p_user,
    sent <- p_sent, count <- p_count, thread <- p_thread, wire <- p_wire,
    heard <- p_heard, took <- p_took

VARIABLES t_state, t_fp, t_expect, t_retry, t_last, t_server, t_mq, t_timer,
          t_cb, t_fsm, t_running, t_len, t_cli, t_asked, t_done, t_captor,
          t_sent, t_packets, t_kept, t_passed, t_doubled, t_lost, t_fails
t_vars == <<t_state, t_fp, t_expect, t_retry, t_last, t_server, t_mq, t_timer,
            t_cb, t_fsm, t_running, t_len, t_cli, t_asked, t_done, t_captor,
            t_sent, t_packets, t_kept, t_passed, t_doubled, t_lost, t_fails>>
T == INSTANCE Tftp WITH FileLens <- TftpLens, IdMod <- 3, Retries <- 1,
    MaxCommands <- 1, MaxPackets <- TftpPackets, MaxFails <- 1, state <- t_state,
    fp <- t_fp, expect <- t_expect, retry <- t_retry, last <- t_last,
    server <- t_server, mq <- t_mq, timer <- t_timer, cb <- t_cb, fsm <- t_fsm,
    running <- t_running, len <- t_len, cli <- t_cli, asked <- t_asked,
    done <- t_done, captor <- t_captor, sent <- t_sent, packets <- t_packets,
    kept <- t_kept, passed <- t_passed, doubled <- t_doubled, lost <- t_lost,
    fails <- t_fails

VARIABLES c_fsm, c_running, c_mq, c_state, c_tx, c_tx_running, c_txq, c_frame,
          c_given, c_exit, c_refused, c_wild
c_vars == <<c_fsm, c_running, c_mq, c_state, c_tx, c_tx_running, c_txq, c_frame,
            c_given, c_exit, c_refused, c_wild>>
C == INSTANCE Cmcp WITH fsm <- c_fsm,
    running <- c_running, mq <- c_mq, state <- c_state, tx <- c_tx,
    tx_running <- c_tx_running, txq <- c_txq, frame <- c_frame,
    given <- c_given, exit <- c_exit, refused <- c_refused,
    wild <- c_wild
-----------------------------------------------------------------------------
ASSUME NetAssumptions ==
  Z!ZcapAssumption /\ F!FtxAssumption /\ A!ArpAssumption /\ T!TftpAssumption /\ C!CmcpAssumption

Init ==
  /\ which \in Components
  /\ Z!Init /\ F!Init /\ A!Init /\ P!Init /\ T!Init /\ C!Init
  /\ which # "ftx" => f_listed
  /\ which # "arp" => a_asked = {}
  /\ which # "tftp" => \A n \in TftpLens : n >= t_len

Next ==
  /\ which' = which
  /\ \/ which = "zcap" /\ Z!Next /\ UNCHANGED <<f_vars, a_vars, p_vars, t_vars, c_vars>>
     \/ which = "ftx" /\ F!Next /\ UNCHANGED <<z_vars, a_vars, p_vars, t_vars, c_vars>>
     \/ which = "arp" /\ A!Next /\ UNCHANGED <<z_vars, f_vars, p_vars, t_vars, c_vars>>
     \/ which = "ping" /\ P!Next /\ UNCHANGED <<z_vars, f_vars, a_vars, t_vars, c_vars>>
     \/ which = "tftp" /\ T!Next /\ UNCHANGED <<z_vars, f_vars, a_vars, p_vars, c_vars>>
     \/ which = "cmcp" /\ C!Next /\ UNCHANGED <<z_vars, f_vars, a_vars, p_vars, t_vars>>

vars == <<which, z_vars, f_vars, a_vars, p_vars, t_vars, c_vars>>

\* Threads that have something to do do it, as long as the model goes on.
Fairness ==
  /\ WF_z_vars(which = "zcap" /\ ~z_wild /\ Z!Rx)
  /\ \A q \in Queues : WF_z_vars(which = "zcap" /\ ~z_wild /\ Z!Alz(q))
  /\ WF_f_vars(which = "ftx" /\ ~f_wild /\ F!Tx)
  /\ WF_f_vars(which = "ftx" /\ ~f_wild /\ f_deinit # "none" /\ F!Deinit)
  /\ WF_a_vars(which = "arp" /\ ~a_wild /\ A!CaptorAdd)
  /\ \A c \in Cells : WF_a_vars(which = "arp" /\ ~a_wild /\ (A!Age(c) \/ A!Expire(c)))
  /\ \A w \in Workers : WF_a_vars(which = "arp" /\ ~a_wild /\ A!Work(w))
  /\ WF_p_vars(which = "ping" /\ P!User)
  /\ WF_t_vars(which = "tftp" /\ T!Running(T!Fsm))
  /\ WF_t_vars(which = "tftp" /\ T!Running(T!CliDone))
  /\ WF_t_vars(which = "tftp" /\ T!Running(T!CaptorPush))
  /\ WF_t_vars(which = "tftp" /\ T!Running(T!ExitPush))
  /\ \A t \in T!Timers : /\ WF_t_vars(which = "tftp" /\ T!Running(T!Expire(t)))
                         /\ WF_t_vars(which = "tftp" /\ T!Running(T!Callback(t)))

FairSpec == Init /\ [][Next]_vars /\ Fairness

-----------------------------------------------------------------------------
\* Zcap: packets are analysed in the order of arrival, within a queue, and a
\* block that was given to the user goes back to the kernel.
AnalyzedInOrder == Z!AnalyzedInOrder
\* Ftx: what a sender queues goes out once and in order, and is freed.
SentOnce == F!SentOnce
\* ArpCache: every entry of the table is on its way to leave it.
EntriesAge == A!EntriesAge
\* Ping: no packet is counted for two requests.
CountedOnce == P!CountedOnce
\* Tftp: blocks are stored or sent in order, once each.
TransferInOrder == T!TransferInOrder
\* Cmcp: one hello in the life of its machine.
HelloOnce == C!HelloOnce

\* What is taken is given back: blocks of the ring to the kernel, queued frames
\* to the pool, entries of the ARP cache.
Returned == []<>(Z!BlocksReturned /\ F!QueueDrained /\ A!EntriesGone)
\* Whoever waits comes back, whatever the network does: ping, the commands of
\* Tftp and the end of its thread.
CallsReturn == []<>(P!Returned /\ T!Returned)
=============================================================================
