-------------------------------- MODULE Zcap --------------------------------
(***************************************************************************)
(* net/zcap/zcap.c: capture on one interface.  The kernel fills the blocks *)
(* of a ring; the capture thread copies each frame to the queue of the     *)
(* flow it is of; a thread for each queue matches the packets against the  *)
(* filters that modules have registered, and calls back.  Packets are      *)
(* their arrival numbers.                                                  *)
(***************************************************************************)
EXTENDS Integers, Sequences, FiniteSets

CONSTANTS Queues, Shard,    \* ZCAP_HASH_Q_SIZE, and the hash of a flow key
          Blocks,           \* BLOCK_NR
          PoolSize,         \* packets that the memory pool holds
          Kinds,            \* frames, by what the code tells apart
          Filters,          \* the filters that are registered
          MaxPackets        \* bound: packets that arrive

\* _zcap_packet_flow_key_extract: a frame cut short has only a mark.
FlowKey(k) == IF k = "short" THEN "err" ELSE k

\* Assumed of the constants.
ZcapAssumption ==
  /\ Kinds \subseteq {"arp", "icmp", "tftp", "short", "own"}
  /\ Filters \subseteq {"arp", "icmp"}
  /\ \A k \in Kinds : Shard[FlowKey(k)] \in Queues
  /\ Blocks \in Nat \ {0} /\ PoolSize \in Nat /\ MaxPackets \in Nat

\* _zcap_pkt_info_extract: nothing is known of a short frame, and nobody's
\* addresses are ever filled in.
Info(k) ==
  [ LEN_TYPE |-> CASE k = "arp" -> "arp" [] k \in {"icmp", "tftp"} -> "ipv4" [] OTHER -> "0",
    PRO_TYPE |-> CASE k = "icmp" -> "icmp" [] k = "tftp" -> "udp" [] OTHER -> "0",
    SPORT |-> IF k = "tftp" THEN "69" ELSE "0",
    IP_SA |-> "0" ]

\* The filters of arp_module_init and ping_module_init.
FilterFields ==
  [ arp  |-> << <<"LEN_TYPE", "arp">> >>,
    icmp |-> << <<"LEN_TYPE", "ipv4">>, <<"PRO_TYPE", "icmp">> >> ]

VARIABLES
  ready, running, listed,   \* the captor: flags, in g_zcaptor_hash_head
  ring, kernel,             \* the blocks, and the one the kernel fills next
  rx, block_idx, frames,    \* the capture thread, and what it has of a block
  aq, alz,                  \* queues, and the threads behind them: a packet is in
                            \* its queue until its node is put back
  filters,                  \* fields that are registered for each filter, or -1
  pool,                     \* nodes of mp_nonfixed zcap that are left
  kind,                     \* of the packets that have arrived
  analyzed, called,         \* history: the order of analysis, the callbacks, and
  since,                    \* how many packets a filter had missed when complete
  wild                      \* the table of filters moved under a walk: the model ends

thread == <<running, rx, alz>>
history == <<analyzed, called, since, wild>>
vars == <<ready, running, listed, ring, kernel, rx, block_idx, frames, aq, alz, filters,
          pool, kind, analyzed, called, since, wild>>

KernelBlock == [user |-> FALSE, frames |-> <<>>]

Init ==
  /\ ready = FALSE /\ running = FALSE /\ listed = FALSE
  /\ ring = [b \in 0..(Blocks - 1) |-> KernelBlock] /\ kernel = 0
  /\ rx = "off" /\ block_idx = 0 /\ frames = <<>>
  /\ aq = [q \in Queues |-> <<>>] /\ alz = [q \in Queues |-> "off"]
  /\ filters = [f \in Filters |-> -1]
  /\ pool = PoolSize
  /\ kind = <<>> /\ analyzed = <<>> /\ called = {}
  /\ since = [f \in Filters |-> MaxPackets] /\ wild = FALSE

-----------------------------------------------------------------------------
(* start and end: core.c registers and starts each captor once *)

\* _zcap_init: the interface, the socket (_zcap_socket_init) or the ring
\* (_zcap_ring_init) may fail; a failure takes the captor out of the table.
Register ==
  /\ rx = "off" /\ ~listed /\ ~ready
  /\ \E ok \in BOOLEAN : listed' = ok /\ ready' = ok
  /\ UNCHANGED <<thread, ring, kernel, block_idx, frames, aq, filters, pool, kind,
                 history>>

\* _zcap_start.
Start ==
  /\ ready /\ ~running /\ rx = "off"
  /\ running' = TRUE /\ rx' = "wait" /\ alz' = [q \in Queues |-> "test"]
  /\ UNCHANGED <<ready, listed, ring, kernel, block_idx, frames, aq, filters, pool,
                 kind, history>>

\* zcap_module_exit_th: the flag, and the join of the capture thread.
Stop ==
  /\ listed /\ running /\ running' = FALSE
  /\ UNCHANGED <<ready, listed, ring, kernel, rx, block_idx, frames, aq, alz, filters,
                 pool, kind, history>>

\* zcap_module_exit_bh: it joins the threads, frees the filters and what they
\* have left in their queues.
End ==
  /\ listed /\ ~running /\ rx = "end" /\ \A q \in Queues : alz[q] = "end"
  /\ listed' = FALSE
  /\ pool' = PoolSize /\ aq' = [q \in Queues |-> <<>>]
  /\ filters' = [f \in Filters |-> -1]
  /\ UNCHANGED <<ready, thread, ring, kernel, block_idx, frames, kind, history>>

\* _zcap_register_pkt_filter, and _zcap_register_field for each of its fields,
\* while packets come in.  The table has no lock: a filter is seen from then on,
\* but if the table has to grow, and there are others in it that decide that, a
\* walk that is under way has lost it.
RegisterFilter(f) ==
  /\ listed /\ filters[f] = -1
  /\ filters' = [filters EXCEPT ![f] = 0]
  /\ \E grows \in BOOLEAN : wild' = (grows /\ \E q \in Queues : alz[q] = "match")
  /\ UNCHANGED <<ready, thread, listed, ring, kernel, block_idx, frames, aq, pool,
                 kind, analyzed, called, since>>

RegisterField(f) ==
  /\ filters[f] \in 0..(Len(FilterFields[f]) - 1)
  /\ filters' = [filters EXCEPT ![f] = @ + 1]
  /\ since' = [since EXCEPT ![f] = IF filters'[f] = Len(FilterFields[f])
                                   THEN Len(analyzed) ELSE @]
  /\ UNCHANGED <<ready, thread, listed, ring, kernel, block_idx, frames, aq, pool,
                 kind, analyzed, called, wild>>

-----------------------------------------------------------------------------
(* the capture thread: _zcap_routine *)

\* The kernel gives a block of one or two frames to the user, if it has one.
KernelFill ==
  /\ rx # "off" /\ ~ring[kernel].user
  /\ \E n \in 1..2 : \E ks \in [1..n -> Kinds] :
       /\ Len(kind) + n <= MaxPackets
       /\ kind' = kind \o ks
       /\ ring' = [ring EXCEPT ![kernel] =
                     [user |-> TRUE, frames |-> [i \in 1..n |-> Len(kind) + i]]]
  /\ kernel' = (kernel + 1) % Blocks
  /\ UNCHANGED <<ready, thread, listed, block_idx, frames, aq, filters, pool,
                 history>>

RxBlock_Skips ==                \* mutant: it goes past a block after each block
  /\ rx = "scan" /\ ring[block_idx].user
  /\ frames' = ring[block_idx].frames /\ rx' = "frames"
  /\ block_idx' = (block_idx + 1) % Blocks
  /\ UNCHANGED <<ready, running, listed, ring, kernel, aq, alz, filters,
                 pool, kind, history>>

RxBlock ==
  /\ rx = "scan" /\ ring[block_idx].user
  /\ frames' = ring[block_idx].frames /\ rx' = "frames"
  /\ UNCHANGED <<ready, running, listed, ring, kernel, block_idx, aq, alz, filters,
                 pool, kind, history>>

\* One frame is copied to the queue of its flow; its own are passed over, and
\* it is lost if there is no memory.
RxFrame ==
  /\ rx = "frames" /\ frames # <<>> /\ frames' = Tail(frames)
  /\ LET p == Head(frames)  q == Shard[FlowKey(kind[p])]
     IN  IF kind[p] = "own" \/ pool = 0
         THEN UNCHANGED <<aq, pool>>
         ELSE aq' = [aq EXCEPT ![q] = Append(@, p)] /\ pool' = pool - 1
  /\ UNCHANGED <<ready, thread, listed, ring, kernel, block_idx, filters, kind,
                 history>>

\* The block goes back to the kernel, and it is on to the next.
RxReturn ==
  /\ rx = "frames" /\ frames = <<>> /\ rx' = "scan"
  /\ ring' = [ring EXCEPT ![block_idx] = KernelBlock]
  /\ block_idx' = (block_idx + 1) % Blocks
  /\ UNCHANGED <<ready, running, listed, kernel, frames, aq, alz, filters, pool, kind,
                 history>>

\* When there is no block left it looks at the flag and waits for the kernel.
RxWait ==
  /\ \/ rx = "scan" /\ ~ring[block_idx].user /\ rx' = "wait"
     \/ rx = "wait" /\ running /\ ring[block_idx].user /\ rx' = "scan"
     \/ rx = "wait" /\ ~running /\ rx' = "end"
  /\ UNCHANGED <<ready, running, listed, ring, kernel, block_idx, frames, aq, alz,
                 filters, pool, kind, history>>

Rx == RxBlock \/ RxFrame \/ RxReturn \/ RxWait

-----------------------------------------------------------------------------
(* the threads behind the queues: _zcap_alz_routine *)

\* _zcap_pkt_filed_match.
FieldMatches(field, info) == info[field[1]] = field[2]

\* _zcap_analyze_a_packet: a filter takes a packet that has all its fields, all
\* it has been given so far.
Matching(p, have) ==
  { f \in Filters : /\ have[f] # -1
                    /\ \A i \in 1..have[f] : FieldMatches(FilterFields[f][i], Info(kind[p])) }

\* It pops a packet and walks the filters; one that gets a field on the way is
\* taken as it was.
AlzPacket(q) ==
  /\ alz[q] = "pop" /\ aq[q] # <<>> /\ alz' = [alz EXCEPT ![q] = "match"]
  /\ LET p == Head(aq[q])
     IN  /\ analyzed' = Append(analyzed, p)
         /\ called' = called \cup {<<f, Len(analyzed')>> : f \in Matching(p, filters)}
  /\ UNCHANGED <<ready, running, listed, ring, kernel, rx, block_idx, frames, aq,
                 filters, pool, kind, since, wild>>

AlzPut_Leaks(q) ==              \* mutant: the node is not put back
  /\ alz[q] = "match" /\ alz' = [alz EXCEPT ![q] = "pop"]
  /\ aq' = [aq EXCEPT ![q] = Tail(@)] /\ UNCHANGED pool
  /\ UNCHANGED <<ready, running, listed, ring, kernel, rx, block_idx, frames, filters,
                 kind, history>>

AlzPut(q) ==
  /\ alz[q] = "match" /\ alz' = [alz EXCEPT ![q] = "pop"]
  /\ aq' = [aq EXCEPT ![q] = Tail(@)] /\ pool' = pool + 1
  /\ UNCHANGED <<ready, running, listed, ring, kernel, rx, block_idx, frames, filters,
                 kind, history>>

\* It looks at the flag when the queue is empty, at the latest after a wait: what
\* has come in since then stays if the flag is cleared.
AlzLoop(q) ==
  /\ \/ alz[q] = "pop" /\ aq[q] = <<>> /\ alz' = [alz EXCEPT ![q] = "test"]
     \/ alz[q] = "test" /\ alz' = [alz EXCEPT ![q] = IF running THEN "pop" ELSE "end"]
  /\ UNCHANGED <<ready, running, listed, ring, kernel, rx, block_idx, frames, aq,
                 filters, pool, kind, history>>

Alz(q) == AlzPacket(q) \/ AlzPut(q) \/ AlzLoop(q)

Next ==
  /\ ~wild
  /\ \/ Register \/ Start \/ Stop \/ End \/ KernelFill \/ Rx
     \/ \E f \in Filters : RegisterFilter(f) \/ RegisterField(f)
     \/ \E q \in Queues : Alz(q)

Spec == Init /\ [][Next]_vars

-----------------------------------------------------------------------------
\* Where the nodes of the pool are that are not free.
Queued == UNION {{q} \X (1..Len(aq[q])) : q \in Queues}

\* Through the ring, the copies and the queues: packets of a flow are analyzed
\* in the order they came in, each of them once; each node of the pool is free
\* or in a queue; a filter calls back only for packets that it asks for, once
\* it has all its fields.  A walk that loses the table may do anything.
AnalyzedInOrder == ~wild =>
  /\ \A i, j \in 1..Len(analyzed) :
       /\ i < j
       /\ FlowKey(kind[analyzed[i]]) = FlowKey(kind[analyzed[j]])
       => analyzed[i] < analyzed[j]
  /\ pool + Cardinality(Queued) = PoolSize
  /\ \A f \in called :
       f[2] > since[f[1]] => f[1] \in Matching(analyzed[f[2]], [g \in Filters |-> Len(FilterFields[g])])

\* Blocks that the kernel has filled come back to it, unless capture is told to
\* stop: when no more packets arrive, []<>BlocksReturned.
BlocksReturned == rx # "end" /\ ~wild => \A b \in 0..(Blocks - 1) : ~ring[b].user
=============================================================================
