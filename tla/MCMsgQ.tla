------------------------------- MODULE MCMsgQ -------------------------------
(* What hands things from one thread to another, one module at a time:      *)
(* which says whose behaviour it is, and the others stay as they begin.     *)
(*   - the message queue: two producers with two messages each on a ring of *)
(*     two, which fills, wraps and empties again, while pushes are refused  *)
(*     and the consumer sleeps between;                                     *)
(*   - the queue of one producer and one consumer: three items pushed five  *)
(*     times, so that each can be reused and the queue can drain and refill *)
(*     twice;                                                               *)
(*   - the three kinds of memory pool, whose nodes go home through queues.  *)
EXTENDS MsgQ

CONSTANTS Items, MaxPushes      \* of the latter queue

CONSTANTS Threads, Nodes, NodeCnt,      \* of FixedPool
  Size, Header, Least, Requests,        \* of NonFixedPool
  Sizes, Count, Threshold,              \* of SlabPool
  Getters                       \* bound: threads that get memory of any size

VARIABLE which

VARIABLES a_next, a_last, a_count, a_ppc, a_item, a_prev, a_cpc, a_it, a_n,
          a_succ, a_pushed, a_popped, a_raced
a_vars == <<a_next, a_last, a_count, a_ppc, a_item, a_prev, a_cpc, a_it, a_n,
            a_succ, a_pushed, a_popped, a_raced>>
A == INSTANCE SpscQueue WITH next <- a_next, last <- a_last,
    count <- a_count, ppc <- a_ppc, item <- a_item,
    prev <- a_prev, cpc <- a_cpc, it <- a_it, n <- a_n, succ <- a_succ,
    pushed <- a_pushed, popped <- a_popped, raced <- a_raced
VARIABLES f_pools, f_tid, f_freeList, f_local, f_remote, f_out, f_mpc, f_todo,
          f_cur, f_left, f_hand
f_vars == <<f_pools, f_tid, f_freeList, f_local, f_remote, f_out, f_mpc, f_todo,
            f_cur, f_left, f_hand>>
F == INSTANCE FixedPool WITH pools <- f_pools, tid <- f_tid,
    freeList <- f_freeList, local <- f_local, remote <- f_remote, out <- f_out,
    mpc <- f_mpc, todo <- f_todo, cur <- f_cur, left <- f_left, hand <- f_hand

VARIABLES n_pools, n_nodes, n_used, n_free, n_local, n_remote, n_out, n_move,
          n_answer
n_vars == <<n_pools, n_nodes, n_used, n_free, n_local, n_remote, n_out, n_move,
            n_answer>>
N == INSTANCE NonFixedPool WITH None <- F!None, pools <- n_pools, nodes <- n_nodes,
    used <- n_used, free <- n_free, local <- n_local, remote <- n_remote,
    out <- n_out, move <- n_move, answer <- n_answer

VARIABLES s_pools, s_made, s_freeLists, s_local, s_remote, s_out, s_move,
          s_refused
s_vars == <<s_pools, s_made, s_freeLists, s_local, s_remote, s_out, s_move,
            s_refused>>
S == INSTANCE SlabPool WITH None <- F!None, Slots <- Sizes, pools <- s_pools,
    made <- s_made, freeLists <- s_freeLists, local <- s_local,
    remote <- s_remote, out <- s_out, move <- s_move, refused <- s_refused
-----------------------------------------------------------------------------
ASSUME SpscAssumptions == A!ItemsAssumption
ASSUME PoolAssumptions ==
  F!FixedPoolAssumption /\ F!FixedPoolNone /\ N!NonFixedAssumption /\ S!SlabAssumption
ASSUME SlabSlots == S!SlotLargeEnough

QueuesInit ==
  /\ which \in {"msg_q", "spsc", "fixed", "nonfixed", "slab"}
  /\ Init /\ A!Init /\ F!Init /\ N!Init /\ S!Init
  /\ which # "spsc" => a_item = CHOOSE i \in Items : TRUE

QueuesNext ==
  /\ which' = which
  /\ \/ which = "msg_q" /\ Next
        /\ UNCHANGED <<a_vars, f_vars, n_vars, s_vars>>
     \/ which = "spsc" /\ A!Next
        /\ UNCHANGED <<vars, f_vars, n_vars, s_vars>>
     \/ which = "fixed" /\ F!Next
        /\ UNCHANGED <<vars, a_vars, n_vars, s_vars>>
     \/ which = "nonfixed" /\ N!Next
        /\ UNCHANGED <<vars, a_vars, f_vars, s_vars>>
     \/ which = "slab" /\ S!Next
        /\ UNCHANGED <<vars, a_vars, f_vars, n_vars>>

all == <<which, vars, a_vars, f_vars, n_vars, s_vars>>

\* A call that has begun runs to its end, the consumer of a message queue pops
\* in a loop, and the recycling thread comes round.
QueuesSpec ==
  /\ QueuesInit /\ [][QueuesNext]_all
  /\ \A p \in Producers : WF_vars(which = "msg_q" /\ Pushing(p))
  /\ WF_vars(which = "msg_q" /\ Consuming)
  /\ WF_a_vars(which = "spsc" /\ A!Pushing)
  /\ WF_a_vars(which = "spsc" /\ (A!PopCount \/ A!PopSpin \/ A!PopStore))
  /\ WF_f_vars(which = "fixed" /\ F!Moving)
  /\ \A t \in Threads : WF_f_vars(which = "fixed" /\ F!MoveNext(t))

-----------------------------------------------------------------------------
\* SpscQueue: what is popped is what was pushed, in order, also when an item is
\* pushed again; and an item that is counted is linked, unless a push met the pop
\* of the last item half way.
SpscKept == A!TypeOK /\ A!PoppedInOrder /\ A!NothingLostUnlessRaced
\* Every message that a queue accepts is received, and a pop's wait for the
\* successor that a push has counted ends.
Served == AcceptedReceived /\ A!SpinEnds
\* SpscQueue: the same without the exception, as docs/type/atom_queue.md has it.
NothingLost == A!NothingLost

\* FixedPool, NonFixedPool, SlabPool: every node is in one place, whichever thread
\* has put it and whichever has carried it home; the nodes of a chunk lie end to
\* end; and a node of the slab is on lists of its own thread and size.
NodesWhole == F!TypeOK /\ F!EveryNodeOnce /\ N!Tiled /\ S!NodesHome
\* FixedPool: a node that is not in use is with the thread it was allocated for.
NodesGoHome == F!NodesGoHome
\* FixedPool: a node that another thread put back comes home.
RemoteReturned == F!RemoteReturned
\* NonFixedPool, SlabPool: a request is refused only when the chunk has no room
\* for it, and a get only when its thread has no such node at all.
Refusals == N!RefusedForRoom /\ S!RefusedIfNone
=============================================================================
