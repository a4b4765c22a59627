---------------------------- MODULE NonFixedPool ----------------------------
(***************************************************************************)
(* lib/mp/mp_nonfixed.c for one memory type: every thread has a chunk that *)
(* is cut into nodes on demand.  A node put back by another thread goes    *)
(* through that thread's remote queue and a background thread to the local *)
(* queue of the thread it is of (as in FixedPool), and is merged with the  *)
(* free node after it when that thread's free nodes do not suffice; then   *)
(* all free neighbours are.  Memory is counted in units: a node at address *)
(* a with size s has its header at a and ends at a + Header + s.             *)
(***************************************************************************)
EXTENDS Naturals, Sequences

CONSTANTS Threads, None,
          Size,         \* of a chunk: mem_type_attr_nonfixed_t.size
          Header,       \* sizeof(mp_nonfixed_node_t)
          Least,        \* MP_NONFIXED_NODE_SIZE_MIN
          Requests,     \* sizes that users ask for
          Getters       \* bound: threads that get memory

\* Assumed of the constants.
NonFixedAssumption ==
  /\ Size \in Nat \ {0} /\ Header \in Nat \ {0} /\ Least \in Nat
  /\ Requests \subseteq Nat /\ Getters \subseteq Threads

VARIABLES
  pools,                \* the threads that have a pool
  nodes,                \* its nodes: the size at each address
  used,                 \* those with the flag used
  free,                 \* those in free_sl and addr_sl, which go together
  local, remote,        \* recycle.local and .remote, queues of <<thread, address>>
  out,                  \* what users have
  move,                 \* the background thread
  answer                \* history: the last request, and what came of it

vars == <<pools, nodes, used, free, local, remote, out, move, answer>>

Resting == [pc |-> "idle", todo |-> {}, cur |-> None, left |-> 0, hand |-> <<>>]

Init ==
  /\ pools = {} /\ nodes = [t \in Threads |-> <<>>]
  /\ used = [t \in Threads |-> {}] /\ free = [t \in Threads |-> {}]
  /\ local = [t \in Threads |-> <<>>] /\ remote = [t \in Threads |-> <<>>]
  /\ out = {} /\ move = Resting /\ answer = [thread |-> None, size |-> 0, ok |-> TRUE]

\* A chunk as its owner sees it.
Chunk(n, u, f) == [nodes |-> n, used |-> u, free |-> f]
Mine(t) == Chunk(nodes[t], used[t], free[t])
After(c, a) == a + Header + c.nodes[a]

-----------------------------------------------------------------------------
(* what is done to a chunk *)

\* _mp_nonfixed_supply.
Supply == Chunk([a \in {0} |-> Size], {}, {0})

\* mp_nonfixed_node_skiplist_ceil: the least that is large enough, and the
\* first of those.
Fits(c, s) == {a \in c.free : c.nodes[a] >= s}
Ceil(c, s) ==
  CHOOSE a \in Fits(c, s) : \A b \in Fits(c, s) :
    c.nodes[a] < c.nodes[b] \/ (c.nodes[a] = c.nodes[b] /\ a <= b)

Split_NoHead(c, a, s) ==        \* mutant: the new header is not allowed for
  IF c.nodes[a] < s + Header + Least THEN c
  ELSE LET b == a + Header + s
       IN Chunk([x \in DOMAIN c.nodes \cup {b} |->
                   IF x = a THEN s ELSE IF x = b THEN c.nodes[a] - s ELSE c.nodes[x]],
                c.used, c.free \cup {b})

\* _mp_nonfixed_node_split: what is left over becomes a free node.
Split(c, a, s) ==
  IF c.nodes[a] < s + Header + Least THEN c
  ELSE LET b == a + Header + s
       IN Chunk([x \in DOMAIN c.nodes \cup {b} |->
                   IF x = a THEN s
                   ELSE IF x = b THEN c.nodes[a] - s - Header ELSE c.nodes[x]],
                c.used, c.free \cup {b})

\* The node that serves a request is taken off both lists, split and marked.
Take(c, a, s) ==
  LET d == Split(Chunk(c.nodes, c.used, c.free \ {a}), a, s)
  IN  Chunk(d.nodes, d.used \cup {a}, d.free)

Merge_Any(c, a) ==              \* mutant: the flag of the node after it is not read
  LET b == After(c, a)
  IN  IF b >= Header + Size THEN c
      ELSE Chunk([x \in DOMAIN c.nodes \ {b} |->
                    IF x = a THEN c.nodes[a] + Header + c.nodes[b] ELSE c.nodes[x]],
                 c.used, c.free \ {b})

\* _mp_nonfixed_node_merge: with the node after it, if that is not in use.
Merge(c, a) ==
  LET b == After(c, a)
  IN  IF b >= Header + Size \/ b \in c.used THEN c
      ELSE Chunk([x \in DOMAIN c.nodes \ {b} |->
                    IF x = a THEN c.nodes[a] + Header + c.nodes[b] ELSE c.nodes[x]],
                 c.used, c.free \ {b})

\* One node of the local queue in _mp_nofixed_node_get_slow,
Return(c, node) ==
  LET d == Merge(c, node[2])
  IN  Chunk(d.nodes, d.used \ {node[2]}, d.free \cup {node[2]})

\* and all of them, in their order.
Returned(c, queue) ==
  LET after[n \in 0..Len(queue)] ==
        IF n = 0 THEN c ELSE Return(after[n - 1], queue[n])
  IN  after[Len(queue)]

FullMerge_None(c) == c          \* mutant: free neighbours stay as they are

\* _mp_nonfixed_free_sl_full_merged: a run of free neighbours becomes its first.
FullMerge(c) ==
  LET first == {a \in c.free : ~\E b \in c.free : After(c, b) = a}
      stops == (DOMAIN c.nodes \ (c.free \ first)) \cup {Header + Size}
      End(a) == CHOOSE x \in stops : x > a /\ \A y \in stops : y > a => x <= y
  IN  Chunk([a \in DOMAIN c.nodes \ (c.free \ first) |->
               IF a \in first THEN End(a) - a - Header ELSE c.nodes[a]],
            c.used, first)

-----------------------------------------------------------------------------
(* _mp_nonfixed_node_get *)

Become(t, c) ==
  /\ nodes' = [nodes EXCEPT ![t] = c.nodes]
  /\ used' = [used EXCEPT ![t] = c.used] /\ free' = [free EXCEPT ![t] = c.free]

Answer(t, c, s) ==
  IF Fits(c, s) # {}
  THEN LET a == Ceil(c, s)
       IN  /\ Become(t, Take(c, a, s)) /\ out' = out \cup {<<t, a>>}
           /\ answer' = [thread |-> t, size |-> s, ok |-> TRUE]
  ELSE /\ Become(t, c) /\ UNCHANGED out
       /\ answer' = [thread |-> t, size |-> s, ok |-> FALSE]

GetFast(t, s) ==
  /\ t \in pools /\ Fits(Mine(t), s) # {}
  /\ Answer(t, Mine(t), s)
  /\ UNCHANGED <<pools, local, remote, move>>

\* The background thread holds the lock of the table of recycle structures.
CanJoin(t) == t \in pools \/ move.pc = "idle"

\* The first get of a thread makes its pool and supplies it; later ones take
\* back what is in the local queue, and then, if that is not enough, merge.
GetSlow(t, s) ==
  /\ CanJoin(t) /\ (t \in pools => Fits(Mine(t), s) = {})
  /\ pools' = pools \cup {t} /\ local' = [local EXCEPT ![t] = <<>>]
  /\ LET c == IF t \in pools THEN Returned(Mine(t), local[t]) ELSE Supply
     IN  Answer(t, IF Fits(c, s) # {} THEN c ELSE FullMerge(c), s)
  /\ UNCHANGED <<remote, move>>

-----------------------------------------------------------------------------
\* _mp_nonfixed_node_put: a thread without a pool gets an empty one.
Put(t, node) ==
  /\ node \in out /\ CanJoin(t)
  /\ out' = out \ {node} /\ pools' = pools \cup {t}
  /\ IF node[1] = t
     THEN /\ used' = [used EXCEPT ![t] = @ \ {node[2]}]
          /\ free' = [free EXCEPT ![t] = @ \cup {node[2]}] /\ UNCHANGED remote
     ELSE remote' = [remote EXCEPT ![t] = Append(@, node)] /\ UNCHANGED <<used, free>>
  /\ UNCHANGED <<nodes, local, move, answer>>

-----------------------------------------------------------------------------
(* _mp_nonfixed_recycle_thd_wf *)

Idle == <<pools, nodes, used, free, out, answer>>

MoveStart ==
  /\ move.pc = "idle" /\ pools # {}
  /\ move' = [Resting EXCEPT !.pc = "next", !.todo = pools]
  /\ UNCHANGED <<Idle, local, remote>>

MoveNext ==
  /\ move.pc = "next"
  /\ IF move.todo = {} THEN move' = Resting
     ELSE \E t \in move.todo :
            move' = [move EXCEPT !.pc = "pop", !.todo = @ \ {t}, !.cur = t,
                                 !.left = Len(remote[t])]
  /\ UNCHANGED <<Idle, local, remote>>

MovePop ==
  /\ move.pc = "pop"
  /\ IF move.left = 0 THEN move' = [move EXCEPT !.pc = "next"] /\ UNCHANGED remote
     ELSE /\ move' = [move EXCEPT !.pc = "push", !.left = @ - 1,
                                  !.hand = remote[move.cur][1]]
          /\ remote' = [remote EXCEPT ![move.cur] = Tail(@)]
  /\ UNCHANGED <<Idle, local>>

MovePush ==
  /\ move.pc = "push" /\ move' = [move EXCEPT !.pc = "pop", !.hand = <<>>]
  /\ local' = [local EXCEPT ![move.hand[1]] = Append(@, move.hand)]
  /\ UNCHANGED <<Idle, remote>>

Move == MoveStart \/ MoveNext \/ MovePop \/ MovePush

Next ==
  \/ \E t \in Getters, s \in Requests : GetFast(t, s) \/ GetSlow(t, s)
  \/ \E t \in Threads, node \in out : Put(t, node)
  \/ Move

Spec == Init /\ [][Next]_vars

-----------------------------------------------------------------------------
InQueue(q) == {q[i] : i \in 1..Len(q)}

\* Whatever was split, merged, passed between threads and put back, the nodes
\* of a chunk lie end to end: none overlaps another and no unit is lost; each
\* is free or in one user's or queue's hands, and marked as used just then.
Tiled ==
  \A t \in Threads :
    LET c == Mine(t)
        held == {n \in out : n[1] = t} \cup {n \in InQueue(local[t]) : n[1] = t}
                \cup {n \in UNION {InQueue(remote[u]) : u \in Threads} : n[1] = t}
                \cup {n \in {move.hand} \ {<<>>} : n[1] = t}
    IN  /\ c.nodes # <<>> =>
             /\ 0 \in DOMAIN c.nodes
             /\ \A a \in DOMAIN c.nodes :
                  /\ After(c, a) \in DOMAIN c.nodes \cup {Header + Size}
                  /\ \A b \in DOMAIN c.nodes : b > a => After(c, a) <= b
        /\ c.free = DOMAIN c.nodes \ c.used
        /\ {n[2] : n \in held} = c.used

\* A request is refused only if there is no room for it: no free node is large
\* enough and no two free nodes are neighbours, except for nodes that are on
\* their way back.
NoRoom(t, s) ==
  /\ Fits(Mine(t), s) = {}
  /\ \A a, b \in free[t] : After(Mine(t), a) # b

RefusedForRoom ==
  [][\A t \in Threads, s \in Requests :
       answer' # answer /\ answer' = [thread |-> t, size |-> s, ok |-> FALSE]
         => NoRoom(t, s)']_vars
=============================================================================
