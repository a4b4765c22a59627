----------------------------- MODULE FixedPool -----------------------------
(***************************************************************************)
(* lib/mp/mp_fixed.c for one memory type: every thread has a pool of its   *)
(* own with a free list; a node put back by another thread goes to that    *)
(* thread's remote queue, and a background thread moves it to the local    *)
(* queue of the pool it came from, where the next slow get finds it.       *)
(*                                                                         *)
(* The two queues are single-producer single-consumer queues and are taken *)
(* here at what they promise (SpscQueue has their steps): count, push and  *)
(* pop are atomic, and nothing is lost in them.  The counters used and     *)
(* free, which only the command line shows, are left out.                  *)
(***************************************************************************)
EXTENDS Integers, Sequences, FiniteSets

CONSTANTS Threads,      \* the threads that get and put nodes
          Nodes,        \* the nodes the system can allocate
          NodeCnt       \* mem_type_attr_fixed_t.node_cnt, nodes per pool

\* Assumed of the constants.
FixedPoolAssumption ==
  /\ IsFiniteSet(Threads) /\ IsFiniteSet(Nodes)
  /\ NodeCnt \in Nat \ {0}
  /\ Cardinality(Nodes) >= NodeCnt * Cardinality(Threads)

None == "none"
FixedPoolNone == None \notin Nodes \cup Threads

VARIABLES
  pools,                \* the threads that have a pool (their recycle is in the
                        \* global table)
  tid,                  \* the thread whose pool each node was allocated for
  freeList, local, remote,      \* per pool: free_list, recycle.local, .remote
  out,                  \* the nodes users have, whichever thread they are in
  mpc, todo, cur, left, hand    \* the recycling thread: where it is, the pools
                        \* it has yet to visit, the one it is at, what is left
                        \* of its count, and the node it carries

poolVars == <<freeList, local, remote, out>>
moverVars == <<mpc, todo, cur, left, hand>>
vars == <<pools, tid, poolVars, moverVars>>

Init ==
  /\ pools = {} /\ tid = [x \in Nodes |-> None]
  /\ freeList = [t \in Threads |-> <<>>]
  /\ local = [t \in Threads |-> <<>>] /\ remote = [t \in Threads |-> <<>>]
  /\ out = {}
  /\ mpc = "idle" /\ todo = {} /\ cur = None /\ left = 0 /\ hand = None

\* The write lock of the global table: the recycling thread holds it for
\* reading during a whole round.
CanRegister(t) == t \in pools \/ mpc = "idle"

-----------------------------------------------------------------------------
(* _mp_fixed_node_get *)

\* The free list becomes list and its head is taken; a list that is empty
\* gives NULL.
Pop(t, list) ==
  LET k == IF list = <<>> THEN 0 ELSE 1
  IN /\ freeList' = [freeList EXCEPT ![t] = SubSeq(list, 1 + k, Len(list))]
     /\ out' = out \cup {list[i] : i \in 1..k}

GetFast(t) ==
  /\ t \in pools /\ freeList[t] # <<>>
  /\ Pop(t, freeList[t])
  /\ UNCHANGED <<pools, tid, local, remote, moverVars>>

\* The first get of a thread makes its pool and supplies it.
GetCreate(t) ==
  /\ t \notin pools /\ CanRegister(t)
  /\ pools' = pools \cup {t}
  /\ \E new \in [1..NodeCnt -> {x \in Nodes : tid[x] = None}] :
       /\ \A i, j \in 1..NodeCnt : i # j => new[i] # new[j]
       /\ tid' = [x \in Nodes |->
                    IF \E i \in 1..NodeCnt : new[i] = x THEN t ELSE tid[x]]
       /\ Pop(t, new)
  /\ UNCHANGED <<local, remote, moverVars>>

GetSlow_Shared(t) ==            \* mutant: nodes stay in the local queue
  /\ t \in pools /\ freeList[t] = <<>>
  /\ LET n == Len(local[t])
     IN Pop(t, [i \in 1..n |-> local[t][n + 1 - i]])
  /\ UNCHANGED <<pools, tid, local, remote, moverVars>>

\* An empty free list is refilled from the local queue, each node to the head.
GetSlow(t) ==
  /\ t \in pools /\ freeList[t] = <<>>
  /\ LET n == Len(local[t])
     IN Pop(t, [i \in 1..n |-> local[t][n + 1 - i]])
  /\ local' = [local EXCEPT ![t] = <<>>]
  /\ UNCHANGED <<pools, tid, remote, moverVars>>

-----------------------------------------------------------------------------
(* _mp_fixed_node_put *)

Put_Own(t, x) ==                \* mutant: whose node it is is not looked at
  /\ x \in out /\ CanRegister(t)
  /\ out' = out \ {x}
  /\ pools' = pools \cup {t}
  /\ freeList' = [freeList EXCEPT ![t] = <<x>> \o @]
  /\ UNCHANGED <<tid, local, remote, moverVars>>

\* Any thread may put a node back.  A thread without a pool gets one, which is
\* not supplied.
Put(t, x) ==
  /\ x \in out /\ CanRegister(t)
  /\ out' = out \ {x}
  /\ pools' = pools \cup {t}
  /\ IF tid[x] = t
     THEN freeList' = [freeList EXCEPT ![t] = <<x>> \o @] /\ remote' = remote
     ELSE remote' = [remote EXCEPT ![t] = Append(@, x)] /\ freeList' = freeList
  /\ UNCHANGED <<tid, local, moverVars>>

-----------------------------------------------------------------------------
(* _mp_fixed_recycle_thd_work *)

MoveStart ==
  /\ mpc = "idle" /\ mpc' = "next"
  /\ todo' = pools
  /\ UNCHANGED <<pools, tid, poolVars, cur, left, hand>>

\* The next pool of the table, and the count of its remote queue.
MoveNext(t) ==
  /\ mpc = "next" /\ mpc' = "pop"
  /\ t \in todo /\ todo' = todo \ {t}
  /\ cur' = t /\ left' = Len(remote[t])
  /\ UNCHANGED <<pools, tid, poolVars, hand>>

MoveEnd ==
  /\ mpc = "next" /\ mpc' = "idle"
  /\ todo = {} /\ cur' = None
  /\ UNCHANGED <<pools, tid, poolVars, todo, left, hand>>

MovePop_Unsigned ==             \* mutant: counted down before it is tested
  /\ mpc = "pop"
  /\ left' = left - 1
  /\ IF left = 0 THEN mpc' = "next" /\ UNCHANGED <<remote, hand>>
     ELSE /\ mpc' = "push" /\ hand' = Head(remote[cur])
          /\ remote' = [remote EXCEPT ![cur] = Tail(@)]
  /\ UNCHANGED <<pools, tid, freeList, local, out, todo, cur>>

\* One node of the count, or the end of the loop.
MovePop ==
  /\ mpc = "pop"
  /\ IF left = 0 THEN mpc' = "next" /\ UNCHANGED <<remote, left, hand>>
     ELSE /\ mpc' = "push"
          /\ left' = left - 1 /\ hand' = Head(remote[cur])
          /\ remote' = [remote EXCEPT ![cur] = Tail(@)]
  /\ UNCHANGED <<pools, tid, freeList, local, out, todo, cur>>

MovePush_Putter ==              \* mutant: to the pool the node was found at
  /\ mpc = "push" /\ mpc' = "pop"
  /\ local' = [local EXCEPT ![cur] = Append(@, hand)]
  /\ hand' = None
  /\ UNCHANGED <<pools, tid, freeList, remote, out, todo, cur,
                 left>>

\* To the local queue of the pool the node was allocated for.
MovePush ==
  /\ mpc = "push" /\ mpc' = "pop"
  /\ local' = [local EXCEPT ![tid[hand]] = Append(@, hand)]
  /\ hand' = None
  /\ UNCHANGED <<pools, tid, freeList, remote, out, todo, cur,
                 left>>

Moving ==
  \/ MoveStart \/ MoveEnd \/ MovePop \/ MovePush
  \/ \E t \in Threads : MoveNext(t)

-----------------------------------------------------------------------------
Get(t) == GetFast(t) \/ GetCreate(t) \/ GetSlow(t)

Next ==
  \/ \E t \in Threads : Get(t) \/ \E x \in Nodes : Put(t, x)
  \/ Moving

Spec == Init /\ [][Next]_vars

\* The recycling thread runs once every interval (ev_thread).
FairSpec == Spec /\ WF_vars(Moving) /\ \A t \in Threads : WF_vars(MoveNext(t))

-----------------------------------------------------------------------------
In(seq) == {seq[i] : i \in 1..Len(seq)}

TypeOK ==
  /\ pools \subseteq Threads /\ tid \in [Nodes -> Threads \cup {None}]
  /\ freeList \in [Threads -> Seq(Nodes)]
  /\ local \in [Threads -> Seq(Nodes)] /\ remote \in [Threads -> Seq(Nodes)]
  /\ out \subseteq Nodes
  /\ mpc \in {"idle", "next", "pop", "push"} /\ todo \subseteq Threads
  /\ cur \in Threads \cup {None} /\ left \in Nat /\ hand \in Nodes \cup {None}

\* No node is ever in two places: given to two users, or free while in use or
\* on its way back.  None is lost either.
EveryNodeOnce ==
  LET list == [free |-> freeList, local |-> local, remote |-> remote]
      slots == (DOMAIN list) \X Threads \X (1..Cardinality(Nodes))
      At(x, s) == s[3] <= Len(list[s[1]][s[2]]) /\ list[s[1]][s[2]][s[3]] = x
      Times(x) == Cardinality({s \in slots : At(x, s)})
                  + (IF x \in out THEN 1 ELSE 0) + (IF hand = x THEN 1 ELSE 0)
  IN \A x \in Nodes : Times(x) = IF tid[x] = None THEN 0 ELSE 1

\* A free list and a local queue hold only nodes of their own thread, so that a
\* get of one thread and a put of another never meet on a list without a lock.
NodesGoHome ==
  \A t \in Threads : \A x \in In(freeList[t]) \cup In(local[t]) : tid[x] = t

\* A node put back by another thread comes home.
RemoteReturned ==
  \A x \in Nodes :
    (\E t \in Threads : x \in In(remote[t]))
      ~> (\E t \in Threads : tid[x] = t /\ x \in In(local[t]))
=============================================================================
