---------------------------- MODULE Pools_proofs ----------------------------
(***************************************************************************)
(* The three memory pools (FixedPool, NonFixedPool, SlabPool): no node is  *)
(* lost and none is in two places.                                         *)
(*                                                                         *)
(* FixedPool.  Whatever thread puts a node back, it only ever reaches the  *)
(* free list and the local queue of the thread it was allocated for.  The  *)
(* invariant is inductive once it says where the nodes under way are       *)
(* (allocated, so that the recycling thread finds a pool for them) and     *)
(* that the count the recycling thread took never exceeds the queue.  On   *)
(* top of it, the nodes allocated are on the lists, with users and in the  *)
(* recycling thread's hand, each once, and what a step takes from one      *)
(* place it puts in another.                                               *)
(*                                                                         *)
(* NonFixedPool and SlabPool.  The places a node can be at are a function  *)
(* to sets of nodes; they are apart, and what they keep together is what   *)
(* the chunks have used, or what has been supplied.  A step moves a set of *)
(* nodes from their places to others (PlacesApart).  For the chunks it is  *)
(* shown besides that what a get, a put and a merge make of one is again   *)
(* cut into nodes that lie end to end (Cut), and for the free lists of the *)
(* slab that they hold nodes of their own thread and size.                 *)
(***************************************************************************)
EXTENDS MCMsgQ, SequenceTheorems, FiniteSetTheorems, WellFoundedInduction, TLAPS

-----------------------------------------------------------------------------
(* FixedPool: nodes go home *)

LEMMA FixedCardinality == \A T : F!Cardinality(T) = Cardinality(T)
BY DEF F!Cardinality, Cardinality

\* What is assumed of the pools' constants.
LEMMA FixedConstants ==
  /\ IsFiniteSet(Threads) /\ IsFiniteSet(Nodes)
  /\ NodeCnt \in Nat \ {0}
  /\ Cardinality(Nodes) >= NodeCnt * Cardinality(Threads)
  /\ F!None \notin Nodes \cup Threads
BY PoolAssumptions DEF F!FixedPoolAssumption, F!FixedPoolNone, F!Cardinality, Cardinality, F!IsFiniteSet, IsFiniteSet

\* The variables' types, as far as the proof needs them.
Typed ==
  /\ f_pools \subseteq Threads
  /\ f_tid \in [Nodes -> Threads \cup {F!None}]
  /\ f_freeList \in [Threads -> Seq(Nodes)]
  /\ f_local \in [Threads -> Seq(Nodes)]
  /\ f_remote \in [Threads -> Seq(Nodes)]
  /\ f_out \subseteq Nodes
  /\ f_mpc \in {"idle", "next", "pop", "push"}
  /\ f_todo \subseteq Threads

\* The recycling thread's place: at a pool, with no more to take than there is,
\* and with a node in hand exactly when it is about to push it.
Carrying ==
  /\ f_left \in Nat
  /\ f_mpc \in {"pop", "push"} => f_cur \in Threads /\ f_left <= Len(f_remote[f_cur])
  /\ f_mpc = "push" => f_hand \in Nodes /\ f_tid[f_hand] # F!None

\* The nodes users have or that are on their way were allocated for a thread.
Allocated ==
  /\ \A x \in f_out : f_tid[x] # F!None
  /\ \A t \in Threads : \A i \in 1..Len(f_remote[t]) : f_tid[f_remote[t][i]] # F!None

Home ==
  \A t \in Threads :
    /\ \A i \in 1..Len(f_freeList[t]) : f_tid[f_freeList[t][i]] = t
    /\ \A i \in 1..Len(f_local[t]) : f_tid[f_local[t][i]] = t

IInv == Typed /\ Carrying /\ Allocated /\ Home

\* What taking the head of a list of a thread's own nodes leaves.
LEMMA PopHome ==
  ASSUME NEW t \in Threads, NEW list \in Seq(Nodes),
         Typed, Home, F!Pop(t, list),
         NEW owner \in [Nodes -> Threads \cup {F!None}],
         \A i \in 1..Len(list) : owner[list[i]] = t,
         \A x \in Nodes : f_tid[x] # F!None => owner[x] = f_tid[x],
         \A x \in f_out : f_tid[x] # F!None
  PROVE  /\ f_freeList' \in [Threads -> Seq(Nodes)]
         /\ f_out' \subseteq Nodes
         /\ \A x \in f_out' : owner[x] # F!None
         /\ \A u \in Threads : \A i \in 1..Len(f_freeList'[u]) :
              owner[f_freeList'[u][i]] = u
<1> DEFINE k == IF list = <<>> THEN 0 ELSE 1
           rest == SubSeq(list, 1 + k, Len(list))
<1>1. k \in 0..1 /\ k <= Len(list)
  BY EmptySeq, LenProperties
<1>2. /\ rest \in Seq(Nodes) /\ Len(rest) = Len(list) - k
      /\ \A i \in 1..Len(rest) : rest[i] = list[i + k]
  <2>1. 1 + k \in 1..Len(list) + 1 /\ Len(list) \in Nat
    BY <1>1, LenProperties
  <2>2. \A i \in (1+k)..Len(list) : list[i] \in Nodes
    BY <2>1, ElementOfSeq, <1>1
  <2> HIDE DEF k
  <2> QED  BY <2>1, <2>2, <1>1, SubSeqProperties DEF rest
<1>3. f_freeList' = [f_freeList EXCEPT ![t] = rest] /\ f_out' = f_out \cup {list[i] : i \in 1..k}
  BY DEF F!Pop
<1>4. \A i \in 1..k : i \in 1..Len(list)
  BY <1>1, LenProperties
<1>5. \A i \in 1..Len(rest) : i + k \in 1..Len(list)
  <2> HIDE DEF k, rest
  <2> QED  BY <1>1, <1>2, LenProperties
<1>6. Threads \cap {F!None} = {}
  BY FixedConstants
<1>7. \A i \in 1..Len(list) : list[i] \in Nodes
  BY ElementOfSeq
<1> HIDE DEF k, rest
<1>8. f_freeList' \in [Threads -> Seq(Nodes)]
  BY <1>2, <1>3 DEF Typed
<1>9. f_out' \subseteq Nodes
  BY <1>3, <1>4, <1>7 DEF Typed
<1>10. ASSUME NEW x \in f_out' PROVE owner[x] # F!None
  <2>1. CASE x \in f_out
    BY <2>1, <1>6 DEF Typed
  <2>2. CASE \E i \in 1..k : x = list[i]
    BY <2>2, <1>4, <1>6
  <2> QED  BY <1>3, <2>1, <2>2
<1>11. ASSUME NEW u \in Threads, NEW i \in 1..Len(f_freeList'[u])
       PROVE  owner[f_freeList'[u][i]] = u
  <2>1. CASE u = t
    <3>1. f_freeList'[u] = rest
      BY <2>1, <1>3 DEF Typed
    <3> QED  BY <3>1, <2>1, <1>2, <1>5
  <2>2. CASE u # t
    <3>1. f_freeList'[u] = f_freeList[u]
      BY <2>2, <1>3 DEF Typed
    <3>2. f_tid[f_freeList[u][i]] = u
      BY <3>1 DEF Home
    <3>3. f_freeList[u][i] \in Nodes
      BY <3>1, ElementOfSeq DEF Typed
    <3> QED  BY <3>1, <3>2, <3>3, <1>6
  <2> QED  BY <2>1, <2>2
<1> QED  BY <1>8, <1>9, <1>10, <1>11

\* What a get leaves, once its list is known to hold the thread's own nodes.
LEMMA GetHome ==
  ASSUME NEW t \in Threads, NEW list \in Seq(Nodes),
         IInv, F!Pop(t, list),
         f_pools' \subseteq Threads,
         f_tid' \in [Nodes -> Threads \cup {F!None}],
         \A i \in 1..Len(list) : f_tid'[list[i]] = t,
         \A x \in Nodes : f_tid[x] # F!None => f_tid'[x] = f_tid[x],
         f_local' = f_local \/ f_local' = [f_local EXCEPT ![t] = <<>>],
         UNCHANGED <<f_remote, F!moverVars>>
  PROVE  IInv'
<1> USE DEF IInv, F!moverVars
<1>1. \A x \in f_out : f_tid[x] # F!None
  BY DEF Allocated
<1>2. /\ f_freeList' \in [Threads -> Seq(Nodes)]
      /\ f_out' \subseteq Nodes
      /\ \A x \in f_out' : f_tid'[x] # F!None
      /\ \A u \in Threads : \A i \in 1..Len(f_freeList'[u]) :
           f_tid'[f_freeList'[u][i]] = u
  <2> HIDE DEF IInv
  <2>1. Typed /\ Home
    BY DEF IInv
  <2> QED  BY <1>1, <2>1, PopHome
<1>3. /\ f_local' \in [Threads -> Seq(Nodes)]
      /\ \A u \in Threads : f_local'[u] = f_local[u] \/ f_local'[u] = <<>>
  <2>1. <<>> \in Seq(Nodes)
    BY EmptySeq
  <2>2. CASE f_local' = f_local
    BY <2>2 DEF Typed
  <2>3. CASE f_local' = [f_local EXCEPT ![t] = <<>>]
    BY <2>1, <2>3 DEF Typed
  <2> QED  BY <2>2, <2>3
<1>4. Typed'
  BY <1>2, <1>3 DEF Typed
<1>5. Carrying'
  BY DEF Carrying, Typed
<1>6. ASSUME NEW u \in Threads, NEW i \in 1..Len(f_remote[u])
      PROVE  f_remote[u][i] \in Nodes /\ f_tid'[f_remote[u][i]] # F!None
  BY ElementOfSeq DEF Typed, Allocated
<1>7. Allocated'
  BY <1>2, <1>6 DEF Allocated
<1>8. ASSUME NEW u \in Threads, NEW i \in 1..Len(f_local'[u])
      PROVE  f_tid'[f_local'[u][i]] = u
  <2>1. f_local'[u] = f_local[u]
    BY <1>3, EmptySeq
  <2>2. f_local[u][i] \in Nodes /\ f_tid[f_local[u][i]] = u
    BY <2>1, ElementOfSeq DEF Typed, Home
  <2> QED  BY <2>1, <2>2, FixedConstants
<1> QED  BY <1>2, <1>4, <1>5, <1>7, <1>8 DEF Home

-----------------------------------------------------------------------------
(* The nine steps *)

LEMMA HomeInit == F!Init => IInv
  BY FixedConstants, EmptySeq DEF F!Init, IInv, Typed, Carrying, Allocated, Home

LEMMA HomeGetFast == ASSUME NEW t \in Threads, IInv, F!GetFast(t) PROVE IInv'
<1>1. f_freeList[t] \in Seq(Nodes) /\ \A i \in 1..Len(f_freeList[t]) : f_tid[f_freeList[t][i]] = t
  BY DEF IInv, Typed, Home
<1>2. /\ F!Pop(t, f_freeList[t])
      /\ UNCHANGED <<f_pools, f_tid, f_local, f_remote, F!moverVars>>
  BY DEF F!GetFast
<1>3. f_pools \subseteq Threads /\ f_tid \in [Nodes -> Threads \cup {F!None}]
  BY DEF IInv, Typed
<1> QED  BY <1>1, <1>2, <1>3, GetHome

LEMMA HomeGetCreate == ASSUME NEW t \in Threads, IInv, F!GetCreate(t) PROVE IInv'
<1>1. PICK new \in [1..NodeCnt -> {x \in Nodes : f_tid[x] = F!None}] :
        /\ f_tid' = [x \in Nodes |->
                     IF \E i \in 1..NodeCnt : new[i] = x THEN t ELSE f_tid[x]]
        /\ F!Pop(t, new)
  BY DEF F!GetCreate
<1>2. new \in Seq(Nodes) /\ Len(new) = NodeCnt
  BY FixedConstants
<1>3. /\ f_tid' \in [Nodes -> Threads \cup {F!None}]
      /\ \A i \in 1..Len(new) : f_tid'[new[i]] = t
      /\ \A x \in Nodes : f_tid[x] # F!None => f_tid'[x] = f_tid[x]
  BY <1>1, <1>2 DEF IInv, Typed
<1>4. f_pools' \subseteq Threads /\ UNCHANGED <<f_local, f_remote, F!moverVars>>
  BY DEF F!GetCreate, IInv, Typed
<1> QED  BY <1>1, <1>2, <1>3, <1>4, GetHome

LEMMA HomeGetSlow == ASSUME NEW t \in Threads, IInv, F!GetSlow(t) PROVE IInv'
<1> DEFINE n == Len(f_local[t])
           list == [i \in 1..n |-> f_local[t][n + 1 - i]]
<1>1. f_local[t] \in Seq(Nodes) /\ n \in Nat
  BY LenProperties DEF IInv, Typed
<1>2. ASSUME NEW i \in 1..n
      PROVE  f_local[t][n + 1 - i] \in Nodes /\ f_tid[f_local[t][n + 1 - i]] = t
  <2>1. n + 1 - i \in 1..n
    <3> HIDE DEF n
    <3> QED  BY <1>1
  <2> QED  BY <1>1, <2>1, ElementOfSeq DEF IInv, Home
<1> HIDE DEF n
<1>3. list \in Seq(Nodes) /\ Len(list) = n
  BY <1>1, <1>2
<1>4. \A i \in 1..Len(list) : f_tid[list[i]] = t
  BY <1>2, <1>3
<1>5. /\ F!Pop(t, list)
      /\ f_local' = [f_local EXCEPT ![t] = <<>>]
      /\ UNCHANGED <<f_pools, f_tid, f_remote, F!moverVars>>
  BY DEF F!GetSlow, n
<1>6. f_pools \subseteq Threads /\ f_tid \in [Nodes -> Threads \cup {F!None}]
  BY DEF IInv, Typed
<1> HIDE DEF list
<1> QED  BY <1>3, <1>4, <1>5, <1>6, GetHome

LEMMA HomePut ==
  ASSUME NEW t \in Threads, NEW x \in Nodes, IInv, F!Put(t, x) PROVE IInv'
<1> USE DEF IInv
<1>1. /\ f_freeList[t] \in Seq(Nodes) /\ f_remote[t] \in Seq(Nodes)
      /\ f_tid[x] # F!None /\ UNCHANGED <<f_tid, f_local, F!moverVars>>
      /\ f_pools' \subseteq Threads /\ f_out' \subseteq Nodes
      /\ \A y \in f_out' : f_tid[y] # F!None
  BY DEF F!Put, Typed, Allocated
<1>2. CASE f_tid[x] = t
  <2> DEFINE list == <<x>> \o f_freeList[t]
  <2>1. /\ list \in Seq(Nodes) /\ Len(list) = 1 + Len(f_freeList[t])
        /\ \A i \in 1..Len(list) :
             list[i] = IF i = 1 THEN x ELSE f_freeList[t][i - 1]
    BY <1>1
  <2>2. f_freeList' = [f_freeList EXCEPT ![t] = list] /\ f_remote' = f_remote
    BY <1>2 DEF F!Put
  <2> HIDE DEF list
  <2>3. \A i \in 1..Len(list) : f_tid[list[i]] = t
    <3>1. Len(f_freeList[t]) \in Nat
      BY <1>1, LenProperties
    <3>2. \A i \in 1..Len(f_freeList[t]) : f_tid[f_freeList[t][i]] = t
      BY DEF Home
    <3>3. ASSUME NEW i \in 1..Len(list), i # 1
          PROVE  i - 1 \in 1..Len(f_freeList[t]) /\ list[i] = f_freeList[t][i - 1]
      BY <2>1, <3>1, <3>3
    <3>4. 1 \in 1..Len(list) => list[1] = x
      BY <2>1
    <3> HIDE DEF IInv
    <3> QED  BY <1>2, <3>2, <3>3, <3>4
  <2>4. Home'
    <3>1. \A u \in Threads : f_freeList'[u] = IF u = t THEN list ELSE f_freeList[u]
      BY <2>2 DEF Typed
    <3> QED  BY <1>1, <2>3, <3>1 DEF Home
  <2>5. Typed' /\ Carrying'
    BY <1>1, <2>1, <2>2 DEF Typed, Carrying, F!moverVars
  <2> QED  BY <1>1, <2>2, <2>4, <2>5 DEF Allocated
<1>3. CASE f_tid[x] # t
  <2> DEFINE list == Append(f_remote[t], x)
  <2>1. /\ list \in Seq(Nodes) /\ Len(list) = Len(f_remote[t]) + 1
        /\ \A i \in 1..Len(list) :
             list[i] = IF i = Len(f_remote[t]) + 1 THEN x ELSE f_remote[t][i]
    BY <1>1, AppendProperties
  <2>2. f_remote' = [f_remote EXCEPT ![t] = list] /\ f_freeList' = f_freeList
    BY <1>3 DEF F!Put
  <2> HIDE DEF list
  <2>3. \A u \in Threads : f_remote'[u] = IF u = t THEN list ELSE f_remote[u]
    BY <2>2 DEF Typed
  <2>4. Len(f_remote[t]) \in Nat
    BY <1>1, LenProperties
  <2>5. \A i \in 1..Len(list) : f_tid[list[i]] # F!None
    BY <1>1, <2>1, <2>4 DEF Allocated
  <2>6. Allocated'
    BY <1>1, <2>3, <2>5 DEF Allocated
  <2>7. Carrying'
    BY <1>1, <2>1, <2>3, <2>4 DEF Carrying, F!moverVars
  <2>8. Typed'
    BY <1>1, <2>1, <2>2 DEF Typed, F!moverVars
  <2> QED  BY <1>1, <2>2, <2>6, <2>7, <2>8 DEF Home
<1> QED  BY <1>2, <1>3

LEMMA HomeMoveNext ==
  ASSUME NEW t \in Threads, IInv, F!MoveNext(t) PROVE IInv'
  BY LenProperties
     DEF IInv, Typed, Carrying, Allocated, Home, F!MoveNext, F!poolVars

LEMMA HomeMoveStartEnd == ASSUME IInv, F!MoveStart \/ F!MoveEnd PROVE IInv'
  BY DEF IInv, Typed, Carrying, Allocated, Home, F!MoveStart, F!MoveEnd, F!poolVars

LEMMA HomeMovePop == ASSUME IInv, F!MovePop PROVE IInv'
<1> USE DEF IInv
<1>1. f_cur \in Threads /\ f_left \in Nat /\ f_left <= Len(f_remote[f_cur]) /\ f_mpc = "pop"
  BY DEF F!MovePop, Carrying
<1>2. f_remote[f_cur] \in Seq(Nodes) /\ Len(f_remote[f_cur]) \in Nat
  BY <1>1, LenProperties DEF Typed
<1>3. UNCHANGED <<f_pools, f_tid, f_freeList, f_local, f_out, f_todo, f_cur>>
  BY DEF F!MovePop
<1>4. CASE f_left = 0
  <2>1. f_remote' = f_remote /\ f_left' = f_left /\ f_hand' = f_hand /\ f_mpc' = "next"
    BY <1>4 DEF F!MovePop
  <2>2. Typed' /\ Carrying'
    BY <1>3, <2>1 DEF IInv, Typed, Carrying
  <2>3. Allocated' /\ Home'
    BY <1>3, <2>1 DEF IInv, Allocated, Home
  <2>4. QED
    BY <2>2, <2>3 DEF IInv
<1>5. CASE f_left # 0
  <2> DEFINE rest == Tail(f_remote[f_cur])
  <2>1. /\ f_remote[f_cur] # <<>>
        /\ rest \in Seq(Nodes) /\ Len(rest) = Len(f_remote[f_cur]) - 1
        /\ \A i \in 1..Len(rest) : rest[i] = f_remote[f_cur][i + 1]
        /\ Head(f_remote[f_cur]) = f_remote[f_cur][1]
    BY <1>1, <1>2, <1>5, HeadTailProperties, EmptySeq
  <2>2. /\ f_mpc' = "push" /\ f_left' = f_left - 1 /\ f_hand' = Head(f_remote[f_cur])
        /\ f_remote' = [f_remote EXCEPT ![f_cur] = rest]
    BY <1>5 DEF F!MovePop
  <2> HIDE DEF rest
  <2>3. \A u \in Threads : f_remote'[u] = IF u = f_cur THEN rest ELSE f_remote[u]
    BY <2>2 DEF Typed
  <2>4. \A i \in 1..Len(f_remote[f_cur]) :
          f_remote[f_cur][i] \in Nodes /\ f_tid[f_remote[f_cur][i]] # F!None
    BY <1>1, <1>2, ElementOfSeq DEF Allocated
  <2>5. Carrying'
    <3>1. 1 \in 1..Len(f_remote[f_cur])
      BY <1>1, <1>2, <1>5
    <3>2. f_hand' \in Nodes /\ f_tid'[f_hand'] # F!None
      BY <1>3, <2>1, <2>2, <2>4, <3>1
    <3>3. f_left' \in Nat /\ f_left' <= Len(f_remote'[f_cur'])
      BY <1>1, <1>2, <1>3, <1>5, <2>1, <2>2, <2>3
    <3> QED  BY <1>1, <1>3, <3>2, <3>3 DEF Carrying
  <2>6. \A i \in 1..Len(rest) : f_tid[rest[i]] # F!None
    BY <1>2, <2>1, <2>4
  <2>7. Allocated'
    BY <1>3, <2>3, <2>6 DEF Allocated
  <2>8. Typed'
    BY <1>3, <2>1, <2>2 DEF Typed
  <2> QED  BY <1>3, <2>5, <2>7, <2>8 DEF F!MovePop, Home
<1> QED  BY <1>4, <1>5

LEMMA HomeMovePush == ASSUME IInv, F!MovePush PROVE IInv'
<1> USE DEF IInv
<1> DEFINE t == f_tid[f_hand]
           list == Append(f_local[t], f_hand)
<1>1. /\ f_hand \in Nodes /\ t \in Threads /\ f_cur \in Threads /\ f_left \in Nat
      /\ f_left <= Len(f_remote[f_cur])
  BY DEF F!MovePush, Carrying, Typed
<1>2. f_local[t] \in Seq(Nodes) /\ Len(f_local[t]) \in Nat
  BY <1>1, LenProperties DEF Typed
<1>3. /\ list \in Seq(Nodes) /\ Len(list) = Len(f_local[t]) + 1
      /\ \A i \in 1..Len(list) :
           list[i] = IF i = Len(f_local[t]) + 1 THEN f_hand ELSE f_local[t][i]
  BY <1>1, <1>2, AppendProperties
<1>4. /\ f_local' = [f_local EXCEPT ![t] = list] /\ f_mpc' = "pop"
      /\ UNCHANGED <<f_pools, f_tid, f_freeList, f_remote, f_out, f_todo, f_cur, f_left>>
  BY DEF F!MovePush
<1>5. f_tid[f_hand] = t
  OBVIOUS
<1> HIDE DEF t, list
<1>6. \A i \in 1..Len(list) : f_tid[list[i]] = t
  BY <1>1, <1>2, <1>3, <1>5 DEF Home
<1>7. \A u \in Threads : f_local'[u] = IF u = t THEN list ELSE f_local[u]
  BY <1>4 DEF Typed
<1>8. Home'
  BY <1>4, <1>6, <1>7 DEF Home
<1>9. Typed'
  BY <1>3, <1>4 DEF Typed
<1> QED  BY <1>1, <1>4, <1>8, <1>9 DEF Carrying, Allocated

-----------------------------------------------------------------------------
LEMMA HomeInductive == IInv /\ [F!Next]_f_vars => IInv'
<1> SUFFICES ASSUME IInv, [F!Next]_f_vars PROVE IInv'
  OBVIOUS
<1>1. ASSUME NEW t \in Threads, F!Get(t) PROVE IInv'
  BY <1>1, HomeGetFast, HomeGetCreate, HomeGetSlow DEF F!Get
<1>2. ASSUME NEW t \in Threads, NEW x \in Nodes, F!Put(t, x) PROVE IInv'
  BY <1>2, HomePut
<1>3. CASE F!Moving
  BY <1>3, HomeMoveStartEnd, HomeMovePop, HomeMovePush, HomeMoveNext DEF F!Moving
<1>4. CASE UNCHANGED f_vars
  BY <1>4 DEF f_vars, F!poolVars, F!moverVars, IInv, Typed, Carrying, Allocated, Home
<1> QED  BY <1>1, <1>2, <1>3, <1>4 DEF F!Next

-----------------------------------------------------------------------------
(* No node is lost, and none is in two places *)

\* The lists of all threads, and the places in them.
Where == {"free", "local", "remote"} \X Threads
Lists == [p \in Where |-> CASE p[1] = "free" -> f_freeList[p[2]]
                            [] p[1] = "local" -> f_local[p[2]]
                            [] OTHER -> f_remote[p[2]]]

\* The nodes of G, and no others, are on the lists L, in users' hands O or in the
\* hand h of the recycling thread, each of them once.
Whole(L, O, h, G) ==
  /\ L \in [Where -> Seq(Nodes)] /\ O \subseteq Nodes /\ h \in Nodes \cup {F!None}
  /\ G \subseteq Nodes
  /\ \A p, q \in Where : \A i \in 1..Len(L[p]), j \in 1..Len(L[q]) :
       L[p][i] = L[q][j] => p = q /\ i = j
  /\ \A p \in Where : \A i \in 1..Len(L[p]) : L[p][i] \notin O /\ L[p][i] # h
  /\ h \notin O
  /\ \A x \in Nodes :
       x \in G <=> x \in O \/ x = h \/ \E p \in Where : \E i \in 1..Len(L[p]) : L[p][i] = x

Given == {x \in Nodes : f_tid[x] # F!None}

\* A thread without a pool has no nodes.
OnceInv ==
  /\ IInv /\ Whole(Lists, f_out, f_hand, Given)
  /\ f_mpc # "push" => f_hand = F!None
  /\ \A x \in Given : f_tid[x] \in f_pools

\* What is taken from its place can be put in any other: the head of a list,
LEMMA TakeHead ==
  ASSUME NEW L, NEW O, NEW h, NEW G, Whole(L, O, h, G),
         NEW p \in Where, L[p] # <<>>
  PROVE  /\ Head(L[p]) \in G /\ L[p] \in Seq(Nodes)
         /\ Whole([L EXCEPT ![p] = Tail(@)], O, h, G \ {Head(L[p])})
<1> DEFINE x == Head(L[p])
           rest == Tail(L[p])
           M == [L EXCEPT ![p] = rest]
<1>1. /\ L \in [Where -> Seq(Nodes)] /\ O \subseteq Nodes /\ h \in Nodes \cup {F!None}
      /\ G \subseteq Nodes /\ h \notin O
  BY DEF Whole
<1>2. /\ L[p] \in Seq(Nodes) /\ rest \in Seq(Nodes) /\ Len(rest) = Len(L[p]) - 1
      /\ Len(L[p]) \in Nat /\ Len(L[p]) > 0 /\ x = L[p][1] /\ x \in Nodes
      /\ \A i \in 1..Len(rest) : rest[i] = L[p][i + 1]
  <2>1. L[p] \in Seq(Nodes)
    BY <1>1
  <2>2. QED
    BY <2>1, HeadTailProperties, LenProperties
<1> HIDE DEF x, rest
<1>3. M \in [Where -> Seq(Nodes)] /\ M[p] = rest /\ \A q \in Where : q # p => M[q] = L[q]
  BY <1>1, <1>2
<1> HIDE DEF M
<1>4. \A i \in 1..Len(rest) : i + 1 \in 1..Len(L[p]) /\ i + 1 # 1
  BY <1>2
<1>5. 1 \in 1..Len(L[p])
  BY <1>2
\* Each place is one that was there.
<1>6. \A q \in Where : \A i \in 1..Len(M[q]) :
        /\ q # p => i \in 1..Len(L[q]) /\ M[q][i] = L[q][i]
        /\ q = p => i + 1 \in 1..Len(L[q]) /\ M[q][i] = L[q][i + 1]
  BY <1>2, <1>3, <1>4
<1>7. \A q, r \in Where : \A i \in 1..Len(L[q]), j \in 1..Len(L[r]) :
        L[q][i] = L[r][j] => q = r /\ i = j
  BY DEF Whole
<1>8. ASSUME NEW q \in Where, NEW r \in Where, NEW i \in 1..Len(M[q]), NEW j \in 1..Len(M[r]),
             M[q][i] = M[r][j]
      PROVE  q = r /\ i = j
  <2>1. CASE q = p /\ r = p
    <3>1. i + 1 = j + 1
      BY <1>6, <1>7, <1>8, <2>1
    <3>2. i \in Nat /\ j \in Nat
      OBVIOUS
    <3>3. QED
      BY <2>1, <3>1, <3>2
  <2>2. CASE q # p /\ r = p
    BY <1>6, <1>7, <1>8, <2>2
  <2>3. CASE q = p /\ r # p
    BY <1>6, <1>7, <1>8, <2>3
  <2>4. CASE q # p /\ r # p
    BY <1>6, <1>7, <1>8, <2>4
  <2>5. QED
    BY <2>1, <2>2, <2>3, <2>4
<1>9. \A q \in Where : \A i \in 1..Len(L[q]) : L[q][i] \notin O /\ L[q][i] # h
  BY DEF Whole
<1>10. \A q \in Where : \A i \in 1..Len(M[q]) : M[q][i] \notin O /\ M[q][i] # h /\ M[q][i] # x
  <2> SUFFICES ASSUME NEW q \in Where, NEW i \in 1..Len(M[q])
               PROVE  M[q][i] \notin O /\ M[q][i] # h /\ M[q][i] # x
    OBVIOUS
  <2>1. CASE q = p
    <3>1. i + 1 \in 1..Len(L[p]) /\ M[q][i] = L[p][i + 1] /\ i + 1 # 1
      BY <1>4, <1>6, <1>3, <2>1
    <3>2. L[p][i + 1] # L[p][1]
      BY <1>5, <1>7, <3>1
    <3>3. QED
      BY <1>2, <1>9, <3>1, <3>2
  <2>2. CASE q # p
    <3>1. i \in 1..Len(L[q]) /\ M[q][i] = L[q][i]
      BY <1>6, <2>2
    <3>2. L[q][i] # L[p][1]
      BY <1>5, <1>7, <2>2, <3>1
    <3>3. QED
      BY <1>2, <1>9, <3>1, <3>2
  <2>3. QED
    BY <2>1, <2>2
<1>11. \A y \in Nodes :
         y \in G <=> y \in O \/ y = h \/ \E q \in Where : \E i \in 1..Len(L[q]) : L[q][i] = y
  BY DEF Whole
<1>12. ASSUME NEW y \in Nodes
       PROVE  (\E q \in Where : \E i \in 1..Len(L[q]) : L[q][i] = y)
              <=> y = x \/ \E q \in Where : \E i \in 1..Len(M[q]) : M[q][i] = y
  <2>1. ASSUME NEW q \in Where, NEW i \in 1..Len(L[q]), L[q][i] = y, y # x
        PROVE  \E r \in Where : \E j \in 1..Len(M[r]) : M[r][j] = y
    <3>1. CASE q # p
      BY <1>3, <2>1, <3>1
    <3>2. CASE q = p
      <4>1. i # 1 /\ i - 1 \in 1..Len(rest)
        BY <1>2, <2>1, <3>2
      <4>2. rest[i - 1] = L[p][i]
        BY <1>2, <3>2, <4>1
      <4>3. QED
        BY <1>3, <2>1, <3>2, <4>1, <4>2
    <3>3. QED
      BY <3>1, <3>2
  <2>2. ASSUME NEW q \in Where, NEW i \in 1..Len(M[q]), M[q][i] = y
        PROVE  \E r \in Where : \E j \in 1..Len(L[r]) : L[r][j] = y
    <3>1. CASE q # p
      BY <1>6, <2>2, <3>1
    <3>2. CASE q = p
      BY <1>6, <2>2, <3>2
    <3>3. QED
      BY <3>1, <3>2
  <2>3. y = x => \E r \in Where : \E j \in 1..Len(L[r]) : L[r][j] = y
    BY <1>2, <1>5
  <2>4. QED
    BY <2>1, <2>2, <2>3
<1>13. x \in G /\ x \notin O /\ x # h
  BY <1>2, <1>5, <1>9, <1>11
<1>14. \A y \in Nodes :
         y \in G \ {x} <=> y \in O \/ y = h \/ \E q \in Where : \E i \in 1..Len(M[q]) : M[q][i] = y
  BY <1>10, <1>11, <1>12, <1>13
<1>15. Whole(M, O, h, G \ {x})
  BY <1>1, <1>3, <1>8, <1>10, <1>14 DEF Whole
<1>16. QED
  BY <1>2, <1>13, <1>15 DEF M, rest, x

\* what a user has, and what the recycling thread carries.
LEMMA TakeOut ==
  ASSUME NEW L, NEW O, NEW h, NEW G, Whole(L, O, h, G), NEW x \in O
  PROVE  x \in G /\ Whole(L, O \ {x}, h, G \ {x})
BY DEF Whole

LEMMA TakeHand ==
  ASSUME NEW L, NEW O, NEW h \in Nodes, NEW G, Whole(L, O, h, G)
  PROVE  h \in G /\ Whole(L, O, F!None, G \ {h})
BY FixedConstants DEF Whole

\* A node that is at no place is given to a user, to the recycling thread,
LEMMA GiveOut ==
  ASSUME NEW L, NEW O, NEW h, NEW G, Whole(L, O, h, G), NEW x \in Nodes \ G
  PROVE  Whole(L, O \cup {x}, h, G \cup {x})
BY DEF Whole

LEMMA GiveHand ==
  ASSUME NEW L, NEW O, NEW G, Whole(L, O, F!None, G), NEW x \in Nodes \ G
  PROVE  Whole(L, O, x, G \cup {x})
BY FixedConstants DEF Whole

\* or to a list, wherever in it.
LEMMA GiveList ==
  ASSUME NEW L, NEW O, NEW h, NEW G, Whole(L, O, h, G), NEW x \in Nodes \ G,
         NEW p \in Where, NEW list \in Seq(Nodes), NEW k \in {0, 1},
         Len(list) = Len(L[p]) + 1,
         list[IF k = 1 THEN 1 ELSE Len(list)] = x,
         \A i \in 1..Len(L[p]) : list[i + k] = L[p][i]
  PROVE  Whole([L EXCEPT ![p] = list], O, h, G \cup {x})
<1> DEFINE M == [L EXCEPT ![p] = list]
           a == IF k = 1 THEN 1 ELSE Len(list)
<1>1. /\ L \in [Where -> Seq(Nodes)] /\ O \subseteq Nodes /\ h \in Nodes \cup {F!None}
      /\ G \subseteq Nodes /\ h \notin O
  BY DEF Whole
<1>2. M \in [Where -> Seq(Nodes)] /\ M[p] = list /\ \A q \in Where : q # p => M[q] = L[q]
  BY <1>1
<1>3. L[p] \in Seq(Nodes) /\ Len(L[p]) \in Nat
  BY <1>1, LenProperties
<1> HIDE DEF M
\* A place of the list is that of x or one that was there, k before it.
<1>4. /\ a \in 1..Len(list) /\ list[a] = x
      /\ \A i \in 1..Len(list) : i # a => i - k \in 1..Len(L[p]) /\ list[i] = L[p][i - k]
  BY <1>3
<1> HIDE DEF a
<1>5. \A q \in Where : \A i \in 1..Len(M[q]) :
        \/ q = p /\ i = a /\ M[q][i] = x
        \/ q = p /\ i # a /\ i - k \in 1..Len(L[p]) /\ M[q][i] = L[p][i - k]
        \/ q # p /\ i \in 1..Len(L[q]) /\ M[q][i] = L[q][i]
  BY <1>2, <1>4
<1>6. \A q, r \in Where : \A i \in 1..Len(L[q]), j \in 1..Len(L[r]) :
        L[q][i] = L[r][j] => q = r /\ i = j
  BY DEF Whole
<1>7. \A y \in Nodes :
        y \in G <=> y \in O \/ y = h \/ \E q \in Where : \E i \in 1..Len(L[q]) : L[q][i] = y
  BY DEF Whole
<1>8. /\ x \notin O /\ x # h
      /\ \A q \in Where : \A i \in 1..Len(L[q]) : L[q][i] # x
  BY <1>7
<1>14. ASSUME NEW q \in Where, NEW i \in 1..Len(M[q])
       PROVE  M[q][i] = x <=> q = p /\ i = a
  <2>1. CASE q = p /\ i = a
    BY <1>5, <2>1
  <2>2. CASE q = p /\ i # a
    <3>1. i - k \in 1..Len(L[p]) /\ M[q][i] = L[p][i - k]
      BY <1>5, <2>2
    <3>2. QED
      BY <1>8, <2>2, <3>1
  <2>3. CASE q # p
    <3>1. i \in 1..Len(L[q]) /\ M[q][i] = L[q][i]
      BY <1>5, <2>3
    <3>2. QED
      BY <1>8, <2>3, <3>1
  <2>4. QED
    BY <2>1, <2>2, <2>3
<1>9. ASSUME NEW q \in Where, NEW r \in Where, NEW i \in 1..Len(M[q]), NEW j \in 1..Len(M[r]),
             M[q][i] = M[r][j]
      PROVE  q = r /\ i = j
  <2>0. /\ M[q][i] = x <=> q = p /\ i = a
        /\ M[r][j] = x <=> r = p /\ j = a
    BY <1>14
  <2>1. CASE q = p /\ i = a
    BY <1>9, <2>0, <2>1
  <2>2. CASE r = p /\ j = a
    BY <1>9, <2>0, <2>2
  <2>3. CASE q = p /\ i # a /\ r = p /\ j # a
    <3>1. /\ i - k \in 1..Len(L[p]) /\ M[q][i] = L[p][i - k]
          /\ j - k \in 1..Len(L[p]) /\ M[r][j] = L[p][j - k]
      BY <1>5, <2>3
    <3>2. i - k = j - k
      <4>1. \A b, c \in 1..Len(L[p]) : L[p][b] = L[p][c] => b = c
        BY <1>6
      <4>2. L[p][i - k] = L[p][j - k]
        BY <1>9, <3>1
      <4>3. QED
        BY <3>1, <4>1, <4>2
    <3>3. i \in Nat /\ j \in Nat
      OBVIOUS
    <3>4. QED
      BY <2>3, <3>2, <3>3
  <2>4. CASE q # p /\ r = p /\ j # a
    BY <1>5, <1>6, <1>9, <2>4
  <2>5. CASE q = p /\ i # a /\ r # p
    BY <1>5, <1>6, <1>9, <2>5
  <2>6. CASE q # p /\ r # p
    BY <1>5, <1>6, <1>9, <2>6
  <2>7. QED
    BY <2>1, <2>2, <2>3, <2>4, <2>5, <2>6
<1>10. \A q \in Where : \A i \in 1..Len(L[q]) : L[q][i] \notin O /\ L[q][i] # h
  BY DEF Whole
<1>11. \A q \in Where : \A i \in 1..Len(M[q]) : M[q][i] \notin O /\ M[q][i] # h
  <2> SUFFICES ASSUME NEW q \in Where, NEW i \in 1..Len(M[q])
               PROVE  M[q][i] \notin O /\ M[q][i] # h
    OBVIOUS
  <2>1. CASE q = p /\ i = a
    BY <1>8, <1>14, <2>1
  <2>2. CASE q = p /\ i # a
    <3>1. i - k \in 1..Len(L[p]) /\ M[q][i] = L[p][i - k]
      BY <1>5, <2>2
    <3>2. QED
      BY <1>10, <3>1
  <2>3. CASE q # p
    BY <1>5, <1>10, <2>3
  <2>4. QED
    BY <2>1, <2>2, <2>3
<1>12. ASSUME NEW y \in Nodes
       PROVE  (\E q \in Where : \E i \in 1..Len(M[q]) : M[q][i] = y)
              <=> y = x \/ \E q \in Where : \E i \in 1..Len(L[q]) : L[q][i] = y
  <2>1. ASSUME NEW q \in Where, NEW i \in 1..Len(L[q]), L[q][i] = y
        PROVE  \E r \in Where : \E j \in 1..Len(M[r]) : M[r][j] = y
    <3>1. CASE q # p
      BY <1>2, <2>1, <3>1
    <3>2. CASE q = p
      <4>1. i + k \in 1..Len(list) /\ list[i + k] = L[p][i]
        BY <1>3, <3>2
      <4>2. QED
        BY <1>2, <2>1, <3>2, <4>1
    <3>3. QED
      BY <3>1, <3>2
  <2>2. QED
    <3>1. ASSUME NEW q \in Where, NEW i \in 1..Len(M[q]), M[q][i] = y, y # x
          PROVE  \E r \in Where : \E j \in 1..Len(L[r]) : L[r][j] = y
      <4>1. CASE q = p
        <5>1. i # a
          BY <1>14, <3>1, <4>1
        <5>2. i - k \in 1..Len(L[p]) /\ M[q][i] = L[p][i - k]
          BY <1>5, <4>1, <5>1
        <5>3. QED
          BY <3>1, <5>2
      <4>2. CASE q # p
        BY <1>5, <3>1, <4>2
      <4>3. QED
        BY <4>1, <4>2
    <3>2. \E r \in Where : \E j \in 1..Len(M[r]) : M[r][j] = x
      BY <1>2, <1>4
    <3>3. QED
      BY <2>1, <3>1, <3>2
<1>13. \A y \in Nodes : y \in G \cup {x} <=>
         y \in O \/ y = h \/ \E q \in Where : \E i \in 1..Len(M[q]) : M[q][i] = y
  BY <1>7, <1>12
<1>15. Whole(M, O, h, G \cup {x})
  BY <1>1, <1>2, <1>9, <1>11, <1>13 DEF Whole
<1>16. QED
  BY <1>15 DEF M

\* What is on a list is there once.
LEMMA WholeApart ==
  ASSUME NEW L, NEW O, NEW h, NEW G, Whole(L, O, h, G), NEW p \in Where,
         NEW i \in 1..Len(L[p])
  PROVE  L[p][i] \in G
<1>1. L[p] \in Seq(Nodes)
  BY DEF Whole
<1>2. L[p][i] \in Nodes
  BY <1>1, ElementOfSeq
<1>3. QED
  BY <1>2 DEF Whole

\* A list is emptied; its nodes, or new ones, are put on one that is empty.
LEMMA TakeAll ==
  ASSUME NEW L, NEW O, NEW h, NEW G, Whole(L, O, h, G), NEW p \in Where,
         NEW gone, gone = {L[p][i] : i \in 1..Len(L[p])}
  PROVE  Whole([L EXCEPT ![p] = <<>>], O, h, G \ gone)
<1> DEFINE M == [L EXCEPT ![p] = <<>>]
<1>1. /\ L \in [Where -> Seq(Nodes)] /\ O \subseteq Nodes /\ h \in Nodes \cup {F!None}
      /\ G \subseteq Nodes /\ h \notin O /\ L[p] \in Seq(Nodes)
      /\ \A i \in 1..Len(L[p]) : L[p][i] \in Nodes
  <2>1. L \in [Where -> Seq(Nodes)]
    BY DEF Whole
  <2>2. L[p] \in Seq(Nodes)
    BY <2>1
  <2>3. QED
    BY <2>1, <2>2, ElementOfSeq DEF Whole
<1>2. M \in [Where -> Seq(Nodes)] /\ Len(M[p]) = 0 /\ \A q \in Where : q # p => M[q] = L[q]
  BY <1>1, EmptySeq
<1> HIDE DEF M
<1>3. \A q, r \in Where : \A i \in 1..Len(L[q]), j \in 1..Len(L[r]) :
        L[q][i] = L[r][j] => q = r /\ i = j
  BY DEF Whole
<1>4. \A q \in Where : \A i \in 1..Len(M[q]) :
        q # p /\ i \in 1..Len(L[q]) /\ M[q][i] = L[q][i] /\ M[q][i] \notin gone
  BY <1>2, <1>3
<1>5. \A y \in Nodes :
        y \in G <=> y \in O \/ y = h \/ \E q \in Where : \E i \in 1..Len(L[q]) : L[q][i] = y
  BY DEF Whole
<1>6. \A q \in Where : \A i \in 1..Len(L[q]) : L[q][i] \notin O /\ L[q][i] # h
  BY DEF Whole
<1>7. gone \subseteq G /\ gone \cap O = {} /\ h \notin gone
  BY <1>1, <1>5, <1>6
<1>8. \A y : y \in gone <=> \E i \in 1..Len(L[p]) : L[p][i] = y
  OBVIOUS
<1>9. \A q, r \in Where : \A i \in 1..Len(M[q]), j \in 1..Len(M[r]) :
        M[q][i] = M[r][j] => q = r /\ i = j
  BY <1>3, <1>4
<1>10. \A q \in Where : \A i \in 1..Len(M[q]) : M[q][i] \notin O /\ M[q][i] # h
  BY <1>4, <1>6
<1>11. ASSUME NEW y \in Nodes
       PROVE  y \in G \ gone <=> y \in O \/ y = h \/ \E q \in Where : \E i \in 1..Len(M[q]) : M[q][i] = y
  <2>1. ASSUME y \in G \ gone
        PROVE  y \in O \/ y = h \/ \E q \in Where : \E i \in 1..Len(M[q]) : M[q][i] = y
    BY <1>2, <1>5, <1>8, <2>1
  <2>2. ASSUME y \in O \/ y = h \/ \E q \in Where : \E i \in 1..Len(M[q]) : M[q][i] = y
        PROVE  y \in G \ gone
    BY <1>4, <1>5, <1>7, <2>2
  <2>3. QED
    BY <2>1, <2>2
<1>12. Whole(M, O, h, G \ gone)
  BY <1>1, <1>2, <1>9, <1>10, <1>11 DEF Whole
<1>13. QED
  BY <1>12 DEF M

LEMMA GiveAll ==
  ASSUME NEW L, NEW O, NEW h, NEW G, Whole(L, O, h, G), NEW p \in Where, L[p] = <<>>,
         NEW list \in Seq(Nodes), \A i \in 1..Len(list) : list[i] \notin G,
         \A i, j \in 1..Len(list) : list[i] = list[j] => i = j
  PROVE  Whole([L EXCEPT ![p] = list], O, h, G \cup {list[i] : i \in 1..Len(list)})
<1> DEFINE M == [L EXCEPT ![p] = list]
           come == {list[i] : i \in 1..Len(list)}
<1>1. /\ L \in [Where -> Seq(Nodes)] /\ O \subseteq Nodes /\ h \in Nodes \cup {F!None}
      /\ G \subseteq Nodes /\ h \notin O
      /\ \A i \in 1..Len(list) : list[i] \in Nodes
  BY ElementOfSeq DEF Whole
<1>2. M \in [Where -> Seq(Nodes)] /\ M[p] = list /\ \A q \in Where : q # p => M[q] = L[q]
  BY <1>1
<1> HIDE DEF M
<1>3. \A q, r \in Where : \A i \in 1..Len(L[q]), j \in 1..Len(L[r]) :
        L[q][i] = L[r][j] => q = r /\ i = j
  BY DEF Whole
<1>4. \A y \in Nodes :
        y \in G <=> y \in O \/ y = h \/ \E q \in Where : \E i \in 1..Len(L[q]) : L[q][i] = y
  BY DEF Whole
<1>5. \A q \in Where : \A i \in 1..Len(L[q]) : L[q][i] \notin O /\ L[q][i] # h /\ L[q][i] \in Nodes
  BY <1>1, ElementOfSeq DEF Whole
<1>6. \A q \in Where : \A i \in 1..Len(L[q]) : L[q][i] \in G /\ q # p
  BY <1>4, <1>5, EmptySeq
<1>7. \A q \in Where : \A i \in 1..Len(M[q]) :
        \/ q = p /\ i \in 1..Len(list) /\ M[q][i] = list[i]
        \/ q # p /\ i \in 1..Len(L[q]) /\ M[q][i] = L[q][i]
  BY <1>2
<1>8. \A y : y \in come <=> \E i \in 1..Len(list) : list[i] = y
  OBVIOUS
<1> HIDE DEF come
<1>9. ASSUME NEW q \in Where, NEW r \in Where, NEW i \in 1..Len(M[q]), NEW j \in 1..Len(M[r]),
             M[q][i] = M[r][j]
      PROVE  q = r /\ i = j
  <2>1. CASE q = p /\ r = p
    BY <1>7, <1>9, <2>1
  <2>2. CASE q # p /\ r = p
    BY <1>6, <1>7, <1>9, <2>2
  <2>3. CASE q = p /\ r # p
    BY <1>6, <1>7, <1>9, <2>3
  <2>4. CASE q # p /\ r # p
    BY <1>3, <1>7, <1>9, <2>4
  <2>5. QED
    BY <2>1, <2>2, <2>3, <2>4
<1>10. \A i \in 1..Len(list) : list[i] \notin O /\ list[i] # h
  BY <1>1, <1>4
<1>11. \A q \in Where : \A i \in 1..Len(M[q]) : M[q][i] \notin O /\ M[q][i] # h
  BY <1>5, <1>7, <1>10
<1>12. ASSUME NEW y \in Nodes
       PROVE  y \in G \cup come <=>
                y \in O \/ y = h \/ \E q \in Where : \E i \in 1..Len(M[q]) : M[q][i] = y
  <2>1. ASSUME y \in G
        PROVE  y \in O \/ y = h \/ \E q \in Where : \E i \in 1..Len(M[q]) : M[q][i] = y
    BY <1>2, <1>4, <1>6, <2>1
  <2>2. ASSUME y \in come
        PROVE  \E q \in Where : \E i \in 1..Len(M[q]) : M[q][i] = y
    BY <1>2, <1>8, <2>2
  <2>3. ASSUME y \in O \/ y = h \/ \E q \in Where : \E i \in 1..Len(M[q]) : M[q][i] = y
        PROVE  y \in G \cup come
    BY <1>4, <1>7, <1>8, <2>3
  <2>4. QED
    BY <2>1, <2>2, <2>3
<1>13. come \subseteq Nodes
  BY <1>1, <1>8
<1>14. Whole(M, O, h, G \cup come)
  BY <1>1, <1>2, <1>9, <1>11, <1>12, <1>13 DEF Whole
<1>15. QED
  BY <1>14 DEF M, come

-----------------------------------------------------------------------------
(* The steps *)

LEMMA WhereCases ==
  ASSUME NEW p \in Where
  PROVE  \E t \in Threads : p = <<"free", t>> \/ p = <<"local", t>> \/ p = <<"remote", t>>
BY DEF Where

LEMMA ListsAre ==
  ASSUME Typed
  PROVE  /\ Lists \in [Where -> Seq(Nodes)]
         /\ \A t \in Threads : /\ <<"free", t>> \in Where /\ Lists[<<"free", t>>] = f_freeList[t]
                               /\ <<"local", t>> \in Where /\ Lists[<<"local", t>>] = f_local[t]
                               /\ <<"remote", t>> \in Where /\ Lists[<<"remote", t>>] = f_remote[t]
<1>1. \A t \in Threads : /\ <<"free", t>> \in Where /\ Lists[<<"free", t>>] = f_freeList[t]
                         /\ <<"local", t>> \in Where /\ Lists[<<"local", t>>] = f_local[t]
                         /\ <<"remote", t>> \in Where /\ Lists[<<"remote", t>>] = f_remote[t]
  BY DEF Lists, Where
<1>2. \A p \in Where : Lists[p] \in Seq(Nodes)
  <2>1. \A t \in Threads : /\ f_freeList[t] \in Seq(Nodes) /\ f_local[t] \in Seq(Nodes)
                            /\ f_remote[t] \in Seq(Nodes)
    BY DEF Typed
  <2>2. ASSUME NEW p \in Where PROVE Lists[p] \in Seq(Nodes)
    <3>1. PICK t \in Threads : p = <<"free", t>> \/ p = <<"local", t>> \/ p = <<"remote", t>>
      BY WhereCases
    <3>2. QED
      BY <1>1, <2>1, <3>1
  <2>3. QED
    BY <2>2
<1>3. QED
  BY <1>1, <1>2 DEF Lists

\* Lists of which each is what L has are L.
LEMMA ListsBecome ==
  ASSUME NEW L, DOMAIN L = Where, L = [p \in Where |-> L[p]],
         \A t \in Threads : /\ L[<<"free", t>>] = f_freeList'[t]
                            /\ L[<<"local", t>>] = f_local'[t]
                            /\ L[<<"remote", t>>] = f_remote'[t]
  PROVE  Lists' = L
<1>1. \A p \in Where : Lists'[p] = L[p]
  <2>1. \A t \in Threads : /\ Lists'[<<"free", t>>] = f_freeList'[t]
                            /\ Lists'[<<"local", t>>] = f_local'[t]
                            /\ Lists'[<<"remote", t>>] = f_remote'[t]
    BY DEF Lists, Where
  <2>2. ASSUME NEW p \in Where PROVE Lists'[p] = L[p]
    <3>1. PICK t \in Threads : p = <<"free", t>> \/ p = <<"local", t>> \/ p = <<"remote", t>>
      BY WhereCases
    <3>2. CASE p = <<"free", t>>
      BY <2>1, <3>2
    <3>3. CASE p = <<"local", t>>
      BY <2>1, <3>3
    <3>4. CASE p = <<"remote", t>>
      BY <2>1, <3>4
    <3>5. QED
      BY <3>1, <3>2, <3>3, <3>4
  <2>3. QED
    BY <2>2
<1>2. Lists' = [p \in Where |-> Lists'[p]]
  BY DEF Lists
<1>3. QED
  BY <1>1, <1>2

\* A get takes the first node of what has become the free list.
LEMMA PopWhole ==
  ASSUME NEW t \in Threads, NEW list \in Seq(Nodes), Typed, F!Pop(t, list),
         NEW L, NEW G, Whole(L, f_out, f_hand, G), L[<<"free", t>>] = list
  PROVE  /\ f_freeList'[t] \in Seq(Nodes)
         /\ \A u \in Threads : u # t => f_freeList'[u] = f_freeList[u]
         /\ Whole([L EXCEPT ![<<"free", t>>] = f_freeList'[t]], f_out', f_hand, G)
<1> DEFINE p == <<"free", t>>
<1>1. p \in Where
  BY DEF Where
<1>2. CASE list = <<>>
  <2>1. f_freeList' = [f_freeList EXCEPT ![t] = <<>>] /\ f_out' = f_out
    <3>1. SubSeq(list, 1 + 0, Len(list)) = <<>>
      BY <1>2
    <3>2. {list[i] : i \in 1..0} = {}
      OBVIOUS
    <3>3. /\ f_freeList' = [f_freeList EXCEPT ![t] = SubSeq(list, 1 + 0, Len(list))]
          /\ f_out' = f_out \cup {list[i] : i \in 1..0}
      BY <1>2 DEF F!Pop
    <3>4. QED
      BY <3>1, <3>2, <3>3
  <2>2. f_freeList'[t] = <<>> /\ \A u \in Threads : u # t => f_freeList'[u] = f_freeList[u]
    BY <2>1 DEF Typed
  <2>3. [L EXCEPT ![p] = f_freeList'[t]] = L
    BY <1>1, <1>2, <2>2 DEF Whole
  <2>4. QED
    BY <2>1, <2>2, <2>3, EmptySeq
<1>3. CASE list # <<>>
  <2>1. SubSeq(list, 2, Len(list)) = Tail(list) /\ Head(list) = list[1]
    BY <1>3
  <2>2. f_freeList' = [f_freeList EXCEPT ![t] = Tail(list)] /\ f_out' = f_out \cup {Head(list)}
    <3>1. f_freeList' = [f_freeList EXCEPT ![t] = SubSeq(list, 1 + 1, Len(list))]
          /\ f_out' = f_out \cup {list[i] : i \in 1..1}
      BY <1>3 DEF F!Pop
    <3>2. {list[i] : i \in 1..1} = {list[1]}
      OBVIOUS
    <3>3. SubSeq(list, 1 + 1, Len(list)) = Tail(list)
      BY <1>3
    <3>4. QED
      BY <2>1, <3>1, <3>2, <3>3
  <2>3. /\ Head(list) \in G
        /\ Whole([L EXCEPT ![p] = Tail(@)], f_out, f_hand, G \ {Head(list)})
    BY <1>1, <1>3, TakeHead
  <2>4. G \subseteq Nodes
    BY DEF Whole
  <2> DEFINE x == Head(list)
             H == G \ {x}
  <2>5. x \in Nodes \ H /\ H \cup {x} = G /\ Whole([L EXCEPT ![p] = Tail(@)], f_out, f_hand, H)
    BY <2>3, <2>4
  <2> HIDE DEF H, x
  <2>6. Whole([L EXCEPT ![p] = Tail(@)], f_out \cup {Head(list)}, f_hand, G)
    <3>1. Whole([L EXCEPT ![p] = Tail(@)], f_out \cup {x}, f_hand, H \cup {x})
      BY <2>5, GiveOut
    <3>2. QED
      BY <2>5, <3>1 DEF x
  <2>7. f_freeList'[t] = Tail(list) /\ \A u \in Threads : u # t => f_freeList'[u] = f_freeList[u]
    BY <2>2 DEF Typed
  <2>8. [L EXCEPT ![p] = Tail(@)] = [L EXCEPT ![p] = f_freeList'[t]]
    BY <2>7
  <2>9. Tail(list) \in Seq(Nodes)
    BY <1>3
  <2>10. QED
    BY <2>2, <2>6, <2>7, <2>8, <2>9
<1>4. QED
  BY <1>2, <1>3

LEMMA OnceInit == F!Init => OnceInv
<1> SUFFICES ASSUME F!Init PROVE OnceInv
  OBVIOUS
<1>1. IInv
  BY HomeInit
<1>2. Lists \in [Where -> Seq(Nodes)]
      /\ \A t \in Threads : /\ Lists[<<"free", t>>] = f_freeList[t]
                            /\ Lists[<<"local", t>>] = f_local[t]
                            /\ Lists[<<"remote", t>>] = f_remote[t]
  BY <1>1, ListsAre DEF IInv
<1>3. \A p \in Where : Len(Lists[p]) = 0
  <2>1. \A t \in Threads : Len(f_freeList[t]) = 0 /\ Len(f_local[t]) = 0 /\ Len(f_remote[t]) = 0
    BY EmptySeq DEF F!Init
  <2>2. QED
    BY <1>2, <2>1, WhereCases
<1>4. Given = {} /\ f_out = {} /\ f_hand = F!None
  BY DEF F!Init, Given
<1>5. Whole(Lists, f_out, f_hand, Given)
  BY <1>2, <1>3, <1>4, FixedConstants DEF Whole
<1>6. QED
  BY <1>1, <1>4, <1>5 DEF OnceInv

\* What every get does: list is what the free list has become.
LEMMA GetOnce ==
  ASSUME OnceInv, IInv', NEW t \in Threads, NEW list \in Seq(Nodes), F!Pop(t, list),
         UNCHANGED <<f_remote, F!moverVars>>,
         NEW L, Whole(L, f_out, f_hand, Given'), L[<<"free", t>>] = list,
         \A u \in Threads : /\ u # t => L[<<"free", u>>] = f_freeList[u]
                            /\ L[<<"local", u>>] = f_local'[u]
                            /\ L[<<"remote", u>>] = f_remote[u],
         \A x \in Given' : f_tid'[x] \in f_pools'
  PROVE  OnceInv'
<1>1. Typed /\ (f_mpc # "push" => f_hand = F!None)
  BY DEF OnceInv, IInv
<1>2. /\ f_freeList'[t] \in Seq(Nodes) /\ \A u \in Threads : u # t => f_freeList'[u] = f_freeList[u]
      /\ Whole([L EXCEPT ![<<"free", t>>] = f_freeList'[t]], f_out', f_hand, Given')
  BY <1>1, PopWhole
<1> DEFINE M == [L EXCEPT ![<<"free", t>>] = f_freeList'[t]]
<1>3. f_remote' = f_remote /\ f_mpc' = f_mpc /\ f_hand' = f_hand
  BY DEF F!moverVars
<1>4. L \in [Where -> Seq(Nodes)]
  BY DEF Whole
<1>5. M \in [Where -> Seq(Nodes)]
  BY <1>2, <1>4
<1>6. \A u \in Threads : /\ M[<<"free", u>>] = f_freeList'[u]
                         /\ M[<<"local", u>>] = f_local'[u] /\ M[<<"remote", u>>] = f_remote'[u]
  <2> SUFFICES ASSUME NEW u \in Threads
               PROVE  /\ M[<<"free", u>>] = f_freeList'[u]
                      /\ M[<<"local", u>>] = f_local'[u] /\ M[<<"remote", u>>] = f_remote'[u]
    OBVIOUS
  <2>1. <<"free", t>> \in Where /\ <<"free", u>> \in Where /\ <<"local", u>> \in Where
        /\ <<"remote", u>> \in Where
    BY DEF Where
  <2>2. QED
    BY <1>2, <1>3, <1>4, <2>1
<1> HIDE DEF M
<1>7. DOMAIN M = Where /\ M = [p \in Where |-> M[p]]
  BY <1>5
<1>8. Lists' = M
  BY <1>6, <1>7, ListsBecome
<1>9. Whole(Lists', f_out', f_hand', Given')
  BY <1>2, <1>3, <1>8 DEF M
<1>10. f_mpc' # "push" => f_hand' = F!None
  BY <1>1, <1>3
<1>11. Whole(Lists, f_out, f_hand, Given)'
  BY <1>9 DEF Whole, Where
<1>12. QED
  BY <1>10, <1>11 DEF OnceInv

LEMMA OnceGetFast == ASSUME NEW t \in Threads, OnceInv, F!GetFast(t), IInv' PROVE OnceInv'
<1>1. /\ Typed /\ Whole(Lists, f_out, f_hand, Given) /\ \A x \in Given : f_tid[x] \in f_pools
  BY DEF OnceInv, IInv
<1>2. F!Pop(t, f_freeList[t]) /\ UNCHANGED <<f_pools, f_tid, f_local, f_remote, F!moverVars>>
  BY DEF F!GetFast
<1>3. f_freeList[t] \in Seq(Nodes)
  BY <1>1 DEF Typed
<1>4. \A u \in Threads : /\ Lists[<<"free", u>>] = f_freeList[u]
                         /\ Lists[<<"local", u>>] = f_local'[u]
                         /\ Lists[<<"remote", u>>] = f_remote[u]
  BY <1>1, <1>2, ListsAre
<1>5. Given' = Given /\ f_tid' = f_tid /\ f_pools' = f_pools
  BY <1>2 DEF Given
<1>6. \A x \in Given' : f_tid'[x] \in f_pools'
  BY <1>1, <1>5
<1>7. Whole(Lists, f_out, f_hand, Given')
  BY <1>1, <1>5
<1>8. UNCHANGED <<f_remote, F!moverVars>>
  BY <1>2
<1> DEFINE L == Lists
<1> HIDE DEF L
<1>9. /\ Whole(L, f_out, f_hand, Given') /\ L[<<"free", t>>] = f_freeList[t]
      /\ \A u \in Threads : /\ u # t => L[<<"free", u>>] = f_freeList[u]
                            /\ L[<<"local", u>>] = f_local'[u]
                            /\ L[<<"remote", u>>] = f_remote[u]
  BY <1>4, <1>7 DEF L
<1>10. QED
  BY <1>2, <1>3, <1>6, <1>8, <1>9, GetOnce

\* A thread without a pool has an empty free list; its new nodes are nobody's.
LEMMA OnceGetCreate == ASSUME NEW t \in Threads, OnceInv, F!GetCreate(t), IInv' PROVE OnceInv'
<1>1. /\ Typed /\ Home /\ Whole(Lists, f_out, f_hand, Given) /\ \A x \in Given : f_tid[x] \in f_pools
  BY DEF OnceInv, IInv
<1>2. PICK new \in [1..NodeCnt -> {x \in Nodes : f_tid[x] = F!None}] :
        /\ \A i, j \in 1..NodeCnt : i # j => new[i] # new[j]
        /\ f_tid' = [x \in Nodes |->
                     IF \E i \in 1..NodeCnt : new[i] = x THEN t ELSE f_tid[x]]
        /\ F!Pop(t, new)
  BY DEF F!GetCreate
<1>3. t \notin f_pools /\ f_pools' = f_pools \cup {t} /\ UNCHANGED <<f_local, f_remote, F!moverVars>>
  BY DEF F!GetCreate
<1>4. new \in Seq(Nodes) /\ Len(new) = NodeCnt
  BY FixedConstants
<1>5. \A i \in 1..Len(new) : new[i] \in Nodes /\ f_tid[new[i]] = F!None /\ new[i] \notin Given
  BY <1>4 DEF Given
<1> DEFINE p == <<"free", t>>
           come == {new[i] : i \in 1..Len(new)}
<1>6. p \in Where /\ Lists[p] = f_freeList[t]
  BY <1>1, ListsAre
<1>7. f_freeList[t] = <<>>
  <2> SUFFICES ASSUME f_freeList[t] # <<>> PROVE FALSE
    OBVIOUS
  <2>1. f_freeList[t] \in Seq(Nodes)
    BY <1>1 DEF Typed
  <2>2. 1 \in 1..Len(f_freeList[t]) /\ f_freeList[t][1] \in Nodes
    BY <2>1
  <2>3. f_tid[f_freeList[t][1]] = t
    BY <1>1, <2>2 DEF Home
  <2>4. f_freeList[t][1] \in Given
    BY <2>2, <2>3, FixedConstants DEF Given
  <2>5. QED
    BY <1>1, <1>3, <2>3, <2>4
<1>8. Whole([Lists EXCEPT ![p] = new], f_out, f_hand, Given \cup come)
  <2>1. \A i, j \in 1..Len(new) : new[i] = new[j] => i = j
    BY <1>2, <1>4
  <2>2. Lists[p] = <<>>
    BY <1>6, <1>7
  <2>3. QED
    BY <1>1, <1>4, <1>5, <1>6, <2>1, <2>2, GiveAll
<1>9. Given' = Given \cup come
  BY <1>1, <1>2, <1>4, FixedConstants DEF Given, Typed
<1>10. \A x \in Given' : f_tid'[x] \in f_pools'
  <2> SUFFICES ASSUME NEW x \in Given' PROVE f_tid'[x] \in f_pools'
    OBVIOUS
  <2>1. x \in Nodes /\ f_tid'[x] = IF \E i \in 1..NodeCnt : new[i] = x THEN t ELSE f_tid[x]
    BY <1>2 DEF Given
  <2>2. CASE \E i \in 1..NodeCnt : new[i] = x
    BY <1>3, <2>1, <2>2
  <2>3. CASE ~\E i \in 1..NodeCnt : new[i] = x
    <3>1. x \in Given
      BY <1>4, <1>9, <2>3
    <3>2. QED
      BY <1>1, <1>3, <2>1, <2>3, <3>1
  <2>4. QED
    BY <2>2, <2>3
<1> DEFINE L == [Lists EXCEPT ![p] = new]
<1>11. /\ L[<<"free", t>>] = new
       /\ \A u \in Threads : /\ u # t => L[<<"free", u>>] = f_freeList[u]
                             /\ L[<<"local", u>>] = f_local'[u]
                             /\ L[<<"remote", u>>] = f_remote[u]
  <2>1. /\ Lists \in [Where -> Seq(Nodes)]
        /\ \A u \in Threads : /\ <<"free", u>> \in Where /\ Lists[<<"free", u>>] = f_freeList[u]
                              /\ <<"local", u>> \in Where /\ Lists[<<"local", u>>] = f_local[u]
                              /\ <<"remote", u>> \in Where /\ Lists[<<"remote", u>>] = f_remote[u]
    BY <1>1, ListsAre
  <2>2. f_local' = f_local
    BY <1>3
  <2>3. QED
    BY <1>6, <2>1, <2>2
<1>12. Whole(L, f_out, f_hand, Given')
  BY <1>8, <1>9
<1>13. UNCHANGED <<f_remote, F!moverVars>>
  BY <1>3
<1> HIDE DEF L
<1>14. QED
  BY <1>2, <1>4, <1>10, <1>11, <1>12, <1>13, GetOnce

LEMMA OnceGetSlow == ASSUME NEW t \in Threads, OnceInv, F!GetSlow(t), IInv' PROVE OnceInv'
<1>1. /\ Typed /\ Whole(Lists, f_out, f_hand, Given) /\ \A x \in Given : f_tid[x] \in f_pools
  BY DEF OnceInv, IInv
<1> DEFINE n == Len(f_local[t])
           list == [i \in 1..n |-> f_local[t][n + 1 - i]]
           gone == {f_local[t][i] : i \in 1..n}
<1>2. /\ f_freeList[t] = <<>> /\ F!Pop(t, list) /\ f_local' = [f_local EXCEPT ![t] = <<>>]
      /\ UNCHANGED <<f_pools, f_tid, f_remote, F!moverVars>>
  BY DEF F!GetSlow
<1>3. f_local[t] \in Seq(Nodes) /\ n \in Nat /\ \A i \in 1..n : f_local[t][i] \in Nodes
  BY <1>1, ElementOfSeq, LenProperties DEF Typed
<1>4. /\ Lists \in [Where -> Seq(Nodes)]
      /\ \A u \in Threads : /\ <<"free", u>> \in Where /\ Lists[<<"free", u>>] = f_freeList[u]
                            /\ <<"local", u>> \in Where /\ Lists[<<"local", u>>] = f_local[u]
                            /\ <<"remote", u>> \in Where /\ Lists[<<"remote", u>>] = f_remote[u]
  BY <1>1, ListsAre
<1> DEFINE p == <<"free", t>>
           q == <<"local", t>>
           K == [Lists EXCEPT ![q] = <<>>]
           L == [K EXCEPT ![p] = list]
<1>5. p \in Where /\ q \in Where /\ p # q /\ Lists[q] = f_local[t] /\ Lists[p] = <<>>
  BY <1>2, <1>4
<1> HIDE DEF p, q
<1>6. /\ gone \subseteq Given /\ Whole(K, f_out, f_hand, Given \ gone)
      /\ \A i, j \in 1..n : f_local[t][i] = f_local[t][j] => i = j
  <2>1. gone = {Lists[q][i] : i \in 1..Len(Lists[q])}
    BY <1>5
  <2> HIDE DEF gone
  <2>2. /\ gone \subseteq Given /\ Whole(K, f_out, f_hand, Given \ gone)
        /\ \A i, j \in 1..Len(Lists[q]) : Lists[q][i] = Lists[q][j] => i = j
    <3>1. Whole(Lists, f_out, f_hand, Given) /\ q \in Where
      BY <1>1, <1>5
    <3>2. \A i, j \in 1..Len(Lists[q]) : Lists[q][i] = Lists[q][j] => i = j
      BY <3>1 DEF Whole
    <3>3. \A i \in 1..Len(Lists[q]) : Lists[q][i] \in Given
      BY <3>1, WholeApart
    <3>4. gone \subseteq Given
      BY <2>1, <3>3
    <3>5. Whole(K, f_out, f_hand, Given \ gone)
      BY <2>1, <3>1, TakeAll
    <3>6. QED
      BY <3>2, <3>4, <3>5
  <2>3. QED
    BY <1>5, <2>2
<1>7. K \in [Where -> Seq(Nodes)] /\ K[p] = <<>> /\ K[q] = <<>>
      /\ \A r \in Where : r # q => K[r] = Lists[r]
  BY <1>4, <1>5, EmptySeq
<1> HIDE DEF n, K
<1>8. \A i \in 1..n : n + 1 - i \in 1..n
  BY <1>3
<1>9. list \in Seq(Nodes) /\ Len(list) = n /\ \A i \in 1..n : list[i] = f_local[t][n + 1 - i]
  BY <1>3, <1>8
<1> HIDE DEF list
<1>10. {list[i] : i \in 1..Len(list)} = gone
  <2>1. \A i \in 1..n : list[i] \in gone
    BY <1>8, <1>9
  <2>2. ASSUME NEW i \in 1..n PROVE f_local[t][i] \in {list[j] : j \in 1..n}
    <3>1. n + 1 - i \in 1..n /\ n + 1 - (n + 1 - i) = i
      BY <1>3, <1>8
    <3>2. list[n + 1 - i] = f_local[t][i]
      BY <1>9, <3>1
    <3>3. QED
      BY <3>1, <3>2
  <2>3. \A i \in 1..n : f_local[t][i] \in {list[j] : j \in 1..n}
    BY <2>2
  <2>4. gone \subseteq {list[j] : j \in 1..n}
    BY <2>3
  <2>5. {list[j] : j \in 1..n} \subseteq gone
    BY <2>1
  <2>6. QED
    BY <1>9, <2>4, <2>5
<1>11. \A i, j \in 1..Len(list) : list[i] = list[j] => i = j
  <2> SUFFICES ASSUME NEW i \in 1..n, NEW j \in 1..n, list[i] = list[j] PROVE i = j
    BY <1>9
  <2>1. n + 1 - i \in 1..n /\ n + 1 - j \in 1..n /\ f_local[t][n + 1 - i] = f_local[t][n + 1 - j]
    BY <1>8, <1>9
  <2>2. n + 1 - i = n + 1 - j
    BY <1>6, <2>1
  <2>3. QED
    BY <1>3, <2>2
<1>12. Whole(L, f_out, f_hand, Given)
  <2> DEFINE H == Given \ gone
  <2>1. Whole(K, f_out, f_hand, H) /\ \A i \in 1..Len(list) : list[i] \notin H
    BY <1>6, <1>10
  <2>2. H \cup {list[i] : i \in 1..Len(list)} = Given
    BY <1>6, <1>10
  <2> HIDE DEF H
  <2>3. Whole([K EXCEPT ![p] = list], f_out, f_hand, H \cup {list[i] : i \in 1..Len(list)})
    <3>1. p \in Where /\ K[p] = <<>> /\ list \in Seq(Nodes)
      BY <1>5, <1>7, <1>9
    <3>2. QED
      BY <1>11, <2>1, <3>1, GiveAll
  <2>4. QED
    BY <2>2, <2>3
<1>13. Given' = Given /\ f_tid' = f_tid /\ f_pools' = f_pools
  BY <1>2 DEF Given
<1>14. \A x \in Given' : f_tid'[x] \in f_pools'
  BY <1>1, <1>13
<1>15. /\ L[<<"free", t>>] = list
       /\ \A u \in Threads : /\ u # t => L[<<"free", u>>] = f_freeList[u]
                             /\ L[<<"local", u>>] = f_local'[u]
                             /\ L[<<"remote", u>>] = f_remote[u]
  <2>1. L[p] = list /\ \A r \in Where : r # p => L[r] = K[r]
    BY <1>5, <1>7
  <2>2. \A u \in Threads : f_local'[u] = IF u = t THEN <<>> ELSE f_local[u]
    BY <1>1, <1>2 DEF Typed
  <2>3. L[<<"free", t>>] = list
    BY <2>1 DEF p
  <2>4. ASSUME NEW u \in Threads
        PROVE  /\ u # t => L[<<"free", u>>] = f_freeList[u]
               /\ L[<<"local", u>>] = f_local'[u]
               /\ L[<<"remote", u>>] = f_remote[u]
    <3>1. /\ u # t => <<"free", u>> # p /\ <<"local", u>> # q
          /\ <<"free", u>> # q /\ <<"local", u>> # p
          /\ <<"remote", u>> # p /\ <<"remote", u>> # q
      BY DEF p, q
    <3>2. u = t => L[<<"local", u>>] = <<>>
      BY <1>4, <1>7, <2>1, <3>1 DEF q
    <3>3. QED
      BY <1>4, <1>7, <2>1, <2>2, <3>1, <3>2
  <2>5. QED
    BY <2>3, <2>4
<1>16. Whole(L, f_out, f_hand, Given')
  BY <1>12, <1>13
<1>17. UNCHANGED <<f_remote, F!moverVars>>
  BY <1>2
<1> HIDE DEF L
<1>18. F!Pop(t, list)
  BY <1>2 DEF list, n
<1>19. QED
  BY <1>9, <1>14, <1>15, <1>16, <1>17, <1>18, GetOnce

\* The other steps change one list at most.
LEMMA OneListNew ==
  ASSUME Typed, NEW p \in Where, NEW list \in Seq(Nodes),
         \A u \in Threads :
           /\ f_freeList'[u] = IF p = <<"free", u>> THEN list ELSE f_freeList[u]
           /\ f_local'[u] = IF p = <<"local", u>> THEN list ELSE f_local[u]
           /\ f_remote'[u] = IF p = <<"remote", u>> THEN list ELSE f_remote[u]
  PROVE  Lists' = [Lists EXCEPT ![p] = list]
<1> DEFINE L == [Lists EXCEPT ![p] = list]
<1>1. /\ Lists \in [Where -> Seq(Nodes)]
      /\ \A u \in Threads : /\ <<"free", u>> \in Where /\ Lists[<<"free", u>>] = f_freeList[u]
                            /\ <<"local", u>> \in Where /\ Lists[<<"local", u>>] = f_local[u]
                            /\ <<"remote", u>> \in Where /\ Lists[<<"remote", u>>] = f_remote[u]
  BY ListsAre
<1>2. L \in [Where -> Seq(Nodes)] /\ L[p] = list /\ \A q \in Where : q # p => L[q] = Lists[q]
  BY <1>1
<1> HIDE DEF L
<1>3. DOMAIN L = Where /\ L = [q \in Where |-> L[q]]
  BY <1>2
<1>4. ASSUME NEW u \in Threads
      PROVE  /\ L[<<"free", u>>] = f_freeList'[u] /\ L[<<"local", u>>] = f_local'[u]
             /\ L[<<"remote", u>>] = f_remote'[u]
  <2>1. L[<<"free", u>>] = f_freeList'[u]
    BY <1>1, <1>2
  <2>2. L[<<"local", u>>] = f_local'[u]
    BY <1>1, <1>2
  <2>3. L[<<"remote", u>>] = f_remote'[u]
    BY <1>1, <1>2
  <2>4. QED
    BY <2>1, <2>2, <2>3
<1>5. Lists' = L
  BY <1>3, <1>4, ListsBecome
<1>6. QED
  BY <1>5 DEF L

LEMMA OnceStep ==
  ASSUME OnceInv, IInv', NEW L, Whole(L, f_out', f_hand', Given), Lists' = L,
         f_tid' = f_tid, f_pools \subseteq f_pools', f_mpc' # "push" => f_hand' = F!None
  PROVE  OnceInv'
<1>1. Given' = Given
  BY DEF Given
<1>2. Whole(Lists', f_out', f_hand', Given')
  BY <1>1
<1>3. Whole(Lists, f_out, f_hand, Given)'
  BY <1>2 DEF Whole, Where
<1>4. \A x \in Given' : f_tid'[x] \in f_pools'
  BY <1>1 DEF OnceInv
<1>5. QED
  BY <1>3, <1>4 DEF OnceInv

LEMMA OncePut ==
  ASSUME NEW t \in Threads, NEW x \in Nodes, OnceInv, F!Put(t, x), IInv' PROVE OnceInv'
<1>1. Typed /\ Whole(Lists, f_out, f_hand, Given) /\ (f_mpc # "push" => f_hand = F!None)
  BY DEF OnceInv, IInv
<1>2. /\ x \in f_out /\ f_out' = f_out \ {x} /\ f_pools \subseteq f_pools' /\ f_tid' = f_tid
      /\ f_local' = f_local /\ f_mpc' = f_mpc /\ f_hand' = f_hand
  BY DEF F!Put, F!moverVars
<1> DEFINE H == Given \ {x}
<1>3. x \in Given /\ Whole(Lists, f_out', f_hand', H)
  BY <1>1, <1>2, TakeOut
<1>4. x \in Nodes \ H /\ H \cup {x} = Given
  BY <1>3
<1> HIDE DEF H
<1>5. /\ f_freeList[t] \in Seq(Nodes) /\ Len(f_freeList[t]) \in Nat
      /\ f_remote[t] \in Seq(Nodes) /\ Len(f_remote[t]) \in Nat
  BY <1>1, LenProperties DEF Typed
<1>6. /\ <<"free", t>> \in Where /\ Lists[<<"free", t>>] = f_freeList[t]
      /\ <<"remote", t>> \in Where /\ Lists[<<"remote", t>>] = f_remote[t]
  BY <1>1, ListsAre
<1>7. CASE f_tid[x] = t
  <2> DEFINE list == <<x>> \o f_freeList[t]
             p == <<"free", t>>
  <2>1. /\ list \in Seq(Nodes) /\ Len(list) = Len(f_freeList[t]) + 1 /\ list[1] = x
        /\ \A i \in 1..Len(f_freeList[t]) : list[i + 1] = f_freeList[t][i]
    BY <1>5
  <2>2. f_freeList' = [f_freeList EXCEPT ![t] = list] /\ f_remote' = f_remote
    BY <1>7 DEF F!Put
  <2> HIDE DEF list, p
  <2>3. \A u \in Threads :
           /\ f_freeList'[u] = IF p = <<"free", u>> THEN list ELSE f_freeList[u]
           /\ f_local'[u] = IF p = <<"local", u>> THEN list ELSE f_local[u]
           /\ f_remote'[u] = IF p = <<"remote", u>> THEN list ELSE f_remote[u]
    BY <1>1, <1>2, <2>2 DEF Typed, p
  <2>4. p \in Where /\ Lists[p] = f_freeList[t]
    BY <1>6 DEF p
  <2>5. Lists' = [Lists EXCEPT ![p] = list]
    BY <1>1, <2>1, <2>3, <2>4, OneListNew
  <2>6. Whole([Lists EXCEPT ![p] = list], f_out', f_hand', H \cup {x})
    <3>1. /\ Len(list) = Len(Lists[p]) + 1 /\ list[IF 1 = 1 THEN 1 ELSE Len(list)] = x
          /\ \A i \in 1..Len(Lists[p]) : list[i + 1] = Lists[p][i]
      BY <2>1, <2>4
    <3>2. 1 \in {0, 1}
      OBVIOUS
    <3>3. QED
      BY <1>3, <1>4, <2>1, <2>4, <3>1, <3>2, GiveList
  <2>7. QED
    BY <1>1, <1>2, <1>4, <2>5, <2>6, OnceStep
<1>8. CASE f_tid[x] # t
  <2> DEFINE list == Append(f_remote[t], x)
             p == <<"remote", t>>
  <2>1. /\ list \in Seq(Nodes) /\ Len(list) = Len(f_remote[t]) + 1 /\ list[Len(list)] = x
        /\ \A i \in 1..Len(f_remote[t]) : list[i + 0] = f_remote[t][i]
    BY <1>5
  <2>2. f_remote' = [f_remote EXCEPT ![t] = list] /\ f_freeList' = f_freeList
    BY <1>8 DEF F!Put
  <2> HIDE DEF list, p
  <2>3. \A u \in Threads :
           /\ f_freeList'[u] = IF p = <<"free", u>> THEN list ELSE f_freeList[u]
           /\ f_local'[u] = IF p = <<"local", u>> THEN list ELSE f_local[u]
           /\ f_remote'[u] = IF p = <<"remote", u>> THEN list ELSE f_remote[u]
    BY <1>1, <1>2, <2>2 DEF Typed, p
  <2>4. p \in Where /\ Lists[p] = f_remote[t]
    BY <1>6 DEF p
  <2>5. Lists' = [Lists EXCEPT ![p] = list]
    BY <1>1, <2>1, <2>3, <2>4, OneListNew
  <2>6. Whole([Lists EXCEPT ![p] = list], f_out', f_hand', H \cup {x})
    <3>1. /\ Len(list) = Len(Lists[p]) + 1 /\ list[IF 0 = 1 THEN 1 ELSE Len(list)] = x
          /\ \A i \in 1..Len(Lists[p]) : list[i + 0] = Lists[p][i]
      BY <2>1, <2>4
    <3>2. 0 \in {0, 1}
      OBVIOUS
    <3>3. QED
      BY <1>3, <1>4, <2>1, <2>4, <3>1, <3>2, GiveList
  <2>7. QED
    BY <1>1, <1>2, <1>4, <2>5, <2>6, OnceStep
<1>9. QED
  BY <1>7, <1>8

LEMMA OnceMovePop == ASSUME OnceInv, F!MovePop, IInv' PROVE OnceInv'
<1>1. /\ Typed /\ Carrying /\ Whole(Lists, f_out, f_hand, Given) /\ f_mpc = "pop" /\ f_hand = F!None
  BY DEF OnceInv, IInv, F!MovePop
<1>2. /\ UNCHANGED <<f_freeList, f_local>> /\ f_tid' = f_tid /\ f_pools \subseteq f_pools' /\ f_out' = f_out
  BY DEF F!MovePop
<1> DEFINE p == <<"remote", f_cur>>
<1>3. /\ f_cur \in Threads /\ f_left \in Nat /\ f_left <= Len(f_remote[f_cur])
      /\ f_remote[f_cur] \in Seq(Nodes)
  BY <1>1 DEF Carrying, Typed
<1>4. p \in Where /\ Lists[p] = f_remote[f_cur]
  BY <1>1, <1>3, ListsAre
<1>5. CASE f_left = 0
  <2>1. f_remote' = f_remote /\ f_hand' = f_hand /\ f_mpc' = "next"
    BY <1>5 DEF F!MovePop
  <2>2. Lists' = Lists
    BY <1>2, <2>1 DEF Lists
  <2> DEFINE L == Lists
  <2> HIDE DEF L
  <2>3. Whole(L, f_out', f_hand', Given) /\ Lists' = L /\ (f_mpc' # "push" => f_hand' = F!None)
    BY <1>1, <1>2, <2>1, <2>2 DEF L
  <2>4. QED
    BY <1>2, <2>3, OnceStep
<1>6. CASE f_left # 0
  <2>1. /\ f_mpc' = "push" /\ f_hand' = Head(f_remote[f_cur])
        /\ f_remote' = [f_remote EXCEPT ![f_cur] = Tail(f_remote[f_cur])]
    BY <1>6 DEF F!MovePop
  <2>2. f_remote[f_cur] # <<>>
    BY <1>3, <1>6, EmptySeq
  <2> DEFINE list == Tail(f_remote[f_cur])
  <2>3. list \in Seq(Nodes)
    BY <1>3, <2>2
  <2>4. /\ f_hand' \in Given /\ Whole([Lists EXCEPT ![p] = list], f_out, f_hand, Given \ {f_hand'})
    <3>1. /\ Head(Lists[p]) \in Given
          /\ Whole([Lists EXCEPT ![p] = Tail(@)], f_out, f_hand, Given \ {Head(Lists[p])})
      <4> HIDE DEF p
      <4>1. Lists[p] # <<>>
        BY <1>4, <2>2
      <4>2. QED
        BY <1>1, <1>4, <4>1, TakeHead
    <3>2. [Lists EXCEPT ![p] = Tail(@)] = [Lists EXCEPT ![p] = list]
      BY <1>4
    <3>3. QED
      BY <1>4, <2>1, <3>1, <3>2
  <2> HIDE DEF list, p
  <2>5. Given \subseteq Nodes
    BY DEF Given
  <2> DEFINE H == Given \ {f_hand'}
  <2>6. f_hand' \in Nodes \ H /\ H \cup {f_hand'} = Given
    BY <2>4, <2>5
  <2>7. Whole([Lists EXCEPT ![p] = list], f_out', F!None, H)
    BY <1>1, <1>2, <2>4
  <2> HIDE DEF H
  <2>8. Whole([Lists EXCEPT ![p] = list], f_out', f_hand', Given)
    <3>1. Whole([Lists EXCEPT ![p] = list], f_out', f_hand', H \cup {f_hand'})
      BY <2>6, <2>7, GiveHand
    <3>2. QED
      BY <2>6, <3>1
  <2>9. \A u \in Threads :
           /\ f_freeList'[u] = IF p = <<"free", u>> THEN list ELSE f_freeList[u]
           /\ f_local'[u] = IF p = <<"local", u>> THEN list ELSE f_local[u]
           /\ f_remote'[u] = IF p = <<"remote", u>> THEN list ELSE f_remote[u]
    BY <1>1, <1>2, <1>3, <2>1 DEF Typed, p, list
  <2>10. Lists' = [Lists EXCEPT ![p] = list]
    BY <1>1, <1>4, <2>3, <2>9, OneListNew
  <2>11. QED
    BY <1>2, <2>1, <2>8, <2>10, OnceStep
<1>7. QED
  BY <1>5, <1>6

LEMMA OnceMovePush == ASSUME OnceInv, F!MovePush, IInv' PROVE OnceInv'
<1> DEFINE t == f_tid[f_hand]
           p == <<"local", t>>
           list == Append(f_local[t], f_hand)
           H == Given \ {f_hand}
<1>1. /\ Typed /\ Carrying /\ Whole(Lists, f_out, f_hand, Given) /\ f_mpc = "push"
  BY DEF OnceInv, IInv, F!MovePush
<1>2. /\ UNCHANGED <<f_freeList, f_remote>> /\ f_tid' = f_tid /\ f_pools \subseteq f_pools' /\ f_out' = f_out
      /\ f_local' = [f_local EXCEPT ![t] = list] /\ f_hand' = F!None
  BY DEF F!MovePush
<1>3. f_hand \in Nodes /\ t \in Threads /\ f_local[t] \in Seq(Nodes) /\ Len(f_local[t]) \in Nat
  BY <1>1, LenProperties DEF Carrying, Typed
<1>4. p \in Where /\ Lists[p] = f_local[t]
  BY <1>1, <1>3, ListsAre
<1>5. /\ list \in Seq(Nodes) /\ Len(list) = Len(f_local[t]) + 1 /\ list[Len(list)] = f_hand
      /\ \A i \in 1..Len(f_local[t]) : list[i + 0] = f_local[t][i]
  BY <1>3
<1>6. f_hand \in Given /\ Whole(Lists, f_out, F!None, H)
  BY <1>1, <1>3, TakeHand
<1>7. f_hand \in Nodes \ H /\ H \cup {f_hand} = Given
  BY <1>3, <1>6
<1> HIDE DEF H, list
<1>8. \A u \in Threads :
         /\ f_freeList'[u] = IF p = <<"free", u>> THEN list ELSE f_freeList[u]
         /\ f_local'[u] = IF p = <<"local", u>> THEN list ELSE f_local[u]
         /\ f_remote'[u] = IF p = <<"remote", u>> THEN list ELSE f_remote[u]
  BY <1>1, <1>2, <1>3 DEF Typed
<1> HIDE DEF p
<1>9. Lists' = [Lists EXCEPT ![p] = list]
  BY <1>1, <1>4, <1>5, <1>8, OneListNew
<1>10. Whole([Lists EXCEPT ![p] = list], f_out', f_hand', Given)
  <2>1. /\ Len(list) = Len(Lists[p]) + 1 /\ list[IF 0 = 1 THEN 1 ELSE Len(list)] = f_hand
        /\ \A i \in 1..Len(Lists[p]) : list[i + 0] = Lists[p][i]
    BY <1>4, <1>5
  <2>2. 0 \in {0, 1}
    OBVIOUS
  <2>3. Whole([Lists EXCEPT ![p] = list], f_out, F!None, H \cup {f_hand})
    BY <1>4, <1>5, <1>6, <1>7, <2>1, <2>2, GiveList
  <2>4. QED
    BY <1>2, <1>7, <2>3
<1>11. QED
  BY <1>2, <1>9, <1>10, OnceStep

\* What leaves the nodes where they are.
LEMMA OnceRest ==
  ASSUME OnceInv, F!MoveStart \/ F!MoveEnd \/ (\E t \in Threads : F!MoveNext(t)) \/ UNCHANGED f_vars,
         IInv'
  PROVE  OnceInv'
<1>1. Whole(Lists, f_out, f_hand, Given) /\ (f_mpc # "push" => f_hand = F!None)
  BY DEF OnceInv
<1>2. /\ UNCHANGED F!poolVars /\ f_tid' = f_tid /\ f_pools \subseteq f_pools' /\ f_hand' = f_hand
      /\ f_mpc' # "push" => f_mpc # "push"
  BY DEF F!MoveStart, F!MoveEnd, F!MoveNext, f_vars, F!moverVars, F!poolVars
<1>3. Lists' = Lists
  BY <1>2 DEF Lists, F!poolVars
<1> DEFINE L == Lists
<1> HIDE DEF L
<1>4. Whole(L, f_out', f_hand', Given) /\ Lists' = L /\ (f_mpc' # "push" => f_hand' = F!None)
  BY <1>1, <1>2, <1>3 DEF L, F!poolVars
<1>5. QED
  BY <1>2, <1>4, OnceStep

LEMMA OnceInductive == OnceInv /\ [F!Next]_f_vars => OnceInv'
<1> SUFFICES ASSUME OnceInv, [F!Next]_f_vars PROVE OnceInv'
  OBVIOUS
<1>1. IInv'
  BY HomeInductive DEF OnceInv
<1>2. ASSUME NEW t \in Threads, F!Get(t) PROVE OnceInv'
  BY <1>1, <1>2, OnceGetFast, OnceGetCreate, OnceGetSlow DEF F!Get
<1>3. ASSUME NEW t \in Threads, NEW x \in Nodes, F!Put(t, x) PROVE OnceInv'
  BY <1>1, <1>3, OncePut
<1>4. CASE F!Moving
  BY <1>1, <1>4, OnceMovePop, OnceMovePush, OnceRest DEF F!Moving
<1>5. CASE UNCHANGED f_vars
  BY <1>1, <1>5, OnceRest
<1>6. QED
  BY <1>2, <1>3, <1>4, <1>5 DEF F!Next

-----------------------------------------------------------------------------
(* What the invariant says of the counts *)

\* A list is no longer than there are nodes.
LEMMA ListsShort ==
  ASSUME OnceInv, NEW p \in Where
  PROVE  /\ Len(Lists[p]) \in Nat /\ Cardinality(Nodes) \in Nat
         /\ Len(Lists[p]) <= Cardinality(Nodes)
<1> DEFINE n == Len(Lists[p])
           c == Cardinality(Nodes)
<1>1. Lists[p] \in Seq(Nodes) /\ \A i, j \in 1..n : Lists[p][i] = Lists[p][j] => i = j
  <2>1. Whole(Lists, f_out, f_hand, Given)
    BY DEF OnceInv
  <2>2. Lists \in [Where -> Seq(Nodes)]
    BY <2>1 DEF Whole
  <2>3. \A i, j \in 1..n : Lists[p][i] = Lists[p][j] => i = j
    BY <2>1 DEF Whole
  <2>4. QED
    BY <2>2, <2>3
<1>2. n \in Nat /\ Lists[p] \in [1..n -> Nodes]
  BY <1>1, LenProperties
<1>3. IsFiniteSet(Nodes) /\ c \in Nat
  BY FixedConstants, FS_CardinalityType
<1>4. IsFiniteSet(1..n) /\ Cardinality(1..n) = n
  <2> HIDE DEF n
  <2>1. /\ IsFiniteSet(1..n) /\ Cardinality(1..n) = IF 1 > n THEN 0 ELSE n - 1 + 1
    BY <1>2, FS_Interval
  <2>2. QED
    BY <1>2, <2>1
<1> HIDE DEF n, c
<1>5. ASSUME c < n PROVE FALSE
  <2>1. \E i, j \in 1..n : i # j /\ Lists[p][i] = Lists[p][j]
    BY <1>2, <1>3, <1>4, <1>5, FS_PigeonHole DEF c
  <2>2. QED
    BY <1>1, <2>1 DEF n
<1>6. n <= c
  BY <1>2, <1>3, <1>5
<1>7. QED
  BY <1>2, <1>3, <1>6 DEF n, c

LEMMA OnceCounted == OnceInv => F!EveryNodeOnce
<1> SUFFICES ASSUME OnceInv PROVE F!EveryNodeOnce
  OBVIOUS
<1> DEFINE list == [free |-> f_freeList, local |-> f_local, remote |-> f_remote]
           slots == (DOMAIN list) \X Threads \X (1..Cardinality(Nodes))
           At(x, s) == s[3] <= Len(list[s[1]][s[2]]) /\ list[s[1]][s[2]][s[3]] = x
           On(x) == Cardinality({s \in slots : At(x, s)})
           Times(x) == On(x) + (IF x \in f_out THEN 1 ELSE 0) + (IF f_hand = x THEN 1 ELSE 0)
<1>1. Typed /\ Whole(Lists, f_out, f_hand, Given)
  BY DEF OnceInv, IInv
<1>2. \A p \in Where : /\ p = <<p[1], p[2]>> /\ p[1] \in DOMAIN list /\ p[2] \in Threads
                       /\ list[p[1]][p[2]] = Lists[p]
  BY DEF Where, Lists
<1>3. \A k \in DOMAIN list : \A t \in Threads : <<k, t>> \in Where /\ list[k][t] = Lists[<<k, t>>]
  BY DEF Where, Lists
<1> HIDE DEF list
<1>4. ASSUME NEW x \in Nodes
      PROVE  Times(x) = IF f_tid[x] = F!None THEN 0 ELSE 1
  <2>1. \A s \in slots : s = <<s[1], s[2], s[3]>> /\ s[1] \in DOMAIN list /\ s[2] \in Threads
                         /\ s[3] \in 1..Cardinality(Nodes)
    OBVIOUS
  <2> DEFINE here == {s \in slots : At(x, s)}
  \* A place x is counted at is one it has on the lists.
  <2>2. ASSUME NEW s \in here
        PROVE  /\ <<s[1], s[2]>> \in Where /\ s[3] \in 1..Len(Lists[<<s[1], s[2]>>])
               /\ Lists[<<s[1], s[2]>>][s[3]] = x
    <3>1. /\ <<s[1], s[2]>> \in Where /\ list[s[1]][s[2]] = Lists[<<s[1], s[2]>>]
          /\ s[3] \in 1..Cardinality(Nodes) /\ At(x, s)
      BY <1>3, <2>1
    <3>2. /\ Len(Lists[<<s[1], s[2]>>]) \in Nat /\ Cardinality(Nodes) \in Nat
      BY <3>1, ListsShort
    <3>3. QED
      BY <3>1, <3>2
  <2>3. x \in Given <=> f_tid[x] # F!None
    BY DEF Given
  <2>4. x \in Given <=> x \in f_out \/ x = f_hand
                        \/ \E p \in Where : \E i \in 1..Len(Lists[p]) : Lists[p][i] = x
    BY <1>1 DEF Whole
  <2>5. CASE \E p \in Where : \E i \in 1..Len(Lists[p]) : Lists[p][i] = x
    <3>1. PICK p \in Where : \E i \in 1..Len(Lists[p]) : Lists[p][i] = x
      BY <2>5
    <3>2. PICK i \in 1..Len(Lists[p]) : Lists[p][i] = x
      BY <3>1
    <3> DEFINE s0 == <<p[1], p[2], i>>
    <3>3. s0 \in here
      <4>1. i \in 1..Cardinality(Nodes) /\ i <= Len(Lists[p])
        BY ListsShort
      <4>2. s0 \in slots
        BY <1>2, <4>1
      <4>3. At(x, s0)
        BY <1>2, <3>2, <4>1
      <4>4. QED
        BY <4>2, <4>3
    <3>4. \A s \in here : s = s0
      <4> SUFFICES ASSUME NEW s \in here PROVE s = s0
        OBVIOUS
      <4>1. s = <<s[1], s[2], s[3]>>
        BY <2>1
      <4>2. /\ <<s[1], s[2]>> \in Where /\ s[3] \in 1..Len(Lists[<<s[1], s[2]>>])
            /\ Lists[<<s[1], s[2]>>][s[3]] = x
        BY <2>2
      <4>3. <<s[1], s[2]>> = p /\ s[3] = i
        BY <1>1, <3>2, <4>2 DEF Whole
      <4>4. QED
        BY <4>1, <4>3
    <3> HIDE DEF here, s0
    <3>5. here = {s0}
      BY <3>3, <3>4
    <3>6. Cardinality(here) = 1
      BY <3>5, FS_Singleton
    <3>7. x \notin f_out /\ f_hand # x
      BY <1>1, <3>2 DEF Whole
    <3>8. f_tid[x] # F!None
      BY <2>3, <2>4, <2>5
    <3>9. Times(x) = Cardinality(here) + 0 + 0
      BY <3>7 DEF here
    <3>10. QED
      BY <3>6, <3>8, <3>9
  <2>6. CASE ~\E p \in Where : \E i \in 1..Len(Lists[p]) : Lists[p][i] = x
    <3>1. here = {}
      BY <2>2, <2>6
    <3> HIDE DEF here
    <3>2. Cardinality(here) = 0
      BY <3>1, FS_EmptySet
    <3>3. x \in f_out => f_hand # x
      BY <1>1 DEF Whole
    <3>4. Times(x) = 0 + (IF x \in f_out THEN 1 ELSE 0) + (IF f_hand = x THEN 1 ELSE 0)
      BY <3>2 DEF here
    <3>5. f_tid[x] # F!None <=> x \in f_out \/ x = f_hand
      BY <2>3, <2>4, <2>6
    <3> HIDE DEF Times
    <3>6. QED
      BY <3>3, <3>4, <3>5
  <2>7. QED
    BY <2>5, <2>6
<1>5. QED
  BY <1>4, FixedCardinality DEF F!EveryNodeOnce, list

-----------------------------------------------------------------------------
(* Numbers *)

\* A set of numbers has a least.
LEMMA LeastNumber ==
  ASSUME NEW Z, Z \subseteq Nat, Z # {}
  PROVE  \E m \in Z : \A n \in Z : m <= n
<1> DEFINE R == {p \in Nat \X Nat : p[1] < p[2]}
<1>1. IsWellFoundedOn(R, Nat)
  BY NatLessThanWellFounded DEF OpToRel
<1> HIDE DEF R
<1>2. PICK m \in Z : \A n \in Z : ~(<<n, m>> \in R)
  BY <1>1, WFMin
<1>3. \A n \in Z : ~(n < m)
  BY <1>2 DEF R
<1>4. QED
  BY <1>2, <1>3

\* Induction, for a set.
LEMMA AllNumbers ==
  ASSUME NEW T, 0 \in T, \A n \in Nat : n \in T => n + 1 \in T
  PROVE  \A n \in Nat : n \in T
<1> SUFFICES ASSUME NEW k \in Nat, k \notin T
             PROVE  FALSE
  OBVIOUS
<1> DEFINE Z == Nat \ T
<1>1. Z \subseteq Nat /\ Z # {}
  OBVIOUS
<1> HIDE DEF Z
<1>2. PICK m \in Z : \A n \in Z : m <= n
  BY <1>1, LeastNumber
<1>3. m \in Nat /\ m # 0 /\ m - 1 \in Nat /\ ~(m <= m - 1) /\ m - 1 + 1 = m
  BY <1>1, <1>2 DEF Z
<1>4. m - 1 \in T
  BY <1>2, <1>3 DEF Z
<1>5. QED
  BY <1>2, <1>3, <1>4 DEF Z

-----------------------------------------------------------------------------
(* Queues in which nothing is twice *)

Once(q) == \A i, j \in 1..Len(q) : q[i] = q[j] => i = j

LEMMA QueueEmpty == F!In(<<>>) = {} /\ Once(<<>>)
BY DEF F!In, Once

LEMMA QueueHead ==
  ASSUME NEW U, NEW q \in Seq(U), q # <<>>, Once(q)
  PROVE  /\ Len(q) \in Nat \ {0} /\ q[1] \in U /\ q[1] \in F!In(q) /\ Head(q) = q[1]
         /\ Tail(q) \in Seq(U) /\ Len(Tail(q)) = Len(q) - 1
         /\ F!In(Tail(q)) = F!In(q) \ {q[1]} /\ Once(Tail(q))
<1>1. /\ Len(q) \in Nat \ {0} /\ Head(q) = q[1] /\ q[1] \in U
      /\ Tail(q) \in Seq(U) /\ Len(Tail(q)) = Len(q) - 1
      /\ \A i \in 1..Len(Tail(q)) : Tail(q)[i] = q[i + 1]
  BY HeadTailProperties, LenProperties, EmptySeq
<1> DEFINE r == Tail(q)
<1> HIDE DEF r
<1>2. /\ Len(r) = Len(q) - 1 /\ \A i \in 1..Len(r) : r[i] = q[i + 1] /\ i + 1 \in 1..Len(q)
  BY <1>1 DEF r
<1>3. 1 \in 1..Len(q)
  BY <1>1
<1>4. Once(r)
  BY <1>1, <1>2 DEF Once
<1>5. \A i \in 1..Len(r) : r[i] # q[1]
  BY <1>1, <1>2, <1>3 DEF Once
<1>6. \A i \in 1..Len(q) : i # 1 => i - 1 \in 1..Len(r) /\ r[i - 1] = q[i]
  BY <1>1, <1>2
<1>7. ASSUME NEW x
      PROVE  x \in F!In(r) <=> x \in F!In(q) \ {q[1]}
  <2>1. x \in F!In(r) => x \in F!In(q) \ {q[1]}
    BY <1>2, <1>5 DEF F!In
  <2>2. ASSUME x \in F!In(q), x # q[1]
        PROVE  x \in F!In(r)
    BY <1>6, <2>2 DEF F!In
  <2>3. QED
    BY <2>1, <2>2
<1>8. F!In(r) = F!In(q) \ {q[1]}
  BY <1>7
<1>9. q[1] \in F!In(q)
  BY <1>3 DEF F!In
<1>10. QED
  BY <1>1, <1>4, <1>8, <1>9 DEF r

LEMMA QueueAppend ==
  ASSUME NEW U, NEW q \in Seq(U), NEW x \in U, Once(q), x \notin F!In(q)
  PROVE  /\ Append(q, x) \in Seq(U) /\ Len(Append(q, x)) = Len(q) + 1
         /\ Len(q) \in Nat /\ F!In(Append(q, x)) = F!In(q) \cup {x} /\ Once(Append(q, x))
<1> DEFINE r == Append(q, x)
<1>1. /\ r \in Seq(U) /\ Len(r) = Len(q) + 1 /\ Len(q) \in Nat
      /\ \A i \in 1..Len(r) : r[i] = IF i = Len(q) + 1 THEN x ELSE q[i]
  BY AppendProperties, LenProperties
<1> HIDE DEF r
<1>2. \A i \in 1..Len(q) : i \in 1..Len(r) /\ r[i] = q[i] /\ q[i] # x
  BY <1>1 DEF F!In
<1>3. Len(r) \in 1..Len(r) /\ r[Len(r)] = x
  BY <1>1
<1>4. \A i \in 1..Len(r) : i = Len(r) \/ i \in 1..Len(q)
  BY <1>1
<1>5. Once(r)
  BY <1>1, <1>2, <1>3, <1>4 DEF Once
<1>6. F!In(r) = F!In(q) \cup {x}
  BY <1>2, <1>3, <1>4 DEF F!In
<1>7. QED
  BY <1>1, <1>5, <1>6 DEF r

LEMMA QueueCons ==
  ASSUME NEW U, NEW q \in Seq(U), NEW x \in U, Once(q), x \notin F!In(q)
  PROVE  /\ <<x>> \o q \in Seq(U)
         /\ F!In(<<x>> \o q) = F!In(q) \cup {x} /\ Once(<<x>> \o q)
<1> DEFINE r == <<x>> \o q
<1>1. /\ r \in Seq(U) /\ Len(r) = Len(q) + 1 /\ Len(q) \in Nat
      /\ \A i \in 1..Len(r) : r[i] = IF i = 1 THEN x ELSE q[i - 1]
  OBVIOUS
<1> HIDE DEF r
<1>2. \A i \in 1..Len(q) : i + 1 \in 1..Len(r) /\ r[i + 1] = q[i] /\ q[i] # x
  <2>1. \A i \in 1..Len(q) : q[i] # x
    BY DEF F!In
  <2>2. \A i \in 1..Len(q) : i + 1 \in 1..Len(r) /\ i + 1 # 1 /\ i + 1 - 1 = i
    BY <1>1
  <2>3. QED
    BY <1>1, <2>1, <2>2
<1>3. 1 \in 1..Len(r) /\ r[1] = x
  BY <1>1
<1>4. \A i \in 1..Len(r) : i = 1 \/ (i - 1 \in 1..Len(q) /\ r[i] = q[i - 1])
  BY <1>1
<1>5. Once(r)
  <2> SUFFICES ASSUME NEW i \in 1..Len(r), NEW j \in 1..Len(r), r[i] = r[j]
               PROVE  i = j
    BY DEF Once
  <2>1. CASE i # 1 /\ j # 1
    <3>1. i - 1 \in 1..Len(q) /\ j - 1 \in 1..Len(q) /\ q[i - 1] = q[j - 1]
      BY <1>4, <2>1
    <3>2. i - 1 = j - 1
      BY <3>1 DEF Once
    <3>3. QED
      BY <3>2
  <2>2. CASE i = 1 \/ j = 1
    BY <1>2, <1>3, <1>4, <2>2 DEF F!In
  <2>3. QED
    BY <2>1, <2>2
<1>6. F!In(r) = F!In(q) \cup {x}
  <2>1. \A y \in F!In(r) : y \in F!In(q) \cup {x}
    BY <1>3, <1>4 DEF F!In
  <2>2. \A y \in F!In(q) \cup {x} : y \in F!In(r)
    BY <1>2, <1>3 DEF F!In
  <2>3. QED
    BY <2>1, <2>2
<1>7. QED
  BY <1>1, <1>5, <1>6 DEF r

-----------------------------------------------------------------------------
(* Places: each has a set of nodes, and no node is at two *)

Apart(P) == \A p, q \in DOMAIN P : P[p] \cap P[q] # {} => p = q
Kept(P) == UNION {P[p] : p \in DOMAIN P}

\* What is in X leaves its place, and what of it is in the domain of D comes to
\* the place that D says.
LEMMA PlacesApart ==
  ASSUME NEW P, NEW Q, NEW X, NEW D, DOMAIN Q = DOMAIN P, Apart(P),
         DOMAIN D \subseteq X, \A x \in DOMAIN D : D[x] \in DOMAIN P,
         \A p \in DOMAIN P : Q[p] = (P[p] \ X) \cup {x \in DOMAIN D : D[x] = p}
  PROVE  Apart(Q) /\ Kept(Q) = (Kept(P) \ X) \cup DOMAIN D
<1>1. Apart(Q)
  BY DEF Apart
<1>2. ASSUME NEW x
      PROVE  x \in Kept(Q) <=> x \in (Kept(P) \ X) \cup DOMAIN D
  BY DEF Kept
<1>3. QED
  BY <1>1, <1>2

-----------------------------------------------------------------------------
(* NonFixedPool: what is done to a chunk *)

EndOfChunk == Header + Size

\* The nodes of a chunk lie end to end, and are free or used.
Cut(c) ==
  /\ c = N!Chunk(c.nodes, c.used, c.free)
  /\ DOMAIN c.nodes \subseteq Nat /\ c.nodes \in [DOMAIN c.nodes -> Nat]
  /\ c.used \subseteq DOMAIN c.nodes /\ c.free = DOMAIN c.nodes \ c.used
  /\ DOMAIN c.nodes # {} => 0 \in DOMAIN c.nodes
  /\ \A a \in DOMAIN c.nodes :
       /\ N!After(c, a) \in DOMAIN c.nodes \cup {EndOfChunk} /\ N!After(c, a) <= EndOfChunk
       /\ \A b \in DOMAIN c.nodes : b > a => N!After(c, a) <= b

LEMMA ChunkConstants ==
  /\ Size \in Nat \ {0} /\ Header \in Nat \ {0} /\ Least \in Nat
  /\ Requests \subseteq Nat /\ Getters \subseteq Threads
BY PoolAssumptions DEF N!NonFixedAssumption

\* A function that is cut in the same way.
LEMMA CutIs ==
  ASSUME NEW n, NEW u, NEW f, NEW d, d \subseteq Nat, n \in [d -> Nat], u \subseteq d,
         f = d \ u, d # {} => 0 \in d,
         \A a \in d : /\ a + Header + n[a] \in d \cup {EndOfChunk}
                      /\ a + Header + n[a] <= EndOfChunk
                      /\ \A b \in d : b > a => a + Header + n[a] <= b
  PROVE  Cut(N!Chunk(n, u, f))
BY DEF Cut, N!Chunk, N!After

LEMMA CutHas ==
  ASSUME NEW c, Cut(c)
  PROVE  /\ DOMAIN c.nodes \subseteq Nat /\ c.nodes \in [DOMAIN c.nodes -> Nat]
         /\ c.used \subseteq DOMAIN c.nodes /\ c.free = DOMAIN c.nodes \ c.used
         /\ DOMAIN c.nodes # {} => 0 \in DOMAIN c.nodes
         /\ c = N!Chunk(c.nodes, c.used, c.free)
         /\ EndOfChunk \in Nat
         /\ \A a \in DOMAIN c.nodes :
              /\ a + Header + c.nodes[a] \in DOMAIN c.nodes \cup {EndOfChunk}
              /\ a + Header + c.nodes[a] \in Nat
              /\ a + Header + c.nodes[a] <= EndOfChunk /\ a < a + Header + c.nodes[a]
              /\ \A b \in DOMAIN c.nodes : b > a => a + Header + c.nodes[a] <= b
BY ChunkConstants DEF Cut, N!After, EndOfChunk

LEMMA CutSupply == Cut(N!Supply) /\ N!Supply.used = {}
<1> DEFINE n == [a \in {0} |-> Size]
<1>1. n \in [{0} -> Nat] /\ n[0] = Size
  BY ChunkConstants
<1> HIDE DEF n
<1>2. 0 + Header + n[0] = EndOfChunk /\ EndOfChunk \in Nat
  BY <1>1, ChunkConstants DEF EndOfChunk
<1>3. Cut(N!Chunk(n, {}, {0}))
  BY <1>1, <1>2, CutIs
<1>4. QED
  BY <1>3 DEF N!Supply, N!Chunk, n

\* The best fit is one.
LEMMA CeilFits ==
  ASSUME NEW c, Cut(c), NEW s \in Nat, N!Fits(c, s) # {}
  PROVE  N!Ceil(c, s) \in c.free /\ c.nodes[N!Ceil(c, s)] >= s
<1> DEFINE Enough == N!Fits(c, s)
           V == {c.nodes[a] : a \in Enough}
<1>1. Enough \subseteq DOMAIN c.nodes /\ Enough \subseteq Nat /\ \A a \in Enough : c.nodes[a] \in Nat
  BY CutHas DEF N!Fits
<1>2. V \subseteq Nat /\ V # {}
  BY <1>1
<1>3. PICK v \in V : \A w \in V : v <= w
  BY <1>2, LeastNumber
<1> DEFINE Smallest == {a \in Enough : c.nodes[a] = v}
<1>4. Smallest \subseteq Nat /\ Smallest # {}
  BY <1>1, <1>3
<1>5. PICK a \in Smallest : \A b \in Smallest : a <= b
  BY <1>4, LeastNumber
<1>6. \A b \in Enough : c.nodes[a] < c.nodes[b] \/ (c.nodes[a] = c.nodes[b] /\ a <= b)
  <2> SUFFICES ASSUME NEW b \in Enough
               PROVE  c.nodes[a] < c.nodes[b] \/ (c.nodes[a] = c.nodes[b] /\ a <= b)
    OBVIOUS
  <2>1. v <= c.nodes[b] /\ c.nodes[a] = v /\ v \in Nat /\ c.nodes[b] \in Nat
    BY <1>1, <1>2, <1>3
  <2>2. c.nodes[b] = v => a <= b
    BY <1>5
  <2> HIDE DEF Enough, V, Smallest
  <2>3. QED
    BY <2>1, <2>2
<1>7. N!Ceil(c, s) \in Enough
  BY <1>5, <1>6 DEF N!Ceil
<1>8. QED
  BY <1>7 DEF N!Fits

LEMMA CutSplit ==
  ASSUME NEW c, Cut(c), NEW a \in c.free, NEW s \in Nat, c.nodes[a] >= s
  PROVE  Cut(N!Take(c, a, s)) /\ N!Take(c, a, s).used = c.used \cup {a}
<1> DEFINE d == DOMAIN c.nodes
           n == c.nodes
<1>1. /\ d \subseteq Nat /\ n \in [d -> Nat] /\ c.used \subseteq d /\ c.free = d \ c.used
      /\ d # {} => 0 \in d
      /\ \A x \in d :
              /\ x + Header + n[x] \in d \cup {EndOfChunk}
              /\ x + Header + n[x] <= EndOfChunk
              /\ \A y \in d : y > x => x + Header + n[x] <= y
  BY CutHas
<1>2. a \in d /\ a \in Nat /\ n[a] \in Nat /\ EndOfChunk \in Nat
  BY <1>1, CutHas
<1>3. CASE n[a] < s + Header + Least
  <2>1. N!Take(c, a, s) = N!Chunk(n, c.used \cup {a}, c.free \ {a})
    BY <1>3 DEF N!Take, N!Split, N!Chunk
  <2>2. c.used \cup {a} \subseteq d /\ c.free \ {a} = d \ (c.used \cup {a})
    BY <1>1, <1>2
  <2> HIDE DEF d, n
  <2>3. Cut(N!Chunk(n, c.used \cup {a}, c.free \ {a}))
    BY <1>1, <2>2, CutIs
  <2>4. QED
    BY <2>1, <2>3 DEF N!Chunk
<1>4. CASE ~(n[a] < s + Header + Least)
  <2> DEFINE b == a + Header + s
             e == d \cup {b}
             m == [x \in d \cup {b} |->
                     IF x = a THEN s ELSE IF x = b THEN n[a] - s - Header ELSE n[x]]
  <2>1. N!Take(c, a, s) = N!Chunk(m, c.used \cup {a}, (c.free \ {a}) \cup {b})
    BY <1>4 DEF N!Take, N!Split, N!Chunk
  <2>2. /\ b \in Nat /\ b > a /\ n[a] - s - Header \in Nat /\ b < a + Header + n[a]
        /\ b + Header + (n[a] - s - Header) = a + Header + n[a]
    BY <1>2, <1>4, ChunkConstants
  <2>3. b \notin d
    BY <1>1, <1>2, <2>2, ChunkConstants
  <2>4. /\ e \subseteq Nat /\ m \in [e -> Nat] /\ (e # {} => 0 \in e)
        /\ c.used \cup {a} \subseteq e
        /\ (c.free \ {a}) \cup {b} = e \ (c.used \cup {a})
    BY <1>1, <1>2, <2>2, <2>3
  <2>5. /\ m[a] = s /\ m[b] = n[a] - s - Header /\ \A x \in d \ {a} : m[x] = n[x]
    BY <1>2, <2>2, <2>3
  <2> HIDE DEF m, d, n, b
  <2>6. ASSUME NEW x \in e
        PROVE  /\ x + Header + m[x] \in e \cup {EndOfChunk}
               /\ x + Header + m[x] <= EndOfChunk
               /\ \A y \in e : y > x => x + Header + m[x] <= y
    <3>1. CASE x = a
      <4>1. x + Header + m[x] = b
        BY <2>5, <3>1, ChunkConstants DEF b
      <4>2. b <= EndOfChunk
        BY <1>1, <1>2, <2>2, ChunkConstants
      <4>3. \A y \in e : y > a => b <= y
        BY <1>1, <1>2, <2>2, ChunkConstants
      <4>4. QED
        BY <3>1, <4>1, <4>2, <4>3
    <3>2. CASE x = b
      <4>1. x + Header + m[x] = a + Header + n[a]
        BY <2>2, <2>5, <3>2
      <4>2. \A y \in e : y > b => y \in d /\ y > a
        BY <1>1, <1>2, <2>2
      <4>3. QED
        BY <1>1, <1>2, <3>2, <4>1, <4>2
    <3>3. CASE x \in d \ {a}
      <4>1. m[x] = n[x] /\ x \in Nat /\ n[x] \in Nat
        BY <1>1, <2>5, <3>3
      <4>2. x < b => x < a
        <5>1. CASE x > a
          <6>1. a + Header + n[a] <= x
            BY <1>1, <1>2, <3>3, <5>1
          <6>2. QED
            BY <1>2, <2>2, <4>1, <6>1, ChunkConstants
        <5>2. QED
          BY <1>2, <3>3, <4>1, <5>1
      <4>3. x < b => x + Header + n[x] <= b
        BY <1>1, <1>2, <2>2, <3>3, <4>1, <4>2, ChunkConstants
      <4>4. QED
        BY <1>1, <3>3, <4>1, <4>3
    <3>4. QED
      BY <3>1, <3>2, <3>3
  <2> DEFINE f == (c.free \ {a}) \cup {b}
             u == c.used \cup {a}
  <2> HIDE DEF e
  <2>7. e \subseteq Nat /\ m \in [e -> Nat] /\ u \subseteq e /\ f = e \ u /\ (e # {} => 0 \in e)
    BY <2>4
  <2> HIDE DEF f, u
  <2>8. Cut(N!Chunk(m, u, f))
    BY <2>6, <2>7, CutIs
  <2>9. QED
    BY <2>1, <2>8 DEF N!Chunk, f, u, m, n, d, b
<1>5. QED
  BY <1>3, <1>4

LEMMA CutReturn ==
  ASSUME NEW c, Cut(c), NEW a \in c.used, NEW x, x[2] = a
  PROVE  Cut(N!Return(c, x)) /\ N!Return(c, x).used = c.used \ {a}
<1> DEFINE d == DOMAIN c.nodes
           n == c.nodes
           b == a + Header + n[a]
           u == c.used \ {a}
<1>1. /\ d \subseteq Nat /\ n \in [d -> Nat] /\ c.used \subseteq d /\ c.free = d \ c.used
      /\ d # {} => 0 \in d
      /\ \A y \in d :
              /\ y + Header + n[y] \in d \cup {EndOfChunk}
              /\ y + Header + n[y] <= EndOfChunk
              /\ \A z \in d : z > y => y + Header + n[y] <= z
      /\ c = N!Chunk(n, c.used, c.free)
  BY CutHas
<1>2. /\ a \in d /\ a \in Nat /\ n[a] \in Nat /\ EndOfChunk \in Nat /\ b \in Nat /\ a < b
      /\ b \in d \cup {EndOfChunk} /\ b <= EndOfChunk
  BY <1>1, CutHas
<1>3. CASE b >= EndOfChunk \/ b \in c.used
  <2>1. N!Merge(c, a) = c
    BY <1>3 DEF N!Merge, N!After, EndOfChunk
  <2>2. N!Return(c, x) = N!Chunk(n, u, c.free \cup {a})
    BY <2>1 DEF N!Return
  <2>3. u \subseteq d /\ c.free \cup {a} = d \ u
    BY <1>1, <1>2
  <2> HIDE DEF d, n, u
  <2>4. Cut(N!Chunk(n, u, c.free \cup {a}))
    BY <1>1, <2>3, CutIs
  <2>5. QED
    BY <2>2, <2>4 DEF N!Chunk, u
<1>4. CASE ~(b >= EndOfChunk \/ b \in c.used)
  <2> DEFINE e == d \ {b}
             m == [y \in d \ {b} |-> IF y = a THEN n[a] + Header + n[b] ELSE n[y]]
             f == (c.free \ {b}) \cup {a}
  <2>1. N!Merge(c, a) = N!Chunk(m, c.used, c.free \ {b})
    BY <1>4 DEF N!Merge, N!After, EndOfChunk
  <2>2. N!Return(c, x) = N!Chunk(m, u, f)
    BY <2>1 DEF N!Return, N!Chunk
  <2>3. b \in d /\ b # a /\ b # 0 /\ n[b] \in Nat
    BY <1>1, <1>2, <1>4
  <2>4. /\ e \subseteq Nat /\ m \in [e -> Nat] /\ (e # {} => 0 \in e) /\ u \subseteq e
        /\ f = e \ u
    BY <1>1, <1>2, <1>4, <2>3, ChunkConstants
  <2>5. /\ m[a] = n[a] + Header + n[b] /\ \A y \in e \ {a} : m[y] = n[y]
    BY <1>2, <2>3
  <2> HIDE DEF m
  <2>6. ASSUME NEW y \in e
        PROVE  /\ y + Header + m[y] \in e \cup {EndOfChunk}
               /\ y + Header + m[y] <= EndOfChunk
               /\ \A z \in e : z > y => y + Header + m[y] <= z
    <3>1. CASE y = a
      <4>1. y + Header + m[y] = b + Header + n[b]
        BY <1>2, <2>3, <2>5, <3>1, ChunkConstants
      <4>2. b + Header + n[b] # b
        BY <1>2, <2>3, ChunkConstants
      <4> HIDE DEF b, d, n
      <4>3. \A z \in e : z > a => z > b
        BY <1>1, <1>2, <2>3 DEF b
      <4>4. QED
        BY <1>1, <2>3, <3>1, <4>1, <4>2, <4>3
    <3>2. CASE y # a
      <4>1. m[y] = n[y] /\ y \in d /\ y \in Nat /\ n[y] \in Nat
        BY <1>1, <2>5, <3>2
      <4>2. y + Header + n[y] # b
        <5>1. CASE y < a
          BY <1>1, <1>2, <4>1, <5>1
        <5>2. CASE y > a
          <6>1. b <= y
            BY <1>1, <1>2, <4>1, <5>2
          <6> HIDE DEF b, n, d
          <6>2. QED
            BY <1>2, <4>1, <6>1, ChunkConstants
        <5>3. QED
          BY <1>2, <3>2, <4>1, <5>1, <5>2
      <4>3. QED
        BY <1>1, <4>1, <4>2
    <3>3. QED
      BY <3>1, <3>2
  <2> HIDE DEF e, f, u
  <2>7. Cut(N!Chunk(m, u, f))
    BY <2>4, <2>6, CutIs
  <2>8. QED
    BY <2>2, <2>7 DEF N!Chunk, u, m
<1>5. QED
  BY <1>3, <1>4

\* A node but the first has one before it.
LEMMA CutBefore ==
  ASSUME NEW c, Cut(c), NEW b \in DOMAIN c.nodes, b # 0
  PROVE  \E a \in DOMAIN c.nodes : a + Header + c.nodes[a] = b
<1> DEFINE d == DOMAIN c.nodes
           n == c.nodes
           Gaps == {b - a : a \in {z \in d : z < b}}
<1>1. /\ d \subseteq Nat /\ n \in [d -> Nat] /\ 0 \in d
      /\ \A x \in d :
              /\ x + Header + n[x] \in d \cup {EndOfChunk} /\ x < x + Header + n[x]
              /\ x + Header + n[x] <= EndOfChunk /\ x + Header + n[x] \in Nat
              /\ \A y \in d : y > x => x + Header + n[x] <= y
  BY CutHas
<1> HIDE DEF d, n
<1>2. b \in Nat /\ b \in d /\ b > 0 /\ b < EndOfChunk /\ EndOfChunk \in Nat
  BY <1>1, CutHas DEF d
<1>3. Gaps \subseteq Nat /\ b - 0 \in Gaps
  BY <1>1, <1>2
<1>4. PICK g \in Gaps : \A h \in Gaps : g <= h
  BY <1>3, LeastNumber
<1>5. PICK a \in d : a < b /\ g = b - a
  BY <1>4
<1> DEFINE e == a + Header + n[a]
<1>6. e <= b /\ e \in Nat /\ a < e /\ e \in d \cup {EndOfChunk} /\ a \in Nat
  BY <1>1, <1>2, <1>5
<1> HIDE DEF e
<1>7. ASSUME e < b PROVE FALSE
  <2>1. e \in d
    BY <1>2, <1>6, <1>7
  <2>2. b - e \in Gaps
    BY <1>7, <2>1
  <2>3. b - a <= b - e
    BY <1>4, <1>5, <2>2
  <2>4. QED
    BY <1>2, <1>6, <2>3
<1>8. e = b
  BY <1>2, <1>6, <1>7
<1>9. QED
  BY <1>5, <1>8 DEF e, d, n

LEMMA CutFullMerge ==
  ASSUME NEW c, Cut(c)
  PROVE  /\ Cut(N!FullMerge(c)) /\ N!FullMerge(c).used = c.used
         /\ \A a, b \in N!FullMerge(c).free : N!After(N!FullMerge(c), a) # b
<1> DEFINE d == DOMAIN c.nodes
           n == c.nodes
           first == {a \in c.free : ~\E b \in c.free : N!After(c, b) = a}
           e == d \ (c.free \ first)
           stops == e \cup {EndOfChunk}
           End(a) == CHOOSE x \in stops : x > a /\ \A y \in stops : y > a => x <= y
           m == [a \in e |-> IF a \in first THEN End(a) - a - Header ELSE n[a]]
<1>1. /\ d \subseteq Nat /\ n \in [d -> Nat] /\ c.used \subseteq d /\ c.free = d \ c.used
      /\ d # {} => 0 \in d
      /\ \A x \in d :
              /\ x + Header + n[x] \in d \cup {EndOfChunk} /\ x < x + Header + n[x]
              /\ x + Header + n[x] <= EndOfChunk /\ x + Header + n[x] \in Nat
              /\ \A y \in d : y > x => x + Header + n[x] <= y
      /\ EndOfChunk \in Nat
  BY CutHas
<1>2. N!FullMerge(c) = N!Chunk(m, c.used, first)
  BY DEF N!FullMerge, EndOfChunk
<1>3. first = {a \in c.free : ~\E b \in c.free : b + Header + n[b] = a}
  BY DEF N!After
<1> HIDE DEF d, n, first
<1>4. first \subseteq c.free /\ e = c.used \cup first /\ e \subseteq d /\ first = e \ c.used
  BY <1>1, <1>3
<1>5. e # {} => 0 \in e
  <2>1. 0 \notin c.free \ first
    <3>1. \A b \in c.free : b + Header + n[b] # 0
      <4> SUFFICES ASSUME NEW b \in c.free, b + Header + n[b] = 0 PROVE FALSE
        OBVIOUS
      <4>1. b \in d /\ b \in Nat /\ b < b + Header + n[b]
        BY <1>1
      <4>2. QED
        BY <4>1
    <3>2. QED
      BY <1>3, <3>1
  <2>2. QED
    BY <1>1, <1>4, <2>1
<1> HIDE DEF e
<1>6. stops \subseteq Nat
  BY <1>1, <1>4
<1>7. ASSUME NEW a \in e
      PROVE  /\ End(a) \in stops /\ End(a) > a /\ \A y \in stops : y > a => End(a) <= y
  <2> DEFINE Z == {y \in stops : y > a}
  <2>1. EndOfChunk \in Z
    BY <1>1, <1>4
  <2>2. Z \subseteq Nat /\ Z # {}
    BY <1>6, <2>1
  <2> HIDE DEF Z
  <2>3. PICK x \in Z : \A y \in Z : x <= y
    BY <2>2, LeastNumber
  <2>4. \E z \in stops : z > a /\ \A y \in stops : y > a => z <= y
    BY <2>3 DEF Z
  <2> HIDE DEF stops
  <2>5. QED
    BY <2>4
<1>8. ASSUME NEW a \in e
      PROVE  a + Header + n[a] <= End(a) /\ End(a) \in Nat /\ End(a) <= EndOfChunk
  <2>1. End(a) \in stops /\ End(a) > a
    BY <1>7
  <2> DEFINE v == End(a)
  <2> HIDE DEF v
  <2>2. v \in e \cup {EndOfChunk} /\ v > a
    BY <2>1 DEF v
  <2>3. v \in Nat /\ v <= EndOfChunk
    BY <1>1, <1>4, <2>2
  <2>4. a + Header + n[a] <= v
    BY <1>1, <1>4, <2>2
  <2>5. QED
    BY <2>3, <2>4 DEF v
\* Where a node ends after it.
<1>9. ASSUME NEW a \in e
      PROVE  /\ m[a] \in Nat
             /\ a \in first => a + Header + m[a] = End(a)
             /\ a \notin first => a + Header + m[a] = a + Header + n[a]
  <2>1. a \in Nat /\ n[a] \in Nat /\ a + Header + n[a] <= End(a) /\ End(a) \in Nat
    BY <1>1, <1>4, <1>8
  <2>2. m[a] = IF a \in first THEN End(a) - a - Header ELSE n[a]
    OBVIOUS
  <2> HIDE DEF m
  <2> DEFINE v == End(a)
  <2>3. v \in Nat /\ a + Header + n[a] <= v
    BY <2>1
  <2>4. m[a] = IF a \in first THEN v - a - Header ELSE n[a]
    BY <2>2
  <2> HIDE DEF v
  <2>5. m[a] \in Nat /\ (a \in first => a + Header + m[a] = v)
    BY <2>1, <2>3, <2>4, ChunkConstants
  <2>6. a \notin first => m[a] = n[a]
    BY <2>4
  <2>7. QED
    BY <2>5, <2>6 DEF v
<1>10. m \in [e -> Nat]
  BY <1>9
<1> HIDE DEF m
<1>11. ASSUME NEW a \in e
       PROVE  /\ a + Header + m[a] \in e \cup {EndOfChunk}
              /\ a + Header + m[a] <= EndOfChunk
              /\ \A b \in e : b > a => a + Header + m[a] <= b
  <2>1. CASE a \in first
    <3>1. /\ End(a) \in stops /\ End(a) <= EndOfChunk
          /\ \A y \in stops : y > a => End(a) <= y
      BY <1>7, <1>8
    <3> DEFINE v == End(a)
    <3>2. /\ a + Header + m[a] = v /\ v \in stops /\ v <= EndOfChunk
          /\ \A y \in stops : y > a => v <= y
      BY <1>9, <2>1, <3>1
    <3> HIDE DEF v
    <3>3. QED
      BY <3>2
  <2>2. CASE a \notin first
    <3>1. a + Header + m[a] = a + Header + n[a] /\ a \in c.used /\ a \in d
      BY <1>1, <1>4, <1>9, <2>2
    <3>2. a + Header + n[a] \notin c.free \ first
      <4> SUFFICES ASSUME a + Header + n[a] \in c.free \ first
                   PROVE  FALSE
        OBVIOUS
      <4>1. PICK b \in c.free : b + Header + n[b] = a + Header + n[a]
        BY <1>3
      <4>2. b # a /\ b \in d
        BY <1>1, <3>1, <4>1
      <4>3. QED
        BY <1>1, <3>1, <4>1, <4>2
    <3>3. a + Header + n[a] \in e \cup {EndOfChunk}
      BY <1>1, <1>4, <3>1, <3>2
    <3>4. QED
      BY <1>1, <1>4, <3>1, <3>3
  <2>3. QED
    BY <2>1, <2>2
<1>12. c.used \subseteq e /\ e \subseteq Nat
  BY <1>1, <1>4
<1>13. Cut(N!Chunk(m, c.used, first))
  BY <1>4, <1>5, <1>10, <1>11, <1>12, CutIs
<1>14. \A a, b \in first : a + Header + m[a] # b
  <2> SUFFICES ASSUME NEW a \in first, NEW b \in first, a + Header + m[a] = b
               PROVE  FALSE
    OBVIOUS
  <2>1. a \in e /\ b \in e /\ a \in d /\ b \in d /\ a \in Nat /\ b \in Nat /\ a \in c.free
    BY <1>1, <1>4
  <2>2. /\ b > a /\ \A y \in stops : y > a => b <= y
    <3>1. b = End(a)
      BY <1>9, <2>1
    <3>2. QED
      BY <1>7, <2>1, <3>1
  <2>3. b # 0
    BY <2>1, <2>2
  <2>4. PICK p \in d : p + Header + n[p] = b
    BY <2>1, <2>3, CutBefore DEF d, n
  <2>5. p \in Nat /\ n[p] \in Nat /\ p < b /\ ~(p < a)
    BY <1>1, <2>1, <2>2, <2>4
  <2>6. p \in c.used
    BY <1>1, <1>3, <2>4
  <2>7. p > a /\ p \in stops
    BY <1>4, <2>1, <2>5, <2>6, <1>1
  <2>8. b <= p
    BY <2>2, <2>7
  <2>9. QED
    BY <2>1, <2>5, <2>8
<1>15. /\ N!FullMerge(c).used = c.used /\ N!FullMerge(c).free = first
       /\ N!FullMerge(c).nodes = m
  BY <1>2 DEF N!Chunk
<1>16. QED
  BY <1>2, <1>13, <1>14, <1>15 DEF N!After

-----------------------------------------------------------------------------
(* The nodes that are put back at once *)

LEMMA ReturnedIs ==
  ASSUME NEW c, NEW q, Len(q) \in Nat
  PROVE  \E f : /\ f = [n \in 0..Len(q) |-> IF n = 0 THEN c ELSE N!Return(f[n - 1], q[n])]
                /\ N!Returned(c, q) = f[Len(q)]
<1> DEFINE T == {n \in Nat : \E f : f = [k \in 0..n |->
                   IF k = 0 THEN c ELSE N!Return(f[k - 1], q[k])]}
<1>1. 0 \in T
  <2> DEFINE f == [k \in 0..0 |-> c]
  <2>1. f = [k \in 0..0 |-> IF k = 0 THEN c ELSE N!Return(f[k - 1], q[k])]
    OBVIOUS
  <2> HIDE DEF f
  <2>2. QED
    BY <2>1
<1>2. ASSUME NEW n \in Nat, n \in T
      PROVE  n + 1 \in T
  <2>1. PICK f : f = [k \in 0..n |-> IF k = 0 THEN c ELSE N!Return(f[k - 1], q[k])]
    BY <1>2
  <2> DEFINE g == [k \in 0..(n + 1) |-> IF k = 0 THEN c ELSE N!Return(f[k - 1], q[k])]
  <2>2. \A k \in 0..n : g[k] = f[k]
    BY <2>1
  <2>3. \A k \in 0..(n + 1) : k # 0 => k - 1 \in 0..n
    OBVIOUS
  <2>4. g = [k \in 0..(n + 1) |-> IF k = 0 THEN c ELSE N!Return(g[k - 1], q[k])]
    BY <2>2, <2>3
  <2> HIDE DEF g
  <2>5. QED
    BY <2>4
<1> HIDE DEF T
<1>3. Len(q) \in T
  BY <1>1, <1>2, AllNumbers
<1>4. QED
  BY <1>3 DEF T, N!Returned

\* The nodes that threads can hold.
NNodes == Threads \X Nat

LEMMA CutReturned ==
  ASSUME NEW c, Cut(c), NEW t \in Threads, NEW q \in Seq(NNodes), Once(q),
         \A x \in F!In(q) : x[1] = t /\ x[2] \in c.used
  PROVE  /\ Cut(N!Returned(c, q))
         /\ N!Returned(c, q).used = c.used \ {x[2] : x \in F!In(q)}
<1>1. Len(q) \in Nat /\ \A i \in 1..Len(q) : q[i] \in NNodes
  BY LenProperties, ElementOfSeq
<1>2. PICK f : /\ f = [n \in 0..Len(q) |-> IF n = 0 THEN c ELSE N!Return(f[n - 1], q[n])]
               /\ N!Returned(c, q) = f[Len(q)]
  BY <1>1, ReturnedIs
<1> DEFINE Gone(n) == {q[i][2] : i \in 1..n}
           T == {n \in Nat : n <= Len(q) => Cut(f[n]) /\ f[n].used = c.used \ Gone(n)}
<1>3. 0 \in T
  <2>1. Gone(0) = {} /\ f[0] = c
    BY <1>1, <1>2
  <2>2. QED
    BY <2>1
<1>4. ASSUME NEW n \in Nat, n \in T
      PROVE  n + 1 \in T
  <2> SUFFICES ASSUME n + 1 <= Len(q)
               PROVE  Cut(f[n + 1]) /\ f[n + 1].used = c.used \ Gone(n + 1)
    OBVIOUS
  <2>1. n + 1 \in 1..Len(q) /\ n <= Len(q) /\ n + 1 \in 0..Len(q) /\ n + 1 # 0
    BY <1>1
  <2>2. Cut(f[n]) /\ f[n].used = c.used \ Gone(n)
    BY <1>4, <2>1
  <2>3. f[n + 1] = N!Return(f[n], q[n + 1])
    BY <1>1, <1>2, <2>1
  <2> DEFINE a == q[n + 1][2]
  <2>4. a \in c.used
    BY <2>1 DEF F!In
  <2>5. \A i \in 1..n : q[i][2] # a
    <3> SUFFICES ASSUME NEW i \in 1..n, q[i][2] = a PROVE FALSE
      OBVIOUS
    <3>1. i \in 1..Len(q) /\ i # n + 1
      BY <1>1, <2>1
    <3>2. q[i] \in NNodes /\ q[n + 1] \in NNodes /\ q[i][1] = t /\ q[n + 1][1] = t
      BY <1>1, <2>1, <3>1 DEF F!In
    <3> DEFINE x == q[i]
               y == q[n + 1]
    <3>5. x \in Threads \X Nat /\ y \in Threads \X Nat /\ x[1] = y[1] /\ x[2] = y[2]
      BY <3>2 DEF NNodes
    <3> HIDE DEF x, y
    <3>6. x = <<x[1], x[2]>> /\ y = <<y[1], y[2]>>
      BY <3>5
    <3>7. x = y
      BY <3>5, <3>6
    <3>3. q[i] = q[n + 1]
      BY <3>7 DEF x, y
    <3>4. QED
      BY <2>1, <3>1, <3>3 DEF Once
  <2>6. a \in f[n].used
    BY <2>2, <2>4, <2>5
  <2>7. Cut(f[n + 1]) /\ f[n + 1].used = f[n].used \ {a}
    BY <2>2, <2>3, <2>6, CutReturn
  <2>8. Gone(n + 1) = Gone(n) \cup {a}
    <3>1. 1..(n + 1) = (1..n) \cup {n + 1}
      OBVIOUS
    <3>2. QED
      BY <3>1
  <2> HIDE DEF Gone
  <2>9. QED
    BY <2>2, <2>7, <2>8
<1> HIDE DEF T
<1>5. Len(q) \in T
  BY <1>1, <1>3, <1>4, AllNumbers
<1>6. Gone(Len(q)) = {x[2] : x \in F!In(q)}
  BY DEF F!In
<1> HIDE DEF Gone
<1>7. Cut(f[Len(q)]) /\ f[Len(q)].used = c.used \ Gone(Len(q))
  BY <1>1, <1>5 DEF T
<1>8. QED
  BY <1>2, <1>6, <1>7

-----------------------------------------------------------------------------
(* NonFixedPool: the inductive invariant *)

\* The places where a node is held.
NWhere == ({"local", "remote"} \X Threads) \cup {<<"out", F!None>>, <<"hand", F!None>>}
NPlace == [p \in NWhere |-> CASE p[1] = "out" -> n_out
                              [] p[1] = "hand" -> {n_move.hand} \ {<<>>}
                              [] p[1] = "local" -> F!In(n_local[p[2]])
                              [] OTHER -> F!In(n_remote[p[2]])]

NTypes ==
  /\ n_pools \subseteq Threads /\ n_nodes = [t \in Threads |-> n_nodes[t]]
  /\ n_used \in [Threads -> SUBSET Nat] /\ n_free \in [Threads -> SUBSET Nat]
  /\ n_local \in [Threads -> Seq(NNodes)] /\ n_remote \in [Threads -> Seq(NNodes)]
  /\ n_out \subseteq NNodes
  /\ n_move \in [pc : {"idle", "next", "pop", "push"}, todo : SUBSET Threads,
                 cur : Threads \cup {F!None}, left : Nat, hand : NNodes \cup {<<>>}]

\* The background thread is at a thread that has at least what is left to move.
NCarrying ==
  /\ n_move.pc \in {"pop", "push"} =>
       n_move.cur \in Threads /\ n_move.left <= Len(n_remote[n_move.cur])
  /\ n_move.pc = "push" <=> n_move.hand # <<>>

NUsed == {x \in NNodes : x[2] \in n_used[x[1]]}

NQueues ==
  \A t \in Threads : /\ Once(n_local[t]) /\ Once(n_remote[t])
                     /\ \A x \in F!In(n_local[t]) : x[1] = t

\* What is held is used, once; and chunks are cut into nodes.  A thread without
\* a pool has none.
NInv ==
  /\ NTypes /\ NCarrying /\ Apart(NPlace) /\ Kept(NPlace) = NUsed /\ NQueues
  /\ \A t \in Threads : Cut(N!Mine(t)) /\ (t \notin n_pools => DOMAIN n_nodes[t] = {})

LEMMA NPlaceIs ==
  /\ DOMAIN NPlace = NWhere /\ <<"out", F!None>> \in NWhere /\ <<"hand", F!None>> \in NWhere
  /\ NPlace[<<"out", F!None>>] = n_out /\ NPlace[<<"hand", F!None>>] = {n_move.hand} \ {<<>>}
  /\ \A t \in Threads : /\ <<"local", t>> \in NWhere /\ <<"remote", t>> \in NWhere
                        /\ NPlace[<<"local", t>>] = F!In(n_local[t])
                        /\ NPlace[<<"remote", t>>] = F!In(n_remote[t])
BY DEF NPlace, NWhere

LEMMA NPlaceIsNext ==
  /\ DOMAIN NPlace' = NWhere
  /\ NPlace'[<<"out", F!None>>] = n_out' /\ NPlace'[<<"hand", F!None>>] = {n_move'.hand} \ {<<>>}
  /\ \A t \in Threads : /\ NPlace'[<<"local", t>>] = F!In(n_local'[t])
                        /\ NPlace'[<<"remote", t>>] = F!In(n_remote'[t])
BY DEF NPlace, NWhere, F!In

LEMMA NWhereIs ==
  ASSUME NEW p \in NWhere
  PROVE  \/ p = <<"out", F!None>> \/ p = <<"hand", F!None>>
         \/ \E t \in Threads : p = <<"local", t>> \/ p = <<"remote", t>>
BY DEF NWhere

\* What is in X leaves its place, and what is in Y comes to the place to.
NMoves(X, Y, to) ==
  /\ n_out' = (n_out \ X) \cup (IF to = <<"out", F!None>> THEN Y ELSE {})
  /\ {n_move'.hand} \ {<<>>} = (({n_move.hand} \ {<<>>}) \ X)
                               \cup (IF to = <<"hand", F!None>> THEN Y ELSE {})
  /\ \A t \in Threads :
       /\ F!In(n_local'[t]) = (F!In(n_local[t]) \ X)
                            \cup (IF to = <<"local", t>> THEN Y ELSE {})
       /\ F!In(n_remote'[t]) = (F!In(n_remote[t]) \ X)
                             \cup (IF to = <<"remote", t>> THEN Y ELSE {})

LEMMA NMoved ==
  ASSUME NEW X, NEW Y \in SUBSET X, NEW to \in NWhere, Apart(NPlace), NMoves(X, Y, to)
  PROVE  Apart(NPlace)' /\ Kept(NPlace)' = (Kept(NPlace) \ X) \cup Y
<1> USE DEF NMoves
<1> DEFINE D == [x \in Y |-> to]
<1>1. DOMAIN D = Y /\ \A x \in Y : D[x] = to
  OBVIOUS
<1> HIDE DEF D
<1>2. ASSUME NEW p \in NWhere
      PROVE  NPlace'[p] = (NPlace[p] \ X) \cup (IF to = p THEN Y ELSE {})
  <2>1. CASE p = <<"out", F!None>>
    BY <2>1, NPlaceIs, NPlaceIsNext
  <2>2. CASE p = <<"hand", F!None>>
    BY <2>2, NPlaceIs, NPlaceIsNext
  <2>3. ASSUME NEW t \in Threads, p = <<"local", t>> \/ p = <<"remote", t>>
        PROVE  NPlace'[p] = (NPlace[p] \ X) \cup (IF to = p THEN Y ELSE {})
    <3>1. CASE p = <<"local", t>>
      <4>1. NPlace[p] = F!In(n_local[t]) /\ NPlace'[p] = F!In(n_local'[t])
        BY <3>1, NPlaceIs, NPlaceIsNext
      <4>2. F!In(n_local'[t]) = (F!In(n_local[t]) \ X) \cup (IF to = p THEN Y ELSE {})
        BY <3>1
      <4>3. QED
        BY <4>1, <4>2
    <3>2. CASE p = <<"remote", t>>
      <4>1. NPlace[p] = F!In(n_remote[t]) /\ NPlace'[p] = F!In(n_remote'[t])
        BY <3>2, NPlaceIs, NPlaceIsNext
      <4>2. F!In(n_remote'[t]) = (F!In(n_remote[t]) \ X) \cup (IF to = p THEN Y ELSE {})
        BY <3>2
      <4>3. QED
        BY <4>1, <4>2
    <3>3. QED
      BY <2>3, <3>1, <3>2
  <2>4. QED
    BY <2>1, <2>2, <2>3, NWhereIs
<1> DEFINE P == NPlace
           Q == NPlace'
<1>3. DOMAIN P = NWhere /\ DOMAIN Q = NWhere
  BY NPlaceIs, NPlaceIsNext
<1>4. \A p \in NWhere : Q[p] = (P[p] \ X) \cup (IF to = p THEN Y ELSE {})
  BY <1>2
<1>5. Apart(P)
  OBVIOUS
<1> HIDE DEF P, Q, NMoves
<1>6. \A p \in DOMAIN P : Q[p] = (P[p] \ X) \cup {x \in DOMAIN D : D[x] = p}
  BY <1>1, <1>3, <1>4
<1>7. Apart(Q) /\ Kept(Q) = (Kept(P) \ X) \cup Y
  BY <1>1, <1>3, <1>5, <1>6, PlacesApart
<1>8. QED
  BY <1>7 DEF P, Q, Apart, Kept

\* No function is cut as well.
LEMMA CutNothing == Cut(N!Chunk(<<>>, {}, {}))
<1>1. DOMAIN <<>> = {} /\ <<>> \in [{} -> Nat]
  OBVIOUS
<1>2. QED
  BY <1>1, CutIs

LEMMA NInit == N!Init => NInv
<1> SUFFICES ASSUME N!Init PROVE NInv
  OBVIOUS
<1>1. /\ n_pools = {} /\ n_nodes = [t \in Threads |-> <<>>]
      /\ n_used = [t \in Threads |-> {}] /\ n_free = [t \in Threads |-> {}]
      /\ n_local = [t \in Threads |-> <<>>] /\ n_remote = [t \in Threads |-> <<>>]
      /\ n_out = {}
      /\ n_move = [pc |-> "idle", todo |-> {}, cur |-> F!None, left |-> 0, hand |-> <<>>]
  BY DEF N!Init, N!Resting
<1>2. NTypes
  BY <1>1, EmptySeq DEF NTypes
<1>3. NCarrying
  BY <1>1 DEF NCarrying
<1>4. \A t \in Threads : F!In(n_local[t]) = {} /\ F!In(n_remote[t]) = {}
  BY <1>1, QueueEmpty
<1>5. \A p \in NWhere : NPlace[p] = {}
  BY <1>1, <1>4, NPlaceIs, NWhereIs
<1>6. Apart(NPlace) /\ Kept(NPlace) = {}
  BY <1>5, NPlaceIs DEF Apart, Kept
<1>7. NUsed = {}
  BY <1>1 DEF NUsed, NNodes
<1>8. NQueues
  BY <1>1, <1>4, QueueEmpty DEF NQueues
<1>9. \A t \in Threads : N!Mine(t) = N!Chunk(<<>>, {}, {}) /\ DOMAIN n_nodes[t] = {}
  BY <1>1 DEF N!Mine
<1>10. QED
  BY <1>2, <1>3, <1>6, <1>7, <1>8, <1>9, CutNothing DEF NInv

\* A request takes a node off what has become the thread's chunk, or nothing.
LEMMA NAnswered ==
  ASSUME NTypes, NEW t \in Threads, NEW c, Cut(c), NEW s \in Nat, N!Answer(t, c, s),
         \A u \in Threads : Cut(N!Mine(u))
  PROVE  /\ n_nodes' = [u \in Threads |-> n_nodes'[u]]
         /\ n_used' \in [Threads -> SUBSET Nat] /\ n_free' \in [Threads -> SUBSET Nat]
         /\ \A u \in Threads : Cut(N!Mine(u))'
         /\ \A u \in Threads \ {t} : n_nodes'[u] = n_nodes[u] /\ n_used'[u] = n_used[u]
         /\ \E Got \in SUBSET (Nat \ c.used) :
              /\ n_out' = n_out \cup {<<t, a>> : a \in Got}
              /\ n_used'[t] = c.used \cup Got
         /\ \/ n_answer'.ok
            \/ /\ N!Mine(t)' = c /\ N!Fits(c, s) = {}
               /\ n_answer' = [thread |-> t, size |-> s, ok |-> FALSE]
<1>1. ASSUME NEW d, Cut(d), N!Become(t, d)
      PROVE  /\ n_nodes' = [u \in Threads |-> n_nodes'[u]]
             /\ n_used' \in [Threads -> SUBSET Nat] /\ n_free' \in [Threads -> SUBSET Nat]
             /\ \A u \in Threads : Cut(N!Mine(u))'
             /\ \A u \in Threads \ {t} : n_nodes'[u] = n_nodes[u] /\ n_used'[u] = n_used[u]
             /\ n_used'[t] = d.used /\ N!Mine(t)' = d
  <2>1. /\ n_nodes' = [n_nodes EXCEPT ![t] = d.nodes]
        /\ n_used' = [n_used EXCEPT ![t] = d.used] /\ n_free' = [n_free EXCEPT ![t] = d.free]
    BY <1>1 DEF N!Become
  <2>2. d.used \in SUBSET Nat /\ d.free \in SUBSET Nat /\ d = N!Chunk(d.nodes, d.used, d.free)
    BY <1>1, CutHas
  <2>3. /\ n_nodes' = [u \in Threads |-> n_nodes'[u]]
        /\ n_used' \in [Threads -> SUBSET Nat] /\ n_free' \in [Threads -> SUBSET Nat]
    BY <2>1, <2>2 DEF NTypes
  <2>4. \A u \in Threads :
          /\ n_nodes'[u] = IF u = t THEN d.nodes ELSE n_nodes[u]
          /\ n_used'[u] = IF u = t THEN d.used ELSE n_used[u]
          /\ n_free'[u] = IF u = t THEN d.free ELSE n_free[u]
    BY <2>1 DEF NTypes
  <2>5. \A u \in Threads : N!Mine(u)' = IF u = t THEN d ELSE N!Mine(u)
    BY <2>2, <2>4 DEF N!Mine
  <2>6. ASSUME NEW u \in Threads PROVE Cut(N!Mine(u))'
    <3> DEFINE m == N!Mine(u)'
    <3>1. m = d \/ m = N!Mine(u)
      BY <2>5
    <3> HIDE DEF m
    <3>2. Cut(m)
      BY <1>1, <3>1
    <3>3. QED
      BY <3>2 DEF m, Cut, N!After, N!Chunk
  <2>7. QED
    BY <2>3, <2>4, <2>5, <2>6
<1>2. CASE N!Fits(c, s) # {}
  <2> DEFINE a == N!Ceil(c, s)
             d == N!Take(c, a, s)
  <2>1. N!Become(t, d) /\ n_out' = n_out \cup {<<t, a>>} /\ n_answer'.ok
    BY <1>2 DEF N!Answer
  <2>2. a \in c.free /\ c.nodes[a] >= s
    BY <1>2, CeilFits
  <2>3. Cut(d) /\ d.used = c.used \cup {a}
    BY <2>2, CutSplit
  <2>4. a \in Nat /\ a \notin c.used
    BY <2>2, CutHas
  <2> HIDE DEF a, d
  <2>5. {a} \in SUBSET (Nat \ c.used) /\ {<<t, b>> : b \in {a}} = {<<t, a>>}
    BY <2>4
  <2>6. /\ n_nodes' = [u \in Threads |-> n_nodes'[u]]
        /\ n_used' \in [Threads -> SUBSET Nat] /\ n_free' \in [Threads -> SUBSET Nat]
        /\ \A u \in Threads : Cut(N!Mine(u))'
        /\ \A u \in Threads \ {t} : n_nodes'[u] = n_nodes[u] /\ n_used'[u] = n_used[u]
        /\ n_used'[t] = d.used
    BY <1>1, <2>1, <2>3
  <2>7. n_out' = n_out \cup {<<t, b>> : b \in {a}} /\ n_used'[t] = c.used \cup {a}
    BY <2>1, <2>3, <2>5, <2>6
  <2>8. \E Got \in SUBSET (Nat \ c.used) :
          n_out' = n_out \cup {<<t, b>> : b \in Got} /\ n_used'[t] = c.used \cup Got
    BY <2>5, <2>7
  <2>9. QED
    BY <2>1, <2>6, <2>8
<1>3. CASE N!Fits(c, s) = {}
  <2>1. /\ N!Become(t, c) /\ n_out' = n_out
        /\ n_answer' = [thread |-> t, size |-> s, ok |-> FALSE]
    BY <1>3 DEF N!Answer
  <2>2. {} \in SUBSET (Nat \ c.used) /\ {<<t, b>> : b \in {}} = {}
    OBVIOUS
  <2>3. /\ n_nodes' = [u \in Threads |-> n_nodes'[u]]
        /\ n_used' \in [Threads -> SUBSET Nat] /\ n_free' \in [Threads -> SUBSET Nat]
        /\ \A u \in Threads : Cut(N!Mine(u))'
        /\ \A u \in Threads \ {t} : n_nodes'[u] = n_nodes[u] /\ n_used'[u] = n_used[u]
        /\ n_used'[t] = c.used /\ N!Mine(t)' = c
    BY <1>1, <2>1
  <2>4. n_out' = n_out \cup {<<t, b>> : b \in {}} /\ n_used'[t] = c.used \cup {}
    BY <2>1, <2>2, <2>3
  <2>5. QED
    BY <1>3, <2>1, <2>2, <2>3, <2>4
<1>4. QED
  BY <1>2, <1>3

\* What a thread holds or has taken back, and what others hold.
LEMMA NHeldUsed ==
  ASSUME NInv, NEW t \in Threads, NEW a \in Nat
  PROVE  <<t, a>> \in Kept(NPlace) <=> a \in n_used[t]
<1>1. <<t, a>> \in NNodes /\ <<t, a>>[1] = t /\ <<t, a>>[2] = a
  BY DEF NNodes
<1>2. QED
  BY <1>1 DEF NInv, NUsed

\* A get from a chunk whose used nodes are the thread's but for those of its
\* local queue, or all of them.
LEMMA NGet ==
  ASSUME NInv, NEW t \in Threads, NEW c, Cut(c), NEW s \in Nat, N!Answer(t, c, s),
         NEW q, q \in {<<>>, n_local[t]}, c.used = n_used[t] \ {x[2] : x \in F!In(q)},
         n_local' = [n_local EXCEPT ![t] = IF q = n_local[t] THEN <<>> ELSE @],
         n_pools' = n_pools \cup {t}, UNCHANGED <<n_remote, n_move>>
  PROVE  NInv'
<1>1. /\ NTypes /\ NCarrying /\ NQueues /\ Apart(NPlace) /\ Kept(NPlace) = NUsed
      /\ \A u \in Threads : Cut(N!Mine(u)) /\ (u \notin n_pools => DOMAIN n_nodes[u] = {})
  BY DEF NInv
<1>2. /\ n_nodes' = [u \in Threads |-> n_nodes'[u]]
      /\ n_used' \in [Threads -> SUBSET Nat] /\ n_free' \in [Threads -> SUBSET Nat]
      /\ \A u \in Threads : Cut(N!Mine(u))'
      /\ \A u \in Threads \ {t} : n_nodes'[u] = n_nodes[u] /\ n_used'[u] = n_used[u]
  BY <1>1, NAnswered
<1>3. PICK Got \in SUBSET (Nat \ c.used) :
        n_out' = n_out \cup {<<t, a>> : a \in Got} /\ n_used'[t] = c.used \cup Got
  BY <1>1, NAnswered
<1> DEFINE Y == {<<t, a>> : a \in Got}
           X == F!In(q) \cup Y
           to == <<"out", F!None>>
<1>4. Y \subseteq NNodes
  BY DEF NNodes
\* The local queue is emptied, if it is taken.
<1>5. \A u \in Threads : n_local'[u] = IF u = t /\ q = n_local[t] THEN <<>> ELSE n_local[u]
  BY <1>1 DEF NTypes
<1>6. n_local' \in [Threads -> Seq(NNodes)]
  <2>1. <<>> \in Seq(NNodes)
    BY EmptySeq
  <2>2. QED
    BY <1>1, <2>1 DEF NTypes
<1>7. /\ F!In(q) \subseteq F!In(n_local[t]) /\ F!In(q) \subseteq NNodes
      /\ F!In(n_local'[t]) = F!In(n_local[t]) \ F!In(q)
  <2>1. F!In(n_local[t]) \subseteq NNodes
    <3>1. n_local[t] \in Seq(NNodes)
      BY <1>1 DEF NTypes
    <3>2. QED
      BY <3>1, ElementOfSeq DEF F!In
  <2>2. CASE q = n_local[t]
    BY <1>5, <2>1, <2>2, QueueEmpty
  <2>3. CASE q = <<>> /\ q # n_local[t]
    BY <1>5, <2>1, <2>3, QueueEmpty
  <2>4. QED
    BY <2>2, <2>3
<1>8. \A x \in F!In(q) : x[1] = t
  BY <1>1, <1>7 DEF NQueues
\* What a get hands out nobody holds, but for what was in the queue.
<1>9. ASSUME NEW x \in Y, x \in Kept(NPlace) PROVE x \in F!In(q)
  <2>1. PICK a \in Got : x = <<t, a>>
    OBVIOUS
  <2>2. a \in n_used[t] /\ a \notin c.used
    BY <1>9, <2>1, NHeldUsed
  <2>3. PICK y \in F!In(q) : y[2] = a
    BY <2>2
  <2>4. y \in Threads \X Nat /\ y[1] = t
    BY <1>7, <1>8 DEF NNodes
  <2>5. y = <<t, a>>
    BY <2>3, <2>4
  <2>6. QED
    BY <2>1, <2>5
<1>10. F!In(q) \subseteq NPlace[<<"local", t>>] /\ <<"local", t>> \in NWhere
  BY <1>7, NPlaceIs
\* Nothing of X is anywhere but in the queue.
<1>11. ASSUME NEW p \in NWhere, p # <<"local", t>> PROVE NPlace[p] \cap X = {}
  <2> SUFFICES ASSUME NEW x \in NPlace[p] \cap X PROVE FALSE
    OBVIOUS
  <2>1. x \in Kept(NPlace)
    BY NPlaceIs DEF Kept
  <2>2. x \in F!In(q)
    BY <1>9, <2>1
  <2>3. QED
    BY <1>1, <1>10, <1>11, <2>2, NPlaceIs DEF Apart
<1>12. F!In(n_local[t]) \cap X = F!In(q)
  <2>1. ASSUME NEW x \in F!In(n_local[t]) \cap X PROVE x \in F!In(q)
    <3>1. x \in Kept(NPlace)
      BY NPlaceIs DEF Kept
    <3>2. QED
      BY <1>9, <2>1, <3>1
  <2>2. QED
    BY <1>7, <2>1
<1> HIDE DEF X, Y, to
<1>13. \A u \in Threads : F!In(n_local'[u]) = F!In(n_local[u]) \ X /\ F!In(n_remote'[u]) = F!In(n_remote[u]) \ X
  <2> SUFFICES ASSUME NEW u \in Threads
               PROVE  F!In(n_local'[u]) = F!In(n_local[u]) \ X /\ F!In(n_remote'[u]) = F!In(n_remote[u]) \ X
    OBVIOUS
  <2>1. F!In(n_remote[u]) \cap X = {}
    <3>1. <<"remote", u>> \in NWhere /\ <<"remote", u>> # <<"local", t>>
      BY NPlaceIs
    <3>2. QED
      BY <1>11, <3>1, NPlaceIs
  <2>2. CASE u = t
    BY <1>7, <1>12, <2>1, <2>2
  <2>3. CASE u # t
    <3>1. <<"local", u>> \in NWhere /\ <<"local", u>> # <<"local", t>>
      BY <2>3, NPlaceIs
    <3>2. F!In(n_local[u]) \cap X = {}
      BY <1>11, <3>1, NPlaceIs
    <3>3. n_local'[u] = n_local[u]
      BY <1>5, <2>3
    <3>4. QED
      BY <2>1, <3>2, <3>3
  <2>4. QED
    BY <2>2, <2>3
<1>14. n_out \cap X = {} /\ ({n_move.hand} \ {<<>>}) \cap X = {}
  <2>1. <<"out", F!None>> # <<"local", t>> /\ <<"hand", F!None>> # <<"local", t>>
    OBVIOUS
  <2>2. QED
    BY <1>11, <2>1, NPlaceIs
<1>15. /\ to \in NWhere /\ to = <<"out", F!None>> /\ to # <<"hand", F!None>>
       /\ \A u \in Threads : to # <<"local", u>> /\ to # <<"remote", u>>
  BY NPlaceIs DEF to
<1>16. Y \in SUBSET X
  BY DEF X
<1>17. Apart(NPlace)' /\ Kept(NPlace)' = (Kept(NPlace) \ X) \cup Y
  <2>1. n_out' = (n_out \ X) \cup (IF to = <<"out", F!None>> THEN Y ELSE {})
    BY <1>3, <1>14, <1>15 DEF Y
  <2>2. {n_move'.hand} \ {<<>>} = (({n_move.hand} \ {<<>>}) \ X)
                                  \cup (IF to = <<"hand", F!None>> THEN Y ELSE {})
    BY <1>14, <1>15
  <2>3. \A u \in Threads :
          /\ F!In(n_local'[u]) = (F!In(n_local[u]) \ X) \cup (IF to = <<"local", u>> THEN Y ELSE {})
          /\ F!In(n_remote'[u]) = (F!In(n_remote[u]) \ X) \cup (IF to = <<"remote", u>> THEN Y ELSE {})
    BY <1>13, <1>15
  <2>4. Apart(NPlace) /\ to \in NWhere
    BY <1>1, <1>15
  <2>5. NMoves(X, Y, to)
    BY <2>1, <2>2, <2>3 DEF NMoves
  <2>6. QED
    BY <1>16, <2>4, <2>5, NMoved
<1>18. Kept(NPlace)' = NUsed'
  <2>1. (Kept(NPlace) \ X) \cup Y = NUsed'
    <3>1. ASSUME NEW x \in NNodes
          PROVE  x \in (Kept(NPlace) \ X) \cup Y <=> x[2] \in n_used'[x[1]]
      <4>1. x \in Threads \X Nat /\ x = <<x[1], x[2]>>
        BY DEF NNodes
      <4>2. x \in Kept(NPlace) <=> x[2] \in n_used[x[1]]
        BY <1>1 DEF NUsed
      <4>3. CASE x[1] # t
        <5>1. x \notin X
          BY <1>8, <4>1, <4>3 DEF X, Y
        <5>2. n_used'[x[1]] = n_used[x[1]]
          BY <1>2, <4>1, <4>3
        <5>3. QED
          BY <1>16, <4>2, <5>1, <5>2
      <4>4. CASE x[1] = t
        <5>1. x \in Y <=> x[2] \in Got
          BY <4>1, <4>4 DEF Y
        <5>2. x \in F!In(q) <=> x[2] \in {y[2] : y \in F!In(q)}
          <6>1. ASSUME NEW y \in F!In(q), x[2] = y[2] PROVE x = y
            <7>1. y \in Threads \X Nat /\ y[1] = t
              BY <1>7, <1>8 DEF NNodes
            <7>2. y = <<t, y[2]>> /\ x = <<t, x[2]>>
              BY <4>1, <4>4, <7>1
            <7>3. QED
              BY <6>1, <7>2
          <6>2. QED
            BY <6>1
        <5>3. QED
          BY <1>3, <4>2, <4>4, <5>1, <5>2 DEF X
      <4>5. QED
        BY <4>3, <4>4
    <3>2. Kept(NPlace) \subseteq NNodes
      BY <1>1 DEF NUsed
    <3>3. NUsed' = {x \in NNodes : x[2] \in n_used'[x[1]]}
      BY DEF NUsed, NNodes
    <3>4. QED
      BY <1>4, <3>1, <3>2, <3>3
  <2>2. QED
    BY <1>17, <2>1
<1>19. NTypes'
  <2>1. n_pools' \subseteq Threads /\ n_out' \subseteq NNodes
    BY <1>1, <1>3, <1>4 DEF NTypes, Y
  <2>2. QED
    BY <1>1, <1>2, <1>6, <2>1 DEF NTypes, NNodes
<1>20. NCarrying'
  BY <1>1 DEF NCarrying
<1>21. NQueues'
  <2>1. ASSUME NEW u \in Threads
        PROVE  /\ Once(n_local'[u]) /\ Once(n_remote'[u])
               /\ \A x \in F!In(n_local'[u]) : x[1] = u
    BY <1>1, <1>5, <1>13, QueueEmpty DEF NQueues
  <2>2. QED
    BY <2>1 DEF NQueues, Once, F!In
<1>22. \A u \in Threads : u \notin n_pools' => DOMAIN n_nodes'[u] = {}
  BY <1>1, <1>2
<1>23. QED
  BY <1>2, <1>17, <1>18, <1>19, <1>20, <1>21, <1>22 DEF NInv

LEMMA NGetFast ==
  ASSUME NInv, NEW t \in Getters, NEW s \in Requests, N!GetFast(t, s)
  PROVE  NInv' /\ n_answer'.ok
<1>1. t \in Threads /\ s \in Nat
  BY ChunkConstants
<1>2. /\ t \in n_pools /\ N!Fits(N!Mine(t), s) # {} /\ N!Answer(t, N!Mine(t), s)
      /\ UNCHANGED <<n_pools, n_local, n_remote, n_move>>
  BY DEF N!GetFast
<1> DEFINE c == N!Mine(t)
           q == <<>>
<1>3. Cut(c) /\ N!Answer(t, c, s)
  BY <1>1, <1>2 DEF NInv
<1>4. c.used = n_used[t] \ {x[2] : x \in F!In(q)}
  <2>1. {x[2] : x \in F!In(q)} = {}
    BY QueueEmpty
  <2>2. QED
    BY <2>1 DEF N!Mine, N!Chunk
<1>5. n_local' = [n_local EXCEPT ![t] = IF q = n_local[t] THEN <<>> ELSE @]
  BY <1>1, <1>2 DEF NInv, NTypes
<1>6. q \in {<<>>, n_local[t]} /\ n_pools' = n_pools \cup {t} /\ UNCHANGED <<n_remote, n_move>>
  BY <1>2
<1>7. n_answer'.ok
  BY <1>2 DEF N!Answer
<1> HIDE DEF c, q
<1>8. NInv'
  BY <1>1, <1>3, <1>4, <1>5, <1>6, NGet
<1>9. QED
  BY <1>7, <1>8

\* The chunk of a thread once it has taken back what is in the local queue.
LEMMA NBack ==
  ASSUME NInv, NEW t \in Threads,
         NEW c, c = IF t \in n_pools THEN N!Returned(N!Mine(t), n_local[t]) ELSE N!Supply
  PROVE  Cut(c) /\ c.used = n_used[t] \ {x[2] : x \in F!In(n_local[t])}
<1>1. /\ Cut(N!Mine(t)) /\ n_local[t] \in Seq(NNodes) /\ Once(n_local[t])
      /\ \A x \in F!In(n_local[t]) : x[1] = t
      /\ N!Mine(t).used = n_used[t] /\ N!Mine(t).nodes = n_nodes[t]
  BY DEF NInv, NTypes, NQueues, N!Mine, N!Chunk
<1>2. ASSUME NEW x \in F!In(n_local[t])
      PROVE  x[2] \in n_used[t]
  <2>1. x \in Kept(NPlace)
    BY NPlaceIs DEF Kept
  <2>2. QED
    BY <1>1, <2>1 DEF NInv, NUsed
<1>3. CASE t \in n_pools
  BY <1>1, <1>2, <1>3, CutReturned
<1>4. CASE t \notin n_pools
  <2>1. n_used[t] = {}
    BY <1>1, <1>4, CutHas DEF NInv
  <2>2. QED
    BY <1>4, <2>1, CutSupply
<1>5. QED
  BY <1>3, <1>4

LEMMA NGetSlow ==
  ASSUME NInv, NEW t \in Getters, NEW s \in Requests, N!GetSlow(t, s)
  PROVE  /\ NInv'
         /\ n_answer'.ok \/ (n_answer' = [thread |-> t, size |-> s, ok |-> FALSE] /\ N!NoRoom(t, s)')
<1>1. t \in Threads /\ s \in Nat
  BY ChunkConstants
<1> DEFINE b == IF t \in n_pools THEN N!Returned(N!Mine(t), n_local[t]) ELSE N!Supply
           c == IF N!Fits(b, s) # {} THEN b ELSE N!FullMerge(b)
           q == n_local[t]
<1>2. /\ n_pools' = n_pools \cup {t} /\ n_local' = [n_local EXCEPT ![t] = <<>>]
      /\ N!Answer(t, c, s) /\ UNCHANGED <<n_remote, n_move>>
  BY DEF N!GetSlow
<1>3. Cut(b) /\ b.used = n_used[t] \ {x[2] : x \in F!In(q)}
  BY <1>1, NBack
<1> HIDE DEF b
<1>4. Cut(c) /\ c.used = n_used[t] \ {x[2] : x \in F!In(q)}
  BY <1>3, CutFullMerge
<1>5. N!Fits(c, s) = {} => \A x, y \in c.free : N!After(c, x) # y
  BY <1>3, CutFullMerge
<1> HIDE DEF c
<1>6. /\ q \in {<<>>, n_local[t]}
      /\ n_local' = [n_local EXCEPT ![t] = IF q = n_local[t] THEN <<>> ELSE @]
  BY <1>2
<1> HIDE DEF q
<1>7. NInv'
  BY <1>1, <1>2, <1>4, <1>6, NGet
<1>8. ASSUME ~n_answer'.ok
      PROVE  n_answer' = [thread |-> t, size |-> s, ok |-> FALSE] /\ N!NoRoom(t, s)'
  <2>1. NTypes /\ \A u \in Threads : Cut(N!Mine(u))
    BY DEF NInv
  <2>2. /\ N!Mine(t)' = c /\ N!Fits(c, s) = {}
        /\ n_answer' = [thread |-> t, size |-> s, ok |-> FALSE]
    BY <1>1, <1>2, <1>4, <1>8, <2>1, NAnswered
  <2>3. c.free = n_free'[t]
    BY <2>2 DEF N!Mine, N!Chunk
  <2>4. N!Fits(N!Mine(t), s)' = {}
    <3>1. N!Fits(N!Mine(t), s)' = N!Fits(N!Mine(t)', s)
      BY DEF N!Fits
    <3>2. QED
      BY <2>2, <3>1
  <2>5. \A x, y \in n_free'[t] : N!After(N!Mine(t), x)' # y
    <3>1. \A x : N!After(N!Mine(t), x)' = N!After(N!Mine(t)', x)
      BY DEF N!After
    <3>2. QED
      BY <1>5, <2>2, <2>3, <3>1
  <2>6. QED
    BY <2>2, <2>4, <2>5 DEF N!NoRoom
<1>9. QED
  BY <1>7, <1>8

-----------------------------------------------------------------------------
LEMMA CutFree ==
  ASSUME NEW c, Cut(c), NEW a \in c.used
  PROVE  Cut(N!Chunk(c.nodes, c.used \ {a}, c.free \cup {a}))
<1> DEFINE u == c.used \ {a}
           f == c.free \cup {a}
           d == DOMAIN c.nodes
<1>1. u \subseteq d /\ f = d \ u
  BY CutHas
<1> HIDE DEF u, f
<1>2. Cut(N!Chunk(c.nodes, u, f))
  BY <1>1, CutHas, CutIs
<1>3. QED
  BY <1>2 DEF u, f

\* A node that moves.
LEMMA NPut ==
  ASSUME NInv, NEW t \in Threads, NEW x \in n_out, N!Put(t, x)
  PROVE  NInv'
<1>1. /\ NTypes /\ NCarrying /\ NQueues /\ Apart(NPlace) /\ Kept(NPlace) = NUsed
      /\ \A u \in Threads : Cut(N!Mine(u)) /\ (u \notin n_pools => DOMAIN n_nodes[u] = {})
  BY DEF NInv
<1>2. /\ n_out' = n_out \ {x} /\ n_pools' = n_pools \cup {t}
      /\ UNCHANGED <<n_nodes, n_local, n_move>>
  BY DEF N!Put
<1>3. x \in NNodes /\ x \in Threads \X Nat /\ x \in Kept(NPlace) /\ x[2] \in n_used[x[1]]
  <2>1. x \in NNodes
    BY <1>1 DEF NTypes
  <2>2. x \in Kept(NPlace)
    BY NPlaceIs DEF Kept
  <2>3. QED
    BY <1>1, <2>1, <2>2 DEF NUsed, NNodes
\* It is nowhere else.
<1>4. /\ x \notin {n_move.hand} \ {<<>>}
      /\ \A u \in Threads : x \notin F!In(n_local[u]) /\ x \notin F!In(n_remote[u])
  <2>1. \A p \in NWhere : x \in NPlace[p] => p = <<"out", F!None>>
    BY <1>1, NPlaceIs DEF Apart
  <2>2. x \notin {n_move.hand} \ {<<>>}
    BY <2>1, NPlaceIs
  <2>3. ASSUME NEW u \in Threads
        PROVE  x \notin F!In(n_local[u]) /\ x \notin F!In(n_remote[u])
    BY <2>1, NPlaceIs
  <2>4. QED
    BY <2>2, <2>3
<1>5. n_pools' \subseteq Threads /\ n_out' \subseteq NNodes
  BY <1>1, <1>2 DEF NTypes
<1>6. \A u \in Threads : u \notin n_pools' => DOMAIN n_nodes'[u] = {}
  BY <1>1, <1>2
<1>7. CASE x[1] = t
  <2> DEFINE c == N!Mine(t)
             X == {x}
             Y == {}
             to == <<"out", F!None>>
  <2>1. /\ n_used' = [n_used EXCEPT ![t] = @ \ {x[2]}]
        /\ n_free' = [n_free EXCEPT ![t] = @ \cup {x[2]}] /\ n_remote' = n_remote
    BY <1>7 DEF N!Put
  <2>2. NMoves(X, Y, to)
    BY <1>2, <1>4, <2>1 DEF NMoves
  <2>3. Y \in SUBSET X /\ to \in NWhere
    BY NPlaceIs
  <2> HIDE DEF X, Y, to
  <2>4. Apart(NPlace)' /\ Kept(NPlace)' = (Kept(NPlace) \ X) \cup Y
    BY <1>1, <2>2, <2>3, NMoved
  <2>5. \A u \in Threads : /\ n_used'[u] = IF u = t THEN n_used[u] \ {x[2]} ELSE n_used[u]
                           /\ n_free'[u] = IF u = t THEN n_free[u] \cup {x[2]} ELSE n_free[u]
    BY <2>1 DEF NTypes, NInv
  <2>6. Kept(NPlace)' = NUsed'
    <3>1. ASSUME NEW y \in NNodes
          PROVE  y \in NUsed \ {x} <=> y[2] \in n_used'[y[1]]
      <4>1. y \in Threads \X Nat /\ y = <<y[1], y[2]>> /\ x = <<x[1], x[2]>>
        BY <1>3 DEF NNodes
      <4>2. y \in NUsed <=> y[2] \in n_used[y[1]]
        BY DEF NUsed
      <4>3. QED
        BY <1>7, <2>5, <4>1, <4>2
    <3>2. NUsed' = {y \in NNodes : y[2] \in n_used'[y[1]]}
      BY DEF NUsed, NNodes
    <3>3. NUsed \subseteq NNodes
      BY DEF NUsed
    <3>4. QED
      BY <1>1, <2>4, <3>1, <3>2, <3>3 DEF X, Y
  <2>7. \A u \in Threads : Cut(N!Mine(u))'
    <3> SUFFICES ASSUME NEW u \in Threads PROVE Cut(N!Mine(u))'
      OBVIOUS
    <3> DEFINE m == N!Mine(u)'
    <3>1. m = N!Chunk(n_nodes[u], n_used'[u], n_free'[u])
      BY <1>2 DEF N!Mine
    <3>2. N!Mine(u) = N!Chunk(n_nodes[u], n_used[u], n_free[u]) /\ Cut(N!Mine(u))
      BY <1>1 DEF N!Mine
    <3>3. Cut(m)
      <4>1. CASE u = t
        <5>1. c = N!Mine(u) /\ Cut(c) /\ x[2] \in c.used /\ c.nodes = n_nodes[u]
              /\ c.used = n_used[u] /\ c.free = n_free[u]
          BY <1>3, <1>7, <3>2, <4>1 DEF N!Chunk
        <5> HIDE DEF c, m
        <5>2. m = N!Chunk(c.nodes, c.used \ {x[2]}, c.free \cup {x[2]})
          BY <2>5, <3>1, <4>1, <5>1
        <5>3. QED
          BY <5>1, <5>2, CutFree
      <4>2. CASE u # t
        BY <2>5, <3>1, <3>2, <4>2
      <4>3. QED
        BY <4>1, <4>2
    <3> HIDE DEF m
    <3>4. QED
      BY <3>3 DEF m, Cut, N!After, N!Chunk
  <2>8. NTypes'
    <3>1. \A u \in Threads : n_used'[u] \in SUBSET Nat /\ n_free'[u] \in SUBSET Nat
      <4>1. x[2] \in Nat /\ \A u \in Threads : n_used[u] \in SUBSET Nat /\ n_free[u] \in SUBSET Nat
        BY <1>1, <1>3 DEF NTypes
      <4>2. QED
        BY <2>5, <4>1
    <3>2. n_used' \in [Threads -> SUBSET Nat] /\ n_free' \in [Threads -> SUBSET Nat]
      BY <1>1, <2>1, <3>1 DEF NTypes
    <3>3. QED
      BY <1>1, <1>2, <1>5, <2>1, <3>2 DEF NTypes, NNodes
  <2>9. NCarrying' /\ NQueues'
    BY <1>1, <1>2, <2>1 DEF NCarrying, NQueues, Once, F!In
  <2>10. QED
    BY <1>6, <2>4, <2>6, <2>7, <2>8, <2>9 DEF NInv
<1>8. CASE x[1] # t
  <2> DEFINE r == Append(n_remote[t], x)
             X == {x}
             to == <<"remote", t>>
  <2>1. n_remote' = [n_remote EXCEPT ![t] = r] /\ UNCHANGED <<n_used, n_free>>
    BY <1>8 DEF N!Put
  <2>2. n_remote[t] \in Seq(NNodes) /\ Once(n_remote[t]) /\ x \notin F!In(n_remote[t])
    BY <1>1, <1>4 DEF NTypes, NQueues
  <2>3. /\ r \in Seq(NNodes) /\ Len(r) = Len(n_remote[t]) + 1 /\ Len(n_remote[t]) \in Nat
        /\ F!In(r) = F!In(n_remote[t]) \cup {x} /\ Once(r)
    BY <1>3, <2>2, QueueAppend
  <2> HIDE DEF r
  <2>4. \A u \in Threads : n_remote'[u] = IF u = t THEN r ELSE n_remote[u]
    BY <1>1, <2>1 DEF NTypes
  <2>5. NMoves(X, X, to)
    <3>1. \A u \in Threads : to = <<"remote", u>> <=> u = t
      OBVIOUS
    <3>2. to # <<"out", F!None>> /\ to # <<"hand", F!None>> /\ \A u \in Threads : to # <<"local", u>>
      OBVIOUS
    <3> HIDE DEF to
    <3>3. \A u \in Threads :
            /\ F!In(n_local'[u]) = (F!In(n_local[u]) \ X) \cup (IF to = <<"local", u>> THEN X ELSE {})
            /\ F!In(n_remote'[u]) = (F!In(n_remote[u]) \ X) \cup (IF to = <<"remote", u>> THEN X ELSE {})
      BY <1>2, <1>4, <2>3, <2>4, <3>1, <3>2
    <3>4. QED
      BY <1>2, <1>4, <3>2, <3>3 DEF NMoves
  <2>6. X \in SUBSET X /\ to \in NWhere /\ X \subseteq Kept(NPlace)
    BY <1>3, NPlaceIs
  <2> HIDE DEF X, to
  <2>7. Apart(NPlace)' /\ Kept(NPlace)' = (Kept(NPlace) \ X) \cup X
    BY <1>1, <2>5, <2>6, NMoved
  <2>8. Kept(NPlace)' = NUsed'
    <3>1. NUsed' = NUsed
      BY <2>1 DEF NUsed, NNodes
    <3>2. QED
      BY <1>1, <2>6, <2>7, <3>1
  <2>9. \A u \in Threads : Cut(N!Mine(u))'
    BY <1>1, <1>2, <2>1 DEF Cut, N!Mine, N!After, N!Chunk
  <2>10. NTypes'
    BY <1>1, <1>2, <1>5, <2>1, <2>3 DEF NTypes, NNodes
  <2>11. NCarrying'
    <3>1. \A u \in Threads : Len(n_remote'[u]) >= Len(n_remote[u]) /\ Len(n_remote[u]) \in Nat
      BY <1>1, <2>3, <2>4, LenProperties DEF NTypes
    <3>2. n_move.left \in Nat
      BY <1>1 DEF NTypes
    <3>3. ASSUME n_move.pc \in {"pop", "push"}
          PROVE  n_move.cur \in Threads /\ n_move.left <= Len(n_remote'[n_move.cur])
      <4>1. n_move.cur \in Threads /\ n_move.left <= Len(n_remote[n_move.cur])
        BY <1>1, <3>3 DEF NCarrying
      <4> DEFINE k == Len(n_remote[n_move.cur])
                 l == Len(n_remote'[n_move.cur])
      <4>2. k \in Nat /\ l >= k /\ n_move.left <= k
        BY <3>1, <4>1
      <4>3. l \in Nat
        <5>1. n_remote'[n_move.cur] \in Seq(NNodes)
          BY <2>10, <4>1 DEF NTypes, NNodes
        <5>2. QED
          BY <5>1, LenProperties
      <4> HIDE DEF k, l
      <4>4. n_move.left <= l
        BY <3>2, <4>2, <4>3
      <4>5. QED
        BY <4>1, <4>4 DEF l
    <3>4. QED
      BY <1>1, <1>2, <3>3 DEF NCarrying
  <2>12. NQueues'
    <3>1. \A u \in Threads : Once(n_remote'[u])
      BY <1>1, <2>3, <2>4 DEF NQueues
    <3>2. QED
      BY <1>1, <1>2, <3>1 DEF NQueues, Once, F!In
  <2>13. QED
    BY <1>6, <2>7, <2>8, <2>9, <2>10, <2>11, <2>12 DEF NInv
<1>9. QED
  BY <1>7, <1>8

LEMMA NotNothing == \A y \in NNodes : y # <<>>
<1> SUFFICES ASSUME NEW y \in NNodes PROVE y # <<>>
  OBVIOUS
<1>1. y = <<y[1], y[2]>>
  BY DEF NNodes
<1> DEFINE a == y[1]
           b == y[2]
<1> HIDE DEF a, b
<1>2. <<a, b>> # <<>>
  OBVIOUS
<1>3. QED
  BY <1>1, <1>2 DEF a, b

\* The background thread takes the head of a remote queue in hand,
LEMMA NMovePop == ASSUME NInv, N!MovePop PROVE NInv'
<1>1. /\ NTypes /\ NCarrying /\ NQueues /\ Apart(NPlace) /\ Kept(NPlace) = NUsed
      /\ \A u \in Threads : Cut(N!Mine(u)) /\ (u \notin n_pools => DOMAIN n_nodes[u] = {})
  BY DEF NInv
<1>2. /\ UNCHANGED <<n_pools, n_nodes, n_used, n_free, n_out, n_local>> /\ n_move.pc = "pop"
  BY DEF N!MovePop, N!Idle
<1>3. /\ n_move.hand = <<>> /\ n_move.cur \in Threads /\ n_move.left \in Nat
      /\ n_move.left <= Len(n_remote[n_move.cur])
  BY <1>1, <1>2 DEF NCarrying, NTypes
<1>4. \A u \in Threads : Cut(N!Mine(u))'
  BY <1>1, <1>2 DEF Cut, N!Mine, N!After, N!Chunk
<1>5. NUsed' = NUsed
  BY <1>2 DEF NUsed, NNodes
<1>6. CASE n_move.left = 0
  <2>1. n_remote' = n_remote /\ n_move' = [n_move EXCEPT !.pc = "next"]
    BY <1>6 DEF N!MovePop
  <2>2. n_move'.hand = n_move.hand /\ n_move'.pc = "next"
    BY <1>1, <2>1 DEF NTypes
  <2>3. NPlace' = NPlace
    BY <1>2, <2>1, <2>2 DEF NPlace, NWhere, F!In
  <2>4. NTypes'
    BY <1>1, <1>2, <2>1 DEF NTypes, NNodes
  <2>5. NCarrying'
    BY <1>3, <2>2 DEF NCarrying
  <2>6. NQueues'
    BY <1>1, <1>2, <2>1 DEF NQueues, Once, F!In
  <2>7. Apart(NPlace)' /\ Kept(NPlace)' = NUsed'
    BY <1>1, <1>5, <2>3 DEF Apart, Kept
  <2>8. QED
    BY <1>1, <1>2, <1>4, <2>4, <2>5, <2>6, <2>7 DEF NInv
<1>7. CASE n_move.left # 0
  <2> DEFINE w == n_move.cur
             was == n_remote[w]
             r == Tail(was)
             x == was[1]
             X == {x}
             to == <<"hand", F!None>>
  <2>1. /\ n_remote' = [n_remote EXCEPT ![w] = r]
        /\ n_move' = [n_move EXCEPT !.pc = "push", !.left = @ - 1, !.hand = x]
    BY <1>7 DEF N!MovePop
  <2>2. was \in Seq(NNodes) /\ Once(was) /\ was # <<>> /\ w \in Threads
    <3>1. was \in Seq(NNodes) /\ Once(was)
      BY <1>1, <1>3 DEF NTypes, NQueues
    <3>2. QED
      BY <1>3, <1>7, <3>1, EmptySeq
  <2>3. /\ r \in Seq(NNodes) /\ x \in NNodes /\ x \in F!In(was) /\ F!In(r) = F!In(was) \ {x} /\ Once(r)
        /\ Len(r) = Len(was) - 1 /\ Len(was) \in Nat
    BY <2>2, QueueHead
  <2>4. \A u \in Threads : n_remote'[u] = IF u = w THEN r ELSE n_remote[u]
    BY <1>1, <2>1 DEF NTypes
  <2>5. /\ n_move'.pc = "push" /\ n_move'.left = n_move.left - 1 /\ n_move'.hand = x
        /\ n_move'.cur = w
    BY <1>1, <2>1 DEF NTypes
  <2>6. x # <<>>
    BY <2>3, NotNothing
  <2>7. /\ x \in F!In(n_remote[w]) /\ x \notin n_out
        /\ \A u \in Threads : x \notin F!In(n_local[u]) /\ (u # w => x \notin F!In(n_remote[u]))
    <3> HIDE DEF x, w, was
    <3>0. <<"remote", w>> \in NWhere /\ x \in NPlace[<<"remote", w>>]
      BY <2>2, <2>3, NPlaceIs DEF was
    <3>1. \A p \in NWhere : x \in NPlace[p] => p = <<"remote", w>>
      BY <1>1, <3>0, NPlaceIs DEF Apart
    <3>2. <<"out", F!None>> # <<"remote", w>> /\ \A u \in Threads : <<"local", u>> # <<"remote", w>>
      OBVIOUS
    <3>3. \A u \in Threads : u # w => <<"remote", u>> # <<"remote", w>>
      OBVIOUS
    <3>4. QED
      BY <2>3, <3>1, <3>2, <3>3, NPlaceIs DEF was
  <2>8. \A u \in Threads : to # <<"local", u>> /\ to # <<"remote", u>>
    OBVIOUS
  <2>9. to = <<"hand", F!None>> /\ to # <<"out", F!None>> /\ to \in NWhere
    BY NPlaceIs
  <2> HIDE DEF r, x, to, was
  <2>10. NMoves(X, X, to)
    <3>1. {n_move'.hand} \ {<<>>} = {x} /\ ({n_move.hand} \ {<<>>}) = {}
      BY <1>3, <2>5, <2>6
    <3>2. \A u \in Threads :
            /\ F!In(n_local'[u]) = (F!In(n_local[u]) \ X) \cup (IF to = <<"local", u>> THEN X ELSE {})
            /\ F!In(n_remote'[u]) = (F!In(n_remote[u]) \ X) \cup (IF to = <<"remote", u>> THEN X ELSE {})
      <4> SUFFICES ASSUME NEW u \in Threads
                   PROVE  /\ F!In(n_local'[u]) = F!In(n_local[u]) \ X
                          /\ F!In(n_remote'[u]) = F!In(n_remote[u]) \ X
        BY <2>8
      <4>1. CASE u = w
        BY <1>2, <2>3, <2>4, <2>7, <4>1 DEF was
      <4>2. CASE u # w
        BY <1>2, <2>4, <2>7, <4>2
      <4>3. QED
        BY <4>1, <4>2
    <3>3. QED
      BY <1>2, <2>7, <2>9, <3>1, <3>2 DEF NMoves
  <2>11. X \in SUBSET X /\ X \subseteq Kept(NPlace)
    <3> HIDE DEF w
    <3>1. <<"remote", w>> \in NWhere /\ x \in NPlace[<<"remote", w>>]
      BY <2>2, <2>7, NPlaceIs
    <3>2. x \in Kept(NPlace)
      BY <3>1, NPlaceIs DEF Kept
    <3>3. QED
      BY <3>2
  <2> HIDE DEF X
  <2>12. Apart(NPlace)' /\ Kept(NPlace)' = (Kept(NPlace) \ X) \cup X
    BY <1>1, <2>9, <2>10, <2>11, NMoved
  <2>13. Kept(NPlace)' = NUsed'
    BY <1>1, <1>5, <2>11, <2>12
  <2>14. NTypes'
    <3>1. n_move' \in [pc : {"idle", "next", "pop", "push"}, todo : SUBSET Threads,
                       cur : Threads \cup {F!None}, left : Nat, hand : NNodes \cup {<<>>}]
      <4> DEFINE l == n_move.left
                 k == l - 1
      <4>1. l \in Nat /\ l # 0
        BY <1>3, <1>7
      <4> HIDE DEF l
      <4>2. k \in Nat
        BY <4>1
      <4>3. /\ n_move \in [pc : {"idle", "next", "pop", "push"}, todo : SUBSET Threads,
                            cur : Threads \cup {F!None}, left : Nat, hand : NNodes \cup {<<>>}]
            /\ n_move' = [n_move EXCEPT !.pc = "push", !.left = k, !.hand = x]
        BY <1>1, <2>1 DEF NTypes, l
      <4> HIDE DEF k
      <4>4. QED
        BY <2>3, <4>2, <4>3
    <3>2. n_remote' \in [Threads -> Seq(NNodes)]
      BY <1>1, <2>1, <2>3 DEF NTypes
    <3>3. QED
      BY <1>1, <1>2, <3>1, <3>2 DEF NTypes, NNodes
  <2>15. NCarrying'
    BY <1>3, <1>7, <2>2, <2>3, <2>4, <2>5, <2>6 DEF NCarrying, was
  <2>16. NQueues'
    <3>1. \A u \in Threads : Once(n_remote'[u])
      BY <1>1, <2>3, <2>4 DEF NQueues
    <3>2. QED
      BY <1>1, <1>2, <3>1 DEF NQueues, Once, F!In
  <2>17. QED
    BY <1>1, <1>2, <1>4, <2>12, <2>13, <2>14, <2>15, <2>16 DEF NInv
<1>8. QED
  BY <1>6, <1>7

\* and puts it in the local queue of the thread it is of.
LEMMA NMovePush == ASSUME NInv, N!MovePush PROVE NInv'
<1>1. /\ NTypes /\ NCarrying /\ NQueues /\ Apart(NPlace) /\ Kept(NPlace) = NUsed
      /\ \A u \in Threads : Cut(N!Mine(u)) /\ (u \notin n_pools => DOMAIN n_nodes[u] = {})
  BY DEF NInv
<1> DEFINE x == n_move.hand
           w == x[1]
           was == n_local[w]
           r == Append(was, x)
           X == {x}
           to == <<"local", w>>
<1>2. /\ UNCHANGED <<n_pools, n_nodes, n_used, n_free, n_out, n_remote>>
      /\ n_move.pc = "push" /\ n_move' = [n_move EXCEPT !.pc = "pop", !.hand = <<>>]
      /\ n_local' = [n_local EXCEPT ![w] = r]
  BY DEF N!MovePush, N!Idle
<1>3. /\ x # <<>> /\ x \in NNodes /\ w \in Threads
      /\ n_move.cur \in Threads /\ n_move.left <= Len(n_remote[n_move.cur])
  <2>1. x # <<>> /\ x \in NNodes
    BY <1>1, <1>2 DEF NCarrying, NTypes
  <2>2. QED
    BY <1>1, <1>2, <2>1 DEF NCarrying, NNodes
<1>4. \A u \in Threads : Cut(N!Mine(u))'
  BY <1>1, <1>2 DEF Cut, N!Mine, N!After, N!Chunk
<1>5. NUsed' = NUsed
  BY <1>2 DEF NUsed, NNodes
<1>6. /\ n_move'.pc = "pop" /\ n_move'.left = n_move.left /\ n_move'.hand = <<>>
      /\ n_move'.cur = n_move.cur
  BY <1>1, <1>2 DEF NTypes
<1>7. \A u \in Threads : x \notin F!In(n_local[u]) /\ x \notin F!In(n_remote[u])
  <2>1. \A p \in NWhere : x \in NPlace[p] => p = <<"hand", F!None>>
    BY <1>1, <1>3, NPlaceIs DEF Apart
  <2>2. QED
    BY <2>1, NPlaceIs
<1>8. x \notin n_out
  <2>1. \A p \in NWhere : x \in NPlace[p] => p = <<"hand", F!None>>
    BY <1>1, <1>3, NPlaceIs DEF Apart
  <2>2. QED
    BY <2>1, NPlaceIs
<1>9. was \in Seq(NNodes) /\ Once(was)
  BY <1>1, <1>3 DEF NTypes, NQueues
<1>10. r \in Seq(NNodes) /\ F!In(r) = F!In(was) \cup {x} /\ Once(r)
  BY <1>3, <1>7, <1>9, QueueAppend
<1> HIDE DEF r
<1>11. \A u \in Threads : n_local'[u] = IF u = w THEN r ELSE n_local[u]
  BY <1>1, <1>2 DEF NTypes
<1>12. /\ \A u \in Threads : (to = <<"local", u>> <=> u = w) /\ to # <<"remote", u>>
       /\ to # <<"out", F!None>> /\ to # <<"hand", F!None>>
  OBVIOUS
<1>13. to \in NWhere /\ X \in SUBSET X /\ X \subseteq Kept(NPlace)
  BY <1>3, NPlaceIs DEF Kept
<1> HIDE DEF to
<1>14. NMoves(X, X, to)
  <2>1. {n_move'.hand} \ {<<>>} = {} /\ ({n_move.hand} \ {<<>>}) = X
    BY <1>3, <1>6
  <2>2. \A u \in Threads :
          /\ F!In(n_local'[u]) = (F!In(n_local[u]) \ X) \cup (IF to = <<"local", u>> THEN X ELSE {})
          /\ F!In(n_remote'[u]) = (F!In(n_remote[u]) \ X) \cup (IF to = <<"remote", u>> THEN X ELSE {})
    <3> SUFFICES ASSUME NEW u \in Threads
                 PROVE  /\ F!In(n_local'[u]) = F!In(n_local[u]) \cup (IF u = w THEN X ELSE {})
                        /\ F!In(n_remote'[u]) = F!In(n_remote[u])
      BY <1>7, <1>12
    <3>1. CASE u = w
      BY <1>2, <1>10, <1>11, <3>1
    <3>2. CASE u # w
      BY <1>2, <1>11, <3>2
    <3>3. QED
      BY <3>1, <3>2
  <2>3. QED
    BY <1>2, <1>8, <1>12, <2>1, <2>2 DEF NMoves
<1> HIDE DEF X
<1>15. Apart(NPlace)' /\ Kept(NPlace)' = (Kept(NPlace) \ X) \cup X
  BY <1>1, <1>13, <1>14, NMoved
<1>16. Kept(NPlace)' = NUsed'
  BY <1>1, <1>5, <1>13, <1>15
<1>17. NTypes'
  <2>1. n_move' \in [pc : {"idle", "next", "pop", "push"}, todo : SUBSET Threads,
                     cur : Threads \cup {F!None}, left : Nat, hand : NNodes \cup {<<>>}]
    BY <1>1, <1>2 DEF NTypes
  <2>2. n_local' \in [Threads -> Seq(NNodes)]
    BY <1>1, <1>2, <1>10 DEF NTypes
  <2>3. QED
    BY <1>1, <1>2, <2>1, <2>2 DEF NTypes, NNodes
<1>18. NCarrying'
  BY <1>2, <1>3, <1>6 DEF NCarrying
<1>19. NQueues'
  <2>1. \A u \in Threads : Once(n_local'[u]) /\ \A y \in F!In(n_local'[u]) : y[1] = u
    BY <1>1, <1>10, <1>11 DEF NQueues
  <2>2. QED
    BY <1>1, <1>2, <2>1 DEF NQueues, Once, F!In
<1>20. QED
  BY <1>1, <1>2, <1>4, <1>15, <1>16, <1>17, <1>18, <1>19 DEF NInv

\* What leaves the nodes where they are.
LEMMA NRest ==
  ASSUME NInv, N!MoveStart \/ N!MoveNext \/ UNCHANGED n_vars
  PROVE  NInv'
<1>1. /\ NTypes /\ NCarrying /\ NQueues /\ Apart(NPlace) /\ Kept(NPlace) = NUsed
      /\ \A u \in Threads : Cut(N!Mine(u)) /\ (u \notin n_pools => DOMAIN n_nodes[u] = {})
  BY DEF NInv
<1>2. UNCHANGED <<n_pools, n_nodes, n_used, n_free, n_out, n_local, n_remote>>
  BY DEF N!MoveStart, N!MoveNext, N!Idle, n_vars
<1>3. /\ n_move' \in [pc : {"idle", "next", "pop", "push"}, todo : SUBSET Threads,
                       cur : Threads \cup {F!None}, left : Nat, hand : NNodes \cup {<<>>}]
      /\ n_move'.hand = n_move.hand /\ NCarrying'
  <2>1. CASE N!MoveStart
    <3>1. /\ n_move.pc = "idle"
          /\ n_move' = [pc |-> "next", todo |-> n_pools, cur |-> F!None, left |-> 0, hand |-> <<>>]
      BY <2>1 DEF N!MoveStart, N!Resting
    <3>2. QED
      BY <1>1, <3>1 DEF NTypes, NCarrying
  <2>2. CASE N!MoveNext
    <3>1. CASE n_move.todo = {}
      <4>1. /\ n_move.pc = "next"
            /\ n_move' = [pc |-> "idle", todo |-> {}, cur |-> F!None, left |-> 0, hand |-> <<>>]
        BY <2>2, <3>1 DEF N!MoveNext, N!Resting
      <4>2. QED
        BY <1>1, <4>1 DEF NTypes, NCarrying
    <3>2. CASE n_move.todo # {}
      <4>1. PICK t \in n_move.todo :
              n_move' = [n_move EXCEPT !.pc = "pop", !.todo = @ \ {t}, !.cur = t,
                                       !.left = Len(n_remote[t])]
        BY <2>2, <3>2 DEF N!MoveNext
      <4>2. t \in Threads /\ Len(n_remote[t]) \in Nat /\ n_move.pc = "next"
        BY <1>1, <2>2, LenProperties DEF NTypes, N!MoveNext
      <4>3. /\ n_move'.pc = "pop" /\ n_move'.cur = t /\ n_move'.left = Len(n_remote[t])
            /\ n_move'.hand = n_move.hand
        BY <1>1, <4>1 DEF NTypes
      <4>4. NCarrying'
        BY <1>1, <1>2, <4>2, <4>3 DEF NCarrying
      <4>5. QED
        BY <1>1, <4>1, <4>2, <4>3, <4>4 DEF NTypes
    <3>3. QED
      BY <3>1, <3>2
  <2>3. CASE UNCHANGED n_vars
    BY <1>1, <2>3 DEF n_vars, NTypes, NCarrying
  <2>4. QED
    BY <2>1, <2>2, <2>3
<1>4. NPlace' = NPlace
  BY <1>2, <1>3 DEF NPlace, NWhere, F!In
<1>5. NUsed' = NUsed
  BY <1>2 DEF NUsed, NNodes
<1>6. Apart(NPlace)' /\ Kept(NPlace)' = NUsed'
  BY <1>1, <1>4, <1>5 DEF Apart, Kept
<1>7. NTypes' /\ NQueues'
  BY <1>1, <1>2, <1>3 DEF NTypes, NNodes, NQueues, Once, F!In
<1>8. \A u \in Threads : Cut(N!Mine(u))'
  BY <1>1, <1>2 DEF Cut, N!Mine, N!After, N!Chunk
<1>9. QED
  BY <1>1, <1>2, <1>3, <1>6, <1>7, <1>8 DEF NInv

LEMMA NInductive == NInv /\ [N!Next]_n_vars => NInv'
<1> SUFFICES ASSUME NInv, [N!Next]_n_vars PROVE NInv'
  OBVIOUS
<1>1. ASSUME NEW t \in Getters, NEW s \in Requests, N!GetFast(t, s) \/ N!GetSlow(t, s)
      PROVE  NInv'
  BY <1>1, NGetFast, NGetSlow
<1>2. ASSUME NEW t \in Threads, NEW x \in n_out, N!Put(t, x) PROVE NInv'
  BY <1>2, NPut
<1>3. CASE N!Move
  BY <1>3, NRest, NMovePop, NMovePush DEF N!Move
<1>4. CASE UNCHANGED n_vars
  BY <1>4, NRest
<1>5. QED
  BY <1>1, <1>2, <1>3, <1>4 DEF N!Next

LEMMA NStepRefused ==
  ASSUME NInv, [N!Next]_n_vars, NEW t \in Threads, NEW s \in Requests,
         n_answer' # n_answer, n_answer' = [thread |-> t, size |-> s, ok |-> FALSE]
  PROVE  N!NoRoom(t, s)'
<1>1. ~n_answer'.ok
  OBVIOUS
<1>2. ASSUME NEW u \in Getters, NEW r \in Requests, N!GetFast(u, r)
      PROVE  N!NoRoom(t, s)'
  BY <1>1, <1>2, NGetFast
<1>3. ASSUME NEW u \in Getters, NEW r \in Requests, N!GetSlow(u, r)
      PROVE  N!NoRoom(t, s)'
  <2>1. n_answer' = [thread |-> u, size |-> r, ok |-> FALSE] /\ N!NoRoom(u, r)'
    BY <1>1, <1>3, NGetSlow
  <2>2. u = t /\ r = s
    BY <2>1
  <2>3. QED
    BY <2>1, <2>2
<1>4. CASE UNCHANGED n_answer
  BY <1>4
<1>5. QED
  BY <1>2, <1>3, <1>4
     DEF N!Next, N!Put, N!Move, N!MoveStart, N!MoveNext, N!MovePop, N!MovePush, N!Idle, n_vars

LEMMA NTiledKept == NInv => N!Tiled
<1> SUFFICES ASSUME NInv PROVE N!Tiled
  OBVIOUS
<1>1. /\ NTypes /\ NCarrying /\ NQueues /\ Apart(NPlace) /\ Kept(NPlace) = NUsed
      /\ \A u \in Threads : Cut(N!Mine(u))
  BY DEF NInv
<1> SUFFICES ASSUME NEW t \in Threads
             PROVE  LET c == N!Mine(t)
                        held == {n \in n_out : n[1] = t}
                          \cup {n \in N!InQueue(n_local[t]) : n[1] = t}
                          \cup {n \in UNION {N!InQueue(n_remote[u]) : u \in Threads} : n[1] = t}
                          \cup {n \in {n_move.hand} \ {<<>>} : n[1] = t}
                    IN  /\ c.nodes # <<>> =>
                             /\ 0 \in DOMAIN c.nodes
                             /\ \A a \in DOMAIN c.nodes :
                                  /\ N!After(c, a) \in DOMAIN c.nodes \cup {Header + Size}
                                  /\ \A b \in DOMAIN c.nodes : b > a => N!After(c, a) <= b
                        /\ c.free = DOMAIN c.nodes \ c.used
                        /\ {n[2] : n \in held} = c.used
  BY DEF N!Tiled
<1> DEFINE c == N!Mine(t)
           held == {n \in n_out : n[1] = t}
                   \cup {n \in N!InQueue(n_local[t]) : n[1] = t}
                   \cup {n \in UNION {N!InQueue(n_remote[u]) : u \in Threads} : n[1] = t}
                   \cup {n \in {n_move.hand} \ {<<>>} : n[1] = t}
<1>2. Cut(c) /\ c.used = n_used[t] /\ c.used \subseteq Nat
  BY <1>1 DEF N!Mine, N!Chunk, NTypes
<1>3. \A q : N!InQueue(q) = F!In(q)
  BY DEF N!InQueue, F!In
<1>4. ASSUME NEW x
      PROVE  x \in held <=> x \in Kept(NPlace) /\ x[1] = t
  <2>1. ASSUME x \in held
        PROVE  x \in Kept(NPlace) /\ x[1] = t
    <3>1. CASE x \in n_out /\ x[1] = t
      BY <3>1, NPlaceIs DEF Kept
    <3>2. CASE x \in F!In(n_local[t]) /\ x[1] = t
      BY <3>2, NPlaceIs DEF Kept
    <3>3. CASE (\E u \in Threads : x \in F!In(n_remote[u])) /\ x[1] = t
      BY <3>3, NPlaceIs DEF Kept
    <3>4. CASE x \in {n_move.hand} \ {<<>>} /\ x[1] = t
      BY <3>4, NPlaceIs DEF Kept
    <3>5. QED
      BY <1>3, <2>1, <3>1, <3>2, <3>3, <3>4
  <2>2. ASSUME x \in Kept(NPlace), x[1] = t
        PROVE  x \in held
    <3>1. PICK p \in NWhere : x \in NPlace[p]
      BY <2>2, NPlaceIs DEF Kept
    <3>2. CASE p = <<"out", F!None>>
      BY <2>2, <3>1, <3>2, NPlaceIs
    <3>3. CASE p = <<"hand", F!None>>
      BY <2>2, <3>1, <3>3, NPlaceIs
    <3>4. ASSUME NEW u \in Threads, p = <<"local", u>> PROVE x \in held
      <4>0. x \in F!In(n_local[u])
        BY <3>1, <3>4, NPlaceIs
      <4>1. u = t
        BY <1>1, <2>2, <4>0 DEF NQueues
      <4>2. QED
        BY <1>3, <2>2, <4>0, <4>1
    <3>5. ASSUME NEW u \in Threads, p = <<"remote", u>> PROVE x \in held
      <4>1. x \in F!In(n_remote[u])
        BY <3>1, <3>5, NPlaceIs
      <4>2. QED
        BY <1>3, <2>2, <4>1
    <3>6. QED
      BY <3>2, <3>3, <3>4, <3>5, NWhereIs
  <2>3. QED
    BY <2>1, <2>2
<1> HIDE DEF held
<1>5. {n[2] : n \in held} = c.used
  <2>1. ASSUME NEW a \in c.used PROVE \E n \in held : n[2] = a
    <3>1. a \in Nat /\ <<t, a>> \in Kept(NPlace)
      BY <1>2, NHeldUsed
    <3>2. <<t, a>> \in held
      BY <1>4, <3>1
    <3>3. <<t, a>>[2] = a
      OBVIOUS
    <3>4. QED
      BY <3>2, <3>3
  <2>2. ASSUME NEW n \in held PROVE n[2] \in c.used
    BY <1>1, <1>2, <1>4 DEF NUsed
  <2>3. QED
    BY <2>1, <2>2
<1>6. c.nodes # <<>> => DOMAIN c.nodes # {}
  <2>1. c.nodes \in [DOMAIN c.nodes -> Nat]
    BY <1>2, CutHas
  <2>2. \A f : f \in [{} -> Nat] => f = <<>>
    OBVIOUS
  <2>3. QED
    BY <2>1, <2>2
<1>7. c.free = DOMAIN c.nodes \ c.used
  BY <1>2, CutHas
<1>8. c.nodes # <<>> =>
        /\ 0 \in DOMAIN c.nodes
        /\ \A a \in DOMAIN c.nodes :
             /\ N!After(c, a) \in DOMAIN c.nodes \cup {Header + Size}
             /\ \A b \in DOMAIN c.nodes : b > a => N!After(c, a) <= b
  BY <1>2, <1>6 DEF Cut, EndOfChunk
<1>9. QED
  BY <1>5, <1>7, <1>8 DEF held
-----------------------------------------------------------------------------
(* SlabPool: the inductive invariant *)

\* The nodes that threads can hold.
SNodes == Threads \X Sizes \X (1..Count)

\* The places where a node is held.
SWhere == ({"local", "remote"} \X Threads) \cup ({"free"} \X (Threads \X Sizes))
          \cup {<<"out", F!None>>, <<"hand", F!None>>}
SPlace == [p \in SWhere |-> CASE p[1] = "out" -> s_out
                              [] p[1] = "hand" -> {s_move.hand} \ {<<>>}
                              [] p[1] = "local" -> F!In(s_local[p[2]])
                              [] p[1] = "remote" -> F!In(s_remote[p[2]])
                              [] OTHER -> F!In(s_freeLists[p[2][1]][p[2][2]])]

STypes ==
  /\ s_pools \subseteq Threads /\ s_made \subseteq SNodes
  /\ s_freeLists \in [Threads -> [Sizes -> Seq(SNodes)]]
  /\ s_local \in [Threads -> Seq(SNodes)] /\ s_remote \in [Threads -> Seq(SNodes)]
  /\ s_out \subseteq SNodes
  /\ s_move \in [todo : SUBSET Threads, cur : Threads \cup {F!None},
                 hand : SNodes \cup {<<>>}]

SQueues ==
  \A t \in Threads :
    /\ Once(s_local[t]) /\ Once(s_remote[t]) /\ \A x \in F!In(s_local[t]) : x[1] = t
    /\ \A k \in Sizes : /\ Once(s_freeLists[t][k])
                        /\ \A x \in F!In(s_freeLists[t][k]) : x[1] = t /\ x[2] = k

\* What was supplied is held, once; a thread without a pool has not been supplied.
SInv ==
  /\ STypes /\ SQueues /\ Apart(SPlace) /\ Kept(SPlace) = s_made
  /\ \A x \in s_made : x[1] \in s_pools

LEMMA SPlaceIs ==
  /\ DOMAIN SPlace = SWhere /\ <<"out", F!None>> \in SWhere /\ <<"hand", F!None>> \in SWhere
  /\ SPlace[<<"out", F!None>>] = s_out /\ SPlace[<<"hand", F!None>>] = {s_move.hand} \ {<<>>}
  /\ \A t \in Threads :
       /\ <<"local", t>> \in SWhere /\ <<"remote", t>> \in SWhere
       /\ SPlace[<<"local", t>>] = F!In(s_local[t])
       /\ SPlace[<<"remote", t>>] = F!In(s_remote[t])
       /\ \A k \in Sizes : /\ <<"free", <<t, k>>>> \in SWhere
                           /\ SPlace[<<"free", <<t, k>>>>] = F!In(s_freeLists[t][k])
BY DEF SPlace, SWhere

LEMMA SPlaceIsNext ==
  /\ DOMAIN SPlace' = SWhere
  /\ SPlace'[<<"out", F!None>>] = s_out' /\ SPlace'[<<"hand", F!None>>] = {s_move'.hand} \ {<<>>}
  /\ \A t \in Threads :
       /\ SPlace'[<<"local", t>>] = F!In(s_local'[t])
       /\ SPlace'[<<"remote", t>>] = F!In(s_remote'[t])
       /\ \A k \in Sizes : SPlace'[<<"free", <<t, k>>>>] = F!In(s_freeLists'[t][k])
BY DEF SPlace, SWhere, F!In

LEMMA SWhereIs ==
  ASSUME NEW p \in SWhere
  PROVE  \/ p = <<"out", F!None>> \/ p = <<"hand", F!None>>
         \/ \E t \in Threads : \/ p = <<"local", t>> \/ p = <<"remote", t>>
                               \/ \E k \in Sizes : p = <<"free", <<t, k>>>>
BY DEF SWhere

\* What is in X leaves its place, and what of it is in the domain of D comes to
\* the place that D says.
Moved(was, X, D, p) == (was \ X) \cup {x \in DOMAIN D : D[x] = p}
SMoves(X, D) ==
  /\ s_out' = Moved(s_out, X, D, <<"out", F!None>>)
  /\ {s_move'.hand} \ {<<>>} = Moved({s_move.hand} \ {<<>>}, X, D, <<"hand", F!None>>)
  /\ \A t \in Threads :
       /\ F!In(s_local'[t]) = Moved(F!In(s_local[t]), X, D, <<"local", t>>)
       /\ F!In(s_remote'[t]) = Moved(F!In(s_remote[t]), X, D, <<"remote", t>>)
       /\ \A k \in Sizes :
            F!In(s_freeLists'[t][k]) = Moved(F!In(s_freeLists[t][k]), X, D, <<"free", <<t, k>>>>)

LEMMA SMoved ==
  ASSUME NEW X, NEW D, DOMAIN D \subseteq X, \A x \in DOMAIN D : D[x] \in SWhere,
         Apart(SPlace), SMoves(X, D)
  PROVE  Apart(SPlace)' /\ Kept(SPlace)' = (Kept(SPlace) \ X) \cup DOMAIN D
<1>1. ASSUME NEW p \in SWhere
      PROVE  SPlace'[p] = Moved(SPlace[p], X, D, p)
  <2>1. CASE p = <<"out", F!None>>
    BY <2>1, SPlaceIs, SPlaceIsNext DEF SMoves
  <2>2. CASE p = <<"hand", F!None>>
    BY <2>2, SPlaceIs, SPlaceIsNext DEF SMoves
  <2>3. ASSUME NEW t \in Threads, p = <<"local", t>>
        PROVE  SPlace'[p] = Moved(SPlace[p], X, D, p)
    BY <2>3, SPlaceIs, SPlaceIsNext DEF SMoves
  <2>4. ASSUME NEW t \in Threads, p = <<"remote", t>>
        PROVE  SPlace'[p] = Moved(SPlace[p], X, D, p)
    BY <2>4, SPlaceIs, SPlaceIsNext DEF SMoves
  <2>5. ASSUME NEW t \in Threads, NEW k \in Sizes, p = <<"free", <<t, k>>>>
        PROVE  SPlace'[p] = Moved(SPlace[p], X, D, p)
    <3>1. SPlace[p] = F!In(s_freeLists[t][k]) /\ SPlace'[p] = F!In(s_freeLists'[t][k])
      BY <2>5, SPlaceIs, SPlaceIsNext
    <3>2. F!In(s_freeLists'[t][k]) = Moved(F!In(s_freeLists[t][k]), X, D, p)
      BY <2>5 DEF SMoves
    <3>3. QED
      BY <3>1, <3>2
  <2>6. QED
    BY <2>1, <2>2, <2>3, <2>4, <2>5, SWhereIs
<1> DEFINE P == SPlace
           Q == SPlace'
<1>2. DOMAIN P = SWhere /\ DOMAIN Q = SWhere
  BY SPlaceIs, SPlaceIsNext
<1>3. \A p \in SWhere : Q[p] = (P[p] \ X) \cup {x \in DOMAIN D : D[x] = p}
  BY <1>1 DEF Moved
<1>4. Apart(P)
  OBVIOUS
<1> HIDE DEF P, Q
<1>5. Apart(Q) /\ Kept(Q) = (Kept(P) \ X) \cup DOMAIN D
  BY <1>2, <1>3, <1>4, PlacesApart
<1>6. QED
  BY <1>5 DEF P, Q, Apart, Kept

LEMMA SlabCount == Count \in Nat /\ Threshold \in Nat
BY PoolAssumptions DEF S!SlabAssumption

LEMMA SNodeIs ==
  ASSUME NEW x \in SNodes
  PROVE  /\ x[1] \in Threads /\ x[2] \in Sizes /\ x[3] \in 1..Count
         /\ x = <<x[1], x[2], x[3]>> /\ x # <<>>
<1>1. x[1] \in Threads /\ x[2] \in Sizes /\ x[3] \in 1..Count /\ x = <<x[1], x[2], x[3]>>
  BY DEF SNodes
<1> DEFINE a == x[1]
           b == x[2]
           c == x[3]
<1>2. x = <<a, b, c>>
  BY <1>1
<1> HIDE DEF a, b, c
<1>3. <<a, b, c>> # <<>>
  OBVIOUS
<1>4. QED
  BY <1>1, <1>2, <1>3

\* The same, of all the queues of a thread.
LEMMA SQueueHas ==
  ASSUME STypes, NEW t \in Threads
  PROVE  /\ F!In(s_local[t]) \subseteq SNodes /\ F!In(s_remote[t]) \subseteq SNodes
         /\ \A k \in Sizes : F!In(s_freeLists[t][k]) \subseteq SNodes
<1>1. \A q \in Seq(SNodes) : F!In(q) \subseteq SNodes
  BY ElementOfSeq DEF F!In
<1>2. QED
  BY <1>1 DEF STypes

LEMMA SInit == S!Init => SInv
<1> SUFFICES ASSUME S!Init PROVE SInv
  OBVIOUS
<1>1. /\ s_pools = {} /\ s_made = {}
      /\ s_freeLists = [t \in Threads |-> [k \in Sizes |-> <<>>]]
      /\ s_local = [t \in Threads |-> <<>>] /\ s_remote = [t \in Threads |-> <<>>]
      /\ s_out = {} /\ s_move = [todo |-> {}, cur |-> F!None, hand |-> <<>>]
  BY DEF S!Init, S!Resting
<1>2. STypes
  BY <1>1, EmptySeq DEF STypes
<1>3. \A t \in Threads : /\ F!In(s_local[t]) = {} /\ F!In(s_remote[t]) = {}
                         /\ \A k \in Sizes : F!In(s_freeLists[t][k]) = {}
  BY <1>1, QueueEmpty
<1>4. ASSUME NEW p \in SWhere PROVE SPlace[p] = {}
  <2>1. ASSUME NEW t \in Threads, NEW k \in Sizes, p = <<"free", <<t, k>>>>
        PROVE  SPlace[p] = {}
    <3>1. SPlace[p] = F!In(s_freeLists[t][k])
      BY <2>1, SPlaceIs
    <3>2. QED
      BY <1>3, <3>1
  <2>2. ASSUME NEW t \in Threads, p = <<"local", t>> \/ p = <<"remote", t>>
        PROVE  SPlace[p] = {}
    BY <1>3, <2>2, SPlaceIs
  <2>3. CASE p = <<"out", F!None>> \/ p = <<"hand", F!None>>
    BY <1>1, <2>3, SPlaceIs
  <2>4. QED
    BY <2>1, <2>2, <2>3, SWhereIs
<1>5. Apart(SPlace) /\ Kept(SPlace) = {}
  BY <1>4, SPlaceIs DEF Apart, Kept
<1>6. SQueues
  BY <1>1, <1>3, QueueEmpty DEF SQueues
<1>7. QED
  BY <1>1, <1>2, <1>5, <1>6 DEF SInv

-----------------------------------------------------------------------------
(* SlabPool: a get *)

\* What a get does once the free lists of its thread have become lists: New is
\* what they have got, from the local queue or from the system.
SSupplied(t, lists, New) ==
  /\ lists \in [Sizes -> Seq(SNodes)] /\ New \subseteq SNodes
  /\ \A j \in Sizes : /\ Once(lists[j])
                      /\ F!In(lists[j]) = F!In(s_freeLists[t][j]) \cup {x \in New : x[2] = j}
  /\ \A x \in New : x[1] = t /\ (x \in Kept(SPlace) => x \in F!In(s_local[t]))
  /\ s_local' = [s_local EXCEPT ![t] = s_local'[t]]
  /\ s_local'[t] \in Seq(SNodes) /\ Once(s_local'[t])
  /\ F!In(s_local'[t]) = F!In(s_local[t]) \ New
  /\ s_pools' = s_pools \cup {t} /\ s_made' = s_made \cup New
  /\ UNCHANGED <<s_remote, s_move>>

LEMMA SGet ==
  ASSUME SInv, NEW t \in Threads, NEW k \in Sizes, NEW lists, NEW New,
         SSupplied(t, lists, New), S!PopFree(t, lists, k)
  PROVE  /\ SInv'
         /\ s_refused' # <<>> =>
              /\ s_refused' = <<t, k>> /\ F!In(s_freeLists[t][k]) = {}
              /\ \A x \in New : x[2] # k
<1>1. /\ STypes /\ SQueues /\ Apart(SPlace) /\ Kept(SPlace) = s_made
      /\ \A x \in s_made : x[1] \in s_pools
  BY DEF SInv
<1>2. /\ lists \in [Sizes -> Seq(SNodes)] /\ New \subseteq SNodes
      /\ \A j \in Sizes : /\ Once(lists[j])
                          /\ F!In(lists[j]) = F!In(s_freeLists[t][j]) \cup {x \in New : x[2] = j}
      /\ \A x \in New : x[1] = t /\ (x \in Kept(SPlace) => x \in F!In(s_local[t]))
      /\ s_local' = [s_local EXCEPT ![t] = s_local'[t]]
      /\ s_local'[t] \in Seq(SNodes) /\ Once(s_local'[t])
      /\ F!In(s_local'[t]) = F!In(s_local[t]) \ New
      /\ s_pools' = s_pools \cup {t} /\ s_made' = s_made \cup New
      /\ UNCHANGED <<s_remote, s_move>>
  BY DEF SSupplied
<1> DEFINE B == IF lists[k] = <<>> THEN {} ELSE {lists[k][1]}
           rest == IF lists[k] = <<>> THEN <<>> ELSE Tail(lists[k])
<1>3. /\ rest \in Seq(SNodes) /\ Once(rest) /\ F!In(rest) = F!In(lists[k]) \ B
      /\ B \subseteq F!In(lists[k]) /\ B \subseteq SNodes
  <2>1. CASE lists[k] = <<>>
    BY <2>1, EmptySeq, QueueEmpty
  <2>2. CASE lists[k] # <<>>
    <3>1. lists[k] \in Seq(SNodes) /\ Once(lists[k])
      BY <1>2
    <3>2. QED
      BY <2>2, <3>1, QueueHead
  <2>3. QED
    BY <2>1, <2>2
<1>4. /\ s_freeLists' = [s_freeLists EXCEPT ![t] = [lists EXCEPT ![k] = rest]]
      /\ s_out' = s_out \cup B
      /\ s_refused' # <<>> => lists[k] = <<>> /\ s_refused' = <<t, k>>
  <2>1. CASE lists[k] = <<>>
    <3>1. lists = [lists EXCEPT ![k] = <<>>]
      BY <1>2, <2>1
    <3>2. QED
      BY <2>1, <3>1 DEF S!PopFree
  <2>2. CASE lists[k] # <<>>
    BY <2>2 DEF S!PopFree
  <2>3. QED
    BY <2>1, <2>2
<1>5. s_refused' # <<>> =>
        /\ s_refused' = <<t, k>> /\ F!In(s_freeLists[t][k]) = {}
        /\ \A x \in New : x[2] # k
  BY <1>2, <1>4, QueueEmpty
<1> HIDE DEF B, rest
<1>6. \A j \in Sizes : s_freeLists'[t][j] = IF j = k THEN rest ELSE lists[j]
  BY <1>1, <1>2, <1>4 DEF STypes
<1>7. \A u \in Threads : /\ s_local'[u] = (IF u = t THEN s_local'[t] ELSE s_local[u])
                         /\ (u # t => s_freeLists'[u] = s_freeLists[u])
  BY <1>1, <1>2, <1>4 DEF STypes
<1>8. STypes'
  <2>1. s_freeLists' \in [Threads -> [Sizes -> Seq(SNodes)]]
    BY <1>1, <1>2, <1>3, <1>4 DEF STypes
  <2>2. s_local' \in [Threads -> Seq(SNodes)]
    BY <1>1, <1>2 DEF STypes
  <2>3. s_pools' \subseteq Threads /\ s_made' \subseteq SNodes /\ s_out' \subseteq SNodes
    BY <1>1, <1>2, <1>3, <1>4 DEF STypes
  <2>4. QED
    BY <1>1, <1>2, <2>1, <2>2, <2>3 DEF STypes, SNodes
<1>9. \A x \in B : x \in SNodes /\ x[1] = t /\ x[2] = k
  BY <1>1, <1>2, <1>3 DEF SQueues
<1>10. SQueues'
  <2>1. ASSUME NEW u \in Threads
        PROVE  Once(s_local'[u]) /\ Once(s_remote'[u]) /\ \A x \in F!In(s_local'[u]) : x[1] = u
    BY <1>1, <1>2, <1>7 DEF SQueues
  <2>2. ASSUME NEW u \in Threads, NEW j \in Sizes
        PROVE  /\ Once(s_freeLists'[u][j])
               /\ \A x \in F!In(s_freeLists'[u][j]) : x[1] = u /\ x[2] = j
    <3>1. CASE u # t
      BY <1>1, <1>7, <3>1 DEF SQueues
    <3>2. CASE u = t
      <4>1. \A x \in F!In(lists[j]) : x[1] = t /\ x[2] = j
        BY <1>1, <1>2 DEF SQueues
      <4>2. F!In(s_freeLists'[t][j]) \subseteq F!In(lists[j]) /\ Once(s_freeLists'[t][j])
        BY <1>2, <1>3, <1>6
      <4>3. QED
        BY <3>2, <4>1, <4>2
    <3>3. QED
      BY <3>1, <3>2
  <2>3. QED
    BY <2>1, <2>2 DEF SQueues, Once, F!In
<1>11. \A x \in s_made' : x[1] \in s_pools'
  BY <1>1, <1>2
\* Where the nodes go.
<1> DEFINE X == New \cup B
           D == [x \in X |-> IF x \in B THEN <<"out", F!None>> ELSE <<"free", <<t, x[2]>>>>]
<1>12. DOMAIN D = X /\ \A x \in X : D[x] \in SWhere
  <2>1. \A x \in New : x[2] \in Sizes
    BY <1>2, SNodeIs
  <2>2. \A x \in X : x \notin B => x[2] \in Sizes
    BY <2>1
  <2>3. QED
    BY <2>2, SPlaceIs
<1>13. /\ \A x \in X : D[x] = <<"out", F!None>> <=> x \in B
       /\ \A x \in X : \A j \in Sizes : D[x] = <<"free", <<t, j>>>> <=> x \notin B /\ x[2] = j
       /\ \A x \in X : \A u \in Threads : /\ D[x] # <<"local", u>> /\ D[x] # <<"remote", u>>
                                          /\ \A j \in Sizes : u # t => D[x] # <<"free", <<u, j>>>>
       /\ \A x \in X : D[x] # <<"hand", F!None>>
  OBVIOUS
<1> HIDE DEF D
\* Nothing of X is anywhere but in the thread's own local queue and lists.
<1>14. ASSUME NEW p \in SWhere, NEW x \in X, x \in SPlace[p]
       PROVE  \/ p = <<"local", t>> /\ x \in New
              \/ p = <<"free", <<t, k>>>> /\ x \in B /\ x \notin New
  <2>1. x \in Kept(SPlace)
    BY <1>14, SPlaceIs DEF Kept
  <2>2. CASE x \in New
    <3>1. <<"local", t>> \in SWhere /\ x \in SPlace[<<"local", t>>]
      BY <1>2, <2>1, <2>2, SPlaceIs
    <3>2. QED
      BY <1>1, <1>14, <2>2, <3>1, SPlaceIs DEF Apart
  <2>3. CASE x \in B /\ x \notin New
    <3>1. x \in F!In(s_freeLists[t][k])
      BY <1>2, <1>3, <2>3
    <3>2. <<"free", <<t, k>>>> \in SWhere /\ x \in SPlace[<<"free", <<t, k>>>>]
      BY <3>1, SPlaceIs
    <3>3. QED
      BY <1>1, <1>14, <2>3, <3>2, SPlaceIs DEF Apart
  <2>4. QED
    BY <2>2, <2>3 DEF X
<1>15. s_out \cap X = {} /\ ({s_move.hand} \ {<<>>}) \cap X = {}
  <2>1. ASSUME NEW x \in X, x \in s_out PROVE FALSE
    BY <1>14, <2>1, SPlaceIs
  <2>2. ASSUME NEW x \in X, x \in {s_move.hand} \ {<<>>} PROVE FALSE
    BY <1>14, <2>2, SPlaceIs
  <2>3. QED
    BY <2>1, <2>2
<1>16. ASSUME NEW u \in Threads
       PROVE  /\ F!In(s_remote[u]) \cap X = {}
              /\ u # t => F!In(s_local[u]) \cap X = {}
              /\ u = t => F!In(s_local[u]) \cap X \subseteq New
              /\ \A j \in Sizes : /\ u # t => F!In(s_freeLists[u][j]) \cap X = {}
                                  /\ u = t => F!In(s_freeLists[u][j]) \cap X \subseteq B
  <2>1. ASSUME NEW x \in X, x \in F!In(s_remote[u]) PROVE FALSE
    <3> DEFINE p == <<"remote", u>>
    <3>1. p \in SWhere /\ x \in SPlace[p]
      BY <2>1, SPlaceIs
    <3>2. p # <<"local", t>> /\ p # <<"free", <<t, k>>>>
      OBVIOUS
    <3> HIDE DEF p
    <3>3. QED
      BY <1>14, <3>1, <3>2
  <2>2. ASSUME NEW x \in X, x \in F!In(s_local[u]) PROVE u = t /\ x \in New
    <3> DEFINE p == <<"local", u>>
    <3>1. p \in SWhere /\ x \in SPlace[p]
      BY <2>2, SPlaceIs
    <3>2. (p = <<"local", t>> <=> u = t) /\ p # <<"free", <<t, k>>>>
      OBVIOUS
    <3> HIDE DEF p
    <3>3. QED
      BY <1>14, <3>1, <3>2
  <2>3. ASSUME NEW j \in Sizes, NEW x \in X, x \in F!In(s_freeLists[u][j]) PROVE u = t /\ x \in B
    <3> DEFINE p == <<"free", <<u, j>>>>
    <3>1. p \in SWhere /\ x \in SPlace[p]
      BY <2>3, SPlaceIs
    <3>2. p # <<"local", t>> /\ (p = <<"free", <<t, k>>>> <=> u = t /\ j = k)
      OBVIOUS
    <3> HIDE DEF p
    <3>3. QED
      BY <1>14, <3>1, <3>2
  <2>4. QED
    BY <2>1, <2>2, <2>3
<1>17. SMoves(X, D)
  <2>1. s_out' = Moved(s_out, X, D, <<"out", F!None>>)
    BY <1>4, <1>12, <1>13, <1>15 DEF Moved
  <2>2. {s_move'.hand} \ {<<>>} = Moved({s_move.hand} \ {<<>>}, X, D, <<"hand", F!None>>)
    BY <1>2, <1>12, <1>13, <1>15 DEF Moved
  <2>3. ASSUME NEW u \in Threads
        PROVE  /\ F!In(s_local'[u]) = Moved(F!In(s_local[u]), X, D, <<"local", u>>)
               /\ F!In(s_remote'[u]) = Moved(F!In(s_remote[u]), X, D, <<"remote", u>>)
    <3>1. F!In(s_remote'[u]) = Moved(F!In(s_remote[u]), X, D, <<"remote", u>>)
      BY <1>2, <1>12, <1>13, <1>16 DEF Moved
    <3>2. CASE u # t
      BY <1>7, <1>12, <1>13, <1>16, <3>1, <3>2 DEF Moved
    <3>3. CASE u = t
      <4>1. F!In(s_local[t]) \ X = F!In(s_local[t]) \ New
        BY <1>16, <3>3
      <4>2. QED
        BY <1>2, <1>12, <1>13, <3>1, <3>3, <4>1 DEF Moved
    <3>4. QED
      BY <3>2, <3>3
  <2>4. ASSUME NEW u \in Threads, NEW j \in Sizes
        PROVE  F!In(s_freeLists'[u][j]) = Moved(F!In(s_freeLists[u][j]), X, D, <<"free", <<u, j>>>>)
    <3>1. CASE u # t
      BY <1>7, <1>12, <1>13, <1>16, <3>1 DEF Moved
    <3>2. CASE u = t
      <4>1. F!In(s_freeLists'[t][j]) = F!In(lists[j]) \ B
        <5>1. CASE j = k
          BY <1>3, <1>6, <5>1
        <5>2. CASE j # k
          <6>1. \A x \in F!In(lists[j]) : x[2] = j
            BY <1>1, <1>2 DEF SQueues
          <6>2. QED
            BY <1>6, <1>9, <5>2, <6>1
        <5>3. QED
          BY <5>1, <5>2
      <4>2. F!In(lists[j]) = F!In(s_freeLists[t][j]) \cup {x \in New : x[2] = j}
        BY <1>2
      <4>3. F!In(s_freeLists[t][j]) \cap X \subseteq B
        BY <1>16, <3>2
      <4>4. \A x \in X : x \notin B => x \in New
        OBVIOUS
      <4>5. {x \in DOMAIN D : D[x] = <<"free", <<t, j>>>>} = {x \in X : x \notin B /\ x[2] = j}
        BY <1>12, <1>13
      <4>6. F!In(lists[j]) \ B = (F!In(s_freeLists[t][j]) \ X) \cup {x \in X : x \notin B /\ x[2] = j}
        BY <4>2, <4>3, <4>4
      <4>7. QED
        BY <3>2, <4>1, <4>5, <4>6 DEF Moved
    <3>3. QED
      BY <3>1, <3>2
  <2>5. QED
    BY <2>1, <2>2, <2>3, <2>4 DEF SMoves
<1>18. Apart(SPlace)' /\ Kept(SPlace)' = (Kept(SPlace) \ X) \cup X
  BY <1>1, <1>12, <1>17, SMoved
<1>19. Kept(SPlace)' = s_made'
  <2>1. B \subseteq New \cup Kept(SPlace)
    <3>1. F!In(s_freeLists[t][k]) \subseteq Kept(SPlace)
      BY SPlaceIs DEF Kept
    <3>2. QED
      BY <1>2, <1>3, <3>1
  <2>2. QED
    BY <1>1, <1>2, <1>18, <2>1
<1>20. SInv'
  BY <1>8, <1>10, <1>11, <1>18, <1>19 DEF SInv
<1>21. QED
  BY <1>5, <1>20

LEMMA SGetFast ==
  ASSUME SInv, NEW t \in Threads, NEW k \in Sizes, S!GetFast(t, k)
  PROVE  SInv' /\ s_refused' = <<>>
<1>1. /\ t \in s_pools /\ s_freeLists[t][k] # <<>> /\ S!PopFree(t, s_freeLists[t], k)
      /\ UNCHANGED <<s_pools, s_made, s_local, s_remote, s_move>>
  BY DEF S!GetFast
<1>2. STypes /\ SQueues
  BY DEF SInv
<1> DEFINE lists == s_freeLists[t]
<1>3. SSupplied(t, lists, {})
  <2>1. lists \in [Sizes -> Seq(SNodes)] /\ \A j \in Sizes : Once(lists[j])
    BY <1>2 DEF STypes, SQueues
  <2>2. /\ s_local' = [s_local EXCEPT ![t] = s_local'[t]]
        /\ s_local'[t] \in Seq(SNodes) /\ Once(s_local'[t])
        /\ F!In(s_local'[t]) = F!In(s_local[t]) \ {}
    BY <1>1, <1>2 DEF STypes, SQueues
  <2>3. s_pools' = s_pools \cup {t} /\ s_made' = s_made \cup {}
    BY <1>1
  <2>4. QED
    BY <1>1, <2>1, <2>2, <2>3 DEF SSupplied
<1> HIDE DEF lists
<1>4. S!PopFree(t, lists, k)
  BY <1>1 DEF lists
<1>5. SInv'
  BY <1>3, <1>4, SGet
<1>6. s_refused' = <<>>
  BY <1>1 DEF S!PopFree
<1>7. QED
  BY <1>5, <1>6

\* The lists of a pool that is made.
LEMMA SuppliedIs ==
  ASSUME NEW t \in Threads
  PROVE  /\ S!Supplied(t) \in [Sizes -> Seq(SNodes)]
         /\ \A j \in Sizes : /\ Once(S!Supplied(t)[j])
                             /\ \A x \in F!In(S!Supplied(t)[j]) : x \in SNodes /\ x[1] = t /\ x[2] = j
<1>1. S!Supplied(t) = [k \in Sizes |-> [i \in 1..Count |-> <<t, k, Count + 1 - i>>]]
  BY DEF S!Supplied
<1>2. ASSUME NEW j \in Sizes
      PROVE  /\ S!Supplied(t)[j] \in Seq(SNodes) /\ Once(S!Supplied(t)[j])
             /\ \A x \in F!In(S!Supplied(t)[j]) : x \in SNodes /\ x[1] = t /\ x[2] = j
  <2> DEFINE q == S!Supplied(t)[j]
  <2>1. q = [i \in 1..Count |-> <<t, j, Count + 1 - i>>]
    BY <1>1
  <2> HIDE DEF q
  <2>2. \A i \in 1..Count : Count + 1 - i \in 1..Count
    BY SlabCount
  <2>3. \A i \in 1..Count : q[i] = <<t, j, Count + 1 - i>> /\ q[i] \in SNodes
    BY <2>1, <2>2 DEF SNodes
  <2>4. q \in Seq(SNodes) /\ Len(q) = Count
    <3>1. q \in [1..Count -> SNodes]
      BY <2>1, <2>3
    <3>2. QED
      BY <3>1, SlabCount, SeqDef, LenProperties
  <2>5. Once(q)
    <3> SUFFICES ASSUME NEW a \in 1..Count, NEW b \in 1..Count, q[a] = q[b]
                 PROVE  a = b
      BY <2>4 DEF Once
    <3>1. Count + 1 - a = Count + 1 - b
      BY <2>3
    <3>2. QED
      BY <3>1, SlabCount
  <2>6. \A x \in F!In(q) : x \in SNodes /\ x[1] = t /\ x[2] = j
    BY <2>3, <2>4 DEF F!In
  <2>7. QED
    BY <2>4, <2>5, <2>6 DEF q
<1>3. S!Supplied(t) \in [Sizes -> Seq(SNodes)]
  BY <1>1, <1>2
<1>4. QED
  BY <1>2, <1>3

\* A thread without a pool has nothing.
LEMMA SNone ==
  ASSUME SInv, NEW t \in Threads, t \notin s_pools
  PROVE  F!In(s_local[t]) = {} /\ \A k \in Sizes : F!In(s_freeLists[t][k]) = {}
<1>1. \A x \in Kept(SPlace) : x[1] # t
  BY DEF SInv
<1>2. F!In(s_local[t]) \subseteq Kept(SPlace) /\ \A x \in F!In(s_local[t]) : x[1] = t
  <2>1. F!In(s_local[t]) \subseteq Kept(SPlace)
    BY SPlaceIs DEF Kept
  <2>2. QED
    BY <2>1 DEF SInv, SQueues
<1>3. ASSUME NEW k \in Sizes
      PROVE  F!In(s_freeLists[t][k]) \subseteq Kept(SPlace) /\ \A x \in F!In(s_freeLists[t][k]) : x[1] = t
  <2>1. F!In(s_freeLists[t][k]) \subseteq Kept(SPlace)
    BY SPlaceIs DEF Kept
  <2>2. QED
    BY <2>1 DEF SInv, SQueues
<1>4. QED
  BY <1>1, <1>2, <1>3

LEMMA SGetCreate ==
  ASSUME SInv, NEW t \in Threads, NEW k \in Sizes, S!GetCreate(t, k)
  PROVE  /\ SInv'
         /\ s_refused' # <<>> =>
              /\ s_refused' = <<t, k>> /\ F!In(s_freeLists[t][k]) = {}
              /\ \A x \in F!In(s_local[t]) : x[2] # k
<1> DEFINE lists == S!Supplied(t)
           New == UNION {S!InQueue(lists[j]) : j \in Sizes}
<1>1. /\ t \notin s_pools /\ s_pools' = s_pools \cup {t} /\ s_made' = s_made \cup New
      /\ S!PopFree(t, lists, k) /\ UNCHANGED <<s_local, s_remote, s_move>>
  BY DEF S!GetCreate
<1>2. /\ lists \in [Sizes -> Seq(SNodes)]
      /\ \A j \in Sizes : /\ Once(lists[j])
                          /\ \A x \in F!In(lists[j]) : x \in SNodes /\ x[1] = t /\ x[2] = j
  BY SuppliedIs
<1> HIDE DEF lists
<1>3. \A q : S!InQueue(q) = F!In(q)
  BY DEF S!InQueue, F!In
<1>4. \A x : x \in New <=> \E j \in Sizes : x \in F!In(lists[j])
  BY <1>3
<1> HIDE DEF New
<1>5. /\ New \subseteq SNodes /\ \A x \in New : x[1] = t
      /\ \A j \in Sizes : F!In(lists[j]) = {x \in New : x[2] = j}
  BY <1>2, <1>4
<1>6. F!In(s_local[t]) = {} /\ \A j \in Sizes : F!In(s_freeLists[t][j]) = {}
  BY <1>1, SNone
<1>7. \A x \in New : x \notin Kept(SPlace)
  BY <1>1, <1>5 DEF SInv
<1>8. SSupplied(t, lists, New)
  <2>1. /\ s_local' = [s_local EXCEPT ![t] = s_local'[t]]
        /\ s_local'[t] \in Seq(SNodes) /\ Once(s_local'[t])
        /\ F!In(s_local'[t]) = F!In(s_local[t]) \ New
    BY <1>1, <1>6 DEF SInv, STypes, SQueues
  <2>2. \A j \in Sizes : F!In(lists[j]) = F!In(s_freeLists[t][j]) \cup {x \in New : x[2] = j}
    BY <1>5, <1>6
  <2>3. QED
    BY <1>1, <1>2, <1>5, <1>7, <2>1, <2>2 DEF SSupplied
<1>9. SInv' /\ (s_refused' # <<>> => s_refused' = <<t, k>> /\ F!In(s_freeLists[t][k]) = {})
  BY <1>1, <1>8, SGet
<1>10. QED
  BY <1>6, <1>9

-----------------------------------------------------------------------------
(* What a slow get takes back *)

LEMMA TakenIs ==
  ASSUME NEW q \in Seq(SNodes), NEW k \in Sizes
  PROVE  /\ S!Taken(q, k) \in 0..Len(q) /\ Len(q) \in Nat
         /\ S!Taken(q, k) = Len(q) \/ \E i \in 1..S!Taken(q, k) : q[i][2] = k
<1>1. Len(q) \in Nat
  BY LenProperties
<1> DEFINE enough == {n \in 1..Len(q) : n >= Threshold /\ \E i \in 1..n : q[i][2] = k}
<1>2. S!Taken(q, k) = IF enough = {} THEN Len(q)
                      ELSE CHOOSE n \in enough : \A m \in enough : n <= m
  BY DEF S!Taken
<1>3. CASE enough = {}
  BY <1>1, <1>2, <1>3
<1>4. CASE enough # {}
  <2>1. enough \subseteq Nat
    BY <1>1
  <2>2. \A n \in enough : n \in 0..Len(q) /\ \E i \in 1..n : q[i][2] = k
    BY <1>1
  <2> HIDE DEF enough
  <2>3. \E n \in enough : \A m \in enough : n <= m
    BY <1>4, <2>1, LeastNumber
  <2>4. S!Taken(q, k) \in enough
    BY <1>2, <1>4, <2>3
  <2>5. QED
    BY <1>1, <2>2, <2>4
<1>5. QED
  BY <1>3, <1>4

\* A node at the head of the list of its slot.
Listed(lists, x) == [lists EXCEPT ![x[2]] = <<x>> \o @]

LEMMA RecycledSteps ==
  ASSUME NEW lists, NEW q, NEW n \in Nat
  PROVE  \E f : /\ f = [i \in 0..n |-> IF i = 0 THEN lists
                                       ELSE Listed(f[i - 1], q[i])]
                /\ S!Recycled(lists, q, n) = f[n]
<1> DEFINE T == {m \in Nat : \E f : f = [i \in 0..m |-> IF i = 0 THEN lists
                               ELSE Listed(f[i - 1], q[i])]}
<1>1. 0 \in T
  <2> DEFINE f == [i \in 0..0 |-> lists]
  <2>1. f = [i \in 0..0 |-> IF i = 0 THEN lists
                            ELSE Listed(f[i - 1], q[i])]
    OBVIOUS
  <2> HIDE DEF f
  <2>2. QED
    BY <2>1
<1>2. ASSUME NEW m \in Nat, m \in T
      PROVE  m + 1 \in T
  <2>1. PICK f : f = [i \in 0..m |-> IF i = 0 THEN lists
                        ELSE Listed(f[i - 1], q[i])]
    BY <1>2
  <2> DEFINE g == [i \in 0..(m + 1) |-> IF i = 0 THEN lists
                     ELSE Listed(f[i - 1], q[i])]
  <2>2. \A i \in 0..m : g[i] = f[i]
    BY <2>1
  <2>3. \A i \in 0..(m + 1) : i # 0 => i - 1 \in 0..m
    OBVIOUS
  <2>4. g = [i \in 0..(m + 1) |-> IF i = 0 THEN lists
               ELSE Listed(g[i - 1], q[i])]
    BY <2>2, <2>3
  <2> HIDE DEF g
  <2>5. QED
    BY <2>4
<1> HIDE DEF T
<1>3. n \in T
  BY <1>1, <1>2, AllNumbers
<1>4. QED
  BY <1>3 DEF T, S!Recycled, Listed

\* Every node comes to the list of its slot.
LEMMA RecycledIs ==
  ASSUME NEW lists \in [Sizes -> Seq(SNodes)], NEW q \in Seq(SNodes), Once(q),
         NEW n \in 0..Len(q), \A j \in Sizes : Once(lists[j]),
         \A i \in 1..n : \A j \in Sizes : q[i] \notin F!In(lists[j])
  PROVE  /\ S!Recycled(lists, q, n) \in [Sizes -> Seq(SNodes)]
         /\ \A j \in Sizes :
              /\ Once(S!Recycled(lists, q, n)[j])
              /\ F!In(S!Recycled(lists, q, n)[j])
                   = F!In(lists[j]) \cup {x \in {q[i] : i \in 1..n} : x[2] = j}
<1>1. Len(q) \in Nat /\ n \in Nat /\ \A i \in 1..n : i \in 1..Len(q) /\ q[i] \in SNodes
  BY LenProperties, ElementOfSeq
<1>2. PICK f : /\ f = [i \in 0..n |-> IF i = 0 THEN lists
                                      ELSE Listed(f[i - 1], q[i])]
               /\ S!Recycled(lists, q, n) = f[n]
  BY <1>1, RecycledSteps
<1> DEFINE Came(m) == {q[i] : i \in 1..m}
           Good(m) == /\ f[m] \in [Sizes -> Seq(SNodes)]
                      /\ \A j \in Sizes :
                           /\ Once(f[m][j])
                           /\ F!In(f[m][j]) = F!In(lists[j]) \cup {x \in Came(m) : x[2] = j}
           T == {m \in Nat : m <= n => Good(m)}
<1>3. 0 \in T
  <2>1. Came(0) = {} /\ f[0] = lists
    BY <1>1, <1>2
  <2>2. QED
    BY <2>1
<1>4. ASSUME NEW m \in Nat, m \in T
      PROVE  m + 1 \in T
  <2> SUFFICES ASSUME m + 1 <= n
               PROVE  Good(m + 1)
    OBVIOUS
  <2> DEFINE x == q[m + 1]
             was == f[m]
  <2>1. m + 1 \in 1..n /\ m <= n /\ m + 1 \in 0..n /\ m + 1 # 0 /\ m + 1 - 1 = m
    BY <1>1
  <2>2. Good(m)
    BY <1>4, <2>1
  <2>3. f[m + 1] = [was EXCEPT ![x[2]] = <<x>> \o @]
    <3>1. f[m + 1] = Listed(f[m + 1 - 1], q[m + 1])
      BY <1>2, <2>1
    <3>2. f[m + 1] = Listed(was, x)
      BY <2>1, <3>1
    <3>3. QED
      BY <3>2 DEF Listed
  <2>4. x \in SNodes /\ x[2] \in Sizes
    BY <1>1, <2>1, SNodeIs
  <2>5. \A j \in Sizes : x \notin F!In(lists[j])
    BY <2>1
  <2>6. x \notin Came(m)
    <3> SUFFICES ASSUME NEW i \in 1..m, q[i] = q[m + 1] PROVE FALSE
      OBVIOUS
    <3>1. i \in 1..Len(q) /\ m + 1 \in 1..Len(q) /\ i # m + 1
      BY <1>1, <2>1
    <3>2. QED
      BY <3>1 DEF Once
  <2>7. Came(m + 1) = Came(m) \cup {x}
    <3>1. 1..(m + 1) = (1..m) \cup {m + 1}
      OBVIOUS
    <3>2. QED
      BY <3>1
  <2>8. /\ was \in [Sizes -> Seq(SNodes)]
        /\ \A j \in Sizes : /\ Once(was[j])
                            /\ F!In(was[j]) = F!In(lists[j]) \cup {y \in Came(m) : y[2] = j}
    BY <2>2
  <2> HIDE DEF x, was, Came
  <2> DEFINE r == <<x>> \o was[x[2]]
  <2>9. r \in Seq(SNodes) /\ Once(r) /\ F!In(r) = F!In(was[x[2]]) \cup {x}
    <3>1. was[x[2]] \in Seq(SNodes) /\ Once(was[x[2]]) /\ x \notin F!In(was[x[2]])
      BY <2>4, <2>5, <2>6, <2>8
    <3>2. QED
      BY <2>4, <3>1, QueueCons
  <2>10. f[m + 1] = [was EXCEPT ![x[2]] = r]
    BY <2>3
  <2> HIDE DEF r
  <2>11. f[m + 1] \in [Sizes -> Seq(SNodes)]
    BY <2>8, <2>9, <2>10
  <2>12. \A j \in Sizes : f[m + 1][j] = IF j = x[2] THEN r ELSE was[j]
    BY <2>8, <2>10
  <2>13. ASSUME NEW j \in Sizes
         PROVE  /\ Once(f[m + 1][j])
                /\ F!In(f[m + 1][j]) = F!In(lists[j]) \cup {y \in Came(m + 1) : y[2] = j}
    <3>1. CASE j = x[2]
      <4>1. f[m + 1][j] = r /\ F!In(r) = F!In(was[j]) \cup {x}
        BY <2>9, <2>12, <3>1
      <4>2. F!In(was[j]) = F!In(lists[j]) \cup {y \in Came(m) : y[2] = j}
        BY <2>8
      <4>3. {y \in Came(m + 1) : y[2] = j} = {y \in Came(m) : y[2] = j} \cup {x}
        BY <2>7, <3>1
      <4>4. QED
        BY <2>9, <4>1, <4>2, <4>3
    <3>2. CASE j # x[2]
      <4>1. f[m + 1][j] = was[j]
        BY <2>12, <3>2
      <4>2. {y \in Came(m + 1) : y[2] = j} = {y \in Came(m) : y[2] = j}
        BY <2>7, <3>2
      <4>3. QED
        BY <2>8, <4>1, <4>2
    <3>3. QED
      BY <3>1, <3>2
  <2>14. QED
    BY <2>11, <2>13
<1> HIDE DEF T
<1>5. n \in T
  BY <1>1, <1>3, <1>4, AllNumbers
<1>6. Good(n)
  BY <1>1, <1>5 DEF T
<1>7. QED
  BY <1>2, <1>6

\* What is left of a queue.
LEMMA QueueRest ==
  ASSUME NEW U, NEW q \in Seq(U), Once(q), NEW n \in 0..Len(q)
  PROVE  /\ SubSeq(q, n + 1, Len(q)) \in Seq(U) /\ Once(SubSeq(q, n + 1, Len(q)))
         /\ F!In(SubSeq(q, n + 1, Len(q))) = F!In(q) \ {q[i] : i \in 1..n}
<1> DEFINE l == Len(q)
           r == SubSeq(q, n + 1, l)
<1>1. l \in Nat /\ n \in Nat /\ n <= l /\ \A i \in 1..l : q[i] \in U
  BY LenProperties, ElementOfSeq
<1>2. /\ r \in Seq(U) /\ Len(r) = l - n
      /\ \A i \in 1..(l - n) : r[i] = q[i + n]
  <2>1. n + 1 \in 1..(l + 1) /\ \A i \in (n + 1)..l : q[i] \in U
    BY <1>1
  <2>2. Len(r) = l - n /\ r \in Seq(U) /\ \A i \in 1..Len(r) : r[i] = q[n + 1 + i - 1]
    BY <1>1, <2>1, SubSeqProperties
  <2> HIDE DEF r
  <2>3. \A i \in 1..Len(r) : n + 1 + i - 1 = i + n
    BY <1>1, <2>2
  <2>4. QED
    BY <2>2, <2>3
<1> HIDE DEF l, r
<1>3. \A i \in 1..(l - n) : i + n \in 1..l /\ i + n \notin 1..n
  BY <1>1
<1>4. \A i \in 1..l : i \notin 1..n => i - n \in 1..(l - n) /\ r[i - n] = q[i]
  BY <1>1, <1>2
<1>5. Once(r)
  <2> SUFFICES ASSUME NEW a \in 1..(l - n), NEW b \in 1..(l - n), r[a] = r[b]
               PROVE  a = b
    BY <1>2 DEF Once
  <2>1. a + n = b + n
    BY <1>2, <1>3 DEF Once, l
  <2>2. QED
    BY <1>1, <2>1
<1>6. F!In(r) = F!In(q) \ {q[i] : i \in 1..n}
  <2>1. ASSUME NEW i \in 1..(l - n)
        PROVE  r[i] \in F!In(q) /\ r[i] \notin {q[j] : j \in 1..n}
    <3>1. \A j \in 1..n : j \in 1..l
      BY <1>1
    <3>2. QED
      BY <1>2, <1>3, <3>1 DEF F!In, Once, l
  <2>2. ASSUME NEW i \in 1..l, q[i] \notin {q[j] : j \in 1..n}
        PROVE  \E j \in 1..(l - n) : r[j] = q[i]
    BY <1>4, <2>2
  <2>3. F!In(r) \subseteq F!In(q) \ {q[i] : i \in 1..n}
    BY <1>2, <2>1 DEF F!In
  <2>4. \A x \in F!In(q) : \E i \in 1..l : x = q[i]
    BY DEF F!In, l
  <2>5. ASSUME NEW x \in F!In(q), x \notin {q[i] : i \in 1..n}
        PROVE  x \in F!In(r)
    <3>1. PICK i \in 1..l : x = q[i]
      BY <2>4
    <3>2. q[i] \notin {q[j] : j \in 1..n}
      BY <2>5, <3>1
    <3>3. PICK j \in 1..(l - n) : r[j] = q[i]
      BY <2>2, <3>2
    <3>4. j \in 1..Len(r) /\ r[j] = x
      BY <1>2, <3>1, <3>3
    <3>5. QED
      BY <3>4 DEF F!In
  <2>6. QED
    BY <2>3, <2>5
<1>7. QED
  BY <1>2, <1>5, <1>6 DEF r, l

LEMMA SGetSlow ==
  ASSUME SInv, NEW t \in Threads, NEW k \in Sizes, S!GetSlow(t, k)
  PROVE  /\ SInv'
         /\ s_refused' # <<>> =>
              /\ s_refused' = <<t, k>> /\ F!In(s_freeLists[t][k]) = {}
              /\ \A x \in F!In(s_local[t]) : x[2] # k
<1> DEFINE q == s_local[t]
           n == S!Taken(q, k)
           lists == S!Recycled(s_freeLists[t], q, n)
           New == {q[i] : i \in 1..n}
<1>1. /\ t \in s_pools /\ S!PopFree(t, lists, k)
      /\ s_local' = [s_local EXCEPT ![t] = SubSeq(@, n + 1, Len(@))]
      /\ UNCHANGED <<s_pools, s_made, s_remote, s_move>>
  BY DEF S!GetSlow
<1>2. /\ STypes /\ SQueues /\ Apart(SPlace) /\ Kept(SPlace) = s_made
      /\ q \in Seq(SNodes) /\ Once(q)
      /\ s_freeLists[t] \in [Sizes -> Seq(SNodes)] /\ \A j \in Sizes : Once(s_freeLists[t][j])
  BY DEF SInv, STypes, SQueues
<1>3. /\ n \in 0..Len(q) /\ Len(q) \in Nat
      /\ n = Len(q) \/ \E i \in 1..n : q[i][2] = k
  BY <1>2, TakenIs
<1> HIDE DEF n
<1>4. \A i \in 1..n : i \in 1..Len(q)
  BY <1>3
<1>5. New \subseteq F!In(q)
  BY <1>4 DEF F!In
<1>6. ASSUME NEW x \in F!In(q), NEW j \in Sizes PROVE x \notin F!In(s_freeLists[t][j])
  <2> DEFINE a == <<"local", t>>
             b == <<"free", <<t, j>>>>
  <2>1. a \in SWhere /\ b \in SWhere /\ SPlace[a] = F!In(q) /\ SPlace[b] = F!In(s_freeLists[t][j])
    BY SPlaceIs
  <2>2. a # b
    OBVIOUS
  <2> HIDE DEF a, b
  <2>3. QED
    BY <1>2, <2>1, <2>2, SPlaceIs DEF Apart
<1>7. /\ lists \in [Sizes -> Seq(SNodes)]
      /\ \A j \in Sizes : /\ Once(lists[j])
                          /\ F!In(lists[j]) = F!In(s_freeLists[t][j]) \cup {x \in New : x[2] = j}
  <2>1. \A i \in 1..n : \A j \in Sizes : q[i] \notin F!In(s_freeLists[t][j])
    BY <1>4, <1>6 DEF F!In
  <2> HIDE DEF q
  <2>2. QED
    BY <1>2, <1>3, <2>1, RecycledIs
<1>8. /\ SubSeq(q, n + 1, Len(q)) \in Seq(SNodes) /\ Once(SubSeq(q, n + 1, Len(q)))
      /\ F!In(SubSeq(q, n + 1, Len(q))) = F!In(q) \ New
  BY <1>2, <1>3, QueueRest
<1> HIDE DEF lists
<1>9. SSupplied(t, lists, New)
  <2>1. s_local'[t] = SubSeq(q, n + 1, Len(q))
    BY <1>1, <1>2 DEF STypes
  <2>2. /\ s_local' = [s_local EXCEPT ![t] = s_local'[t]]
        /\ s_local'[t] \in Seq(SNodes) /\ Once(s_local'[t])
        /\ F!In(s_local'[t]) = F!In(s_local[t]) \ New
    BY <1>1, <1>8, <2>1
  <2>3. New \subseteq SNodes /\ \A x \in New : x[1] = t
    BY <1>2, <1>5, SQueueHas DEF SQueues
  <2>4. New \subseteq s_made
    <3>1. F!In(s_local[t]) \subseteq Kept(SPlace)
      BY SPlaceIs DEF Kept
    <3>2. QED
      BY <1>2, <1>5, <3>1
  <2> HIDE DEF New
  <2>5. QED
    BY <1>1, <1>5, <1>7, <2>2, <2>3, <2>4 DEF SSupplied
<1>10. /\ SInv'
       /\ s_refused' # <<>> => /\ s_refused' = <<t, k>> /\ F!In(s_freeLists[t][k]) = {}
                               /\ \A x \in New : x[2] # k
  <2> HIDE DEF New
  <2>1. QED
    BY <1>1, <1>9, SGet
<1>11. (\A x \in New : x[2] # k) => New = F!In(q)
  BY <1>3 DEF F!In
<1>12. QED
  BY <1>10, <1>11

-----------------------------------------------------------------------------
(* SlabPool: a node that moves *)

LEMMA SPut ==
  ASSUME SInv, NEW t \in Threads, NEW x \in s_out, S!Put(t, x)
  PROVE  SInv'
<1>1. /\ STypes /\ SQueues /\ Apart(SPlace) /\ Kept(SPlace) = s_made
      /\ \A y \in s_made : y[1] \in s_pools
  BY DEF SInv
<1>2. /\ s_out' = s_out \ {x} /\ s_pools' = s_pools \cup {t}
      /\ UNCHANGED <<s_made, s_local, s_move>>
  BY DEF S!Put
<1>3. x \in SNodes /\ x[1] \in Threads /\ x[2] \in Sizes
  <2>1. x \in SNodes
    BY <1>1 DEF STypes
  <2>2. QED
    BY <2>1, SNodeIs
<1>4. x \in Kept(SPlace) /\ x \in s_made
  BY <1>1, SPlaceIs DEF Kept
\* It is nowhere else.
<1>5. \A p \in SWhere : x \in SPlace[p] => p = <<"out", F!None>>
  BY <1>1, SPlaceIs DEF Apart
<1>6. /\ x \notin {s_move.hand} \ {<<>>}
      /\ \A u \in Threads : x \notin F!In(s_local[u]) /\ x \notin F!In(s_remote[u])
  BY <1>5, SPlaceIs
<1>7. ASSUME NEW u \in Threads, NEW j \in Sizes PROVE x \notin F!In(s_freeLists[u][j])
  <2> DEFINE p == <<"free", <<u, j>>>>
  <2>1. p \in SWhere /\ SPlace[p] = F!In(s_freeLists[u][j]) /\ p # <<"out", F!None>>
    BY SPlaceIs
  <2> HIDE DEF p
  <2>2. QED
    BY <1>5, <2>1
<1> DEFINE k == x[2]
           own == s_freeLists[t][k]
           far == s_remote[t]
           X == {x}
           to == IF x[1] = t THEN <<"free", <<t, k>>>> ELSE <<"remote", t>>
           D == [y \in X |-> to]
<1>8. DOMAIN D = X /\ (\A y \in X : D[y] = to) /\ to \in SWhere
  BY <1>3, SPlaceIs
<1>9. /\ \A u \in Threads : /\ to # <<"local", u>>
                            /\ (to = <<"remote", u>> <=> u = t /\ x[1] # t)
                            /\ \A j \in Sizes : to = <<"free", <<u, j>>>> <=> u = t /\ j = k /\ x[1] = t
      /\ to # <<"out", F!None>> /\ to # <<"hand", F!None>>
  OBVIOUS
<1> HIDE DEF D, to
<1>10. \A p : {y \in DOMAIN D : D[y] = p} = IF to = p THEN {x} ELSE {}
  BY <1>8
<1>11. own \in Seq(SNodes) /\ Once(own) /\ far \in Seq(SNodes) /\ Once(far)
       /\ x \notin F!In(own) /\ x \notin F!In(far)
  BY <1>1, <1>3, <1>6, <1>7 DEF STypes, SQueues
<1> DEFINE r == IF x[1] = t THEN <<x>> \o own ELSE own
           f == IF x[1] = t THEN far ELSE Append(far, x)
<1>12. /\ r \in Seq(SNodes) /\ Once(r) /\ F!In(r) = F!In(own) \cup (IF x[1] = t THEN {x} ELSE {})
       /\ f \in Seq(SNodes) /\ Once(f) /\ F!In(f) = F!In(far) \cup (IF x[1] = t THEN {} ELSE {x})
  <2> HIDE DEF own, far
  <2>1. CASE x[1] = t
    BY <1>3, <1>11, <2>1, QueueCons
  <2>2. CASE x[1] # t
    BY <1>3, <1>11, <2>2, QueueAppend
  <2>3. QED
    BY <2>1, <2>2
<1>13. /\ s_freeLists' = [s_freeLists EXCEPT ![t] = [s_freeLists[t] EXCEPT ![k] = r]]
       /\ s_remote' = [s_remote EXCEPT ![t] = f]
  BY <1>1, <1>3 DEF S!Put, STypes
<1> HIDE DEF r, f
<1>14. \A u \in Threads : /\ s_remote'[u] = (IF u = t THEN f ELSE s_remote[u])
                          /\ \A j \in Sizes : s_freeLists'[u][j] =
                               IF u = t /\ j = k THEN r ELSE s_freeLists[u][j]
  BY <1>1, <1>13 DEF STypes
<1>15. STypes'
  <2>1. s_freeLists' \in [Threads -> [Sizes -> Seq(SNodes)]]
    BY <1>1, <1>12, <1>13 DEF STypes
  <2>2. s_remote' \in [Threads -> Seq(SNodes)]
    BY <1>1, <1>12, <1>13 DEF STypes
  <2>3. s_pools' \subseteq Threads /\ s_out' \subseteq SNodes
    BY <1>1, <1>2 DEF STypes
  <2>4. QED
    BY <1>1, <1>2, <2>1, <2>2, <2>3 DEF STypes, SNodes
<1>16. SQueues'
  <2>1. ASSUME NEW u \in Threads
        PROVE  Once(s_local'[u]) /\ Once(s_remote'[u]) /\ \A y \in F!In(s_local'[u]) : y[1] = u
    BY <1>1, <1>2, <1>12, <1>14 DEF SQueues
  <2>2. ASSUME NEW u \in Threads, NEW j \in Sizes
        PROVE  /\ Once(s_freeLists'[u][j])
               /\ \A y \in F!In(s_freeLists'[u][j]) : y[1] = u /\ y[2] = j
    <3>1. CASE u = t /\ j = k
      <4>1. \A y \in F!In(r) : y[1] = t /\ y[2] = k
        BY <1>1, <1>3, <1>12 DEF SQueues
      <4>2. QED
        BY <1>12, <1>14, <3>1, <4>1
    <3>2. CASE ~(u = t /\ j = k)
      BY <1>1, <1>14, <3>2 DEF SQueues
    <3>3. QED
      BY <3>1, <3>2
  <2>3. QED
    BY <2>1, <2>2 DEF SQueues, Once, F!In
<1>17. SMoves(X, D)
  <2>1. s_out' = Moved(s_out, X, D, <<"out", F!None>>)
    BY <1>2, <1>9, <1>10 DEF Moved
  <2>2. {s_move'.hand} \ {<<>>} = Moved({s_move.hand} \ {<<>>}, X, D, <<"hand", F!None>>)
    BY <1>2, <1>6, <1>9, <1>10 DEF Moved
  <2>3. ASSUME NEW u \in Threads
        PROVE  /\ F!In(s_local'[u]) = Moved(F!In(s_local[u]), X, D, <<"local", u>>)
               /\ F!In(s_remote'[u]) = Moved(F!In(s_remote[u]), X, D, <<"remote", u>>)
    <3>1. F!In(s_local'[u]) = Moved(F!In(s_local[u]), X, D, <<"local", u>>)
      BY <1>2, <1>6, <1>9, <1>10 DEF Moved
    <3>2. Moved(F!In(s_remote[u]), X, D, <<"remote", u>>)
            = F!In(s_remote[u]) \cup (IF u = t /\ x[1] # t THEN {x} ELSE {})
      BY <1>6, <1>9, <1>10 DEF Moved
    <3>3. F!In(s_remote'[u]) = F!In(s_remote[u]) \cup (IF u = t /\ x[1] # t THEN {x} ELSE {})
      <4>1. CASE u = t
        BY <1>12, <1>14, <4>1
      <4>2. CASE u # t
        BY <1>14, <4>2
      <4>3. QED
        BY <4>1, <4>2
    <3>4. QED
      BY <3>1, <3>2, <3>3
  <2>4. ASSUME NEW u \in Threads, NEW j \in Sizes
        PROVE  F!In(s_freeLists'[u][j]) = Moved(F!In(s_freeLists[u][j]), X, D, <<"free", <<u, j>>>>)
    <3>1. Moved(F!In(s_freeLists[u][j]), X, D, <<"free", <<u, j>>>>)
            = F!In(s_freeLists[u][j]) \cup (IF u = t /\ j = k /\ x[1] = t THEN {x} ELSE {})
      BY <1>7, <1>9, <1>10 DEF Moved
    <3>2. CASE u = t /\ j = k
      BY <1>12, <1>14, <3>1, <3>2
    <3>3. CASE ~(u = t /\ j = k)
      BY <1>14, <3>1, <3>3
    <3>4. QED
      BY <3>2, <3>3
  <2>5. QED
    BY <2>1, <2>2, <2>3, <2>4 DEF SMoves
<1>18. Apart(SPlace)' /\ Kept(SPlace)' = (Kept(SPlace) \ X) \cup X
  BY <1>1, <1>8, <1>17, SMoved
<1>19. Kept(SPlace)' = s_made' /\ \A y \in s_made' : y[1] \in s_pools'
  BY <1>1, <1>2, <1>4, <1>18
<1>20. QED
  BY <1>15, <1>16, <1>18, <1>19 DEF SInv

\* The background thread takes the head of a remote queue in hand,
LEMMA SMovePop == ASSUME SInv, S!MovePop PROVE SInv'
<1>1. /\ STypes /\ SQueues /\ Apart(SPlace) /\ Kept(SPlace) = s_made
      /\ \A y \in s_made : y[1] \in s_pools
  BY DEF SInv
<1> DEFINE w == s_move.cur
           was == s_remote[w]
           r == Tail(was)
           x == was[1]
           X == {x}
           to == <<"hand", F!None>>
           D == [y \in X |-> to]
<1>2. /\ w # F!None /\ s_move.hand = <<>> /\ was # <<>>
      /\ s_move' = [s_move EXCEPT !.hand = x] /\ s_remote' = [s_remote EXCEPT ![w] = r]
      /\ UNCHANGED <<s_pools, s_made, s_freeLists, s_out, s_local>>
  BY DEF S!MovePop, S!Others
<1>3. w \in Threads /\ was \in Seq(SNodes) /\ Once(was)
  BY <1>1, <1>2 DEF STypes, SQueues
<1>4. /\ r \in Seq(SNodes) /\ x \in SNodes /\ x \in F!In(was) /\ F!In(r) = F!In(was) \ {x} /\ Once(r)
  BY <1>2, <1>3, QueueHead
<1>5. s_move'.hand = x /\ x # <<>>
  BY <1>1, <1>2, <1>4, SNodeIs DEF STypes
<1>6. \A u \in Threads : s_remote'[u] = IF u = w THEN r ELSE s_remote[u]
  BY <1>1, <1>2 DEF STypes
<1>7. DOMAIN D = X /\ (\A y \in X : D[y] = to) /\ to \in SWhere
  BY SPlaceIs
<1>8. /\ \A u \in Threads : /\ to # <<"local", u>> /\ to # <<"remote", u>>
                            /\ \A j \in Sizes : to # <<"free", <<u, j>>>>
      /\ to # <<"out", F!None>> /\ to = <<"hand", F!None>>
  OBVIOUS
<1> HIDE DEF D, to, r, x, w, was
<1>9. \A p : {y \in DOMAIN D : D[y] = p} = IF to = p THEN {x} ELSE {}
  BY <1>7
<1>10. \A p \in SWhere : x \in SPlace[p] => p = <<"remote", w>>
  <2>1. <<"remote", w>> \in SWhere /\ x \in SPlace[<<"remote", w>>]
    BY <1>3, <1>4, SPlaceIs DEF was
  <2>2. QED
    BY <1>1, <2>1, SPlaceIs DEF Apart
<1>11. x \notin s_out
  BY <1>10, SPlaceIs
<1>12. ASSUME NEW u \in Threads PROVE x \notin F!In(s_local[u]) /\ (u # w => x \notin F!In(s_remote[u]))
  BY <1>10, SPlaceIs
<1>13. ASSUME NEW u \in Threads, NEW j \in Sizes PROVE x \notin F!In(s_freeLists[u][j])
  <2> DEFINE p == <<"free", <<u, j>>>>
  <2>1. p \in SWhere /\ SPlace[p] = F!In(s_freeLists[u][j]) /\ p # <<"remote", w>>
    BY SPlaceIs
  <2> HIDE DEF p
  <2>2. QED
    BY <1>10, <2>1
<1>14. SMoves(X, D)
  <2>1. s_out' = Moved(s_out, X, D, <<"out", F!None>>)
    BY <1>2, <1>8, <1>9, <1>11 DEF Moved
  <2>2. {s_move'.hand} \ {<<>>} = Moved({s_move.hand} \ {<<>>}, X, D, <<"hand", F!None>>)
    <3>1. {s_move'.hand} \ {<<>>} = {x} /\ {s_move.hand} \ {<<>>} = {}
      BY <1>2, <1>5
    <3>2. QED
      BY <1>8, <1>9, <3>1 DEF Moved
  <2>3. ASSUME NEW u \in Threads
        PROVE  /\ F!In(s_local'[u]) = Moved(F!In(s_local[u]), X, D, <<"local", u>>)
               /\ F!In(s_remote'[u]) = Moved(F!In(s_remote[u]), X, D, <<"remote", u>>)
    <3>1. F!In(s_local'[u]) = Moved(F!In(s_local[u]), X, D, <<"local", u>>)
      BY <1>2, <1>8, <1>9, <1>12 DEF Moved
    <3>2. CASE u = w
      BY <1>4, <1>6, <1>8, <1>9, <3>1, <3>2 DEF Moved, was
    <3>3. CASE u # w
      BY <1>6, <1>8, <1>9, <1>12, <3>1, <3>3 DEF Moved
    <3>4. QED
      BY <3>2, <3>3
  <2>4. ASSUME NEW u \in Threads, NEW j \in Sizes
        PROVE  F!In(s_freeLists'[u][j]) = Moved(F!In(s_freeLists[u][j]), X, D, <<"free", <<u, j>>>>)
    BY <1>2, <1>8, <1>9, <1>13 DEF Moved
  <2>5. QED
    BY <2>1, <2>2, <2>3, <2>4 DEF SMoves
<1>15. Apart(SPlace)' /\ Kept(SPlace)' = (Kept(SPlace) \ X) \cup X
  BY <1>1, <1>7, <1>14, SMoved
<1>16. X \subseteq Kept(SPlace)
  <2>1. <<"remote", w>> \in SWhere /\ x \in SPlace[<<"remote", w>>]
    BY <1>3, <1>4, SPlaceIs DEF was
  <2>2. x \in Kept(SPlace)
    BY <2>1, SPlaceIs DEF Kept
  <2>3. QED
    BY <2>2
<1>17. Kept(SPlace)' = s_made' /\ \A y \in s_made' : y[1] \in s_pools'
  BY <1>1, <1>2, <1>15, <1>16
<1>18. STypes'
  <2>1. s_remote' \in [Threads -> Seq(SNodes)]
    BY <1>1, <1>2, <1>4 DEF STypes
  <2>2. s_move' \in [todo : SUBSET Threads, cur : Threads \cup {F!None},
                     hand : SNodes \cup {<<>>}]
    BY <1>1, <1>2, <1>4 DEF STypes
  <2>3. QED
    BY <1>1, <1>2, <2>1, <2>2 DEF STypes, SNodes
<1>19. SQueues'
  <2>1. \A u \in Threads : Once(s_remote'[u])
    BY <1>1, <1>4, <1>6 DEF SQueues
  <2>2. QED
    BY <1>1, <1>2, <2>1 DEF SQueues, Once, F!In
<1>20. QED
  BY <1>15, <1>17, <1>18, <1>19 DEF SInv

\* and puts it in the local queue of the thread it is of.
LEMMA SMovePush == ASSUME SInv, S!MovePush PROVE SInv'
<1>1. /\ STypes /\ SQueues /\ Apart(SPlace) /\ Kept(SPlace) = s_made
      /\ \A y \in s_made : y[1] \in s_pools
  BY DEF SInv
<1> DEFINE x == s_move.hand
           w == x[1]
           was == s_local[w]
           r == Append(was, x)
           X == {x}
           to == <<"local", w>>
           D == [y \in X |-> to]
<1>2. /\ x # <<>> /\ s_move' = [s_move EXCEPT !.hand = <<>>]
      /\ s_local' = [s_local EXCEPT ![w] = r]
      /\ UNCHANGED <<s_pools, s_made, s_freeLists, s_out, s_remote>>
  BY DEF S!MovePush, S!Others
<1>3. x \in SNodes /\ w \in Threads
  <2>1. x \in SNodes
    BY <1>1, <1>2 DEF STypes
  <2>2. QED
    BY <2>1, SNodeIs
<1>4. was \in Seq(SNodes) /\ Once(was)
  BY <1>1, <1>3 DEF STypes, SQueues
<1>5. s_move'.hand = <<>>
  BY <1>1, <1>2 DEF STypes
<1>6. \A p \in SWhere : x \in SPlace[p] => p = <<"hand", F!None>>
  BY <1>1, <1>2, SPlaceIs DEF Apart
<1> HIDE DEF x, w, was
<1>7. x \notin s_out /\ \A u \in Threads : x \notin F!In(s_local[u]) /\ x \notin F!In(s_remote[u])
  BY <1>6, SPlaceIs
<1>8. ASSUME NEW u \in Threads, NEW j \in Sizes PROVE x \notin F!In(s_freeLists[u][j])
  <2> DEFINE p == <<"free", <<u, j>>>>
  <2>1. p \in SWhere /\ SPlace[p] = F!In(s_freeLists[u][j]) /\ p # <<"hand", F!None>>
    BY SPlaceIs
  <2> HIDE DEF p
  <2>2. QED
    BY <1>6, <2>1
<1>9. r \in Seq(SNodes) /\ F!In(r) = F!In(was) \cup {x} /\ Once(r)
  <2>1. x \notin F!In(was)
    BY <1>3, <1>7 DEF was
  <2>2. QED
    BY <1>3, <1>4, <2>1, QueueAppend
<1>10. \A u \in Threads : s_local'[u] = IF u = w THEN r ELSE s_local[u]
  BY <1>1, <1>2 DEF STypes
<1>11. DOMAIN D = X /\ (\A y \in X : D[y] = to) /\ to \in SWhere
  BY <1>3, SPlaceIs
<1>12. /\ \A u \in Threads : /\ (to = <<"local", u>> <=> u = w) /\ to # <<"remote", u>>
                             /\ \A j \in Sizes : to # <<"free", <<u, j>>>>
       /\ to # <<"out", F!None>> /\ to # <<"hand", F!None>>
  OBVIOUS
<1> HIDE DEF D, to, r
<1>13. \A p : {y \in DOMAIN D : D[y] = p} = IF to = p THEN {x} ELSE {}
  BY <1>11
<1>14. SMoves(X, D)
  <2>1. s_out' = Moved(s_out, X, D, <<"out", F!None>>)
    BY <1>2, <1>7, <1>12, <1>13 DEF Moved
  <2>2. {s_move'.hand} \ {<<>>} = Moved({s_move.hand} \ {<<>>}, X, D, <<"hand", F!None>>)
    <3>1. {s_move'.hand} \ {<<>>} = {} /\ {s_move.hand} \ {<<>>} = {x}
      BY <1>2, <1>5 DEF x
    <3>2. QED
      BY <1>12, <1>13, <3>1 DEF Moved
  <2>3. ASSUME NEW u \in Threads
        PROVE  /\ F!In(s_local'[u]) = Moved(F!In(s_local[u]), X, D, <<"local", u>>)
               /\ F!In(s_remote'[u]) = Moved(F!In(s_remote[u]), X, D, <<"remote", u>>)
    <3>1. F!In(s_remote'[u]) = Moved(F!In(s_remote[u]), X, D, <<"remote", u>>)
      BY <1>2, <1>7, <1>12, <1>13 DEF Moved
    <3>2. CASE u = w
      BY <1>7, <1>9, <1>10, <1>12, <1>13, <3>1, <3>2 DEF Moved, was
    <3>3. CASE u # w
      <4>1. Moved(F!In(s_local[u]), X, D, <<"local", u>>) = F!In(s_local[u])
        BY <1>7, <1>12, <1>13, <3>3 DEF Moved
      <4>2. QED
        BY <1>10, <3>1, <3>3, <4>1
    <3>4. QED
      BY <3>2, <3>3
  <2>4. ASSUME NEW u \in Threads, NEW j \in Sizes
        PROVE  F!In(s_freeLists'[u][j]) = Moved(F!In(s_freeLists[u][j]), X, D, <<"free", <<u, j>>>>)
    BY <1>2, <1>8, <1>12, <1>13 DEF Moved
  <2>5. QED
    BY <2>1, <2>2, <2>3, <2>4 DEF SMoves
<1>15. Apart(SPlace)' /\ Kept(SPlace)' = (Kept(SPlace) \ X) \cup X
  BY <1>1, <1>11, <1>14, SMoved
<1>16. X \subseteq Kept(SPlace)
  <2>1. x \in SPlace[<<"hand", F!None>>]
    BY <1>2, SPlaceIs DEF x
  <2>2. QED
    BY <2>1, SPlaceIs DEF Kept
<1>17. Kept(SPlace)' = s_made' /\ \A y \in s_made' : y[1] \in s_pools'
  BY <1>1, <1>2, <1>15, <1>16
<1>18. STypes'
  <2>1. s_local' \in [Threads -> Seq(SNodes)]
    BY <1>1, <1>2, <1>9 DEF STypes
  <2>2. s_move' \in [todo : SUBSET Threads, cur : Threads \cup {F!None},
                     hand : SNodes \cup {<<>>}]
    BY <1>1, <1>2 DEF STypes
  <2>3. QED
    BY <1>1, <1>2, <2>1, <2>2 DEF STypes, SNodes
<1>19. SQueues'
  <2>1. \A u \in Threads : Once(s_local'[u]) /\ \A y \in F!In(s_local'[u]) : y[1] = u
    BY <1>1, <1>9, <1>10 DEF SQueues, w, was
  <2>2. QED
    BY <1>1, <1>2, <2>1 DEF SQueues, Once, F!In
<1>20. QED
  BY <1>15, <1>17, <1>18, <1>19 DEF SInv

\* What leaves the nodes where they are.
LEMMA SRest == ASSUME SInv, S!MoveNext \/ UNCHANGED s_vars PROVE SInv'
<1>1. /\ STypes /\ SQueues /\ Apart(SPlace) /\ Kept(SPlace) = s_made
      /\ \A y \in s_made : y[1] \in s_pools
  BY DEF SInv
<1>2. UNCHANGED <<s_pools, s_made, s_freeLists, s_local, s_remote, s_out>>
  BY DEF S!MoveNext, S!Others, s_vars
<1>3. /\ s_move' \in [todo : SUBSET Threads, cur : Threads \cup {F!None},
                      hand : SNodes \cup {<<>>}]
      /\ s_move'.hand = s_move.hand
  <2>1. CASE S!MoveNext
    <3>1. s_move.hand = <<>>
      BY <2>1 DEF S!MoveNext
    <3>2. \/ \E t \in s_pools : s_move' = [s_move EXCEPT !.cur = t, !.todo = s_pools \ {t}]
          \/ s_move' = [todo |-> {}, cur |-> F!None, hand |-> <<>>]
          \/ \E t \in s_move.todo : s_move' = [s_move EXCEPT !.cur = t, !.todo = @ \ {t}]
      BY <2>1 DEF S!MoveNext, S!Resting
    <3>3. ASSUME NEW t \in Threads, NEW o \in SUBSET Threads,
                 s_move' = [s_move EXCEPT !.cur = t, !.todo = o]
          PROVE  /\ s_move' \in [todo : SUBSET Threads, cur : Threads \cup {F!None},
                                 hand : SNodes \cup {<<>>}]
                 /\ s_move'.hand = s_move.hand
      BY <1>1, <3>3 DEF STypes
    <3>4. /\ \A t \in s_pools : t \in Threads /\ s_pools \ {t} \in SUBSET Threads
          /\ \A t \in s_move.todo : t \in Threads /\ s_move.todo \ {t} \in SUBSET Threads
      BY <1>1 DEF STypes
    <3>5. CASE s_move' = [todo |-> {}, cur |-> F!None, hand |-> <<>>]
      BY <3>1, <3>5
    <3>6. QED
      BY <3>2, <3>3, <3>4, <3>5
  <2>2. CASE UNCHANGED s_vars
    BY <1>1, <2>2 DEF s_vars, STypes
  <2>3. QED
    BY <2>1, <2>2
<1>4. SPlace' = SPlace
  BY <1>2, <1>3 DEF SPlace, SWhere, F!In
<1>5. Apart(SPlace)' /\ Kept(SPlace)' = s_made'
  BY <1>1, <1>2, <1>4 DEF Apart, Kept
<1>6. STypes'
  BY <1>1, <1>2, <1>3 DEF STypes, SNodes
<1>7. SQueues'
  BY <1>1, <1>2 DEF SQueues, Once, F!In
<1>8. QED
  BY <1>1, <1>2, <1>5, <1>6, <1>7 DEF SInv

LEMMA SInductive == SInv /\ [S!Next]_s_vars => SInv'
<1> SUFFICES ASSUME SInv, [S!Next]_s_vars PROVE SInv'
  OBVIOUS
<1>1. ASSUME NEW t \in Threads, NEW k \in Sizes,
             S!GetFast(t, k) \/ S!GetCreate(t, k) \/ S!GetSlow(t, k)
      PROVE  SInv'
  BY <1>1, SGetFast, SGetCreate, SGetSlow
<1>2. ASSUME NEW t \in Threads, NEW x \in s_out, S!Put(t, x) PROVE SInv'
  BY <1>2, SPut
<1>3. CASE S!Move
  BY <1>3, SRest, SMovePop, SMovePush DEF S!Move
<1>4. CASE UNCHANGED s_vars
  BY <1>4, SRest
<1>5. QED
  BY <1>1, <1>2, <1>3, <1>4 DEF S!Next

LEMMA SStepRefused ==
  ASSUME SInv, [S!Next]_s_vars, NEW t \in Threads, NEW k \in Sizes,
         s_refused' = <<t, k>>, s_refused # s_refused'
  PROVE  F!In(s_freeLists[t][k]) = {} /\ \A x \in F!In(s_local[t]) : x[2] # k
<1>1. s_refused' # <<>>
  BY DEF S!PopFree
<1>2. ASSUME NEW u \in Threads, NEW j \in Sizes, S!GetCreate(u, j) \/ S!GetSlow(u, j)
      PROVE  F!In(s_freeLists[t][k]) = {} /\ \A x \in F!In(s_local[t]) : x[2] # k
  <2>1. /\ s_refused' = <<u, j>> /\ F!In(s_freeLists[u][j]) = {}
        /\ \A x \in F!In(s_local[u]) : x[2] # j
    BY <1>1, <1>2, SGetCreate, SGetSlow
  <2>2. u = t /\ j = k
    BY <2>1
  <2>3. QED
    BY <2>1, <2>2
<1>3. ASSUME NEW u \in Threads, NEW j \in Sizes, S!GetFast(u, j)
      PROVE  FALSE
  BY <1>1, <1>3, SGetFast
<1>4. QED
  BY <1>2, <1>3 DEF S!Next, S!Put, S!Move, S!MoveNext, S!MovePop, S!MovePush, S!Others, s_vars

LEMMA SlabCardinality == \A T : S!Cardinality(T) = Cardinality(T)
BY DEF S!Cardinality, Cardinality

LEMMA SNodesHome == SInv => S!NodesHome
<1> SUFFICES ASSUME SInv PROVE S!NodesHome
  OBVIOUS
<1>1. /\ STypes /\ SQueues /\ Apart(SPlace) /\ Kept(SPlace) = s_made
  BY DEF SInv
<1>2. \A q : S!InQueue(q) = F!In(q)
  BY DEF S!InQueue, F!In
<1> DEFINE OnList(x) == {l \in Threads \X Sizes : x \in S!InQueue(s_freeLists[l[1]][l[2]])}
           OnLocal(x) == {t \in Threads : x \in S!InQueue(s_local[t])}
           OnRemote(x) == {t \in Threads : x \in S!InQueue(s_remote[t])}
           places(x) == Cardinality(OnList(x)) + Cardinality(OnLocal(x))
                        + Cardinality(OnRemote(x)) + Cardinality({x} \cap s_out)
                        + Cardinality({x} \cap {s_move.hand})
<1>3. ASSUME NEW x, NEW l \in OnList(x)
      PROVE  /\ l[1] \in Threads /\ l[2] \in Sizes /\ l = <<l[1], l[2]>>
             /\ x \in F!In(s_freeLists[l[1]][l[2]]) /\ x[1] = l[1] /\ x[2] = l[2]
             /\ <<"free", l>> \in SWhere /\ x \in SPlace[<<"free", l>>]
  <2>1. l \in Threads \X Sizes /\ x \in F!In(s_freeLists[l[1]][l[2]])
    BY <1>2
  <2> HIDE DEF OnList
  <2>2. l[1] \in Threads /\ l[2] \in Sizes /\ l = <<l[1], l[2]>>
    BY <2>1
  <2>3. <<"free", <<l[1], l[2]>>>> \in SWhere /\ x \in SPlace[<<"free", <<l[1], l[2]>>>>]
    BY <2>1, <2>2, SPlaceIs
  <2>4. QED
    BY <1>1, <2>1, <2>2, <2>3 DEF SQueues
<1>4. ASSUME NEW x, NEW t \in OnLocal(x)
      PROVE  <<"local", t>> \in SWhere /\ x \in SPlace[<<"local", t>>]
  BY <1>2, SPlaceIs
<1>5. ASSUME NEW x, NEW t \in OnRemote(x)
      PROVE  <<"remote", t>> \in SWhere /\ x \in SPlace[<<"remote", t>>]
  BY <1>2, SPlaceIs
<1>6. ASSUME NEW x \in s_made
      PROVE  places(x) = 1
  <2>1. PICK p \in SWhere : x \in SPlace[p]
    BY <1>1, SPlaceIs DEF Kept
  <2>2. \A r \in SWhere : x \in SPlace[r] => r = p
    BY <1>1, <2>1, SPlaceIs DEF Apart
  <2>3. x \in SNodes /\ x # <<>>
    <3>1. x \in SNodes
      BY <1>1 DEF STypes
    <3>2. QED
      BY <3>1, SNodeIs
  <2>4. /\ x \in s_out <=> x \in SPlace[<<"out", F!None>>]
        /\ x = s_move.hand <=> x \in SPlace[<<"hand", F!None>>]
        /\ <<"out", F!None>> \in SWhere /\ <<"hand", F!None>> \in SWhere
    BY <2>3, SPlaceIs
  <2>5. Cardinality({}) = 0 /\ \A y : Cardinality({y}) = 1
    BY FS_EmptySet, FS_Singleton
  <2>6. /\ \A l \in OnList(x) : p = <<"free", l>>
        /\ \A t \in OnLocal(x) : p = <<"local", t>>
        /\ \A t \in OnRemote(x) : p = <<"remote", t>>
    <3>1. \A l \in OnList(x) : p = <<"free", l>>
      BY <1>3, <2>2
    <3>2. \A t \in OnLocal(x) : p = <<"local", t>>
      BY <1>4, <2>2
    <3>3. \A t \in OnRemote(x) : p = <<"remote", t>>
      BY <1>5, <2>2
    <3>4. QED
      BY <3>1, <3>2, <3>3
  <2>7. (x \in s_out => p = <<"out", F!None>>) /\ (x = s_move.hand => p = <<"hand", F!None>>)
    BY <2>2, <2>4
  <2> DEFINE a == OnList(x)
             b == OnLocal(x)
             c == OnRemote(x)
             d == {x} \cap s_out
             e == {x} \cap {s_move.hand}
  <2> SUFFICES Cardinality(a) + Cardinality(b) + Cardinality(c) + Cardinality(d)
               + Cardinality(e) = 1
    OBVIOUS
  <2>14. /\ \A y : Cardinality({y}) + Cardinality({}) + Cardinality({}) + Cardinality({})
                    + Cardinality({}) = 1
         /\ \A y : Cardinality({}) + Cardinality({y}) + Cardinality({}) + Cardinality({})
                    + Cardinality({}) = 1
         /\ \A y : Cardinality({}) + Cardinality({}) + Cardinality({y}) + Cardinality({})
                    + Cardinality({}) = 1
         /\ \A y : Cardinality({}) + Cardinality({}) + Cardinality({}) + Cardinality({y})
                    + Cardinality({}) = 1
         /\ \A y : Cardinality({}) + Cardinality({}) + Cardinality({}) + Cardinality({})
                    + Cardinality({y}) = 1
    <3> SUFFICES ASSUME NEW y
                 PROVE  /\ Cardinality({y}) + Cardinality({}) + Cardinality({}) + Cardinality({})
                           + Cardinality({}) = 1
                        /\ Cardinality({}) + Cardinality({y}) + Cardinality({}) + Cardinality({})
                           + Cardinality({}) = 1
                        /\ Cardinality({}) + Cardinality({}) + Cardinality({y}) + Cardinality({})
                           + Cardinality({}) = 1
                        /\ Cardinality({}) + Cardinality({}) + Cardinality({}) + Cardinality({y})
                           + Cardinality({}) = 1
                        /\ Cardinality({}) + Cardinality({}) + Cardinality({}) + Cardinality({})
                           + Cardinality({y}) = 1
      OBVIOUS
    <3>1. Cardinality({y}) = 1 /\ Cardinality({}) = 0
      BY <2>5
    <3>2. QED
      BY <3>1
  <2>8. CASE p = <<"out", F!None>>
    <3>1. a = {} /\ b = {} /\ c = {} /\ d = {x} /\ e = {}
      BY <2>1, <2>4, <2>6, <2>7, <2>8
    <3> HIDE DEF a, b, c, d, e
    <3>2. QED
      BY <3>1, <2>14
  <2>9. CASE p = <<"hand", F!None>>
    <3>1. a = {} /\ b = {} /\ c = {} /\ d = {} /\ e = {x}
      BY <2>1, <2>4, <2>6, <2>7, <2>9
    <3> HIDE DEF a, b, c, d, e
    <3>2. QED
      BY <3>1, <2>14
  <2>10. ASSUME NEW t \in Threads, p = <<"local", t>>
         PROVE  Cardinality(a) + Cardinality(b) + Cardinality(c) + Cardinality(d)
                + Cardinality(e) = 1
    <3>1. t \in b
      BY <1>2, <2>1, <2>10, SPlaceIs
    <3>2. a = {} /\ b = {t} /\ c = {} /\ d = {} /\ e = {}
      <4> HIDE DEF OnList, OnLocal, OnRemote
      <4>1. QED
        BY <2>6, <2>7, <2>10, <3>1
    <3> HIDE DEF a, b, c, d, e
    <3>3. QED
      BY <3>2, <2>14
  <2>11. ASSUME NEW t \in Threads, p = <<"remote", t>>
         PROVE  Cardinality(a) + Cardinality(b) + Cardinality(c) + Cardinality(d)
                + Cardinality(e) = 1
    <3>1. t \in c
      BY <1>2, <2>1, <2>11, SPlaceIs
    <3>2. a = {} /\ b = {} /\ c = {t} /\ d = {} /\ e = {}
      <4> HIDE DEF OnList, OnLocal, OnRemote
      <4>1. QED
        BY <2>6, <2>7, <2>11, <3>1
    <3> HIDE DEF a, b, c, d, e
    <3>3. QED
      BY <3>2, <2>14
  <2>12. ASSUME NEW t \in Threads, NEW k \in Sizes, p = <<"free", <<t, k>>>>
         PROVE  Cardinality(a) + Cardinality(b) + Cardinality(c) + Cardinality(d)
                + Cardinality(e) = 1
    <3>1. <<t, k>> \in a
      <4>1. x \in F!In(s_freeLists[t][k])
        BY <2>1, <2>12, SPlaceIs
      <4>2. QED
        BY <1>2, <4>1
    <3>2. a = {<<t, k>>} /\ b = {} /\ c = {} /\ d = {} /\ e = {}
      <4> HIDE DEF OnList, OnLocal, OnRemote
      <4>1. QED
        BY <2>6, <2>7, <2>12, <3>1
    <3> HIDE DEF a, b, c, d, e
    <3>3. QED
      BY <3>2, <2>14
  <2>13. QED
    BY <2>1, <2>8, <2>9, <2>10, <2>11, <2>12, SWhereIs
<1>7. ASSUME NEW x \in s_made
      PROVE  OnList(x) \subseteq {<<x[1], x[2]>>}
  BY <1>3
<1>8. \A t \in Threads : \A x \in S!InQueue(s_local[t]) : x[1] = t
  BY <1>1, <1>2 DEF SQueues
<1>9. S!NodesHome <=> /\ \A x \in s_made : places(x) = 1
                      /\ \A x \in s_made : OnList(x) \subseteq {<<x[1], x[2]>>}
                      /\ \A t \in Threads : \A x \in S!InQueue(s_local[t]) : x[1] = t
  BY SlabCardinality DEF S!NodesHome
<1> HIDE DEF places, OnList
<1>10. QED
  BY <1>6, <1>7, <1>8, <1>9

-----------------------------------------------------------------------------
(* The three pools *)

\* lib/mp/mp_nonfixed.c: whatever is taken, put back by any thread, split and
\* merged, the nodes of every chunk lie end to end and fill it, its free nodes are
\* those not used, and a used node is with a user, in a queue or carried home: for
\* every chunk, header, least size and set of requests.
THEOREM NonFixedTiled == N!Init /\ [][N!Next]_n_vars => []N!Tiled
<1>1. QED
  BY NInit, NInductive, NTiledKept, PTL

\* lib/mp/mp_slab.c: every node supplied is at one place, once, whoever has put it
\* back and however much a get has taken back at once, and free lists hold nodes of
\* their own thread and size alone: for every number of sizes, of nodes of each and
\* every batch.
THEOREM SlabNodesHome == S!Init /\ [][S!Next]_s_vars => []S!NodesHome
<1>1. QED
  BY SInit, SInductive, SNodesHome, PTL

FInv == OnceInv /\ f_cur \in Threads \cup {F!None}

PoolsInv == FInv /\ NInv /\ SInv

LEMMA PoolsStart == QueuesInit => PoolsInv
<1>1. F!Init => FInv
  BY OnceInit DEF FInv, F!Init
<1>2. QED
  BY <1>1, NInit, SInit DEF QueuesInit, PoolsInv

LEMMA FixedInductive == FInv /\ [F!Next]_f_vars => FInv'
<1> SUFFICES ASSUME FInv, [F!Next]_f_vars PROVE FInv'
  OBVIOUS
<1>1. OnceInv'
  BY OnceInductive DEF FInv
<1>2. f_cur' \in Threads \cup {F!None}
  BY DEF FInv, F!Next, F!Get, F!GetFast, F!GetCreate, F!GetSlow, F!Put, F!Moving, F!MoveStart, F!MoveEnd, F!MoveNext,
         F!MovePop, F!MovePush, f_vars, F!moverVars
<1>3. QED
  BY <1>1, <1>2 DEF FInv

\* One pool takes the step, and the others stay.
LEMMA PoolsOne ==
  ASSUME [QueuesNext]_all
  PROVE  [F!Next]_f_vars /\ [N!Next]_n_vars /\ [S!Next]_s_vars
BY DEF QueuesNext, all

LEMMA PoolsInductive == PoolsInv /\ [QueuesNext]_all => PoolsInv'
BY PoolsOne, FixedInductive, NInductive, SInductive DEF PoolsInv

\* lib/mp/mp_fixed.c: whoever puts a node back, and however the recycling
\* thread's rounds fall between the gets and puts, a free list and a local queue
\* only ever hold nodes of the thread they belong to, for every number of
\* threads and nodes.
THEOREM FixedPoolNodesGoHome == QueuesSpec => []NodesGoHome
<1>1. FInv => NodesGoHome
  BY DEF FInv, OnceInv, IInv, Home, NodesGoHome, F!NodesGoHome, F!In
<1>2. PoolsInv => FInv
  BY DEF PoolsInv
<1>3. QED
  BY <1>1, <1>2, PoolsStart, PoolsInductive, PTL DEF QueuesSpec

\* lib/mp: of the fixed, the non-fixed and the slab pool alike no node is lost, none
\* is given to two users and none is free, in use or on its way home at once, for
\* every number of threads and nodes, all sizes and however the background threads'
\* rounds fall between the gets and puts.
THEOREM PoolsWhole == QueuesSpec => []NodesWhole
<1>1. FInv => F!TypeOK /\ F!EveryNodeOnce
  <2> SUFFICES ASSUME FInv PROVE F!TypeOK /\ F!EveryNodeOnce
    OBVIOUS
  <2>1. OnceInv /\ Typed /\ Carrying /\ Whole(Lists, f_out, f_hand, Given)
    BY DEF FInv, OnceInv, IInv
  <2>2. F!TypeOK
    BY <2>1 DEF FInv, F!TypeOK, Typed, Carrying, Whole
  <2>3. QED
    BY <2>1, <2>2, OnceCounted
<1>2. PoolsInv => NodesWhole
  BY <1>1, NTiledKept, SNodesHome DEF PoolsInv, NodesWhole
<1>3. QED
  BY <1>2, PoolsStart, PoolsInductive, PTL DEF QueuesSpec

\* lib/mp/mp_nonfixed.c, mp_slab.c: a request is refused only when what the thread has
\* taken back and merged as far as it goes has no node that is large enough, and a get
\* only when its thread has no node of the size, neither free nor come back.
THEOREM PoolsRefuse == QueuesSpec => Refusals
<1>1. ASSUME PoolsInv, [QueuesNext]_all
      PROVE  /\ [\A t \in Threads, s \in Requests :
                   n_answer' # n_answer /\ n_answer' = [thread |-> t, size |-> s, ok |-> FALSE]
                     => N!NoRoom(t, s)']_n_vars
             /\ [\A t \in Threads, k \in Sizes :
                   s_refused' = <<t, k>> /\ s_refused # s_refused' =>
                     \A x \in S!InQueue(s_freeLists[t][k]) \cup S!InQueue(s_local[t]) :
                       x[2] # k]_s_vars
  <2>1. NInv /\ SInv /\ [N!Next]_n_vars /\ [S!Next]_s_vars
    BY <1>1, PoolsOne DEF PoolsInv
  <2>2. ASSUME NEW t \in Threads, NEW s \in Requests, n_answer' # n_answer,
               n_answer' = [thread |-> t, size |-> s, ok |-> FALSE]
        PROVE  N!NoRoom(t, s)'
    BY <2>1, <2>2, NStepRefused
  <2>3. ASSUME NEW t \in Threads, NEW k \in Sizes, s_refused' = <<t, k>>,
               s_refused # s_refused',
               NEW x \in S!InQueue(s_freeLists[t][k]) \cup S!InQueue(s_local[t])
        PROVE  x[2] # k
    <3>1. F!In(s_freeLists[t][k]) = {} /\ \A y \in F!In(s_local[t]) : y[2] # k
      BY <2>1, <2>3, SStepRefused
    <3>2. \A q : S!InQueue(q) = F!In(q)
      BY DEF S!InQueue, F!In
    <3>3. QED
      BY <2>3, <3>1, <3>2
  <2>4. QED
    BY <2>2, <2>3
<1>2. QED
  BY <1>1, PoolsStart, PoolsInductive, PTL
     DEF QueuesSpec, Refusals, N!RefusedForRoom, S!RefusedIfNone, N!vars, S!vars, n_vars, s_vars
=============================================================================
