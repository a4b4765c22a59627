------------------------------ MODULE MsQueue ------------------------------
(***************************************************************************)
(* What the two unbounded queues of lib/type/type_atom_queue.c share: a    *)
(* Michael-Scott list between two tagged pointers, head on a dummy node    *)
(* and tail near the last one, the push, and the memory of the nodes.      *)
(* MpscQueue and MpmcQueue add their pops.                                 *)
(*                                                                         *)
(* A tagged pointer is a pair <<node, version>> that is loaded, stored and *)
(* compared as a whole (16 bytes).  A node's next field is not tagged.     *)
(***************************************************************************)
EXTENDS Naturals, Sequences, FiniteSets

CONSTANTS Nodes,        \* the blocks of memory malloc may hand out for nodes
          Producers,    \* the threads that push
          MaxPushes,    \* bound: how many times each producer pushes
          Consumers     \* the threads that pop

Null == "null"
Garbage == "garbage"            \* what malloc may leave in a freed next field
NoMsg == <<>>                   \* and in a data field

ASSUME MsQueueAssumption ==
  /\ MaxPushes \in Nat /\ Consumers # {}
  /\ IsFiniteSet(Nodes) /\ Nodes \cap {Null, Garbage} = {}

VARIABLES
  reuse,                \* does malloc, all along, hand out freed nodes to which
                        \* some thread inside a push or a pop has a pointer?
  head, tail,           \* the tagged pointers
  next, data, free,     \* the fields of the nodes, and the unallocated nodes
  ppc, node, ptail, pnext,      \* a push: where it is, its item, tail_tag and
                                \* tail_next
  sent,                 \* how many pushes each producer began
  cpc, chead, ctail, cnext, cdata,      \* a pop: where it is, head_tag,
                                        \* tail_tag, head_next and data
  accepted, received    \* history: the messages linked and those popped

queueVars == <<reuse, head, tail, next, data, free>>
pushVars == <<ppc, node, ptail, pnext, sent, accepted>>
popVars == <<cpc, chead, ctail, cnext, cdata, received>>
vars == <<queueVars, pushVars, popVars>>

Messages == Producers \X (1..MaxPushes)

\* The dummy node; head and tail both point to it with version 0.
Init ==
  /\ reuse \in BOOLEAN
  /\ \E d \in Nodes :
       /\ head = <<d, 0>> /\ tail = <<d, 0>>
       /\ free = Nodes \ {d}
       /\ next = [x \in Nodes |-> IF x = d THEN Null ELSE Garbage]
  /\ data = [x \in Nodes |-> NoMsg]
  /\ ppc = [p \in Producers |-> "idle"] /\ sent = [p \in Producers |-> 0]
  /\ node = [p \in Producers |-> Null] /\ ptail = [p \in Producers |-> tail]
  /\ pnext = [p \in Producers |-> Null] /\ accepted = <<>>
  /\ cpc = [c \in Consumers |-> "idle"] /\ received = <<>>
  /\ chead = [c \in Consumers |-> head] /\ ctail = [c \in Consumers |-> head]
  /\ cnext = [c \in Consumers |-> Null] /\ cdata = [c \in Consumers |-> NoMsg]

\* The nodes some call under way has a pointer to.
Held ==
  UNION ({{ptail[p][1], pnext[p]} : p \in {q \in Producers : ppc[q] # "idle"}}
         \cup {{chead[c][1], ctail[c][1], cnext[c]}
                 : c \in {d \in Consumers : cpc[d] # "idle"}})

\* What malloc may hand out.
Available == IF reuse THEN free ELSE free \ Held

SwingTail_Untagged(old, new) ==     \* mutant: the version is not compared
  \/ tail[1] = old[1] /\ tail' = <<new, tail[2] + 1>>
  \/ tail' = tail

\* One compare-and-swap of a tagged pointer to tail, taken if it succeeds; the
\* weak form may fail for no reason as well.
SwingTail(old, new) ==
  \/ tail = old /\ tail' = <<new, old[2] + 1>>
  \/ tail' = tail

\* free: the block is unallocated, and malloc may write to its fields.
Release(x) ==
  /\ free' = free \cup {x}
  /\ \E g \in {next[x], Garbage} : next' = [next EXCEPT ![x] = g]
  /\ data' = [data EXCEPT ![x] = NoMsg]

-----------------------------------------------------------------------------
(* push *)

PushGoto(p, from, to) == ppc[p] = from /\ ppc' = [ppc EXCEPT ![p] = to]

\* mp_calloc, which zeroes the node, and the store of the data.
PushAlloc(p) ==
  /\ sent[p] < MaxPushes
  /\ PushGoto(p, "idle", "init")
  /\ sent' = [sent EXCEPT ![p] = @ + 1]
  /\ \E x \in Available :
       /\ node' = [node EXCEPT ![p] = x]
       /\ free' = free \ {x}
       /\ next' = [next EXCEPT ![x] = Null]
       /\ data' = [data EXCEPT ![x] = <<p, sent[p] + 1>>]
  /\ ptail' = [ptail EXCEPT ![p] = tail] /\ pnext' = [pnext EXCEPT ![p] = Null]
  /\ UNCHANGED <<reuse, head, tail, accepted, popVars>>

\* item->next = 0
PushInit(p) ==
  /\ PushGoto(p, "init", "tail")
  /\ next' = [next EXCEPT ![node[p]] = Null]
  /\ UNCHANGED <<reuse, head, tail, data, free, node, ptail, pnext, sent, accepted,
                 popVars>>

PushLoadTail(p) ==
  /\ PushGoto(p, "tail", "next")
  /\ ptail' = [ptail EXCEPT ![p] = tail]
  /\ UNCHANGED <<queueVars, node, pnext, sent, accepted, popVars>>

\* tail_tag.ptr->next, of a node that may have been freed meanwhile.
PushLoadNext(p) ==
  /\ PushGoto(p, "next", "check")
  /\ pnext' = [pnext EXCEPT ![p] = next[ptail[p][1]]]
  /\ UNCHANGED <<queueVars, node, ptail, sent, accepted, popVars>>

\* Is tail what it was?  If not, start over.
PushCheck(p) ==
  /\ PushGoto(p, "check", IF tail # ptail[p] THEN "tail"
                          ELSE IF pnext[p] # Null THEN "help" ELSE "link")
  /\ UNCHANGED <<queueVars, node, ptail, pnext, sent, accepted, popVars>>

\* tail lags behind: move it for whoever linked the node, and start over.
PushHelp(p) ==
  /\ PushGoto(p, "help", "tail")
  /\ SwingTail(ptail[p], pnext[p])
  /\ UNCHANGED <<reuse, head, next, data, free, node, ptail, pnext, sent, accepted,
                 popVars>>

PushLink_Store(p) ==            \* mutant: a store for the compare-and-swap
  /\ PushGoto(p, "link", "swing")
  /\ next' = [next EXCEPT ![ptail[p][1]] = node[p]]
  /\ accepted' = Append(accepted, data[node[p]])
  /\ UNCHANGED <<reuse, head, tail, data, free, node, ptail, pnext, sent, popVars>>

\* The compare-and-swap of tail_tag.ptr->next from NULL to the item.
PushLink(p) ==
  \/ /\ PushGoto(p, "link", "swing")
     /\ next[ptail[p][1]] = Null
     /\ next' = [next EXCEPT ![ptail[p][1]] = node[p]]
     /\ accepted' = Append(accepted, data[node[p]])
     /\ UNCHANGED <<reuse, head, tail, data, free, node, ptail, pnext, sent, popVars>>
  \/ /\ PushGoto(p, "link", "tail")
     /\ UNCHANGED <<queueVars, node, ptail, pnext, sent, accepted, popVars>>

\* tail to the item; others do it when this fails.  The push returns.
PushSwing(p) ==
  /\ PushGoto(p, "swing", "idle")
  /\ SwingTail(ptail[p], node[p])
  /\ UNCHANGED <<reuse, head, next, data, free, node, ptail, pnext, sent, accepted,
                 popVars>>

Pushing(p) ==
  \/ PushInit(p) \/ PushLoadTail(p) \/ PushLoadNext(p) \/ PushCheck(p)
  \/ PushHelp(p) \/ PushLink(p) \/ PushSwing(p)

-----------------------------------------------------------------------------
\* The next node, if there is one and it is allocated.
NextNode(x) == IF x \in Nodes /\ next[x] \in Nodes \ free THEN next[x] ELSE Null

\* The list from the dummy on, and what is in it.
Chain[k \in 0..Cardinality(Nodes)] == IF k = 0 THEN head[1] ELSE NextNode(Chain[k - 1])

Contents ==
  [k \in 1..Cardinality({i \in 1..Cardinality(Nodes) : Chain[i] # Null}) |-> data[Chain[k]]]

MsQueueTypeOK ==
  /\ reuse \in BOOLEAN
  /\ head \in Nodes \X Nat /\ tail \in Nodes \X Nat
  /\ next \in [Nodes -> Nodes \cup {Null, Garbage}]
  /\ data \in [Nodes -> Messages \cup {NoMsg}]
  /\ free \subseteq Nodes
  /\ ppc \in [Producers -> {"idle", "init", "tail", "next", "check", "help",
                            "link", "swing"}]
  /\ node \in [Producers -> Nodes \cup {Null}]
  /\ ptail \in [Producers -> Nodes \X Nat]
  /\ pnext \in [Producers -> Nodes \cup {Null, Garbage}]
  /\ sent \in [Producers -> 0..MaxPushes]
  /\ chead \in [Consumers -> Nodes \X Nat] /\ ctail \in [Consumers -> Nodes \X Nat]
  /\ cnext \in [Consumers -> Nodes \cup {Null, Garbage}]
  /\ cdata \in [Consumers -> Messages \cup {NoMsg}]
  /\ accepted \in Seq(Messages)

\* The two ends of the list are never freed memory, whatever stale pointers
\* the calls under way still follow.
EndsAllocated == head[1] \notin free /\ tail[1] \notin free

\* The versions keep the stores of the pops in order: no message is received
\* twice, although its node's memory may come back as another message's.
ReceivedOnce ==
  \A i, j \in 1..Len(received) : i # j => received[i] # received[j]

\* First in, first out, and nothing lost: the messages received and then those
\* in the list are the messages linked, in the order they were linked.  (With
\* an allocator that reuses memory at once, the compare-and-swap of an unversioned
\* next field may take another message's node for the old tail.)
Fifo == ~reuse => received \o Contents = accepted
=============================================================================
