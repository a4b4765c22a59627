--------------------------- MODULE MsQueues_proofs ---------------------------
(* The shared queues of lib/type for any nodes, producers, consumers and     *)
(* pushes, whatever malloc hands out: no end of the list, and nothing that a *)
(* current pop reads, is freed memory (MemorySafe), and every message is     *)
(* received once.                                                            *)
EXTENDS MsQueues, FiniteSetTheorems, SequenceTheorems,
  WellFoundedInduction, TLAPS

-----------------------------------------------------------------------------
(* The inductive invariant *)

\* A push owns its item until it links it; a pop owns the old dummy until it
\* is freed.
Owns(p) == ppc[p] \notin {"idle", "swing"}
Frees(c) == cpc[c] = "free"

Private(x) == \E p \in Producers : Owns(p) /\ node[p] = x
Dead(x) == \E c \in Consumers : Frees(c) /\ chead[c][1] = x

\* What is allocated and not on its way to be freed, and what of it was linked:
\* the list, and what a late compare-and-swap put behind a node that came back
\* as the item of another push.
Alive == {x \in Nodes \ free : ~Dead(x)}
Linked == {x \in Alive : ~Private(x)}

\* Every node has one owner.
Owned ==
  /\ \A p \in Producers : Owns(p) => node[p] \in Alive
  /\ \A p, q \in Producers : Owns(p) /\ Owns(q) /\ node[p] = node[q] => p = q
  /\ \A c \in Consumers : Frees(c) => chead[c][1] \in Nodes \ free
  /\ \A c, d \in Consumers : Frees(c) /\ Frees(d) /\ chead[c][1] = chead[d][1] => c = d

\* No node comes after two others, and none comes after them that was not
\* linked, or before the dummy.  What is or will be free has a next field that
\* is not NULL: no late compare-and-swap takes it for the end of the list.
Chained ==
  /\ head[1] \in Linked /\ tail[1] \in Linked
  /\ \A x \in Alive : next[x] = Null \/ next[x] \in Linked \ {head[1]}
  /\ \A x, y \in Alive : next[x] = next[y] /\ next[x] # Null => x = y
  /\ \A x \in Nodes \ Alive : next[x] # Null

\* From head one comes to tail: what holds head and the next of all it holds,
\* holds tail.
Closed(s) == head[1] \in s /\ \A x \in s : next[x] \in Nodes => next[x] \in s
PathToTail == \A s \in SUBSET Linked : Closed(s) => tail[1] \in s

\* A push that still sees the tail it has read saw what comes after it.
PushSaw(p) ==
  /\ ptail[p][2] <= tail[2]
  /\ ppc[p] = "check" /\ ptail[p] = tail => pnext[p] \in {Null, next[tail[1]]}
  /\ ppc[p] = "help" /\ ptail[p] = tail => pnext[p] = next[tail[1]] /\ pnext[p] # Null
  /\ ppc[p] = "swing" /\ ptail[p] = tail => node[p] = next[tail[1]] /\ node[p] # Null

\* And so does a pop, of head and of tail.
PopSaw(c) ==
  /\ chead[c][2] <= head[2] /\ ctail[c][2] <= tail[2]
  /\ cpc[c] \in {"check", "next"} /\ chead[c] = head /\ ctail[c][1] # head[1] =>
       tail[1] # head[1]
  /\ cpc[c] = "help" /\ ctail[c] = tail => cnext[c] = next[tail[1]] /\ cnext[c] # Null
  /\ cpc[c] \in {"data", "cas", "store"} /\ chead[c] = head =>
       tail[1] # head[1] /\ cnext[c] = next[head[1]] /\ cnext[c] # Null
  /\ cpc[c] \in {"cas", "store"} /\ chead[c] = head => cdata[c] = data[cnext[c]]

\* The consumer of an MPSC queue is alone with head.
OneConsumer ==
  kind = "mpsc" =>
    /\ Mpsc!C \in Consumers /\ \A c \in Consumers : c # Mpsc!C => cpc[c] = "idle"
    /\ cpc[Mpsc!C] \in {"tail", "next", "help", "data", "store"} => chead[Mpsc!C] = head

\* The messages under way: each was sent, is in one node and was not received.
UnderWay == Alive \ {head[1]}
WasSent(m, begun) == m \in Messages /\ m[2] <= begun[m[1]]
OnTheirWay ==
  /\ \A x \in UnderWay : WasSent(data[x], sent)
  /\ \A x, y \in UnderWay : data[x] = data[y] => x = y
  /\ \A i \in 1..Len(received) :
       WasSent(received[i], sent) /\ \A x \in UnderWay : received[i] # data[x]

Kinds ==
  /\ kind \in {"mpsc", "mpmc"} /\ MsQueueTypeOK /\ received \in Seq(Messages)
  /\ cpc \in [Consumers -> IF kind = "mpsc"
       THEN {"idle", "head", "tail", "next", "help", "data", "store", "free"}
       ELSE {"idle", "head", "tail", "check", "next", "help", "data", "cas", "free",
             "crashed"}]

QInv ==
  /\ Kinds /\ Owned /\ Chained /\ PathToTail
  /\ (\A p \in Producers : PushSaw(p)) /\ (\A c \in Consumers : PopSaw(c))
  /\ OneConsumer /\ OnTheirWay /\ ReceivedOnce

-----------------------------------------------------------------------------
(* What the steps do to the list *)

\* Who owns what stays as it is.
SameOwners ==
  /\ free' = free /\ node' = node
  /\ \A p \in Producers : Owns(p)' <=> Owns(p)
  /\ \A c \in Consumers : (Frees(c)' <=> Frees(c)) /\ (Frees(c) => chead'[c] = chead[c])

\* Nothing, or tail goes to the next node.
Quiet ==
  /\ SameOwners /\ UNCHANGED <<head, tail, next, data, sent, received>>

Swing ==
  /\ SameOwners /\ UNCHANGED <<head, next, data, sent, received>>
  /\ next[tail[1]] # Null /\ tail' = <<next[tail[1]], tail[2] + 1>>

\* A push takes a node.
Alloc(p, x) ==
  /\ x \in free /\ ~Owns(p) /\ Owns(p)'
  /\ free' = free \ {x} /\ node' = [node EXCEPT ![p] = x]
  /\ next' = [next EXCEPT ![x] = Null]
  /\ sent[p] < MaxPushes /\ sent' = [sent EXCEPT ![p] = @ + 1]
  /\ data' = [data EXCEPT ![x] = <<p, sent[p] + 1>>]
  /\ \A q \in Producers \ {p} : Owns(q)' <=> Owns(q)
  /\ UNCHANGED <<head, tail, cpc, chead, received>>

\* It clears the item's next field once more.
Clear(p) ==
  /\ SameOwners /\ Owns(p) /\ next' = [next EXCEPT ![node[p]] = Null]
  /\ UNCHANGED <<head, tail, data, sent, received>>

\* It links the item behind a node without a next one.
Link(p) ==
  /\ Owns(p) /\ ~Owns(p)' /\ next[ptail[p][1]] = Null
  /\ next' = [next EXCEPT ![ptail[p][1]] = node[p]]
  /\ \A q \in Producers \ {p} : Owns(q)' <=> Owns(q)
  /\ UNCHANGED <<head, tail, data, free, node, sent, cpc, chead, received>>

\* A pop makes the next node the dummy, and owns the old one.
Pop(c) ==
  /\ tail[1] # head[1] /\ head' = <<next[head[1]], head[2] + 1>>
  /\ next[head[1]] # Null
  /\ received' = Append(received, data[next[head[1]]])
  /\ ~Frees(c) /\ Frees(c)' /\ chead[c] = head /\ chead' = chead
  /\ \A d \in Consumers \ {c} : Frees(d)' <=> Frees(d)
  /\ UNCHANGED <<tail, next, data, free, node, ppc, sent>>

\* It frees it.
FreeOld(c) ==
  /\ Frees(c) /\ ~Frees(c)' /\ Release(chead[c][1]) /\ chead' = chead
  /\ \A d \in Consumers \ {c} : Frees(d)' <=> Frees(d)
  /\ UNCHANGED <<head, tail, node, ppc, sent, received>>

Effect ==
  \/ Quiet \/ Swing
  \/ \E p \in Producers : (\E x \in Nodes : Alloc(p, x)) \/ Clear(p) \/ Link(p)
  \/ \E c \in Consumers : Pop(c) \/ FreeOld(c)

-----------------------------------------------------------------------------
(* The sets *)

LEMMA SameSets == SameOwners => Alive' = Alive /\ Linked' = Linked
<1> SUFFICES ASSUME SameOwners
             PROVE  Alive' = Alive /\ Linked' = Linked
  OBVIOUS
<1>1. \A x : Dead(x)' <=> Dead(x)
  BY DEF SameOwners, Dead
<1>2. \A x : Private(x)' <=> Private(x)
  BY DEF SameOwners, Private
<1>3. Alive' = Alive
  BY <1>1 DEF SameOwners, Alive
<1>4. Linked' = Linked
  BY <1>2, <1>3 DEF Linked
<1>5. QED
  BY <1>3, <1>4

LEMMA AllocSets ==
  ASSUME Owned, MsQueueTypeOK, NEW p \in Producers, NEW x \in Nodes, Alloc(p, x)
  PROVE  Alive' = Alive \cup {x} /\ Linked' = Linked /\ x \notin Alive
<1>1. \A y : Dead(y)' <=> Dead(y)
  BY DEF Alloc, Dead, Frees
<1>2. ~Dead(x) /\ x \in free /\ x \in Nodes
  BY DEF Alloc, Dead, Owned
<1>3. Alive' = Alive \cup {x}
  BY <1>1, <1>2 DEF Alloc, Alive
<1>4. x \notin Alive
  BY <1>2 DEF Alive
<1>5. node'[p] = x /\ \A q \in Producers \ {p} : node'[q] = node[q]
  BY DEF Alloc, MsQueueTypeOK
<1>6. \A y \in Alive : Private(y)' <=> Private(y)
  BY <1>4, <1>5 DEF Alloc, Private
<1>7. Private(x)'
  BY <1>5 DEF Alloc, Private
<1>8. Linked' = Linked
  BY <1>3, <1>4, <1>6, <1>7 DEF Linked
<1>9. QED
  BY <1>3, <1>4, <1>8

LEMMA LinkSets ==
  ASSUME Owned, NEW p \in Producers, Link(p)
  PROVE  /\ Alive' = Alive /\ Linked' = Linked \cup {node[p]}
         /\ node[p] \in Alive /\ node[p] \notin Linked
<1>1. \A y : Dead(y)' <=> Dead(y)
  BY DEF Link, Dead, Frees
<1>2. Alive' = Alive
  BY <1>1 DEF Link, Alive
<1>3. node[p] \in Alive /\ node[p] \notin Linked
  BY DEF Link, Owned, Linked, Private
<1>4. \A y : y = node[p] => ~Private(y)'
  BY DEF Link, Owned, Private
<1>5. \A y : y # node[p] => (Private(y)' <=> Private(y))
  BY DEF Link, Private
<1>6. Linked' = Linked \cup {node[p]}
  <2>1. \A y \in Alive : y \in Linked' <=> y \in Linked \/ y = node[p]
    BY <1>2, <1>3, <1>4, <1>5 DEF Linked
  <2>2. Linked' \subseteq Alive /\ Linked \subseteq Alive
    BY <1>2 DEF Linked
  <2>3. QED
    BY <2>1, <2>2, <1>3
<1>7. QED
  BY <1>2, <1>3, <1>6

LEMMA PopSets ==
  ASSUME NEW c \in Consumers, Pop(c)
  PROVE  Alive' = Alive \ {head[1]} /\ Linked' = Linked \ {head[1]}
<1>1. \A h : h = head[1] => Dead(h)'
  BY DEF Pop, Dead
<1>2. ASSUME NEW y, y # head[1]
      PROVE  Dead(y)' <=> Dead(y)
  <2>1. \A d \in Consumers : d # c => (Frees(d)' <=> Frees(d))
    BY DEF Pop
  <2>2. chead' = chead /\ chead[c][1] # y
    BY <1>2 DEF Pop
  <2>3. QED
    BY <2>1, <2>2 DEF Dead
<1>3. Alive' = Alive \ {head[1]}
  <2>1. free' = free
    BY DEF Pop
  <2>2. QED
    BY <1>1, <1>2, <2>1 DEF Alive
<1>4. \A y : Private(y)' <=> Private(y)
  BY DEF Pop, Private, Owns
<1>5. Linked' = Linked \ {head[1]}
  BY <1>3, <1>4 DEF Linked
<1>6. QED
  BY <1>3, <1>5

LEMMA FreeSets ==
  ASSUME Owned, NEW c \in Consumers, FreeOld(c)
  PROVE  Alive' = Alive /\ Linked' = Linked /\ chead[c][1] \in Nodes \ Alive
<1> DEFINE x == chead[c][1]
<1>1. x \in Nodes /\ x \notin free /\ Dead(x)
  BY DEF FreeOld, Owned, Dead
<1>2. free' = free \cup {x}
  BY DEF FreeOld, Release
<1>3. \A y : y # x => (Dead(y)' <=> Dead(y))
  BY DEF FreeOld, Dead
<1>4. Alive' = Alive
  BY <1>1, <1>2, <1>3 DEF Alive
<1>5. \A y : Private(y)' <=> Private(y)
  BY DEF FreeOld, Private, Owns
<1>6. Linked' = Linked
  BY <1>4, <1>5 DEF Linked
<1>7. x \notin Alive
  BY <1>1 DEF Alive
<1>8. QED
  BY <1>1, <1>4, <1>6, <1>7

-----------------------------------------------------------------------------
(* Every node has one owner *)

Base ==
  /\ MsQueueAssumption /\ MsQueueTypeOK /\ received \in Seq(Messages)
  /\ Owned /\ Chained /\ PathToTail /\ OnTheirWay /\ ReceivedOnce

LEMMA OwnedStep == Base /\ Effect => Owned'
<1> SUFFICES ASSUME Base, Effect
             PROVE  Owned'
  OBVIOUS
<1> USE DEF Base
<1>1. CASE SameOwners
  BY <1>1, SameSets DEF SameOwners, Owned
<1>2. ASSUME NEW p \in Producers, NEW x \in Nodes, Alloc(p, x)
      PROVE  Owned'
  <2>1. Alive' = Alive \cup {x} /\ x \notin Alive
    BY <1>2, AllocSets
  <2>2. node'[p] = x /\ \A q \in Producers \ {p} : node'[q] = node[q]
    BY <1>2 DEF Alloc, MsQueueTypeOK
  <2>3. \A q \in Producers : Owns(q)' => node'[q] \in Alive'
    BY <1>2, <2>1, <2>2 DEF Alloc, Owned
  <2>4. \A q, r \in Producers : Owns(q)' /\ Owns(r)' /\ node'[q] = node'[r] => q = r
    <3> SUFFICES ASSUME NEW q \in Producers, NEW r \in Producers, Owns(q)', Owns(r)',
                        node'[q] = node'[r], q # r
                 PROVE  FALSE
      OBVIOUS
    <3>1. q # p => Owns(q) /\ node'[q] = node[q] /\ node[q] \in Alive
      BY <1>2, <2>2 DEF Alloc, Owned
    <3>2. r # p => Owns(r) /\ node'[r] = node[r] /\ node[r] \in Alive
      BY <1>2, <2>2 DEF Alloc, Owned
    <3>3. QED
      BY <3>1, <3>2, <2>1, <2>2 DEF Owned
  <2>5. \A c \in Consumers : (Frees(c)' <=> Frees(c)) /\ chead'[c] = chead[c]
    BY <1>2 DEF Alloc, Frees
  <2>6. free' = free \ {x}
    BY <1>2 DEF Alloc
  <2>7. QED
    BY <2>3, <2>4, <2>5, <2>6 DEF Owned
<1>3. ASSUME NEW p \in Producers, Link(p)
      PROVE  Owned'
  <2>1. Alive' = Alive
    BY <1>3, LinkSets
  <2>2. \A q \in Producers : Owns(q)' => Owns(q)
    BY <1>3 DEF Link
  <2>3. \A c \in Consumers : (Frees(c)' <=> Frees(c)) /\ chead'[c] = chead[c]
    BY <1>3 DEF Link, Frees
  <2>4. node' = node /\ free' = free
    BY <1>3 DEF Link
  <2>5. QED
    BY <2>1, <2>2, <2>3, <2>4 DEF Owned
<1>4. ASSUME NEW c \in Consumers, Pop(c)
      PROVE  Owned'
  <2>1. Alive' = Alive \ {head[1]} /\ head[1] \in Alive /\ head[1] \in Linked
    BY <1>4, PopSets DEF Chained, Linked
  <2>2. \A q \in Producers : (Owns(q)' <=> Owns(q)) /\ node'[q] = node[q]
    BY <1>4 DEF Pop, Owns
  <2>3. \A q \in Producers : Owns(q) => node[q] # head[1]
    BY <2>1 DEF Linked, Private
  <2>4. \A q \in Producers : Owns(q)' => node'[q] \in Alive'
    BY <2>1, <2>2, <2>3 DEF Owned
  <2>5. \A d \in Consumers : Frees(d) => chead[d][1] # head[1]
    BY <2>1 DEF Alive, Dead
  <2>6. chead' = chead /\ free' = free /\ chead[c] = head
    BY <1>4 DEF Pop
  <2>7. \A d \in Consumers : d # c => (Frees(d)' <=> Frees(d))
    BY <1>4 DEF Pop
  <2>8. head[1] \in Nodes \ free
    BY <2>1 DEF Alive
  <2>9. \A d \in Consumers : Frees(d)' => chead'[d][1] \in Nodes \ free'
    BY <2>6, <2>7, <2>8 DEF Owned
  <2>10. \A d, e \in Consumers :
           Frees(d)' /\ Frees(e)' /\ chead'[d][1] = chead'[e][1] => d = e
    BY <2>5, <2>6, <2>7 DEF Owned
  <2>11. QED
    BY <2>2, <2>4, <2>9, <2>10 DEF Owned
<1>5. ASSUME NEW c \in Consumers, FreeOld(c)
      PROVE  Owned'
  <2>1. Alive' = Alive
    BY <1>5, FreeSets
  <2>2. \A q \in Producers : (Owns(q)' <=> Owns(q)) /\ node'[q] = node[q]
    BY <1>5 DEF FreeOld, Owns
  <2>3. chead' = chead /\ free' = free \cup {chead[c][1]}
    BY <1>5 DEF FreeOld, Release
  <2>4. \A d \in Consumers : Frees(d)' => Frees(d) /\ d # c
    BY <1>5 DEF FreeOld
  <2>5. QED
    BY <1>5, <2>1, <2>2, <2>3, <2>4 DEF Owned, FreeOld
<1>6. QED
  BY <1>1, <1>2, <1>3, <1>4, <1>5 DEF Effect, Quiet, Swing, Clear

-----------------------------------------------------------------------------
(* The list *)

LEMMA ChainedStep == Base /\ Effect => Chained'
<1> SUFFICES ASSUME Base, Effect
             PROVE  Chained'
  OBVIOUS
<1> USE DEF Base
<1>0. /\ Linked \subseteq Alive /\ Alive \subseteq Nodes /\ Null \notin Nodes
      /\ \A p \in Producers : Owns(p) => node[p] \in Alive /\ node[p] \notin Linked
  BY DEF Linked, Alive, MsQueueAssumption, Owned, Private
<1>n. next \in [Nodes -> Nodes \cup {Null, Garbage}]
  BY DEF MsQueueTypeOK
<1>1. CASE Quiet
  BY <1>1, SameSets DEF Quiet, Chained
<1>2. CASE Swing
  <2>1. tail'[1] = next[tail[1]] /\ next[tail[1]] \in Linked
    BY <1>0, <1>2 DEF Swing, Chained
  <2>2. QED
    BY <1>2, <2>1, SameSets DEF Swing, Chained
<1>3. ASSUME NEW p \in Producers, NEW x \in Nodes, Alloc(p, x)
      PROVE  Chained'
  <2>1. Alive' = Alive \cup {x} /\ Linked' = Linked /\ x \notin Alive
    BY <1>3, AllocSets
  <2>2. /\ next'[x] = Null /\ \A y \in Nodes \ {x} : next'[y] = next[y]
        /\ head' = head /\ tail' = tail
    BY <1>3, <1>n DEF Alloc
  <2>3. \A y \in Alive : next'[y] = next[y]
    BY <1>0, <2>1, <2>2
  <2>4. \A y \in Alive' : next'[y] = Null \/ next'[y] \in Linked' \ {head'[1]}
    BY <2>1, <2>2, <2>3 DEF Chained
  <2>5. \A y, z \in Alive' : next'[y] = next'[z] /\ next'[y] # Null => y = z
    BY <2>1, <2>2, <2>3 DEF Chained
  <2>6. \A y \in Nodes \ Alive' : next'[y] # Null
    BY <2>1, <2>2 DEF Chained
  <2>7. QED
    BY <2>1, <2>2, <2>4, <2>5, <2>6 DEF Chained
<1>4. ASSUME NEW p \in Producers, Clear(p)
      PROVE  Chained'
  <2>1. Alive' = Alive /\ Linked' = Linked
    BY <1>4, SameSets DEF Clear
  <2>2. node[p] \in Alive
    BY <1>0, <1>4 DEF Clear
  <2>3. /\ next'[node[p]] = Null /\ \A y \in Nodes \ {node[p]} : next'[y] = next[y]
        /\ head' = head /\ tail' = tail
    BY <1>0, <1>4, <1>n, <2>2 DEF Clear
  <2>4. \A y \in Alive : next'[y] = Null \/ next'[y] \in Linked \ {head[1]}
    BY <1>0, <2>3 DEF Chained
  <2>5. \A y, z \in Alive : next'[y] = next'[z] /\ next'[y] # Null => y = z
    BY <1>0, <2>3 DEF Chained
  <2>6. \A y \in Nodes \ Alive : next'[y] # Null
    BY <2>2, <2>3 DEF Chained
  <2>7. QED
    BY <2>1, <2>3, <2>4, <2>5, <2>6 DEF Chained
<1>5. ASSUME NEW p \in Producers, Link(p)
      PROVE  Chained'
  <2> DEFINE y == node[p]
             z == ptail[p][1]
  <2>1. Alive' = Alive /\ Linked' = Linked \cup {y} /\ y \in Alive /\ y \notin Linked
    BY <1>5, LinkSets
  <2>2. z \in Nodes /\ next[z] = Null /\ z \in Alive
    BY <1>5 DEF Link, MsQueueTypeOK, Chained
  <2>3. /\ next'[z] = y /\ \A x \in Nodes \ {z} : next'[x] = next[x]
        /\ head' = head /\ tail' = tail
    BY <1>5, <1>n, <2>2 DEF Link
  <2>4. y # head[1] /\ y # Null
    BY <1>0, <2>1 DEF Chained
  <2> HIDE DEF y, z
  <2>5. \A x \in Alive : next'[x] = Null \/ next'[x] \in Linked' \ {head[1]}
    BY <1>0, <2>1, <2>3, <2>4 DEF Chained
  <2>6. \A x \in Alive : next[x] # y
    BY <2>1, <2>4 DEF Chained
  <2>7. \A x, w \in Alive : next'[x] = next'[w] /\ next'[x] # Null => x = w
    BY <1>0, <2>3, <2>6 DEF Chained
  <2>8. \A x \in Nodes \ Alive : next'[x] # Null
    BY <2>2, <2>3 DEF Chained
  <2>9. QED
    BY <2>1, <2>3, <2>5, <2>7, <2>8 DEF Chained
<1>6. ASSUME NEW c \in Consumers, Pop(c)
      PROVE  Chained'
  <2>1. /\ Alive' = Alive \ {head[1]} /\ Linked' = Linked \ {head[1]}
        /\ head[1] \in Linked
    BY <1>6, PopSets DEF Chained
  <2>2. /\ next' = next /\ tail' = tail /\ tail[1] # head[1]
        /\ head'[1] = next[head[1]] /\ next[head[1]] # Null
    BY <1>6 DEF Pop
  <2>3. next[head[1]] \in Linked \ {head[1]}
    BY <1>0, <2>1, <2>2 DEF Chained
  <2>4. \A x \in Alive' : next[x] # next[head[1]]
    BY <1>0, <2>1, <2>2 DEF Chained
  <2>5. \A x \in Alive' : next'[x] = Null \/ next'[x] \in Linked' \ {head'[1]}
    BY <2>1, <2>2, <2>4 DEF Chained
  <2>6. \A x \in Nodes \ Alive' : next'[x] # Null
    BY <2>1, <2>2 DEF Chained
  <2>7. QED
    BY <2>1, <2>2, <2>3, <2>5, <2>6 DEF Chained
<1>7. ASSUME NEW c \in Consumers, FreeOld(c)
      PROVE  Chained'
  <2> DEFINE x == chead[c][1]
  <2>1. Alive' = Alive /\ Linked' = Linked /\ x \in Nodes \ Alive
    BY <1>7, FreeSets
  <2>2. \A y \in Nodes \ {x} : next'[y] = next[y]
    BY <1>7, <1>n, <2>1 DEF FreeOld, Release
  <2>3. next'[x] \in {next[x], Garbage}
    BY <1>7, <1>n, <2>1 DEF FreeOld, Release
  <2>4. head' = head /\ tail' = tail
    BY <1>7 DEF FreeOld
  <2> HIDE DEF x
  <2>5. \A y \in Alive : next'[y] = next[y]
    BY <1>0, <2>1, <2>2
  <2>6. \A y \in Nodes \ Alive : next'[y] # Null
    BY <2>1, <2>2, <2>3 DEF Chained, Null, Garbage
  <2>7. QED
    BY <2>1, <2>4, <2>5, <2>6 DEF Chained
<1>8. QED
  BY <1>1, <1>2, <1>3, <1>4, <1>5, <1>6, <1>7 DEF Effect

LEMMA PathStep == Base /\ Effect => PathToTail'
<1> SUFFICES ASSUME Base, Effect, NEW s \in SUBSET Linked', Closed(s)'
             PROVE  tail'[1] \in s
  BY DEF PathToTail
<1> USE DEF Base
<1>0. /\ Linked \subseteq Alive /\ Alive \subseteq Nodes /\ Null \notin Nodes
      /\ \A x \in Linked : next[x] \in Nodes => next[x] \in Linked
  BY DEF Linked, Alive, MsQueueAssumption, Chained
<1>n. next \in [Nodes -> Nodes \cup {Null, Garbage}]
  BY DEF MsQueueTypeOK
<1>c. head'[1] \in s /\ \A x \in s : next'[x] \in Nodes => next'[x] \in s
  BY DEF Closed
<1>1. CASE Quiet
  <2>1. s \in SUBSET Linked /\ Closed(s)
    BY <1>1, <1>c, SameSets DEF Quiet, Closed
  <2>2. QED
    BY <1>1, <2>1 DEF Quiet, PathToTail
<1>2. CASE Swing
  <2>1. s \in SUBSET Linked /\ Closed(s)
    BY <1>2, <1>c, SameSets DEF Swing, Closed
  <2>2. tail[1] \in s
    BY <2>1 DEF PathToTail
  <2>3. tail'[1] = next[tail[1]] /\ next[tail[1]] \in Nodes
    BY <1>0, <1>2 DEF Swing, Chained
  <2>4. QED
    BY <2>1, <2>2, <2>3 DEF Closed
<1>3. ASSUME NEW p \in Producers, NEW x \in Nodes, Alloc(p, x)
      PROVE  tail'[1] \in s
  <2>1. Linked' = Linked /\ x \notin Linked
    BY <1>0, <1>3, AllocSets
  <2>2. (\A y \in Linked : next'[y] = next[y]) /\ head' = head /\ tail' = tail
    BY <1>0, <1>3, <1>n, <2>1 DEF Alloc
  <2>3. s \in SUBSET Linked /\ Closed(s)
    BY <1>c, <2>1, <2>2 DEF Closed
  <2>4. QED
    BY <2>2, <2>3 DEF PathToTail
<1>4. ASSUME NEW p \in Producers, Clear(p)
      PROVE  tail'[1] \in s
  <2>1. Linked' = Linked /\ node[p] \notin Linked
    BY <1>4, SameSets DEF Clear, Linked, Private
  <2>2. (\A y \in Linked : next'[y] = next[y]) /\ head' = head /\ tail' = tail
    BY <1>0, <1>4, <1>n, <2>1 DEF Clear
  <2>3. s \in SUBSET Linked /\ Closed(s)
    BY <1>c, <2>1, <2>2 DEF Closed
  <2>4. QED
    BY <2>2, <2>3 DEF PathToTail
<1>5. ASSUME NEW p \in Producers, Link(p)
      PROVE  tail'[1] \in s
  <2>1. Linked' = Linked \cup {node[p]}
    BY <1>5, LinkSets
  <2>2. \A y \in Linked : next[y] \in Nodes => next'[y] = next[y]
    BY <1>0, <1>5, <1>n DEF Link
  <2>3. head' = head /\ tail' = tail
    BY <1>5 DEF Link
  <2>4. Closed(s \cap Linked)
    BY <1>0, <1>c, <2>2, <2>3 DEF Closed, Chained
  <2>5. QED
    BY <2>3, <2>4 DEF PathToTail
<1>6. ASSUME NEW c \in Consumers, Pop(c)
      PROVE  tail'[1] \in s
  <2>1. Linked' = Linked \ {head[1]} /\ head[1] \in Linked
    BY <1>6, PopSets DEF Chained
  <2>2. next' = next /\ tail' = tail /\ tail[1] # head[1] /\ head'[1] = next[head[1]]
    BY <1>6 DEF Pop
  <2>3. Closed(s \cup {head[1]})
    BY <1>c, <2>2 DEF Closed
  <2>4. QED
    BY <2>1, <2>2, <2>3 DEF PathToTail
<1>7. ASSUME NEW c \in Consumers, FreeOld(c)
      PROVE  tail'[1] \in s
  <2>1. Linked' = Linked /\ chead[c][1] \notin Linked
    BY <1>0, <1>7, FreeSets
  <2>2. (\A y \in Linked : next'[y] = next[y]) /\ head' = head /\ tail' = tail
    BY <1>0, <1>7, <1>n, <2>1 DEF FreeOld, Release
  <2>3. s \in SUBSET Linked /\ Closed(s)
    BY <1>c, <2>1, <2>2 DEF Closed
  <2>4. QED
    BY <2>2, <2>3 DEF PathToTail
<1>8. QED
  BY <1>1, <1>2, <1>3, <1>4, <1>5, <1>6, <1>7 DEF Effect

\* Before tail, a node has a next one.
LEMMA DummyHasNext == Base /\ tail[1] # head[1] => next[head[1]] \in Linked
<1> SUFFICES ASSUME Base, tail[1] # head[1], next[head[1]] \notin Linked
             PROVE  FALSE
  OBVIOUS
<1>1. head[1] \in Linked /\ head[1] \in Alive /\ next[head[1]] = Null /\ Null \notin Nodes
  BY DEF Base, Chained, Linked, MsQueueAssumption
<1>2. Closed({head[1]})
  BY <1>1 DEF Closed
<1>3. QED
  BY <1>1, <1>2 DEF Base, PathToTail

-----------------------------------------------------------------------------
(* The messages *)

LEMMA MessagesStep == Base /\ Effect => OnTheirWay' /\ ReceivedOnce'
<1> SUFFICES ASSUME Base, Effect
             PROVE  OnTheirWay' /\ ReceivedOnce'
  OBVIOUS
<1> USE DEF Base
<1>0. /\ Linked \subseteq Alive /\ Alive \subseteq Nodes /\ head[1] \in Linked
      /\ Null \notin Nodes
  BY DEF Linked, Alive, Chained, MsQueueAssumption
<1>t. /\ data \in [Nodes -> Messages \cup {NoMsg}] /\ sent \in [Producers -> 0..MaxPushes]
      /\ next \in [Nodes -> Nodes \cup {Null, Garbage}] /\ MaxPushes \in Nat
  BY DEF MsQueueTypeOK, MsQueueAssumption
<1>1. CASE SameOwners /\ UNCHANGED <<head, data, sent, received>>
  <2>1. UnderWay' = UnderWay
    BY <1>1, SameSets DEF UnderWay
  <2>2. QED
    BY <1>1, <2>1 DEF OnTheirWay, ReceivedOnce
<1>2. ASSUME NEW p \in Producers, NEW x \in Nodes, Alloc(p, x)
      PROVE  OnTheirWay' /\ ReceivedOnce'
  <2> DEFINE m == <<p, sent[p] + 1>>
  <2>1. UnderWay' = UnderWay \cup {x} /\ x \notin UnderWay
    BY <1>0, <1>2, AllocSets DEF UnderWay, Alloc
  <2>2. data'[x] = m /\ \A y \in UnderWay : data'[y] = data[y]
    BY <1>0, <1>2, <1>t, <2>1 DEF Alloc, UnderWay
  <2>3. /\ sent'[p] = sent[p] + 1 /\ \A q \in Producers \ {p} : sent'[q] = sent[q]
        /\ sent[p] \in Nat /\ sent[p] < MaxPushes /\ received' = received
    BY <1>2, <1>t DEF Alloc
  <2>4. m \in Messages
    BY <1>t, <2>3 DEF Messages
  <2>5. ASSUME NEW l, WasSent(l, sent)
        PROVE  WasSent(l, sent') /\ l # m
    <3>1. l \in Messages /\ l[2] <= sent[l[1]]
      BY <2>5 DEF WasSent
    <3>2. l[1] \in Producers /\ l[2] \in Nat /\ sent[l[1]] \in Nat
      BY <1>t, <3>1 DEF Messages
    <3>3. CASE l[1] = p
      BY <2>3, <3>1, <3>2, <3>3 DEF WasSent
    <3>4. CASE l[1] # p
      BY <2>3, <3>1, <3>2, <3>4 DEF WasSent
    <3>5. QED
      BY <3>3, <3>4
  <2>6. WasSent(m, sent')
    BY <2>3, <2>4 DEF WasSent
  <2> HIDE DEF m
  <2>7. \A y \in UnderWay' : WasSent(data'[y], sent')
    BY <2>1, <2>2, <2>5, <2>6 DEF OnTheirWay
  <2>8. \A y, z \in UnderWay' : data'[y] = data'[z] => y = z
    BY <2>1, <2>2, <2>5 DEF OnTheirWay
  <2>9. \A i \in 1..Len(received) :
          WasSent(received[i], sent') /\ \A y \in UnderWay' : received[i] # data'[y]
    BY <2>1, <2>2, <2>5 DEF OnTheirWay
  <2>10. OnTheirWay'
    BY <2>3, <2>7, <2>8, <2>9 DEF OnTheirWay
  <2>11. QED
    BY <2>3, <2>10 DEF ReceivedOnce
<1>3. ASSUME NEW p \in Producers, Link(p)
      PROVE  OnTheirWay' /\ ReceivedOnce'
  <2>1. UnderWay' = UnderWay
    BY <1>3, LinkSets DEF UnderWay, Link
  <2>2. UNCHANGED <<data, sent, received>>
    BY <1>3 DEF Link
  <2>3. QED
    BY <2>1, <2>2 DEF OnTheirWay, ReceivedOnce
<1>4. ASSUME NEW c \in Consumers, Pop(c)
      PROVE  OnTheirWay' /\ ReceivedOnce'
  <2> DEFINE x == next[head[1]]
             m == data[x]
  <2>1. x \in UnderWay
    <3>1. x \in Linked \ {head[1]}
      BY <1>0, <1>4 DEF Pop, Chained
    <3>2. QED
      BY <1>0, <3>1 DEF UnderWay
  <2>2. UnderWay' = UnderWay \ {x}
    <3>1. Alive' = Alive \ {head[1]} /\ head'[1] = x
      BY <1>4, PopSets DEF Pop
    <3>2. QED
      BY <3>1 DEF UnderWay
  <2>3. data' = data /\ sent' = sent /\ received' = Append(received, m)
    BY <1>4 DEF Pop
  <2>4. WasSent(m, sent) /\ m \in Messages
    BY <2>1 DEF OnTheirWay, WasSent
  <2>5. \A y \in UnderWay' : data[y] # m
    BY <2>1, <2>2 DEF OnTheirWay
  <2>6. \A i \in 1..Len(received) : received[i] # m
    BY <2>1 DEF OnTheirWay
  <2> HIDE DEF x, m
  <2>7. /\ Len(received') = Len(received) + 1 /\ received'[Len(received) + 1] = m
        /\ \A i \in 1..Len(received) : received'[i] = received[i]
        /\ Len(received) \in Nat
    BY <2>3, <2>4
  <2>8. \A i \in 1..Len(received') : i \in 1..Len(received) \/ i = Len(received) + 1
    BY <2>7
  <2>9. \A i \in 1..Len(received') :
          WasSent(received'[i], sent) /\ \A y \in UnderWay' : received'[i] # data[y]
    BY <2>2, <2>4, <2>5, <2>7, <2>8 DEF OnTheirWay
  <2>10. OnTheirWay'
    BY <2>2, <2>3, <2>9 DEF OnTheirWay
  <2>11. ReceivedOnce'
    BY <2>6, <2>7, <2>8 DEF ReceivedOnce
  <2>12. QED
    BY <2>10, <2>11
<1>5. ASSUME NEW c \in Consumers, FreeOld(c)
      PROVE  OnTheirWay' /\ ReceivedOnce'
  <2>1. Alive' = Alive /\ chead[c][1] \notin Alive
    BY <1>5, FreeSets
  <2>2. UNCHANGED <<head, sent, received>>
    BY <1>5 DEF FreeOld
  <2>3. \A y \in UnderWay : data'[y] = data[y]
    BY <1>0, <1>5, <1>t, <2>1 DEF FreeOld, Release, UnderWay
  <2>4. UnderWay' = UnderWay
    BY <2>1, <2>2 DEF UnderWay
  <2>5. QED
    BY <2>2, <2>3, <2>4 DEF OnTheirWay, ReceivedOnce
<1>6. QED
  BY <1>1, <1>2, <1>3, <1>4, <1>5 DEF Effect, Quiet, Swing, Clear

-----------------------------------------------------------------------------
(* What the calls under way can rely on *)

\* Each end of the list is what it was or has a new version, and while it is
\* what it was its next node stays.
Frame ==
  /\ tail' = tail \/ tail'[2] = tail[2] + 1
  /\ head' = head \/ head'[2] = head[2] + 1
  /\ tail' = tail /\ next[tail[1]] # Null => next'[tail[1]] = next[tail[1]]
  /\ head' = head /\ next[head[1]] # Null =>
       next'[head[1]] = next[head[1]] /\ data'[next[head[1]]] = data[next[head[1]]]
  /\ head' = head /\ tail[1] # head[1] => tail'[1] # head[1]

LEMMA FrameStep == Base /\ Effect => Frame
<1> SUFFICES ASSUME Base, Effect
             PROVE  Frame
  OBVIOUS
<1> USE DEF Base
<1>0. /\ Linked \subseteq Alive /\ Alive \subseteq Nodes /\ head[1] \in Linked
      /\ tail[1] \in Linked /\ Null \notin Nodes
      /\ \A x \in Linked : next[x] # Null => next[x] \in Linked \ {head[1]}
  BY DEF Linked, Alive, Chained, MsQueueAssumption
<1>t. /\ data \in [Nodes -> Messages \cup {NoMsg}]
      /\ next \in [Nodes -> Nodes \cup {Null, Garbage}]
  BY DEF MsQueueTypeOK
<1>1. CASE Quiet
  BY <1>1 DEF Quiet, Frame
<1>2. CASE Swing
  BY <1>0, <1>2 DEF Swing, Frame
<1>3. ASSUME NEW p \in Producers, NEW x \in Nodes, Alloc(p, x)
      PROVE  Frame
  <2>1. x \notin Linked
    BY <1>0, <1>3, AllocSets
  <2>2. \A y \in Linked : next'[y] = next[y] /\ data'[y] = data[y]
    BY <1>0, <1>3, <1>t, <2>1 DEF Alloc
  <2>3. head' = head /\ tail' = tail
    BY <1>3 DEF Alloc
  <2>4. QED
    BY <1>0, <2>2, <2>3 DEF Frame
<1>4. ASSUME NEW p \in Producers, Clear(p)
      PROVE  Frame
  <2>1. node[p] \notin Linked
    BY <1>4 DEF Clear, Linked, Private
  <2>2. \A y \in Linked : next'[y] = next[y] /\ data'[y] = data[y]
    BY <1>0, <1>4, <1>t, <2>1 DEF Clear
  <2>3. head' = head /\ tail' = tail
    BY <1>4 DEF Clear
  <2>4. QED
    BY <1>0, <2>2, <2>3 DEF Frame
<1>5. ASSUME NEW p \in Producers, Link(p)
      PROVE  Frame
  <2>1. \A y \in Linked : next[y] # Null => next'[y] = next[y]
    BY <1>0, <1>5, <1>t DEF Link
  <2>2. head' = head /\ tail' = tail /\ data' = data
    BY <1>5 DEF Link
  <2>3. QED
    BY <1>0, <2>1, <2>2 DEF Frame
<1>6. ASSUME NEW c \in Consumers, Pop(c)
      PROVE  Frame
  <2>1. head[2] \in Nat /\ head'[2] = head[2] + 1 /\ head' # head
    BY <1>6 DEF Pop, MsQueueTypeOK
  <2>2. tail' = tail /\ next' = next
    BY <1>6 DEF Pop
  <2>3. QED
    BY <2>1, <2>2 DEF Frame
<1>7. ASSUME NEW c \in Consumers, FreeOld(c)
      PROVE  Frame
  <2>1. chead[c][1] \notin Linked
    BY <1>0, <1>7, FreeSets
  <2>2. \A y \in Linked : next'[y] = next[y] /\ data'[y] = data[y]
    BY <1>0, <1>7, <1>t, <2>1 DEF FreeOld, Release
  <2>3. head' = head /\ tail' = tail
    BY <1>7 DEF FreeOld
  <2>4. QED
    BY <1>0, <2>2, <2>3 DEF Frame
<1>8. QED
  BY <1>1, <1>2, <1>3, <1>4, <1>5, <1>6, <1>7 DEF Effect

-----------------------------------------------------------------------------
(* The steps of the code have these effects *)

LEMMA InvBase == QInv => Base
BY MsQueueAssumption DEF QInv, Base, Kinds

LEMMA PushOf ==
  ASSUME NEW p \in Producers, Mpsc!MpscPush(p) \/ Mpmc!MpmcPush(p)
  PROVE  PushAlloc(p) \/ Pushing(p)
<1>1. Mpsc!Null = Null /\ Mpmc!Null = Null
  BY DEF Null, Mpsc!Null, Mpmc!Null
<1>2. CASE Mpsc!PushAlloc(p) \/ Mpmc!PushAlloc(p)
  BY <1>1, <1>2 DEF PushAlloc, PushGoto, Available, Held, popVars, Mpsc!PushAlloc, Mpsc!PushGoto, Mpsc!Available,
     Mpsc!Held, Mpsc!popVars, Mpmc!PushAlloc, Mpmc!PushGoto, Mpmc!Available,
     Mpmc!Held, Mpmc!popVars
<1>3. CASE Mpsc!PushInit(p) \/ Mpmc!PushInit(p)
  BY <1>1, <1>3 DEF Pushing, PushInit, PushGoto, popVars, Mpsc!PushInit, Mpsc!PushGoto,
     Mpsc!popVars, Mpmc!PushInit, Mpmc!PushGoto, Mpmc!popVars
<1>4. CASE Mpsc!PushLoadTail(p) \/ Mpmc!PushLoadTail(p)
  BY <1>4 DEF Pushing, PushLoadTail, PushGoto, popVars, queueVars, Mpsc!PushLoadTail,
     Mpsc!PushGoto, Mpsc!popVars, Mpsc!queueVars, Mpmc!PushLoadTail, Mpmc!PushGoto,
     Mpmc!popVars, Mpmc!queueVars
<1>5. CASE Mpsc!PushLoadNext(p) \/ Mpmc!PushLoadNext(p)
  BY <1>5 DEF Pushing, PushLoadNext, PushGoto, popVars, queueVars, Mpsc!PushLoadNext,
     Mpsc!PushGoto, Mpsc!popVars, Mpsc!queueVars, Mpmc!PushLoadNext, Mpmc!PushGoto,
     Mpmc!popVars, Mpmc!queueVars
<1>6. CASE Mpsc!PushCheck(p) \/ Mpmc!PushCheck(p)
  BY <1>1, <1>6 DEF Pushing, PushCheck, PushGoto, popVars, queueVars, Mpsc!PushCheck,
     Mpsc!PushGoto, Mpsc!popVars, Mpsc!queueVars, Mpmc!PushCheck, Mpmc!PushGoto,
     Mpmc!popVars, Mpmc!queueVars
<1>7. CASE Mpsc!PushHelp(p) \/ Mpmc!PushHelp(p)
  BY <1>7 DEF Pushing, PushHelp, PushGoto, SwingTail, popVars, Mpsc!PushHelp,
     Mpsc!PushGoto, Mpsc!SwingTail, Mpsc!popVars, Mpmc!PushHelp, Mpmc!PushGoto,
     Mpmc!SwingTail, Mpmc!popVars
<1>8. CASE Mpsc!PushLink(p) \/ Mpmc!PushLink(p)
  BY <1>1, <1>8 DEF Pushing, PushLink, PushGoto, popVars, queueVars, Mpsc!PushLink,
     Mpsc!PushGoto, Mpsc!popVars, Mpsc!queueVars, Mpmc!PushLink, Mpmc!PushGoto,
     Mpmc!popVars, Mpmc!queueVars
<1>9. CASE Mpsc!PushSwing(p) \/ Mpmc!PushSwing(p)
  BY <1>9 DEF Pushing, PushSwing, PushGoto, SwingTail, popVars, Mpsc!PushSwing,
     Mpsc!PushGoto, Mpsc!SwingTail, Mpsc!popVars, Mpmc!PushSwing, Mpmc!PushGoto,
     Mpmc!SwingTail, Mpmc!popVars
<1>10. QED
  BY <1>2, <1>3, <1>4, <1>5, <1>6, <1>7, <1>8, <1>9 DEF Mpsc!MpscPush, Mpmc!MpmcPush,
     Mpsc!Pushing, Mpmc!Pushing

\* A push that is not where an item is taken or given keeps its item.
LEMMA PushStays ==
  ASSUME MsQueueTypeOK, NEW p \in Producers, node' = node, free' = free, popVars' = popVars,
         NEW from, NEW to, PushGoto(p, from, to),
         from \in {"idle", "swing"} <=> to \in {"idle", "swing"}
  PROVE  SameOwners
<1>1. \A q \in Producers : Owns(q)' <=> Owns(q)
  BY DEF PushGoto, Owns, MsQueueTypeOK
<1>2. QED
  BY <1>1 DEF SameOwners, popVars, Frees

LEMMA PushEffect ==
  ASSUME QInv, NEW p \in Producers, PushAlloc(p) \/ Pushing(p)
  PROVE  Effect
<1> USE DEF QInv, Kinds
<1>1. CASE PushAlloc(p)
  <2>1. PICK x \in Available :
               /\ node' = [node EXCEPT ![p] = x] /\ free' = free \ {x}
               /\ next' = [next EXCEPT ![x] = Null]
               /\ data' = [data EXCEPT ![x] = <<p, sent[p] + 1>>]
    BY <1>1 DEF PushAlloc
  <2>2. x \in free /\ x \in Nodes
    BY <2>1 DEF Available, MsQueueTypeOK
  <2>3. ~Owns(p) /\ Owns(p)' /\ \A q \in Producers \ {p} : Owns(q)' <=> Owns(q)
    BY <1>1 DEF PushAlloc, PushGoto, Owns, MsQueueTypeOK
  <2>4. Alloc(p, x)
    BY <1>1, <2>1, <2>2, <2>3 DEF PushAlloc, Alloc, popVars
  <2>5. QED
    BY <2>2, <2>4 DEF Effect
<1>2. CASE PushInit(p)
  <2>1. SameOwners /\ Owns(p)
    BY <1>2, PushStays DEF PushInit, PushGoto, Owns
  <2>2. Clear(p)
    BY <1>2, <2>1 DEF PushInit, Clear, popVars
  <2>3. QED
    BY <2>2 DEF Effect
<1>3. CASE PushLoadTail(p)
  <2>1. SameOwners
    BY <1>3, PushStays DEF PushLoadTail, queueVars
  <2>2. QED
    BY <1>3, <2>1 DEF PushLoadTail, Effect, Quiet, queueVars, popVars
<1>4. CASE PushLoadNext(p)
  <2>1. SameOwners
    BY <1>4, PushStays DEF PushLoadNext, queueVars
  <2>2. QED
    BY <1>4, <2>1 DEF PushLoadNext, Effect, Quiet, queueVars, popVars
<1>5. CASE PushCheck(p)
  <2> DEFINE to == IF tail # ptail[p] THEN "tail"
                   ELSE IF pnext[p] # Null THEN "help" ELSE "link"
  <2>1. to \in {"tail", "help", "link"} /\ PushGoto(p, "check", to)
    BY <1>5 DEF PushCheck
  <2> HIDE DEF to
  <2>2. SameOwners
    BY <1>5, <2>1, PushStays DEF PushCheck, queueVars
  <2>3. QED
    BY <1>5, <2>2 DEF PushCheck, Effect, Quiet, queueVars, popVars
<1>6. CASE PushHelp(p)
  <2>1. SameOwners
    BY <1>6, PushStays DEF PushHelp
  <2>2. CASE tail' = tail
    BY <1>6, <2>1, <2>2 DEF PushHelp, Effect, Quiet, popVars
  <2>3. CASE tail = ptail[p] /\ tail' = <<pnext[p], ptail[p][2] + 1>>
    <3>1. pnext[p] = next[tail[1]] /\ pnext[p] # Null
      BY <1>6, <2>3 DEF PushHelp, PushGoto, PushSaw
    <3>2. Swing
      BY <1>6, <2>1, <2>3, <3>1 DEF PushHelp, Swing, popVars
    <3>3. QED
      BY <3>2 DEF Effect
  <2>4. QED
    BY <1>6, <2>2, <2>3 DEF PushHelp, SwingTail
<1>7. CASE PushLink(p)
  <2>1. CASE PushGoto(p, "link", "tail") /\ UNCHANGED <<queueVars, node, sent, popVars>>
    <3>1. SameOwners
      BY <2>1, PushStays DEF queueVars
    <3>2. QED
      BY <2>1, <3>1 DEF Effect, Quiet, queueVars, popVars
  <2>2. CASE /\ PushGoto(p, "link", "swing") /\ next[ptail[p][1]] = Null
             /\ next' = [next EXCEPT ![ptail[p][1]] = node[p]]
             /\ UNCHANGED <<reuse, head, tail, data, free, node, ptail, pnext, sent, popVars>>
    <3>1. Owns(p) /\ ~Owns(p)' /\ \A q \in Producers \ {p} : Owns(q)' <=> Owns(q)
      BY <2>2 DEF PushGoto, Owns, MsQueueTypeOK
    <3>2. Link(p)
      BY <2>2, <3>1 DEF Link, popVars
    <3>3. QED
      BY <3>2 DEF Effect
  <2>3. QED
    BY <1>7, <2>1, <2>2 DEF PushLink
<1>8. CASE PushSwing(p)
  <2>1. SameOwners
    BY <1>8, PushStays DEF PushSwing
  <2>2. CASE tail' = tail
    BY <1>8, <2>1, <2>2 DEF PushSwing, Effect, Quiet, popVars
  <2>3. CASE tail = ptail[p] /\ tail' = <<node[p], ptail[p][2] + 1>>
    <3>1. node[p] = next[tail[1]] /\ node[p] # Null
      BY <1>8, <2>3 DEF PushSwing, PushGoto, PushSaw
    <3>2. Swing
      BY <1>8, <2>1, <2>3, <3>1 DEF PushSwing, Swing, popVars
    <3>3. QED
      BY <3>2 DEF Effect
  <2>4. QED
    BY <1>8, <2>2, <2>3 DEF PushSwing, SwingTail
<1>9. QED
  BY <1>1, <1>2, <1>3, <1>4, <1>5, <1>6, <1>7, <1>8 DEF Pushing

\* A pop that does not win or free a dummy leaves the owners as they are.
LEMMA PopStays ==
  ASSUME MsQueueTypeOK, NEW c \in Consumers, pushVars' = pushVars, free' = free,
         cpc = [d \in Consumers |-> cpc[d]],
         NEW from, NEW to, cpc[c] = from, cpc' = [cpc EXCEPT ![c] = to],
         from # "free", to # "free",
         chead' = chead \/ chead' = [chead EXCEPT ![c] = head]
  PROVE  SameOwners
<1>1. \A q \in Producers : Owns(q)' <=> Owns(q)
  BY DEF pushVars, Owns
<1>2. \A d \in Consumers : Frees(d)' <=> Frees(d)
  BY DEF Frees
<1>3. \A d \in Consumers : Frees(d) => chead'[d] = chead[d]
  BY DEF Frees, MsQueueTypeOK
<1>4. QED
  BY <1>1, <1>2, <1>3 DEF SameOwners, pushVars

LEMMA CpcFunction == Kinds => cpc = [c \in Consumers |-> cpc[c]]
BY DEF Kinds

LEMMA MpscPopEffect ==
  ASSUME QInv, kind = "mpsc", Mpsc!Popping
  PROVE  Effect
<1> DEFINE c == Mpsc!C
<1> USE DEF QInv, Kinds
<1>c. c \in Consumers /\ cpc = [d \in Consumers |-> cpc[d]]
  BY CpcFunction DEF OneConsumer
<1>n. Mpsc!Null = Null /\ Mpsc!Garbage = Garbage /\ Mpsc!NoMsg = NoMsg
  BY DEF Null, Mpsc!Null, Garbage, Mpsc!Garbage, NoMsg, Mpsc!NoMsg
<1>1. CASE Mpsc!PopLoadHead
  <2>1. SameOwners
    BY <1>1, <1>c, PopStays DEF Mpsc!PopLoadHead, Mpsc!pushVars, pushVars, Mpsc!queueVars
  <2>2. QED
    BY <1>1, <2>1 DEF Mpsc!PopLoadHead, Mpsc!pushVars, Mpsc!queueVars, Effect, Quiet
<1>2. CASE Mpsc!PopLoadTail
  <2>1. SameOwners
    BY <1>2, <1>c, PopStays DEF Mpsc!PopLoadTail, Mpsc!PopGoto, Mpsc!pushVars, pushVars,
       Mpsc!queueVars
  <2>2. QED
    BY <1>2, <2>1 DEF Mpsc!PopLoadTail, Mpsc!pushVars, Mpsc!queueVars, Effect, Quiet
<1>3. CASE Mpsc!PopLoadNext
  <2> DEFINE to == IF chead[c][1] # ctail[c][1] THEN "data"
                   ELSE IF next[chead[c][1]] = Null THEN "idle" ELSE "help"
  <2>1. to # "free" /\ cpc[c] = "next" /\ cpc' = [cpc EXCEPT ![c] = to]
    BY <1>3, <1>n DEF Mpsc!PopLoadNext, Mpsc!PopGoto
  <2> HIDE DEF to
  <2>2. SameOwners
    BY <1>3, <1>c, <2>1, PopStays DEF Mpsc!PopLoadNext, Mpsc!pushVars, pushVars,
       Mpsc!queueVars
  <2>3. QED
    BY <1>3, <2>2 DEF Mpsc!PopLoadNext, Mpsc!pushVars, Mpsc!queueVars, Effect, Quiet
<1>4. CASE Mpsc!PopHelp
  <2>1. SameOwners
    BY <1>4, <1>c, PopStays DEF Mpsc!PopHelp, Mpsc!PopGoto, Mpsc!pushVars, pushVars
  <2>2. CASE tail' = tail
    BY <1>4, <2>1, <2>2 DEF Mpsc!PopHelp, Mpsc!pushVars, Effect, Quiet
  <2>3. CASE tail = ctail[c] /\ tail' = <<cnext[c], ctail[c][2] + 1>>
    <3>1. cnext[c] = next[tail[1]] /\ cnext[c] # Null
      BY <1>4, <1>c, <2>3 DEF Mpsc!PopHelp, Mpsc!PopGoto, PopSaw
    <3>2. Swing
      BY <1>4, <2>1, <2>3, <3>1 DEF Mpsc!PopHelp, Swing, Mpsc!pushVars
    <3>3. QED
      BY <3>2 DEF Effect
  <2>4. QED
    BY <1>4, <2>2, <2>3 DEF Mpsc!PopHelp, Mpsc!SwingTail
<1>5. CASE Mpsc!PopData
  <2>1. SameOwners
    BY <1>5, <1>c, PopStays DEF Mpsc!PopData, Mpsc!PopGoto, Mpsc!pushVars, pushVars,
       Mpsc!queueVars
  <2>2. QED
    BY <1>5, <2>1 DEF Mpsc!PopData, Mpsc!pushVars, Mpsc!queueVars, Effect, Quiet
<1>6. CASE Mpsc!PopStoreHead
  <2>1. cpc[c] = "store" /\ chead[c] = head
    BY <1>6 DEF Mpsc!PopStoreHead, Mpsc!PopGoto, OneConsumer
  <2>2. /\ tail[1] # head[1] /\ cnext[c] = next[head[1]] /\ cnext[c] # Null
        /\ cdata[c] = data[next[head[1]]]
    BY <1>c, <2>1 DEF PopSaw
  <2>3. ~Frees(c) /\ Frees(c)' /\ \A d \in Consumers \ {c} : Frees(d)' <=> Frees(d)
    BY <1>6, <1>c DEF Mpsc!PopStoreHead, Mpsc!PopGoto, Frees
  <2>4. Pop(c)
    BY <1>6, <2>1, <2>2, <2>3 DEF Mpsc!PopStoreHead, Mpsc!pushVars, Pop
  <2>5. QED
    BY <1>c, <2>4 DEF Effect
<1>7. CASE Mpsc!PopFree
  <2>1. Frees(c) /\ ~Frees(c)' /\ \A d \in Consumers \ {c} : Frees(d)' <=> Frees(d)
    BY <1>7, <1>c DEF Mpsc!PopFree, Mpsc!PopGoto, Frees
  <2>2. Release(chead[c][1])
    BY <1>7, <1>n DEF Mpsc!PopFree, Mpsc!Release, Release
  <2>3. FreeOld(c)
    BY <1>7, <2>1, <2>2 DEF Mpsc!PopFree, Mpsc!pushVars, FreeOld
  <2>4. QED
    BY <1>c, <2>3 DEF Effect
<1>8. QED
  BY <1>1, <1>2, <1>3, <1>4, <1>5, <1>6, <1>7 DEF Mpsc!Popping

LEMMA MpmcPopEffect ==
  ASSUME QInv, NEW c \in Consumers, Mpmc!Popping(c)
  PROVE  Effect
<1> USE DEF QInv, Kinds
<1>c. cpc = [d \in Consumers |-> cpc[d]]
  BY CpcFunction
<1>n. Mpmc!Null = Null /\ Mpmc!Garbage = Garbage /\ Mpmc!NoMsg = NoMsg
  BY DEF Null, Mpmc!Null, Garbage, Mpmc!Garbage, NoMsg, Mpmc!NoMsg
<1>1. CASE Mpmc!PopLoadHead(c)
  <2>1. SameOwners
    BY <1>1, <1>c, PopStays DEF Mpmc!PopLoadHead, Mpmc!pushVars, pushVars, Mpmc!queueVars
  <2>2. QED
    BY <1>1, <2>1 DEF Mpmc!PopLoadHead, Mpmc!pushVars, Mpmc!queueVars, Effect, Quiet
<1>2. CASE Mpmc!PopLoadTail(c)
  <2>1. SameOwners
    BY <1>2, <1>c, PopStays DEF Mpmc!PopLoadTail, Mpmc!PopGoto, Mpmc!pushVars, pushVars,
       Mpmc!queueVars
  <2>2. QED
    BY <1>2, <2>1 DEF Mpmc!PopLoadTail, Mpmc!pushVars, Mpmc!queueVars, Effect, Quiet
<1>3. CASE Mpmc!PopLoadNext(c)
  <2> DEFINE to == IF chead[c][1] # ctail[c][1] THEN "data"
                   ELSE IF next[chead[c][1]] = Null THEN "idle" ELSE "help"
  <2>1. to # "free" /\ cpc[c] = "next" /\ cpc' = [cpc EXCEPT ![c] = to]
    BY <1>3, <1>n DEF Mpmc!PopLoadNext, Mpmc!PopGoto
  <2> HIDE DEF to
  <2>2. SameOwners
    BY <1>3, <1>c, <2>1, PopStays DEF Mpmc!PopLoadNext, Mpmc!pushVars, pushVars,
       Mpmc!queueVars
  <2>3. QED
    BY <1>3, <2>2 DEF Mpmc!PopLoadNext, Mpmc!pushVars, Mpmc!queueVars, Effect, Quiet
<1>4. CASE Mpmc!PopHelp(c)
  <2>1. SameOwners
    BY <1>4, <1>c, PopStays DEF Mpmc!PopHelp, Mpmc!PopGoto, Mpmc!pushVars, pushVars
  <2>2. CASE tail' = tail
    BY <1>4, <2>1, <2>2 DEF Mpmc!PopHelp, Mpmc!pushVars, Effect, Quiet
  <2>3. CASE tail = ctail[c] /\ tail' = <<cnext[c], ctail[c][2] + 1>>
    <3>1. cnext[c] = next[tail[1]] /\ cnext[c] # Null
      BY <1>4, <1>c, <2>3 DEF Mpmc!PopHelp, Mpmc!PopGoto, PopSaw
    <3>2. Swing
      BY <1>4, <2>1, <2>3, <3>1 DEF Mpmc!PopHelp, Swing, Mpmc!pushVars
    <3>3. QED
      BY <3>2 DEF Effect
  <2>4. QED
    BY <1>4, <2>2, <2>3 DEF Mpmc!PopHelp, Mpmc!SwingTail
<1>5. CASE Mpmc!PopData(c)
  <2>1. PICK to \in {"cas", "crashed"} : cpc[c] = "data" /\ cpc' = [cpc EXCEPT ![c] = to]
    BY <1>5 DEF Mpmc!PopData, Mpmc!PopGoto
  <2>2. UNCHANGED <<queueVars, pushVars, chead, received>>
    BY <1>5 DEF Mpmc!PopData, Mpmc!pushVars, Mpmc!queueVars, pushVars, queueVars
  <2>3. SameOwners
    BY <1>c, <2>1, <2>2, PopStays DEF queueVars
  <2>4. QED
    BY <2>2, <2>3 DEF queueVars, pushVars, Effect, Quiet
<1>6. CASE Mpmc!PopCheck(c)
  <2>1. PICK to \in {"next", "head"} : cpc[c] = "check" /\ cpc' = [cpc EXCEPT ![c] = to]
    BY <1>6 DEF Mpmc!PopCheck, Mpmc!PopGoto
  <2>2. UNCHANGED <<queueVars, pushVars, chead, received>>
    BY <1>6 DEF Mpmc!PopCheck, Mpmc!pushVars, Mpmc!queueVars, pushVars, queueVars
  <2>3. SameOwners
    BY <1>c, <2>1, <2>2, PopStays DEF queueVars
  <2>4. QED
    BY <2>2, <2>3 DEF queueVars, pushVars, Effect, Quiet
<1>7. CASE Mpmc!PopCas(c)
  <2>1. CASE Mpmc!PopGoto(c, "cas", "head") /\ UNCHANGED <<queueVars, pushVars, chead, received>>
    <3>1. SameOwners
      BY <1>c, <2>1, PopStays DEF Mpmc!PopGoto, queueVars
    <3>2. QED
      BY <2>1, <3>1 DEF queueVars, pushVars, Effect, Quiet
  <2>2. CASE /\ head = chead[c] /\ Mpmc!PopGoto(c, "cas", "free")
             /\ head' = <<cnext[c], chead[c][2] + 1>>
             /\ received' = Append(received, cdata[c])
             /\ UNCHANGED <<tail, next, data, free, pushVars, chead>>
    <3>1. /\ tail[1] # head[1] /\ cnext[c] = next[head[1]] /\ cnext[c] # Null
          /\ cdata[c] = data[next[head[1]]]
      BY <2>2 DEF PopSaw, Mpmc!PopGoto
    <3>2. ~Frees(c) /\ Frees(c)' /\ \A d \in Consumers \ {c} : Frees(d)' <=> Frees(d)
      BY <2>2, <1>c DEF Mpmc!PopGoto, Frees
    <3>3. Pop(c)
      BY <2>2, <3>1, <3>2 DEF pushVars, Pop
    <3>4. QED
      BY <3>3 DEF Effect
  <2>3. QED
    BY <1>7, <2>1, <2>2 DEF Mpmc!PopCas, Mpmc!pushVars, Mpmc!queueVars, pushVars, queueVars
<1>8. CASE Mpmc!PopFree(c)
  <2>1. Frees(c) /\ ~Frees(c)' /\ \A d \in Consumers \ {c} : Frees(d)' <=> Frees(d)
    BY <1>8, <1>c DEF Mpmc!PopFree, Mpmc!PopGoto, Frees
  <2>2. Release(chead[c][1])
    BY <1>8, <1>n DEF Mpmc!PopFree, Mpmc!Release, Release
  <2>3. FreeOld(c)
    BY <1>8, <2>1, <2>2 DEF Mpmc!PopFree, Mpmc!pushVars, FreeOld
  <2>4. QED
    BY <2>3 DEF Effect
<1>9. QED
  BY <1>1, <1>2, <1>3, <1>4, <1>5, <1>6, <1>7, <1>8 DEF Mpmc!Popping

LEMMA StepEffect == QInv /\ [MpscNext \/ MpmcNext]_allVars => Effect
<1> SUFFICES ASSUME QInv, [MpscNext \/ MpmcNext]_allVars
             PROVE  Effect
  OBVIOUS
<1>1. ASSUME NEW p \in Producers, Mpsc!MpscPush(p) \/ Mpmc!MpmcPush(p)
      PROVE  Effect
  BY <1>1, PushOf, PushEffect
<1>2. CASE UNCHANGED allVars
  <2>1. UNCHANGED <<head, tail, next, data, free, ppc, node, sent, cpc, chead, received>>
    BY <1>2 DEF allVars, vars, queueVars, pushVars, popVars
  <2>2. SameOwners
    BY <2>1 DEF SameOwners, Owns, Frees
  <2>3. QED
    BY <2>1, <2>2 DEF Effect, Quiet
<1>3. QED
  BY <1>1, <1>2, MpscPopEffect, MpmcPopEffect DEF MpscNext, MpmcNext, Mpsc!Next, Mpmc!Next

-----------------------------------------------------------------------------
(* What each call saw *)

LEMMA PushSawStays ==
  ASSUME Base, Frame, NEW p \in Producers, PushSaw(p),
         ppc'[p] = ppc[p], node'[p] = node[p], ptail'[p] = ptail[p], pnext'[p] = pnext[p]
  PROVE  PushSaw(p)'
<1>1. tail[2] \in Nat /\ ptail[p][2] \in Nat
  BY DEF Base, MsQueueTypeOK
<1>2. ptail'[p][2] <= tail'[2] /\ (ptail'[p] = tail' => tail' = tail)
  BY <1>1 DEF PushSaw, Frame
<1>3. CASE ptail'[p] = tail'
  BY <1>2, <1>3 DEF PushSaw, Frame
<1>4. CASE ptail'[p] # tail'
  BY <1>2, <1>4 DEF PushSaw
<1>5. QED
  BY <1>3, <1>4

LEMMA PopSawStays ==
  ASSUME Base, Frame, NEW c \in Consumers, PopSaw(c),
         cpc'[c] = cpc[c], chead'[c] = chead[c], ctail'[c] = ctail[c],
         cnext'[c] = cnext[c], cdata'[c] = cdata[c]
  PROVE  PopSaw(c)'
<1>1. /\ tail[2] \in Nat /\ ctail[c][2] \in Nat /\ head[2] \in Nat /\ chead[c][2] \in Nat
  BY DEF Base, MsQueueTypeOK
<1>2. ctail'[c][2] <= tail'[2] /\ (ctail'[c] = tail' => tail' = tail)
  BY <1>1 DEF PopSaw, Frame
<1>3. chead'[c][2] <= head'[2] /\ (chead'[c] = head' => head' = head)
  BY <1>1 DEF PopSaw, Frame
<1>4. cpc[c] \in {"check", "next"} /\ chead[c] = head' /\ ctail[c][1] # head'[1] =>
        tail'[1] # head'[1]
  BY <1>3 DEF PopSaw, Frame
<1>5. cpc[c] = "help" /\ ctail[c] = tail' => cnext[c] = next'[tail'[1]] /\ cnext[c] # Null
  BY <1>2 DEF PopSaw, Frame
<1>6. cpc[c] \in {"data", "cas", "store"} /\ chead[c] = head' =>
        tail'[1] # head'[1] /\ cnext[c] = next'[head'[1]] /\ cnext[c] # Null
  BY <1>3 DEF PopSaw, Frame
<1>7. cpc[c] \in {"cas", "store"} /\ chead[c] = head' => cdata[c] = data'[cnext[c]]
  BY <1>3 DEF PopSaw, Frame
<1>8. QED
  BY <1>2, <1>3, <1>4, <1>5, <1>6, <1>7 DEF PopSaw

LEMMA PushOwnSaw ==
  ASSUME QInv, Frame, NEW p \in Producers, PushAlloc(p) \/ Pushing(p)
  PROVE  PushSaw(p)'
<1> USE DEF QInv, Kinds
<1>t. /\ ppc \in [Producers -> {"idle", "init", "tail", "next", "check", "help", "link", "swing"}]
      /\ node \in [Producers -> Nodes \cup {Null}]
      /\ ptail \in [Producers -> Nodes \X Nat] /\ tail \in Nodes \X Nat
      /\ pnext \in [Producers -> Nodes \cup {Null, Garbage}]
      /\ next \in [Nodes -> Nodes \cup {Null, Garbage}]
  BY DEF MsQueueTypeOK
<1>v. tail[2] \in Nat /\ ptail[p][2] \in Nat /\ ptail[p][2] <= tail[2] /\ Null \notin Nodes
  BY <1>t, MsQueueAssumption DEF PushSaw
<1>w. tail' = tail \/ tail'[2] = tail[2] + 1
  BY DEF Frame
<1>1. CASE PushAlloc(p)
  <2>1. ppc'[p] = "init" /\ ptail'[p] = tail /\ tail' = tail
    BY <1>1, <1>t DEF PushAlloc, PushGoto
  <2>2. QED
    BY <1>v, <2>1 DEF PushSaw
<1>2. CASE PushInit(p)
  <2>1. ppc'[p] = "tail" /\ ptail'[p] = ptail[p] /\ tail' = tail
    BY <1>2, <1>t DEF PushInit, PushGoto
  <2>2. QED
    BY <1>v, <2>1 DEF PushSaw
<1>3. CASE PushLoadTail(p)
  <2>1. ppc'[p] = "next" /\ ptail'[p] = tail /\ tail' = tail
    BY <1>3, <1>t DEF PushLoadTail, PushGoto, queueVars
  <2>2. QED
    BY <1>v, <2>1 DEF PushSaw
<1>4. CASE PushLoadNext(p)
  <2>1. /\ ppc'[p] = "check" /\ ptail'[p] = ptail[p] /\ tail' = tail /\ next' = next
        /\ pnext'[p] = next[ptail[p][1]]
    BY <1>4, <1>t DEF PushLoadNext, PushGoto, queueVars
  <2>2. QED
    BY <1>v, <2>1 DEF PushSaw
<1>5. CASE PushCheck(p)
  <2>1. /\ ptail'[p] = ptail[p] /\ tail' = tail /\ next' = next /\ pnext'[p] = pnext[p]
        /\ ppc[p] = "check" /\ ppc'[p] \in {"tail", "help", "link"}
        /\ ppc'[p] = "help" => pnext[p] # Null
    BY <1>5, <1>t DEF PushCheck, PushGoto, queueVars
  <2>2. QED
    BY <1>v, <2>1 DEF PushSaw
<1>6. CASE PushHelp(p)
  <2>1. ppc'[p] = "tail" /\ ptail'[p] = ptail[p]
    BY <1>6, <1>t DEF PushHelp, PushGoto
  <2>2. QED
    BY <1>v, <1>w, <2>1 DEF PushSaw
<1>7. CASE PushLink(p)
  <2>1. CASE ppc'[p] = "tail" /\ ptail' = ptail /\ tail' = tail
    BY <1>v, <2>1 DEF PushSaw
  <2>2. CASE /\ PushGoto(p, "link", "swing") /\ next[ptail[p][1]] = Null
             /\ next' = [next EXCEPT ![ptail[p][1]] = node[p]]
             /\ UNCHANGED <<tail, node, ptail>>
    <3>1. ppc'[p] = "swing" /\ Owns(p)
      BY <2>2, <1>t DEF PushGoto, Owns
    <3>2. node[p] \in Nodes
      BY <3>1 DEF Owned, Alive
    <3>3. next'[ptail[p][1]] = node[p]
      BY <2>2, <1>t
    <3>4. QED
      BY <1>v, <2>2, <3>1, <3>2, <3>3 DEF PushSaw
  <2>3. QED
    BY <1>7, <1>t, <2>1, <2>2 DEF PushLink, PushGoto, queueVars
<1>8. CASE PushSwing(p)
  <2>1. ppc'[p] = "idle" /\ ptail'[p] = ptail[p]
    BY <1>8, <1>t DEF PushSwing, PushGoto
  <2>2. QED
    BY <1>v, <1>w, <2>1 DEF PushSaw
<1>9. QED
  BY <1>1, <1>2, <1>3, <1>4, <1>5, <1>6, <1>7, <1>8 DEF Pushing

\* The others' pushes are as they were.
LEMMA PushOthers ==
  ASSUME Base, Frame, NEW p \in Producers, PushAlloc(p) \/ Pushing(p),
         \A q \in Producers : PushSaw(q), \A c \in Consumers : PopSaw(c)
  PROVE  /\ \A q \in Producers \ {p} : PushSaw(q)'
         /\ \A c \in Consumers : PopSaw(c)'
<1>1. UNCHANGED <<cpc, chead, ctail, cnext, cdata>>
  BY DEF Pushing, PushAlloc, PushInit, PushLoadTail, PushLoadNext, PushCheck, PushHelp,
     PushLink, PushSwing, popVars
<1>2. \A c \in Consumers : PopSaw(c)'
  BY <1>1, PopSawStays
<1>3. ASSUME NEW q \in Producers, q # p
      PROVE  PushSaw(q)'
  <2>1. /\ ppc'[q] = ppc[q] /\ node'[q] = node[q] /\ ptail'[q] = ptail[q]
        /\ pnext'[q] = pnext[q]
    BY <1>3 DEF Base, MsQueueTypeOK, Pushing, PushGoto, PushAlloc, PushInit, PushLoadTail,
       PushLoadNext, PushCheck, PushHelp, PushLink, PushSwing, queueVars
  <2>2. QED
    BY <2>1, PushSawStays
<1>4. QED
  BY <1>2, <1>3

LEMMA MpscOwnSaw ==
  ASSUME QInv, Frame, kind = "mpsc", Mpsc!Popping, NEW c, c = Mpsc!C
  PROVE  PopSaw(c)'
<1> USE DEF QInv, Kinds
<1>t. /\ cpc = [d \in Consumers |-> cpc[d]] /\ c \in Consumers
      /\ chead = [d \in Consumers |-> chead[d]] /\ ctail = [d \in Consumers |-> ctail[d]]
      /\ cnext = [d \in Consumers |-> cnext[d]] /\ cdata = [d \in Consumers |-> cdata[d]]
  BY CpcFunction DEF MsQueueTypeOK, OneConsumer
<1>n. Mpsc!Null = Null
  BY DEF Null, Mpsc!Null
<1>v. /\ tail[2] \in Nat /\ ctail[c][2] \in Nat /\ ctail[c][2] <= tail[2]
      /\ head[2] \in Nat /\ chead[c][2] \in Nat /\ chead[c][2] <= head[2]
  BY <1>t DEF MsQueueTypeOK, PopSaw
<1>w. (tail' = tail \/ tail'[2] = tail[2] + 1) /\ (head' = head \/ head'[2] = head[2] + 1)
  BY DEF Frame
<1>d. tail[1] # head[1] => next[head[1]] # Null
  BY DummyHasNext, InvBase, MsQueueAssumption DEF Linked, Alive
<1>p. PopSaw(c)
  BY <1>t
<1>1. CASE Mpsc!PopLoadHead
  <2>1. /\ cpc'[c] = "tail" /\ chead'[c] = head /\ ctail'[c] = ctail[c]
        /\ head' = head
    BY <1>1, <1>t, <1>n DEF Mpsc!PopLoadHead, Mpsc!queueVars
  <2>2. QED
    BY <1>v, <1>w, <1>p, <2>1 DEF PopSaw
<1>2. CASE Mpsc!PopLoadTail
  <2>1. /\ cpc'[c] = "next" /\ chead'[c] = chead[c] /\ ctail'[c] = tail
        /\ head' = head /\ tail' = tail
    BY <1>2, <1>t, <1>n DEF Mpsc!PopLoadTail, Mpsc!PopGoto, Mpsc!queueVars
  <2>2. QED
    BY <1>v, <1>w, <1>p, <2>1 DEF PopSaw
<1>3. CASE Mpsc!PopLoadNext
  <2>1. /\ cpc[c] = "next" /\ cpc'[c] \in {"data", "idle", "help"}
        /\ cpc'[c] = "data" => chead[c][1] # ctail[c][1]
        /\ cpc'[c] = "help" => chead[c][1] = ctail[c][1] /\ next[chead[c][1]] # Null
        /\ cnext'[c] = next[chead[c][1]]
        /\ UNCHANGED <<chead, ctail, head, tail, next>>
    BY <1>3, <1>t, <1>n DEF Mpsc!PopLoadNext, Mpsc!PopGoto, Mpsc!queueVars
  <2>2. QED
    BY <1>v, <1>d, <1>p, <2>1 DEF PopSaw
<1>4. CASE Mpsc!PopHelp
  <2>1. /\ cpc'[c] = "head" /\ UNCHANGED <<chead, ctail, head>>
    BY <1>4, <1>t, <1>n DEF Mpsc!PopHelp, Mpsc!PopGoto, Mpsc!queueVars
  <2>2. QED
    BY <1>v, <1>w, <1>p, <2>1 DEF PopSaw
<1>5. CASE Mpsc!PopData
  <2>1. /\ cpc[c] = "data" /\ cpc'[c] = "store" /\ cdata'[c] = data[cnext[c]]
        /\ UNCHANGED <<chead, ctail, cnext, head, tail, next, data>>
    BY <1>5, <1>t, <1>n DEF Mpsc!PopData, Mpsc!PopGoto, Mpsc!queueVars
  <2>2. QED
    BY <1>v, <1>w, <1>p, <2>1 DEF PopSaw
<1>6. CASE Mpsc!PopStoreHead
  <2>1. /\ cpc'[c] = "free" /\ UNCHANGED <<chead, ctail, tail>>
    BY <1>6, <1>t, <1>n DEF Mpsc!PopStoreHead, Mpsc!PopGoto, Mpsc!queueVars
  <2>2. QED
    BY <1>v, <1>w, <1>p, <2>1 DEF PopSaw
<1>7. CASE Mpsc!PopFree
  <2>1. /\ cpc'[c] = "idle" /\ UNCHANGED <<chead, ctail, head, tail>>
    BY <1>7, <1>t, <1>n DEF Mpsc!PopFree, Mpsc!PopGoto, Mpsc!queueVars
  <2>2. QED
    BY <1>v, <1>w, <1>p, <2>1 DEF PopSaw
<1>8. QED
  BY <1>1, <1>2, <1>3, <1>4, <1>5, <1>6, <1>7 DEF Mpsc!Popping

LEMMA MpmcOwnSaw ==
  ASSUME QInv, Frame, NEW c \in Consumers, Mpmc!Popping(c)
  PROVE  PopSaw(c)'
<1> USE DEF QInv, Kinds
<1>t. /\ cpc = [d \in Consumers |-> cpc[d]] /\ c \in Consumers
      /\ chead = [d \in Consumers |-> chead[d]] /\ ctail = [d \in Consumers |-> ctail[d]]
      /\ cnext = [d \in Consumers |-> cnext[d]] /\ cdata = [d \in Consumers |-> cdata[d]]
  BY CpcFunction DEF MsQueueTypeOK
<1>n. Mpmc!Null = Null
  BY DEF Null, Mpmc!Null
<1>v. /\ tail[2] \in Nat /\ ctail[c][2] \in Nat /\ ctail[c][2] <= tail[2]
      /\ head[2] \in Nat /\ chead[c][2] \in Nat /\ chead[c][2] <= head[2]
  BY <1>t DEF MsQueueTypeOK, PopSaw
<1>w. (tail' = tail \/ tail'[2] = tail[2] + 1) /\ (head' = head \/ head'[2] = head[2] + 1)
  BY DEF Frame
<1>d. tail[1] # head[1] => next[head[1]] # Null
  BY DummyHasNext, InvBase, MsQueueAssumption DEF Linked, Alive
<1>p. PopSaw(c)
  BY <1>t
<1>1. CASE Mpmc!PopLoadHead(c)
  <2>1. /\ cpc'[c] = "tail" /\ chead'[c] = head /\ ctail'[c] = ctail[c]
        /\ head' = head
    BY <1>1, <1>t, <1>n DEF Mpmc!PopLoadHead, Mpmc!queueVars
  <2>2. QED
    BY <1>v, <1>w, <1>p, <2>1 DEF PopSaw
<1>2. CASE Mpmc!PopLoadTail(c)
  <2>1. /\ cpc'[c] = "check" /\ chead'[c] = chead[c] /\ ctail'[c] = tail
        /\ head' = head /\ tail' = tail
    BY <1>2, <1>t, <1>n DEF Mpmc!PopLoadTail, Mpmc!PopGoto, Mpmc!queueVars
  <2>2. QED
    BY <1>v, <1>w, <1>p, <2>1 DEF PopSaw
<1>3. CASE Mpmc!PopCheck(c)
  <2>1. /\ cpc[c] = "check" /\ cpc'[c] \in {"next", "head"}
        /\ UNCHANGED <<chead, ctail, head, tail>>
    BY <1>3, <1>t, <1>n DEF Mpmc!PopCheck, Mpmc!PopGoto, Mpmc!queueVars
  <2>2. QED
    BY <1>v, <1>w, <1>p, <2>1 DEF PopSaw
<1>4. CASE Mpmc!PopLoadNext(c)
  <2>1. /\ cpc[c] = "next" /\ cpc'[c] \in {"data", "idle", "help"}
        /\ cpc'[c] = "data" => chead[c][1] # ctail[c][1]
        /\ cpc'[c] = "help" => chead[c][1] = ctail[c][1] /\ next[chead[c][1]] # Null
        /\ cnext'[c] = next[chead[c][1]]
        /\ UNCHANGED <<chead, ctail, head, tail, next>>
    BY <1>4, <1>t, <1>n DEF Mpmc!PopLoadNext, Mpmc!PopGoto, Mpmc!queueVars
  <2>2. QED
    BY <1>v, <1>d, <1>p, <2>1 DEF PopSaw
<1>5. CASE Mpmc!PopHelp(c)
  <2>1. /\ cpc'[c] = "head" /\ UNCHANGED <<chead, ctail, head>>
    BY <1>5, <1>t, <1>n DEF Mpmc!PopHelp, Mpmc!PopGoto, Mpmc!queueVars
  <2>2. QED
    BY <1>v, <1>w, <1>p, <2>1 DEF PopSaw
<1>6. CASE Mpmc!PopData(c)
  <2>1. /\ cpc[c] = "data" /\ cpc'[c] \in {"cas", "crashed"}
        /\ cpc'[c] = "cas" => cdata'[c] = data[cnext[c]]
        /\ UNCHANGED <<chead, ctail, cnext, head, tail, next, data>>
    BY <1>6, <1>t, <1>n DEF Mpmc!PopData, Mpmc!PopGoto, Mpmc!queueVars
  <2>2. QED
    BY <1>v, <1>w, <1>p, <2>1 DEF PopSaw
<1>7. CASE Mpmc!PopCas(c)
  <2>1. /\ cpc'[c] \in {"free", "head"} /\ UNCHANGED <<chead, ctail, tail>>
    BY <1>7, <1>t, <1>n DEF Mpmc!PopCas, Mpmc!PopGoto, Mpmc!queueVars
  <2>2. QED
    BY <1>v, <1>w, <1>p, <2>1 DEF PopSaw
<1>8. CASE Mpmc!PopFree(c)
  <2>1. /\ cpc'[c] = "idle" /\ UNCHANGED <<chead, ctail, head, tail>>
    BY <1>8, <1>t, <1>n DEF Mpmc!PopFree, Mpmc!PopGoto, Mpmc!queueVars
  <2>2. QED
    BY <1>v, <1>w, <1>p, <2>1 DEF PopSaw
<1>9. QED
  BY <1>1, <1>2, <1>3, <1>4, <1>5, <1>6, <1>7, <1>8 DEF Mpmc!Popping

-----------------------------------------------------------------------------
(* Types, and the one consumer *)

LEMMA QueueTypes ==
  ASSUME Base, Effect
  PROVE  /\ head' \in Nodes \X Nat /\ tail' \in Nodes \X Nat /\ free' \subseteq Nodes
         /\ next' \in [Nodes -> Nodes \cup {Null, Garbage}]
         /\ data' \in [Nodes -> Messages \cup {NoMsg}]
         /\ node' \in [Producers -> Nodes \cup {Null}]
         /\ sent' \in [Producers -> 0..MaxPushes]
         /\ received' \in Seq(Messages)
<1> USE DEF Base
<1>t. /\ head \in Nodes \X Nat /\ tail \in Nodes \X Nat /\ free \subseteq Nodes
      /\ next \in [Nodes -> Nodes \cup {Null, Garbage}]
      /\ data \in [Nodes -> Messages \cup {NoMsg}]
      /\ node \in [Producers -> Nodes \cup {Null}]
      /\ sent \in [Producers -> 0..MaxPushes] /\ MaxPushes \in Nat
  BY DEF MsQueueTypeOK, MsQueueAssumption
<1>0. Alive \subseteq Nodes /\ \A x \in Alive : next[x] # Null => next[x] \in Linked \ {head[1]}
  BY DEF Alive, Chained
<1>l. Linked \subseteq Alive /\ head[1] \in Alive /\ tail[1] \in Alive
  BY DEF Linked, Chained
<1>1. CASE Quiet
  BY <1>1, <1>t DEF Quiet, SameOwners
<1>2. CASE Swing
  <2>1. next[tail[1]] \in Nodes
    BY <1>0, <1>l, <1>2 DEF Swing
  <2>2. QED
    BY <1>2, <1>t, <2>1 DEF Swing, SameOwners
<1>3. ASSUME NEW p \in Producers, NEW x \in Nodes, Alloc(p, x)
      PROVE  /\ next' \in [Nodes -> Nodes \cup {Null, Garbage}]
             /\ data' \in [Nodes -> Messages \cup {NoMsg}]
             /\ node' \in [Producers -> Nodes \cup {Null}]
             /\ sent' \in [Producers -> 0..MaxPushes]
             /\ UNCHANGED <<head, tail, received>> /\ free' \subseteq Nodes
  <2>1. sent[p] + 1 \in 1..MaxPushes
    BY <1>3, <1>t DEF Alloc
  <2>2. <<p, sent[p] + 1>> \in Messages
    BY <2>1 DEF Messages
  <2>3. sent[p] + 1 \in 0..MaxPushes
    BY <2>1
  <2>4. QED
    BY <1>3, <1>t, <2>2, <2>3 DEF Alloc
<1>4. ASSUME NEW p \in Producers, Clear(p)
      PROVE  /\ next' \in [Nodes -> Nodes \cup {Null, Garbage}]
             /\ UNCHANGED <<head, tail, received, data, node, sent, free>>
  BY <1>4, <1>t DEF Clear, SameOwners
<1>5. ASSUME NEW p \in Producers, Link(p)
      PROVE  /\ next' \in [Nodes -> Nodes \cup {Null, Garbage}]
             /\ UNCHANGED <<head, tail, received, data, node, sent, free>>
  BY <1>5, <1>t DEF Link
<1>6. ASSUME NEW c \in Consumers, Pop(c)
      PROVE  /\ head' \in Nodes \X Nat /\ received' \in Seq(Messages)
             /\ UNCHANGED <<tail, next, data, node, sent, free>>
  <2>1. next[head[1]] \in Linked \ {head[1]} /\ next[head[1]] \in Nodes
    BY <1>0, <1>l, <1>6 DEF Pop
  <2>2. data[next[head[1]]] \in Messages
    BY <1>l, <2>1 DEF OnTheirWay, UnderWay, WasSent
  <2>3. QED
    BY <1>6, <1>t, <2>1, <2>2 DEF Pop
<1>7. ASSUME NEW c \in Consumers, FreeOld(c)
      PROVE  /\ next' \in [Nodes -> Nodes \cup {Null, Garbage}]
             /\ data' \in [Nodes -> Messages \cup {NoMsg}] /\ free' \subseteq Nodes
             /\ UNCHANGED <<head, tail, received, node, sent>>
  <2>1. chead[c][1] \in Nodes
    BY DEF MsQueueTypeOK
  <2>2. QED
    BY <1>7, <1>t, <2>1 DEF FreeOld, Release
<1>8. QED
  BY <1>1, <1>2, <1>3, <1>4, <1>5, <1>6, <1>7, <1>t DEF Effect

LEMMA PushTypes ==
  ASSUME QInv, NEW p \in Producers, PushAlloc(p) \/ Pushing(p), kind' = kind
  PROVE  Kinds'
<1> USE DEF QInv
<1>1. /\ head' \in Nodes \X Nat /\ tail' \in Nodes \X Nat /\ free' \subseteq Nodes
      /\ next' \in [Nodes -> Nodes \cup {Null, Garbage}]
      /\ data' \in [Nodes -> Messages \cup {NoMsg}]
      /\ node' \in [Producers -> Nodes \cup {Null}]
      /\ sent' \in [Producers -> 0..MaxPushes]
      /\ received' \in Seq(Messages)
  BY QueueTypes, InvBase, PushEffect
<1>t. /\ ppc \in [Producers -> {"idle", "init", "tail", "next", "check", "help", "link", "swing"}]
      /\ ptail \in [Producers -> Nodes \X Nat] /\ tail \in Nodes \X Nat
      /\ pnext \in [Producers -> Nodes \cup {Null, Garbage}]
      /\ next \in [Nodes -> Nodes \cup {Null, Garbage}]
      /\ accepted \in Seq(Messages)
  BY DEF Kinds, MsQueueTypeOK
<1>2. UNCHANGED <<reuse, cpc, chead, ctail, cnext, cdata>>
  BY DEF Pushing, PushAlloc, PushInit, PushLoadTail, PushLoadNext, PushCheck, PushHelp,
     PushLink, PushSwing, popVars, queueVars
<1>3. ppc' \in [Producers -> {"idle", "init", "tail", "next", "check", "help", "link", "swing"}]
  BY <1>t DEF Pushing, PushAlloc, PushInit, PushLoadTail, PushLoadNext, PushCheck, PushHelp,
     PushLink, PushSwing, PushGoto
<1>4. ptail' \in [Producers -> Nodes \X Nat]
  BY <1>t DEF Pushing, PushAlloc, PushInit, PushLoadTail, PushLoadNext, PushCheck, PushHelp,
     PushLink, PushSwing
<1>5. pnext' \in [Producers -> Nodes \cup {Null, Garbage}]
  BY <1>t DEF Pushing, PushAlloc, PushInit, PushLoadTail, PushLoadNext, PushCheck, PushHelp,
     PushLink, PushSwing
<1>6. accepted' \in Seq(Messages)
  <2>1. CASE accepted' = accepted
    BY <1>t, <2>1
  <2>2. CASE ppc[p] = "link" /\ accepted' = Append(accepted, data[node[p]])
    <3>1. node[p] \in UnderWay
      BY <2>2 DEF Owned, Owns, Chained, UnderWay, Linked, Private
    <3>2. data[node[p]] \in Messages
      BY <3>1 DEF OnTheirWay, WasSent
    <3>3. QED
      BY <1>t, <2>2, <3>2
  <2>3. QED
    BY <2>1, <2>2 DEF Pushing, PushAlloc, PushInit, PushLoadTail, PushLoadNext, PushCheck,
       PushHelp, PushLink, PushSwing, PushGoto
<1>7. MsQueueTypeOK'
  BY <1>1, <1>2, <1>3, <1>4, <1>5, <1>6 DEF Kinds, MsQueueTypeOK
<1>8. QED
  BY <1>1, <1>2, <1>7 DEF Kinds

LEMMA MpscPopTypes ==
  ASSUME QInv, kind = "mpsc", Mpsc!Popping, kind' = kind
  PROVE  Kinds'
<1> DEFINE c == Mpsc!C
<1> USE DEF QInv
<1>1. /\ head' \in Nodes \X Nat /\ tail' \in Nodes \X Nat /\ free' \subseteq Nodes
      /\ next' \in [Nodes -> Nodes \cup {Null, Garbage}]
      /\ data' \in [Nodes -> Messages \cup {NoMsg}]
      /\ node' \in [Producers -> Nodes \cup {Null}]
      /\ sent' \in [Producers -> 0..MaxPushes]
      /\ received' \in Seq(Messages)
  BY QueueTypes, InvBase, MpscPopEffect
<1>t. /\ head \in Nodes \X Nat /\ tail \in Nodes \X Nat
      /\ next \in [Nodes -> Nodes \cup {Null, Garbage}]
      /\ data \in [Nodes -> Messages \cup {NoMsg}]
      /\ chead \in [Consumers -> Nodes \X Nat] /\ ctail \in [Consumers -> Nodes \X Nat]
      /\ cnext \in [Consumers -> Nodes \cup {Null, Garbage}]
      /\ cdata \in [Consumers -> Messages \cup {NoMsg}]
      /\ c \in Consumers
  BY DEF Kinds, MsQueueTypeOK, OneConsumer
<1>2. UNCHANGED <<reuse, ppc, ptail, pnext, accepted>>
  BY DEF Mpsc!Popping, Mpsc!PopLoadHead, Mpsc!PopLoadTail, Mpsc!PopLoadNext, Mpsc!PopHelp,
     Mpsc!PopData, Mpsc!PopStoreHead, Mpsc!PopFree, Mpsc!pushVars, Mpsc!queueVars
<1>3. cpc' \in [Consumers -> {"idle", "head", "tail", "next", "help", "data", "store", "free"}]
  BY DEF Kinds, Mpsc!Popping, Mpsc!PopLoadHead, Mpsc!PopLoadTail, Mpsc!PopLoadNext,
     Mpsc!PopHelp, Mpsc!PopData, Mpsc!PopStoreHead, Mpsc!PopFree, Mpsc!PopGoto
<1>4. chead' \in [Consumers -> Nodes \X Nat]
  BY <1>t DEF Mpsc!Popping, Mpsc!PopLoadHead, Mpsc!PopLoadTail, Mpsc!PopLoadNext,
     Mpsc!PopHelp, Mpsc!PopData, Mpsc!PopStoreHead, Mpsc!PopFree
<1>5. ctail' \in [Consumers -> Nodes \X Nat]
  BY <1>t DEF Mpsc!Popping, Mpsc!PopLoadHead, Mpsc!PopLoadTail, Mpsc!PopLoadNext,
     Mpsc!PopHelp, Mpsc!PopData, Mpsc!PopStoreHead, Mpsc!PopFree
<1>6. cnext' \in [Consumers -> Nodes \cup {Null, Garbage}]
  BY <1>t DEF Mpsc!Popping, Mpsc!PopLoadHead, Mpsc!PopLoadTail, Mpsc!PopLoadNext,
     Mpsc!PopHelp, Mpsc!PopData, Mpsc!PopStoreHead, Mpsc!PopFree
<1>7. cdata' \in [Consumers -> Messages \cup {NoMsg}]
  <2>1. CASE cdata' = cdata
    BY <1>t, <2>1
  <2>2. CASE Mpsc!PopData
    <3>1. cpc[c] = "data" /\ chead[c] = head
      BY <2>2 DEF Mpsc!PopData, Mpsc!PopGoto, OneConsumer
    <3>2. cnext[c] \in Nodes
      <4>1. cnext[c] = next[head[1]] /\ cnext[c] # Null
        BY <1>t, <3>1 DEF PopSaw
      <4>2. QED
        BY <4>1 DEF Chained, Linked, Alive
    <3>3. cdata' = [cdata EXCEPT ![c] = data[cnext[c]]]
      BY <2>2 DEF Mpsc!PopData
    <3>4. data[cnext[c]] \in Messages \cup {NoMsg}
      BY <1>t, <3>2
    <3>5. QED
      BY <1>t, <3>3, <3>4
  <2>3. QED
    BY <2>1, <2>2 DEF Mpsc!Popping, Mpsc!PopLoadHead, Mpsc!PopLoadTail, Mpsc!PopLoadNext,
       Mpsc!PopHelp, Mpsc!PopStoreHead, Mpsc!PopFree
<1>8. MsQueueTypeOK'
  BY <1>1, <1>2, <1>4, <1>5, <1>6, <1>7 DEF Kinds, MsQueueTypeOK
<1>9. QED
  BY <1>1, <1>3, <1>8 DEF Kinds

LEMMA MpmcPopTypes ==
  ASSUME QInv, kind = "mpmc", NEW c \in Consumers, Mpmc!Popping(c), kind' = kind
  PROVE  Kinds'
<1> USE DEF QInv
<1>1. /\ head' \in Nodes \X Nat /\ tail' \in Nodes \X Nat /\ free' \subseteq Nodes
      /\ next' \in [Nodes -> Nodes \cup {Null, Garbage}]
      /\ data' \in [Nodes -> Messages \cup {NoMsg}]
      /\ node' \in [Producers -> Nodes \cup {Null}]
      /\ sent' \in [Producers -> 0..MaxPushes]
      /\ received' \in Seq(Messages)
  BY QueueTypes, InvBase, MpmcPopEffect
<1>t. /\ head \in Nodes \X Nat /\ tail \in Nodes \X Nat
      /\ next \in [Nodes -> Nodes \cup {Null, Garbage}]
      /\ data \in [Nodes -> Messages \cup {NoMsg}]
      /\ chead \in [Consumers -> Nodes \X Nat] /\ ctail \in [Consumers -> Nodes \X Nat]
      /\ cnext \in [Consumers -> Nodes \cup {Null, Garbage}]
      /\ cdata \in [Consumers -> Messages \cup {NoMsg}]
  BY DEF Kinds, MsQueueTypeOK
<1>2. UNCHANGED <<reuse, ppc, ptail, pnext, accepted>>
  BY DEF Mpmc!Popping, Mpmc!PopLoadHead, Mpmc!PopLoadTail, Mpmc!PopCheck, Mpmc!PopLoadNext,
     Mpmc!PopHelp, Mpmc!PopData, Mpmc!PopCas, Mpmc!PopFree, Mpmc!pushVars, Mpmc!queueVars
<1>3. cpc' \in [Consumers -> {"idle", "head", "tail", "check", "next", "help", "data",
                              "cas", "free", "crashed"}]
  BY DEF Kinds, Mpmc!Popping, Mpmc!PopLoadHead, Mpmc!PopLoadTail, Mpmc!PopCheck,
     Mpmc!PopLoadNext, Mpmc!PopHelp, Mpmc!PopData, Mpmc!PopCas, Mpmc!PopFree, Mpmc!PopGoto
<1>4. chead' \in [Consumers -> Nodes \X Nat]
  BY <1>t DEF Mpmc!Popping, Mpmc!PopLoadHead, Mpmc!PopLoadTail, Mpmc!PopCheck,
     Mpmc!PopLoadNext, Mpmc!PopHelp, Mpmc!PopData, Mpmc!PopCas, Mpmc!PopFree,
     Mpmc!queueVars
<1>5. ctail' \in [Consumers -> Nodes \X Nat]
  BY <1>t DEF Mpmc!Popping, Mpmc!PopLoadHead, Mpmc!PopLoadTail, Mpmc!PopCheck,
     Mpmc!PopLoadNext, Mpmc!PopHelp, Mpmc!PopData, Mpmc!PopCas, Mpmc!PopFree
<1>6. cnext' \in [Consumers -> Nodes \cup {Null, Garbage}]
  BY <1>t DEF Mpmc!Popping, Mpmc!PopLoadHead, Mpmc!PopLoadTail, Mpmc!PopCheck,
     Mpmc!PopLoadNext, Mpmc!PopHelp, Mpmc!PopData, Mpmc!PopCas, Mpmc!PopFree
<1>7. cdata' \in [Consumers -> Messages \cup {NoMsg}]
  BY <1>t DEF Mpmc!Popping, Mpmc!PopLoadHead, Mpmc!PopLoadTail, Mpmc!PopCheck,
     Mpmc!PopLoadNext, Mpmc!PopHelp, Mpmc!PopData, Mpmc!PopCas, Mpmc!PopFree
<1>8. MsQueueTypeOK'
  BY <1>1, <1>2, <1>4, <1>5, <1>6, <1>7 DEF Kinds, MsQueueTypeOK
<1>9. QED
  BY <1>1, <1>3, <1>8 DEF Kinds

LEMMA PushOneConsumer ==
  ASSUME QInv, NEW p \in Producers, PushAlloc(p) \/ Pushing(p), kind' = kind
  PROVE  OneConsumer'
<1>1. UNCHANGED <<head, cpc, chead>>
  BY DEF Pushing, PushAlloc, PushInit, PushLoadTail, PushLoadNext, PushCheck, PushHelp,
     PushLink, PushSwing, popVars, queueVars
<1>2. QED
  BY <1>1 DEF QInv, OneConsumer

LEMMA MpscPopOneConsumer ==
  ASSUME QInv, kind = "mpsc", Mpsc!Popping, kind' = kind, NEW c, c = Mpsc!C
  PROVE  OneConsumer'
<1> USE DEF QInv
<1>t. /\ cpc = [d \in Consumers |-> cpc[d]] /\ c \in Consumers
      /\ chead = [d \in Consumers |-> chead[d]]
  BY CpcFunction DEF Kinds, MsQueueTypeOK, OneConsumer
<1>1. \A d \in Consumers : d # c => cpc'[d] = cpc[d]
  BY <1>t DEF Mpsc!Popping, Mpsc!PopLoadHead, Mpsc!PopLoadTail, Mpsc!PopLoadNext,
     Mpsc!PopHelp, Mpsc!PopData, Mpsc!PopStoreHead, Mpsc!PopFree, Mpsc!PopGoto
<1>2. CASE Mpsc!PopLoadHead
  <2>1. chead'[c] = head /\ head' = head
    BY <1>2, <1>t DEF Mpsc!PopLoadHead, Mpsc!queueVars
  <2>2. QED
    BY <1>1, <2>1 DEF OneConsumer
<1>3. CASE Mpsc!PopHelp \/ Mpsc!PopStoreHead \/ Mpsc!PopFree
  <2>1. cpc'[c] \in {"head", "free", "idle"}
    BY <1>3, <1>t DEF Mpsc!PopHelp, Mpsc!PopStoreHead, Mpsc!PopFree, Mpsc!PopGoto
  <2>2. QED
    BY <1>1, <2>1 DEF OneConsumer
<1>4. CASE Mpsc!PopLoadTail \/ Mpsc!PopLoadNext \/ Mpsc!PopData
  <2>1. cpc[c] \in {"tail", "next", "data"} /\ chead' = chead /\ head' = head
    BY <1>4, <1>t DEF Mpsc!PopLoadTail, Mpsc!PopLoadNext, Mpsc!PopData, Mpsc!PopGoto,
       Mpsc!queueVars
  <2>2. QED
    BY <1>1, <2>1 DEF OneConsumer
<1>5. QED
  BY <1>2, <1>3, <1>4 DEF Mpsc!Popping

\* The others' calls are as they were.
LEMMA MpscPopOthers ==
  ASSUME QInv, Frame, kind = "mpsc", Mpsc!Popping, NEW c, c = Mpsc!C
  PROVE  /\ \A p \in Producers : PushSaw(p)'
         /\ \A d \in Consumers : d # c => PopSaw(d)'
<1> USE DEF QInv
<1>t. /\ cpc = [d \in Consumers |-> cpc[d]]
      /\ chead = [d \in Consumers |-> chead[d]] /\ ctail = [d \in Consumers |-> ctail[d]]
      /\ cnext = [d \in Consumers |-> cnext[d]] /\ cdata = [d \in Consumers |-> cdata[d]]
  BY CpcFunction DEF Kinds, MsQueueTypeOK
<1>1. UNCHANGED <<ppc, node, ptail, pnext>>
  BY DEF Mpsc!Popping, Mpsc!PopLoadHead, Mpsc!PopLoadTail, Mpsc!PopLoadNext, Mpsc!PopHelp,
     Mpsc!PopData, Mpsc!PopStoreHead, Mpsc!PopFree, Mpsc!pushVars
<1>2. \A p \in Producers : PushSaw(p)'
  BY <1>1, InvBase, PushSawStays
<1>3. ASSUME NEW d \in Consumers, d # c
      PROVE  PopSaw(d)'
  <2>1. cpc'[d] = cpc[d] /\ chead'[d] = chead[d] /\ ctail'[d] = ctail[d]
    BY <1>3, <1>t DEF Mpsc!Popping, Mpsc!PopLoadHead, Mpsc!PopLoadTail, Mpsc!PopLoadNext,
       Mpsc!PopHelp, Mpsc!PopData, Mpsc!PopStoreHead, Mpsc!PopFree, Mpsc!PopGoto
  <2>2. cnext'[d] = cnext[d] /\ cdata'[d] = cdata[d]
    BY <1>3, <1>t DEF Mpsc!Popping, Mpsc!PopLoadHead, Mpsc!PopLoadTail, Mpsc!PopLoadNext,
       Mpsc!PopHelp, Mpsc!PopData, Mpsc!PopStoreHead, Mpsc!PopFree
  <2>3. QED
    BY <2>1, <2>2, InvBase, PopSawStays
<1>4. QED
  BY <1>2, <1>3

LEMMA MpmcPopOthers ==
  ASSUME QInv, Frame, NEW c \in Consumers, Mpmc!Popping(c)
  PROVE  /\ \A p \in Producers : PushSaw(p)'
         /\ \A d \in Consumers : d # c => PopSaw(d)'
<1> USE DEF QInv
<1>t. /\ cpc = [d \in Consumers |-> cpc[d]]
      /\ chead = [d \in Consumers |-> chead[d]] /\ ctail = [d \in Consumers |-> ctail[d]]
      /\ cnext = [d \in Consumers |-> cnext[d]] /\ cdata = [d \in Consumers |-> cdata[d]]
  BY CpcFunction DEF Kinds, MsQueueTypeOK
<1>1. UNCHANGED <<ppc, node, ptail, pnext>>
  BY DEF Mpmc!Popping, Mpmc!PopLoadHead, Mpmc!PopLoadTail, Mpmc!PopCheck,
     Mpmc!PopLoadNext, Mpmc!PopHelp, Mpmc!PopData, Mpmc!PopCas, Mpmc!PopFree,
     Mpmc!pushVars
<1>2. \A p \in Producers : PushSaw(p)'
  BY <1>1, InvBase, PushSawStays
<1>3. ASSUME NEW d \in Consumers, d # c
      PROVE  PopSaw(d)'
  <2>1. cpc'[d] = cpc[d] /\ chead'[d] = chead[d] /\ ctail'[d] = ctail[d]
    BY <1>3, <1>t DEF Mpmc!Popping, Mpmc!PopLoadHead, Mpmc!PopLoadTail, Mpmc!PopCheck,
       Mpmc!PopLoadNext, Mpmc!PopHelp, Mpmc!PopData, Mpmc!PopCas, Mpmc!PopFree,
       Mpmc!PopGoto
  <2>2. cnext'[d] = cnext[d] /\ cdata'[d] = cdata[d]
    BY <1>3, <1>t DEF Mpmc!Popping, Mpmc!PopLoadHead, Mpmc!PopLoadTail, Mpmc!PopCheck,
       Mpmc!PopLoadNext, Mpmc!PopHelp, Mpmc!PopData, Mpmc!PopCas, Mpmc!PopFree
  <2>3. QED
    BY <2>1, <2>2, InvBase, PopSawStays
<1>4. QED
  BY <1>2, <1>3

-----------------------------------------------------------------------------
(* The invariant is inductive *)

LEMMA QueueInitInv == QueueInit => QInv
<1> SUFFICES ASSUME QueueInit
             PROVE  QInv
  OBVIOUS
<1> USE MsQueueAssumption
<1>1. PICK d \in Nodes :
        /\ head = <<d, 0>> /\ tail = <<d, 0>> /\ free = Nodes \ {d}
        /\ next = [x \in Nodes |-> IF x = d THEN Null ELSE Garbage]
  BY DEF QueueInit, Init
<1>2. /\ \A p \in Producers : ppc[p] = "idle" /\ ptail[p] = tail
      /\ \A c \in Consumers : cpc[c] = "idle" /\ chead[c] = head /\ ctail[c] = head
      /\ received = <<>> /\ kind \in {"mpsc", "mpmc"}
  BY DEF QueueInit, Init
<1>3. Alive = {d} /\ Linked = {d}
  BY <1>1, <1>2 DEF Alive, Linked, Dead, Private, Frees, Owns
<1>4. Kinds
  <2>1. cpc = [c \in Consumers |-> "idle"]
    BY DEF QueueInit, Init
  <2>2. MsQueueTypeOK
    BY <1>1 DEF QueueInit, Init, MsQueueTypeOK
  <2>3. QED
    BY <1>2, <2>1, <2>2 DEF Kinds
<1>5. Owned
  BY <1>2 DEF Owned, Owns, Frees
<1>6. Chained
  BY <1>1, <1>3 DEF Chained, Null, Garbage
<1>7. PathToTail
  BY <1>1 DEF PathToTail, Closed
<1>8. \A p \in Producers : PushSaw(p)
  BY <1>1, <1>2 DEF PushSaw
<1>9. \A c \in Consumers : PopSaw(c)
  BY <1>1, <1>2 DEF PopSaw
<1>10. OneConsumer
  BY <1>2 DEF OneConsumer, Mpsc!C
<1>11. OnTheirWay /\ ReceivedOnce
  BY <1>1, <1>2, <1>3 DEF OnTheirWay, ReceivedOnce, UnderWay
<1>12. QED
  BY <1>4, <1>5, <1>6, <1>7, <1>8, <1>9, <1>10, <1>11 DEF QInv

LEMMA QueueStutterInv ==
  ASSUME QInv, UNCHANGED allVars
  PROVE  Kinds' /\ OneConsumer' /\ (\A p \in Producers : PushSaw(p)')
                /\ (\A c \in Consumers : PopSaw(c)')
<1> USE DEF QInv, allVars, vars, queueVars, pushVars, popVars
<1>1. Kinds'
  BY DEF Kinds, MsQueueTypeOK
<1>2. OneConsumer'
  BY DEF OneConsumer
<1>3. \A p \in Producers : PushSaw(p)'
  BY DEF PushSaw
<1>4. \A c \in Consumers : PopSaw(c)'
  BY DEF PopSaw
<1>5. QED
  BY <1>1, <1>2, <1>3, <1>4

LEMMA QueueStepInv == QInv /\ [MpscNext \/ MpmcNext]_allVars => QInv'
<1> SUFFICES ASSUME QInv, [MpscNext \/ MpmcNext]_allVars
             PROVE  QInv'
  OBVIOUS
<1> DEFINE Calls == /\ Kinds' /\ OneConsumer' /\ \A p \in Producers : PushSaw(p)'
                    /\ \A c \in Consumers : PopSaw(c)'
<1>1. Base /\ Effect
  BY InvBase, StepEffect
<1>2. Frame
  BY <1>1, FrameStep
<1>3. ASSUME NEW p \in Producers, Mpsc!MpscPush(p) \/ Mpmc!MpmcPush(p), kind' = kind
      PROVE  Calls
  <2>1. PushAlloc(p) \/ Pushing(p)
    BY <1>3, PushOf
  <2>2. Kinds' /\ OneConsumer'
    BY <1>3, <2>1, PushTypes, PushOneConsumer
  <2>3. PushSaw(p)'
    BY <1>2, <2>1, PushOwnSaw
  <2>4. /\ \A q \in Producers \ {p} : PushSaw(q)'
        /\ \A c \in Consumers : PopSaw(c)'
    BY <1>1, <1>2, <2>1, PushOthers DEF QInv
  <2>5. QED
    BY <2>2, <2>3, <2>4
<1>4. ASSUME kind = "mpsc", Mpsc!Popping, kind' = kind, NEW c, c = Mpsc!C
      PROVE  Calls
  <2>1. Kinds' /\ OneConsumer'
    BY <1>4, MpscPopTypes, MpscPopOneConsumer
  <2>2. PopSaw(c)'
    BY <1>2, <1>4, MpscOwnSaw
  <2>3. /\ \A p \in Producers : PushSaw(p)'
        /\ \A d \in Consumers : d # c => PopSaw(d)'
    BY <1>2, <1>4, MpscPopOthers
  <2>4. QED
    BY <2>1, <2>2, <2>3
<1>5. ASSUME NEW c \in Consumers, kind = "mpmc", Mpmc!Popping(c), kind' = kind
      PROVE  Calls
  <2>1. Kinds' /\ OneConsumer'
    BY <1>5, MpmcPopTypes DEF OneConsumer
  <2>2. PopSaw(c)'
    BY <1>2, <1>5, MpmcOwnSaw
  <2>3. /\ \A p \in Producers : PushSaw(p)'
        /\ \A d \in Consumers : d # c => PopSaw(d)'
    BY <1>2, <1>5, MpmcPopOthers
  <2>4. QED
    BY <2>1, <2>2, <2>3
<1>6. Calls
  <2>1. CASE UNCHANGED allVars
    BY <2>1, QueueStutterInv
  <2>2. CASE MpscNext
    BY <2>2, <1>3, <1>4 DEF MpscNext, Mpsc!Next
  <2>3. CASE MpmcNext
    BY <2>3, <1>3, <1>5 DEF MpmcNext, Mpmc!Next
  <2>4. QED
    BY <2>1, <2>2, <2>3
<1> HIDE DEF Calls
<1>7. Owned' /\ Chained' /\ PathToTail' /\ OnTheirWay' /\ ReceivedOnce'
  BY <1>1, OwnedStep, ChainedStep, PathStep, MessagesStep
<1>8. QED
  BY <1>6, <1>7 DEF QInv, Calls

\* The list and its memory stay whole: QInv is inductive.
THEOREM QueueInductive == QueueSpec => []QInv
BY QueueInitInv, QueueStepInv, PTL DEF QueueSpec

-----------------------------------------------------------------------------
(* What the users of a queue rely on *)

\* Whatever malloc hands out: neither end of a shared queue is freed memory,
\* the pops of an mpsc_atom_queue follow no pointer to freed memory, and a pop
\* of an mpmc_atom_queue that does has already lost its compare-and-swap.
THEOREM QueueMemorySafe == QueueSpec => []MemorySafe
<1>1. QInv => MemorySafe
  <2> SUFFICES ASSUME QInv
               PROVE  MemorySafe
    OBVIOUS
  <2> USE DEF QInv
  <2>1. Linked \subseteq Nodes \ free
    BY DEF Linked, Alive
  <2>2. EndsAllocated
    BY <2>1 DEF Chained, EndsAllocated
  <2>3. ASSUME NEW c \in Consumers, cpc[c] = "data", chead[c] = head
        PROVE  cnext[c] \in Nodes \ free
    <3>1. cnext[c] = next[head[1]] /\ cnext[c] # Null
      BY <2>3 DEF PopSaw
    <3>2. next[head[1]] \in Linked
      BY <3>1 DEF Chained, Linked
    <3>3. QED
      BY <2>1, <3>1, <3>2
  <2>4. ASSUME kind = "mpsc", NEW c, c = Mpsc!C
        PROVE  /\ cpc[c] = "next" => chead[c][1] \notin free
               /\ cpc[c] = "data" => cnext[c] \in Nodes \ free
    BY <2>1, <2>3, <2>4 DEF OneConsumer, Chained
  <2>5. kind = "mpsc" => Mpsc!ConsumerSafe
    BY <2>4 DEF Mpsc!ConsumerSafe
  <2>6. Mpmc!CurrentPopSafe
    BY <2>3 DEF Mpmc!CurrentPopSafe
  <2>7. QED
    BY <2>2, <2>5, <2>6 DEF MemorySafe
<1>2. QED
  BY <1>1, QueueInductive, PTL

LEMMA QueueTypeOK == QInv => TypeOK
<1> SUFFICES ASSUME QInv
             PROVE  TypeOK
  OBVIOUS
<1>1. /\ Mpsc!Null = Null /\ Mpsc!Garbage = Garbage /\ Mpsc!NoMsg = NoMsg
      /\ Mpsc!Messages = Messages
  BY DEF Null, Mpsc!Null, Garbage, Mpsc!Garbage, NoMsg, Mpsc!NoMsg, Messages, Mpsc!Messages
<1>2. /\ Mpmc!Null = Null /\ Mpmc!Garbage = Garbage /\ Mpmc!NoMsg = NoMsg
      /\ Mpmc!Messages = Messages
  BY DEF Null, Mpmc!Null, Garbage, Mpmc!Garbage, NoMsg, Mpmc!NoMsg, Messages, Mpmc!Messages
<1>3. CASE kind = "mpsc"
  <2>1. Mpsc!MsQueueTypeOK
    BY <1>1 DEF QInv, Kinds, MsQueueTypeOK, Mpsc!MsQueueTypeOK
  <2>2. cpc[Mpsc!C] \in {"idle", "head", "tail", "next", "help", "data", "store", "free"}
    BY <1>3 DEF QInv, Kinds, OneConsumer
  <2>3. QED
    BY <1>1, <1>3, <2>1, <2>2 DEF QInv, Kinds, TypeOK, Mpsc!TypeOK
<1>4. CASE kind = "mpmc"
  <2>1. Mpmc!MsQueueTypeOK
    BY <1>2 DEF QInv, Kinds, MsQueueTypeOK, Mpmc!MsQueueTypeOK
  <2>2. QED
    BY <1>2, <1>4, <2>1 DEF QInv, Kinds, TypeOK, Mpmc!TypeOK
<1>5. QED
  BY <1>3, <1>4 DEF QInv, Kinds

-----------------------------------------------------------------------------
(* The list in order, when memory is not reused under a call's feet *)

\* A call's old tail is not another push's item, and its old head is the dummy
\* or has been unlinked.
Unreused ==
  /\ \A p \in Producers : ppc[p] # "idle" => ~Private(ptail[p][1])
  /\ \A c \in Consumers : cpc[c] # "idle" =>
       chead[c][1] = head[1] \/ chead[c][1] \notin Alive

\* s is the list, from the dummy on; nothing else is linked.
ListIs(s) ==
  /\ s \in Seq(Nodes) /\ Len(s) > 0 /\ s[1] = head[1] /\ next[s[Len(s)]] = Null
  /\ \A i \in 1..(Len(s) - 1) : next[s[i]] = s[i + 1]
  /\ \A i \in 1..Len(s) : s[i] \in Linked
  /\ \A x \in Linked : \E i \in 1..Len(s) : x = s[i]
  /\ \A i, j \in 1..Len(s) : s[i] = s[j] => i = j

\* What was linked is what was received and then what is in the list.
Ordered(s) ==
  /\ Len(accepted) = Len(received) + (Len(s) - 1)
  /\ \A i \in 1..Len(received) : accepted[i] = received[i]
  /\ \A i \in 1..(Len(s) - 1) : accepted[Len(received) + i] = data[s[i + 1]]

InOrder == ~reuse => Unreused /\ \E s \in Seq(Nodes) : ListIs(s) /\ Ordered(s)

\* What a step does to the calls: malloc hands out what it may, a call's old
\* tail and head stay or are read anew, and what a push links is accepted.
Calling ==
  /\ reuse' = reuse
  /\ free \ free' \subseteq Available
  /\ \A p \in Producers : ppc'[p] # "idle" =>
       (ppc[p] # "idle" /\ ptail'[p] = ptail[p]) \/ (ptail'[p] = tail /\ tail' = tail)
  /\ \A c \in Consumers : cpc'[c] # "idle" =>
       (cpc[c] # "idle" /\ chead'[c] = chead[c]) \/ (chead'[c] = head /\ head' = head)
  /\ \A p \in Producers :
       Owns(p) /\ ~Owns(p)' => accepted' = Append(accepted, data[node[p]])
  /\ (\A p \in Producers : Owns(p) => Owns(p)') => accepted' = accepted

LEMMA PushCalling ==
  ASSUME QInv, NEW p \in Producers, PushAlloc(p) \/ Pushing(p)
  PROVE  Calling
<1> USE DEF QInv
<1>t. /\ ppc \in [Producers -> {"idle", "init", "tail", "next", "check", "help", "link", "swing"}]
      /\ ptail \in [Producers -> Nodes \X Nat]
  BY DEF Kinds, MsQueueTypeOK
<1>1. reuse' = reuse /\ UNCHANGED <<head, cpc, chead>>
  BY DEF Pushing, PushAlloc, PushInit, PushLoadTail, PushLoadNext, PushCheck, PushHelp,
     PushLink, PushSwing, popVars, queueVars
<1>2. free \ free' \subseteq Available
  <2>1. CASE PushAlloc(p)
    <3>1. PICK x \in Available : free' = free \ {x}
      BY <2>1 DEF PushAlloc
    <3>2. QED
      BY <3>1
  <2>2. CASE Pushing(p)
    BY <2>2 DEF Pushing, PushInit, PushLoadTail, PushLoadNext, PushCheck, PushHelp,
       PushLink, PushSwing, queueVars
  <2>3. QED
    BY <2>1, <2>2
<1>3. \A q \in Producers : q # p => ppc'[q] = ppc[q] /\ ptail'[q] = ptail[q]
  BY <1>t DEF Pushing, PushGoto, PushAlloc, PushInit, PushLoadTail, PushLoadNext,
     PushCheck, PushHelp, PushLink, PushSwing
<1>4. (ppc[p] # "idle" /\ ptail'[p] = ptail[p]) \/ (ptail'[p] = tail /\ tail' = tail)
  <2>1. CASE PushAlloc(p) \/ PushLoadTail(p)
    BY <1>t, <2>1 DEF PushAlloc, PushLoadTail, queueVars
  <2>2. CASE ~(PushAlloc(p) \/ PushLoadTail(p))
    BY <1>t, <2>2 DEF Pushing, PushGoto, PushInit, PushLoadNext, PushCheck, PushHelp,
       PushLink, PushSwing
  <2>3. QED
    BY <2>1, <2>2
<1>5. \A q \in Producers : Owns(q) /\ ~Owns(q)' => accepted' = Append(accepted, data[node[q]])
  <2> SUFFICES ASSUME Owns(p), ~Owns(p)'
               PROVE  accepted' = Append(accepted, data[node[p]])
    BY <1>3 DEF Owns
  <2>1. PushLink(p) /\ ppc'[p] = "swing"
    BY <1>t DEF Owns, Pushing, PushGoto, PushAlloc, PushInit, PushLoadTail, PushLoadNext,
       PushCheck, PushHelp, PushLink, PushSwing
  <2>2. QED
    BY <1>t, <2>1 DEF PushLink, PushGoto
<1>6. (\A q \in Producers : Owns(q) => Owns(q)') => accepted' = accepted
  <2> SUFFICES ASSUME Owns(p) => Owns(p)'
               PROVE  accepted' = accepted
    OBVIOUS
  <2>1. CASE PushLink(p)
    BY <1>t, <2>1 DEF PushLink, PushGoto, Owns
  <2>2. CASE ~PushLink(p)
    BY <2>2 DEF Pushing, PushAlloc, PushInit, PushLoadTail, PushLoadNext, PushCheck,
       PushHelp, PushSwing
  <2>3. QED
    BY <2>1, <2>2
<1>7. QED
  BY <1>1, <1>2, <1>3, <1>4, <1>5, <1>6 DEF Calling

LEMMA MpscPopCalling ==
  ASSUME QInv, kind = "mpsc", Mpsc!Popping, NEW c, c = Mpsc!C
  PROVE  Calling
<1> USE DEF QInv
<1>t. /\ cpc = [d \in Consumers |-> cpc[d]] /\ c \in Consumers
      /\ chead = [d \in Consumers |-> chead[d]]
  BY CpcFunction DEF Kinds, MsQueueTypeOK, OneConsumer
<1>1. reuse' = reuse /\ UNCHANGED <<ppc, ptail, node, accepted>>
  BY DEF Mpsc!Popping, Mpsc!PopLoadHead, Mpsc!PopLoadTail, Mpsc!PopLoadNext, Mpsc!PopHelp,
     Mpsc!PopData, Mpsc!PopStoreHead, Mpsc!PopFree, Mpsc!pushVars, Mpsc!queueVars
<1>2. free \subseteq free'
  BY DEF Mpsc!Popping, Mpsc!PopLoadHead, Mpsc!PopLoadTail, Mpsc!PopLoadNext, Mpsc!PopHelp,
     Mpsc!PopData, Mpsc!PopStoreHead, Mpsc!PopFree, Mpsc!Release, Mpsc!queueVars
<1>3. \A d \in Consumers : d # c => cpc'[d] = cpc[d] /\ chead'[d] = chead[d]
  BY <1>t DEF Mpsc!Popping, Mpsc!PopLoadHead, Mpsc!PopLoadTail, Mpsc!PopLoadNext,
     Mpsc!PopHelp, Mpsc!PopData, Mpsc!PopStoreHead, Mpsc!PopFree, Mpsc!PopGoto
<1>4. (cpc[c] # "idle" /\ chead'[c] = chead[c]) \/ (chead'[c] = head /\ head' = head)
  <2>1. CASE Mpsc!PopLoadHead
    BY <1>t, <2>1 DEF Mpsc!PopLoadHead, Mpsc!queueVars
  <2>2. CASE ~Mpsc!PopLoadHead
    BY <2>2 DEF Mpsc!Popping, Mpsc!PopLoadTail, Mpsc!PopLoadNext, Mpsc!PopHelp,
       Mpsc!PopData, Mpsc!PopStoreHead, Mpsc!PopFree, Mpsc!PopGoto
  <2>3. QED
    BY <2>1, <2>2
<1>5. QED
  BY <1>1, <1>2, <1>3, <1>4 DEF Calling, Owns

LEMMA MpmcPopCalling ==
  ASSUME QInv, NEW c \in Consumers, Mpmc!Popping(c)
  PROVE  Calling
<1> USE DEF QInv
<1>t. /\ cpc = [d \in Consumers |-> cpc[d]] /\ chead = [d \in Consumers |-> chead[d]]
  BY CpcFunction DEF Kinds, MsQueueTypeOK
<1>1. reuse' = reuse /\ UNCHANGED <<ppc, ptail, node, accepted>>
  BY DEF Mpmc!Popping, Mpmc!PopLoadHead, Mpmc!PopLoadTail, Mpmc!PopCheck,
     Mpmc!PopLoadNext, Mpmc!PopHelp, Mpmc!PopData, Mpmc!PopCas, Mpmc!PopFree,
     Mpmc!pushVars, Mpmc!queueVars
<1>2. free \subseteq free'
  BY DEF Mpmc!Popping, Mpmc!PopLoadHead, Mpmc!PopLoadTail, Mpmc!PopCheck,
     Mpmc!PopLoadNext, Mpmc!PopHelp, Mpmc!PopData, Mpmc!PopCas, Mpmc!PopFree,
     Mpmc!Release, Mpmc!queueVars
<1>3. \A d \in Consumers : d # c => cpc'[d] = cpc[d] /\ chead'[d] = chead[d]
  BY <1>t DEF Mpmc!Popping, Mpmc!PopLoadHead, Mpmc!PopLoadTail, Mpmc!PopCheck,
     Mpmc!PopLoadNext, Mpmc!PopHelp, Mpmc!PopData, Mpmc!PopCas, Mpmc!PopFree,
     Mpmc!PopGoto
<1>4. (cpc[c] # "idle" /\ chead'[c] = chead[c]) \/ (chead'[c] = head /\ head' = head)
  <2>1. CASE Mpmc!PopLoadHead(c)
    BY <1>t, <2>1 DEF Mpmc!PopLoadHead, Mpmc!queueVars
  <2>2. CASE ~Mpmc!PopLoadHead(c)
    BY <2>2 DEF Mpmc!Popping, Mpmc!PopLoadTail, Mpmc!PopCheck, Mpmc!PopLoadNext,
       Mpmc!PopHelp, Mpmc!PopData, Mpmc!PopCas, Mpmc!PopFree, Mpmc!PopGoto
  <2>3. QED
    BY <2>1, <2>2
<1>5. QED
  BY <1>1, <1>2, <1>3, <1>4 DEF Calling, Owns

LEMMA StepCalling == QInv /\ [MpscNext \/ MpmcNext]_allVars => Calling
<1> SUFFICES ASSUME QInv, [MpscNext \/ MpmcNext]_allVars
             PROVE  Calling
  OBVIOUS
<1>1. ASSUME NEW p \in Producers, Mpsc!MpscPush(p) \/ Mpmc!MpmcPush(p)
      PROVE  Calling
  BY <1>1, PushOf, PushCalling
<1>2. CASE UNCHANGED allVars
  BY <1>2 DEF allVars, vars, queueVars, pushVars, popVars, Calling, Owns
<1>3. QED
  BY <1>1, <1>2, MpscPopCalling, MpmcPopCalling DEF MpscNext, MpmcNext, Mpsc!Next, Mpmc!Next

LEMMA HeldTails ==
  ASSUME NEW p \in Producers, ppc[p] # "idle"
  PROVE  ptail[p][1] \in Held
<1> DEFINE S == {{ptail[q][1], pnext[q]} : q \in {r \in Producers : ppc[r] # "idle"}}
<1>1. {ptail[p][1], pnext[p]} \in S
  OBVIOUS
<1>2. ptail[p][1] \in UNION S
  BY <1>1
<1> HIDE DEF S
<1>3. UNION S \subseteq UNION (S \cup {{chead[c][1], ctail[c][1], cnext[c]}
                                       : c \in {d \in Consumers : cpc[d] # "idle"}})
  OBVIOUS
<1>4. QED
  BY <1>2, <1>3 DEF Held, S

LEMMA HeldHeads ==
  ASSUME NEW c \in Consumers, cpc[c] # "idle"
  PROVE  chead[c][1] \in Held
<1> DEFINE S == {{chead[d][1], ctail[d][1], cnext[d]}
                   : d \in {e \in Consumers : cpc[e] # "idle"}}
<1>1. {chead[c][1], ctail[c][1], cnext[c]} \in S
  OBVIOUS
<1>2. chead[c][1] \in UNION S
  BY <1>1
<1> HIDE DEF S
<1>3. UNION S \subseteq UNION ({{ptail[p][1], pnext[p]}
                                  : p \in {q \in Producers : ppc[q] # "idle"}} \cup S)
  OBVIOUS
<1>4. QED
  BY <1>2, <1>3 DEF Held, S

LEMMA UnreusedStep ==
  ASSUME Base, Effect, Calling, ~reuse, Unreused
  PROVE  Unreused'
<1> USE DEF Base
<1>0. /\ Linked \subseteq Alive /\ head[1] \in Alive /\ ~Private(tail[1])
  BY DEF Linked, Chained
<1>2. ASSUME \A x : Private(x)' => Private(x)
      PROVE  \A p \in Producers : ppc'[p] # "idle" => \A x : x = ptail'[p][1] => ~Private(x)'
  BY <1>0, <1>2 DEF Unreused, Calling
<1>3. ASSUME \A x \in Alive' : x \in Alive /\ (x = head[1] => head' = head)
      PROVE  \A c \in Consumers : cpc'[c] # "idle" =>
               chead'[c][1] = head'[1] \/ chead'[c][1] \notin Alive'
  BY <1>3 DEF Unreused, Calling
<1>4. CASE SameOwners /\ head' = head
  <2>1. Alive' = Alive
    BY <1>4, SameSets
  <2>2. \A x : Private(x)' => Private(x)
    BY <1>4 DEF SameOwners, Private
  <2>3. QED
    BY <1>2, <1>3, <1>4, <2>1, <2>2 DEF Unreused
<1>5. ASSUME NEW p \in Producers, NEW x \in Nodes, Alloc(p, x)
      PROVE  Unreused'
  <2>1. Alive' = Alive \cup {x} /\ x \notin Alive /\ head' = head /\ tail' = tail
    BY <1>5, AllocSets DEF Alloc
  <2>2. x \notin Held
    BY <1>5 DEF Alloc, Calling, Available
  <2>3. \A q \in Producers : ppc[q] # "idle" => ptail[q][1] # x
    BY <2>2, HeldTails
  <2>4. \A c \in Consumers : cpc[c] # "idle" => chead[c][1] # x
    BY <2>2, HeldHeads
  <2>5. \A y : Private(y)' => Private(y) \/ y = x
    BY <1>5 DEF Alloc, Private, MsQueueTypeOK
  <2>6. tail[1] # x
    BY <2>1 DEF Chained, Linked
  <2>7. \A q \in Producers : ppc'[q] # "idle" => \A y : y = ptail'[q][1] => ~Private(y)'
    BY <1>0, <2>3, <2>5, <2>6 DEF Unreused, Calling
  <2>8. \A c \in Consumers : cpc'[c] # "idle" =>
          chead'[c][1] = head'[1] \/ chead'[c][1] \notin Alive'
    BY <2>1, <2>4 DEF Unreused, Calling
  <2>9. QED
    BY <2>7, <2>8 DEF Unreused
<1>6. ASSUME NEW p \in Producers, Link(p)
      PROVE  Unreused'
  <2>1. Alive' = Alive /\ head' = head
    BY <1>6, LinkSets DEF Link
  <2>2. \A x : Private(x)' => Private(x)
    BY <1>6 DEF Link, Private
  <2>3. QED
    BY <1>2, <1>3, <2>1, <2>2 DEF Unreused
<1>7. ASSUME NEW c \in Consumers, Pop(c)
      PROVE  Unreused'
  <2>1. Alive' = Alive \ {head[1]}
    BY <1>7, PopSets
  <2>2. \A x : Private(x)' => Private(x)
    BY <1>7 DEF Pop, Private, Owns
  <2>3. QED
    BY <1>2, <1>3, <2>1, <2>2 DEF Unreused
<1>8. ASSUME NEW c \in Consumers, FreeOld(c)
      PROVE  Unreused'
  <2>1. Alive' = Alive /\ head' = head
    BY <1>8, FreeSets DEF FreeOld
  <2>2. \A x : Private(x)' => Private(x)
    BY <1>8 DEF FreeOld, Private, Owns
  <2>3. QED
    BY <1>2, <1>3, <2>1, <2>2 DEF Unreused
<1>9. QED
  BY <1>4, <1>5, <1>6, <1>7, <1>8 DEF Effect, Quiet, Swing, Clear

\* A list whose nodes keep their fields is the list.
LEMMA ListStays ==
  ASSUME NEW s, ListIs(s), Ordered(s), s \in Seq(Nodes),
         Linked' = Linked, head' = head, received' = received, accepted' = accepted,
         \A x \in Linked : next'[x] = next[x] /\ data'[x] = data[x]
  PROVE  ListIs(s)' /\ Ordered(s)'
<1>1. Len(s) \in Nat /\ Len(s) > 0 /\ \A i \in 1..Len(s) : s[i] \in Linked
  BY DEF ListIs
<1>2. \A i \in 1..Len(s) : next'[s[i]] = next[s[i]] /\ data'[s[i]] = data[s[i]]
  BY <1>1
<1>3. Len(s) \in 1..Len(s) /\ \A i \in 1..(Len(s) - 1) : i \in 1..Len(s) /\ i + 1 \in 1..Len(s)
  BY <1>1
<1>4. ListIs(s)'
  BY <1>2, <1>3 DEF ListIs
<1>5. Ordered(s)'
  BY <1>2, <1>3 DEF Ordered
<1>6. QED
  BY <1>4, <1>5

LEMMA ListPushed ==
  ASSUME Base, Calling, Unreused, NEW p \in Producers, Link(p), NEW s \in Seq(Nodes),
         ListIs(s), Ordered(s), accepted \in Seq(Messages)
  PROVE  \E t \in Seq(Nodes) : ListIs(t)' /\ Ordered(t)'
<1> USE DEF Base
<1> DEFINE n == Len(s)
           y == node[p]
           z == ptail[p][1]
<1>1. /\ Linked' = Linked \cup {y} /\ y \in Alive /\ y \notin Linked /\ y \in Nodes
  BY LinkSets DEF Alive
<1>2. /\ next[z] = Null /\ z \in Nodes /\ ~Private(z)
      /\ next' = [next EXCEPT ![z] = y]
  BY DEF Link, MsQueueTypeOK, Unreused, Owns
<1>3. z \in Linked
  BY <1>2 DEF Chained, Linked
<1>4. n \in Nat /\ n > 0 /\ z = s[n] /\ \A i \in 1..n : s[i] \in Linked /\ s[i] \in Nodes
  <2>1. PICK i \in 1..n : z = s[i]
    BY <1>3 DEF ListIs
  <2>2. i \notin 1..(n - 1)
    <3>1. Null \notin Nodes
      BY DEF MsQueueAssumption
    <3>2. \A j \in 1..(n - 1) : s[j + 1] \in Nodes /\ next[s[j]] = s[j + 1]
      BY DEF ListIs
    <3>3. QED
      BY <1>2, <2>1, <3>1, <3>2
  <2>3. QED
    BY <2>1, <2>2 DEF ListIs
<1>t. PICK t : t = Append(s, y)
  OBVIOUS
<1>5. /\ t \in Seq(Nodes) /\ Len(t) = n + 1 /\ t[n + 1] = y
      /\ \A i \in 1..n : t[i] = s[i]
  BY <1>1, <1>4, <1>t
<1>6. /\ head' = head /\ data' = data /\ received' = received
      /\ accepted' = Append(accepted, data[y])
  BY DEF Link, Calling
<1>7. /\ \A x \in Nodes : x # z => next'[x] = next[x]
      /\ next'[z] = y /\ y # z
  BY <1>1, <1>2, <1>3 DEF MsQueueTypeOK
<1>8. y # s[1] /\ next[y] = Null
  <2>1. next[y] # Null => next[y] \in Linked \ {head[1]}
    BY <1>1 DEF Chained
  <2>2. \A x \in Linked : x # head[1] => \E w \in Linked : next[w] = x
    <3> SUFFICES ASSUME NEW i \in 1..n, s[i] # head[1]
                 PROVE  \E w \in Linked : next[w] = s[i]
      BY DEF ListIs
    <3>1. i - 1 \in 1..(n - 1) /\ i - 1 \in 1..n /\ i - 1 + 1 = i
      BY <1>4 DEF ListIs
    <3>2. s[i - 1] \in Linked /\ next[s[i - 1]] = s[i]
      BY <1>4, <3>1 DEF ListIs
    <3>3. QED
      BY <3>2
  <2>3. next[y] # Null => FALSE
    <3> SUFFICES ASSUME next[y] # Null
                 PROVE  FALSE
      OBVIOUS
    <3>1. PICK w \in Linked : next[w] = next[y]
      BY <2>1, <2>2
    <3>2. w = y
      BY <1>1, <3>1 DEF Chained, Linked
    <3>3. QED
      BY <1>1, <3>2
  <2>4. QED
    BY <1>1, <1>4, <2>3
<1> HIDE DEF n, y, z
<1>9. ListIs(t)'
  <2>1. t[1] = head'[1]
    BY <1>4, <1>5, <1>6 DEF ListIs, n
  <2>2. next'[t[Len(t)]] = Null
    BY <1>1, <1>5, <1>7, <1>8
  <2>3. \A i \in 1..(Len(t) - 1) : next'[t[i]] = t[i + 1]
    <3> SUFFICES ASSUME NEW i \in 1..n
                 PROVE  next'[t[i]] = t[i + 1]
      BY <1>4, <1>5
    <3>1. CASE i = n
      BY <1>4, <1>5, <1>7, <3>1
    <3>2. CASE i # n
      <4>1. i \in 1..(n - 1) /\ i + 1 \in 1..n /\ n \in 1..n
        BY <1>4, <3>2
      <4>2. s[i] # s[n] /\ next[s[i]] = s[i + 1]
        BY <3>2, <4>1 DEF ListIs, n
      <4>3. QED
        BY <1>4, <1>5, <1>7, <4>1, <4>2
    <3>3. QED
      BY <3>1, <3>2
  <2>4. \A i \in 1..Len(t) : t[i] \in Linked'
    <3>1. \A i \in 1..Len(t) : i \in 1..n \/ i = n + 1
      BY <1>4, <1>5
    <3>2. QED
      BY <1>1, <1>4, <1>5, <3>1
  <2>5. \A x \in Linked' : \E i \in 1..Len(t) : x = t[i]
    <3>1. n + 1 \in 1..Len(t) /\ \A i \in 1..n : i \in 1..Len(t)
      BY <1>4, <1>5
    <3>2. \A x \in Linked : \E i \in 1..n : x = s[i]
      BY DEF ListIs, n
    <3>3. QED
      BY <1>1, <1>5, <3>1, <3>2
  <2>6. \A i, j \in 1..Len(t) : t[i] = t[j] => i = j
    <3>1. \A i \in 1..Len(t) : i \in 1..n \/ i = n + 1
      BY <1>4, <1>5
    <3>2. \A i, j \in 1..n : s[i] = s[j] => i = j
      BY DEF ListIs, n
    <3>3. \A i \in 1..n : s[i] # y
      BY <1>1, <1>4
    <3>4. QED
      BY <1>5, <3>1, <3>2, <3>3
  <2>7. Len(t) > 0
    BY <1>4, <1>5
  <2>8. QED
    BY <1>5, <2>1, <2>2, <2>3, <2>4, <2>5, <2>6, <2>7 DEF ListIs
<1>10. Ordered(t)'
  <2> DEFINE r == Len(received)
             a == Len(accepted)
             m == data[y]
  <2>0. r \in Nat /\ a \in Nat
    OBVIOUS
  <2>1. /\ a = r + (n - 1)
        /\ \A i \in 1..r : accepted[i] = received[i]
        /\ \A i \in 1..(n - 1) : accepted[r + i] = data[s[i + 1]]
    BY DEF Ordered, n
  <2>2. /\ Len(accepted') = a + 1 /\ accepted'[a + 1] = m
        /\ \A i \in 1..a : accepted'[i] = accepted[i]
    BY <1>6
  <2>h. /\ data' = data /\ Len(received') = r /\ \A i \in 1..r : received'[i] = received[i]
    BY <1>6
  <2> HIDE DEF r, a, m
  <2>3. Len(accepted') = Len(received') + (Len(t) - 1)
    BY <1>4, <1>5, <2>0, <2>1, <2>2, <2>h
  <2>4. \A i \in 1..Len(received') : accepted'[i] = received'[i]
    BY <1>4, <2>0, <2>1, <2>2, <2>h
  <2>5. \A i \in 1..n : accepted'[r + i] = data[t[i + 1]]
    <3> SUFFICES ASSUME NEW i \in 1..n
                 PROVE  accepted'[r + i] = data[t[i + 1]]
      OBVIOUS
    <3>1. CASE i = n
      <4>1. r + i = a + 1
        BY <1>4, <2>0, <2>1, <3>1
      <4>2. QED
        BY <1>5, <2>2, <3>1, <4>1 DEF m
    <3>2. CASE i # n
      <4>1. i \in 1..(n - 1) /\ r + i \in 1..a /\ i + 1 \in 1..n
        BY <1>4, <2>0, <2>1, <3>2
      <4>2. QED
        BY <1>5, <2>1, <2>2, <4>1
    <3>3. QED
      BY <3>1, <3>2
  <2>6. Len(t) - 1 = n
    BY <1>4, <1>5
  <2>7. QED
    BY <2>3, <2>4, <2>5, <2>6, <2>h DEF Ordered
<1>11. QED
  BY <1>5, <1>9, <1>10

LEMMA ListPopped ==
  ASSUME Base, Calling, NEW c \in Consumers, Pop(c), NEW s \in Seq(Nodes),
         ListIs(s), Ordered(s), accepted \in Seq(Messages)
  PROVE  \E t \in Seq(Nodes) : ListIs(t)' /\ Ordered(t)'
<1> USE DEF Base
<1> DEFINE n == Len(s)
<1>t. PICK t : t = Tail(s)
  OBVIOUS
<1>1. /\ Linked' = Linked \ {head[1]}
      /\ next' = next /\ data' = data /\ head'[1] = next[head[1]]
      /\ next[head[1]] # Null /\ received' = Append(received, data[next[head[1]]])
  BY PopSets DEF Pop
<1>2. n \in Nat /\ n > 0 /\ \A i \in 1..n : s[i] \in Linked /\ s[i] \in Nodes
  BY DEF ListIs
<1>3. n > 1 /\ head[1] = s[1] /\ next[head[1]] = s[2]
  <2>1. head[1] = s[1] /\ next[s[n]] = Null
    BY DEF ListIs
  <2>2. n > 1
    BY <1>1, <1>2, <2>1
  <2>3. 1 \in 1..(n - 1)
    BY <1>2, <2>2
  <2>4. QED
    BY <2>1, <2>2, <2>3 DEF ListIs
<1>4. /\ t \in Seq(Nodes) /\ Len(t) = n - 1 /\ \A i \in 1..(n - 1) : t[i] = s[i + 1]
  BY <1>t, <1>2, <1>3
<1>5. accepted' = accepted
  BY DEF Calling, Pop, Owns
<1> HIDE DEF n
<1>6. \A i \in 1..(n - 1) : i \in 1..n /\ i + 1 \in 1..n
  BY <1>2
<1>7. ListIs(t)'
  <2>1. t[1] = head'[1] /\ Len(t) > 0
    <3>1. 1 \in 1..(n - 1)
      BY <1>2, <1>3
    <3>2. QED
      BY <1>1, <1>2, <1>3, <1>4, <3>1
  <2>2. next'[t[Len(t)]] = Null
    <3>1. n - 1 \in 1..(n - 1) /\ n - 1 + 1 = n
      BY <1>2, <1>3
    <3>2. next[s[n]] = Null
      BY DEF ListIs, n
    <3>3. QED
      BY <1>1, <1>4, <3>1, <3>2
  <2>3. \A i \in 1..(Len(t) - 1) : next'[t[i]] = t[i + 1]
    <3> SUFFICES ASSUME NEW i \in 1..(n - 2)
                 PROVE  next[t[i]] = t[i + 1]
      BY <1>1, <1>2, <1>4
    <3>1. i \in 1..(n - 1) /\ i + 1 \in 1..(n - 1)
      BY <1>2
    <3>2. next[s[i + 1]] = s[i + 1 + 1]
      BY <3>1 DEF ListIs, n
    <3>3. QED
      BY <1>4, <3>1, <3>2
  <2>4. \A i \in 1..Len(t) : t[i] \in Linked'
    <3>1. \A i \in 1..(n - 1) : 1 \in 1..n /\ i + 1 \in 1..n /\ i + 1 # 1
      BY <1>2
    <3>2. \A i \in 1..(n - 1) : s[i + 1] \in Linked /\ s[i + 1] # s[1]
      BY <1>2, <3>1 DEF ListIs, n
    <3>3. QED
      BY <1>1, <1>3, <1>4, <3>2
  <2>5. \A x \in Linked' : \E i \in 1..Len(t) : x = t[i]
    <3>1. ASSUME NEW x \in Linked, x # s[1]
          PROVE  \E i \in 1..(n - 1) : x = t[i]
      <4>1. PICK j \in 1..n : x = s[j]
        BY DEF ListIs, n
      <4>2. j - 1 \in 1..(n - 1) /\ j - 1 + 1 = j
        BY <1>2, <3>1, <4>1
      <4>3. QED
        BY <1>4, <4>1, <4>2
    <3>2. QED
      BY <1>1, <1>3, <1>4, <3>1
  <2>6. \A i, j \in 1..Len(t) : t[i] = t[j] => i = j
    <3> SUFFICES ASSUME NEW i \in 1..(n - 1), NEW j \in 1..(n - 1), s[i + 1] = s[j + 1]
                 PROVE  i = j
      BY <1>4
    <3>1. i + 1 = j + 1
      BY <1>6 DEF ListIs, n
    <3>2. QED
      BY <1>2, <3>1
  <2>7. QED
    BY <1>4, <2>1, <2>2, <2>3, <2>4, <2>5, <2>6 DEF ListIs
<1>8. Ordered(t)'
  <2> DEFINE r == Len(received)
             a == Len(accepted)
             m == data[s[2]]
  <2>0. r \in Nat /\ a \in Nat
    OBVIOUS
  <2>1. /\ a = r + (n - 1)
        /\ \A i \in 1..r : accepted[i] = received[i]
        /\ \A i \in 1..(n - 1) : accepted[r + i] = data[s[i + 1]]
    BY DEF Ordered, n
  <2>2. /\ Len(received') = r + 1 /\ received'[r + 1] = m
        /\ \A i \in 1..r : received'[i] = received[i]
    BY <1>1, <1>3
  <2>m. accepted[r + 1] = m
    <3>1. 1 \in 1..(n - 1) /\ 1 + 1 = 2
      BY <1>2, <1>3
    <3>2. QED
      BY <2>1, <3>1 DEF m
  <2> HIDE DEF r, a, m
  <2>3. a = Len(received') + (Len(t) - 1)
    BY <1>2, <1>4, <2>0, <2>1, <2>2
  <2>4. \A i \in 1..Len(received') : accepted[i] = received'[i]
    <3>1. \A i \in 1..(r + 1) : i \in 1..r \/ i = r + 1
      BY <2>0
    <3>2. QED
      BY <2>1, <2>2, <2>m, <3>1
  <2>5. \A i \in 1..(Len(t) - 1) : accepted[Len(received') + i] = data[t[i + 1]]
    <3> SUFFICES ASSUME NEW i \in 1..(n - 2)
                 PROVE  accepted[r + 1 + i] = data[t[i + 1]]
      BY <1>2, <1>4, <2>2
    <3>1. i + 1 \in 1..(n - 1) /\ r + 1 + i = r + (i + 1)
      BY <1>2, <2>0
    <3>2. t[i + 1] = s[i + 1 + 1]
      BY <1>4, <3>1
    <3>3. QED
      BY <2>1, <3>1, <3>2
  <2>6. QED
    BY <1>1, <1>5, <2>3, <2>4, <2>5 DEF Ordered, a
<1>9. QED
  BY <1>4, <1>7, <1>8

LEMMA InOrderStep ==
  ASSUME QInv, InOrder, [MpscNext \/ MpmcNext]_allVars
  PROVE  InOrder'
<1>1. Base /\ Effect /\ Calling /\ accepted \in Seq(Messages)
  BY InvBase, StepEffect, StepCalling DEF Base, MsQueueTypeOK
<1>r. reuse' = reuse
  BY <1>1 DEF Calling
<1> SUFFICES ASSUME ~reuse
             PROVE  Unreused' /\ \E t \in Seq(Nodes) : ListIs(t)' /\ Ordered(t)'
  BY <1>r DEF InOrder
<1>2. Unreused /\ Unreused'
  BY <1>1, UnreusedStep DEF InOrder
<1>3. PICK s \in Seq(Nodes) : ListIs(s) /\ Ordered(s)
  BY DEF InOrder
<1>4. /\ Linked \subseteq Alive /\ Alive \subseteq Nodes
      /\ next \in [Nodes -> Nodes \cup {Null, Garbage}]
      /\ data \in [Nodes -> Messages \cup {NoMsg}]
  BY <1>1 DEF Base, MsQueueTypeOK, Linked, Alive
<1>5. CASE Quiet \/ Swing
  <2>1. Linked' = Linked /\ accepted' = accepted /\ head' = head /\ received' = received
    BY <1>1, <1>5, SameSets DEF Quiet, Swing, SameOwners, Calling
  <2>2. \A x \in Linked : next'[x] = next[x] /\ data'[x] = data[x]
    BY <1>5 DEF Quiet, Swing
  <2>3. QED
    BY <1>2, <1>3, <2>1, <2>2, ListStays
<1>6. ASSUME NEW p \in Producers, NEW x \in Nodes, Alloc(p, x)
      PROVE  \E t \in Seq(Nodes) : ListIs(t)' /\ Ordered(t)'
  <2>1. Linked' = Linked /\ x \notin Linked
    BY <1>1, <1>4, <1>6, AllocSets DEF Base
  <2>2. head' = head /\ received' = received /\ accepted' = accepted
    BY <1>1, <1>6 DEF Alloc, Calling
  <2>3. \A y \in Linked : next'[y] = next[y] /\ data'[y] = data[y]
    BY <1>4, <1>6, <2>1 DEF Alloc
  <2>4. QED
    BY <1>3, <2>1, <2>2, <2>3, ListStays
<1>7. ASSUME NEW p \in Producers, Clear(p)
      PROVE  \E t \in Seq(Nodes) : ListIs(t)' /\ Ordered(t)'
  <2>1. Linked' = Linked /\ node[p] \notin Linked
    BY <1>7, SameSets DEF Clear, Linked, Private
  <2>2. head' = head /\ received' = received /\ accepted' = accepted
    BY <1>1, <1>7 DEF Clear, SameOwners, Calling
  <2>3. \A y \in Linked : next'[y] = next[y] /\ data'[y] = data[y]
    BY <1>4, <1>7, <2>1 DEF Clear
  <2>4. QED
    BY <1>3, <2>1, <2>2, <2>3, ListStays
<1>8. ASSUME NEW p \in Producers, Link(p)
      PROVE  \E t \in Seq(Nodes) : ListIs(t)' /\ Ordered(t)'
  BY <1>1, <1>2, <1>3, <1>8, ListPushed
<1>9. ASSUME NEW c \in Consumers, Pop(c)
      PROVE  \E t \in Seq(Nodes) : ListIs(t)' /\ Ordered(t)'
  BY <1>1, <1>3, <1>9, ListPopped
<1>10. ASSUME NEW c \in Consumers, FreeOld(c)
       PROVE  \E t \in Seq(Nodes) : ListIs(t)' /\ Ordered(t)'
  <2>1. Linked' = Linked /\ chead[c][1] \notin Linked
    BY <1>1, <1>4, <1>10, FreeSets DEF Base
  <2>2. head' = head /\ received' = received /\ accepted' = accepted
    BY <1>1, <1>10 DEF FreeOld, Calling, Owns
  <2>3. \A y \in Linked : next'[y] = next[y] /\ data'[y] = data[y]
    BY <1>4, <1>10, <2>1 DEF FreeOld, Release
  <2>4. QED
    BY <1>3, <2>1, <2>2, <2>3, ListStays
<1>11. QED
  BY <1>1, <1>2, <1>5, <1>6, <1>7, <1>8, <1>9, <1>10 DEF Effect

LEMMA InOrderInit == QueueInit => InOrder
<1> SUFFICES ASSUME QueueInit
             PROVE  InOrder
  OBVIOUS
<1>1. PICK d \in Nodes :
        /\ head = <<d, 0>> /\ free = Nodes \ {d}
        /\ next = [x \in Nodes |-> IF x = d THEN Null ELSE Garbage]
  BY DEF QueueInit, Init
<1>2. /\ \A p \in Producers : ppc[p] = "idle"
      /\ \A c \in Consumers : cpc[c] = "idle"
      /\ received = <<>> /\ accepted = <<>>
  BY DEF QueueInit, Init
<1>3. Linked = {d}
  BY <1>1, <1>2 DEF Alive, Linked, Dead, Private, Frees, Owns
<1>4. Unreused
  BY <1>2 DEF Unreused
<1>5. PICK s : s = <<d>>
  OBVIOUS
<1>6. s \in Seq(Nodes) /\ Len(s) = 1 /\ s[1] = d
  BY <1>5
<1>7. ListIs(s)
  BY <1>1, <1>3, <1>6 DEF ListIs
<1>8. Ordered(s)
  BY <1>2, <1>6 DEF Ordered
<1>9. QED
  BY <1>4, <1>6, <1>7, <1>8 DEF InOrder

-----------------------------------------------------------------------------
(* What a walk along the list finds *)

LEMMA Least ==
  ASSUME NEW S, S \subseteq Nat, S # {}
  PROVE  \E m \in S : \A n \in S : ~(n < m)
<1> DEFINE R == {p \in Nat \X Nat : p[1] < p[2]}
<1>1. IsWellFoundedOn(R, Nat)
  BY NatLessThanWellFounded DEF OpToRel
<1> HIDE DEF R
<1>2. PICK m \in S : \A n \in S : ~(<<n, m>> \in R)
  BY <1>1, WFMin
<1>3. QED
  BY <1>2 DEF R

\* Induction, for a set.
LEMMA AllNumbers ==
  ASSUME NEW T, 0 \in T, \A n \in Nat : n \in T => n + 1 \in T
  PROVE  \A n \in Nat : n \in T
<1> SUFFICES ASSUME NEW k \in Nat, k \notin T
             PROVE  FALSE
  OBVIOUS
<1> DEFINE S == Nat \ T
<1>1. S \subseteq Nat /\ S # {}
  OBVIOUS
<1> HIDE DEF S
<1>2. PICK m \in S : \A n \in S : ~(n < m)
  BY <1>1, Least
<1>3. m \in Nat /\ m # 0 /\ m - 1 \in Nat /\ m - 1 < m /\ m - 1 + 1 = m
  BY <1>1, <1>2 DEF S
<1>4. m - 1 \in T
  BY <1>2, <1>3 DEF S
<1>5. QED
  BY <1>2, <1>3, <1>4 DEF S

\* The recursion of Chain is well-founded.
LEMMA ChainDef ==
  ASSUME MsQueueAssumption
  PROVE  Chain = [k \in 0..Cardinality(Nodes) |->
                    IF k = 0 THEN head[1] ELSE NextNode(Chain[k - 1])]
<1> DEFINE T == {n \in Nat : \E f : f = [k \in 0..n |->
                   IF k = 0 THEN head[1] ELSE NextNode(f[k - 1])]}
<1>1. 0 \in T
  <2> DEFINE f == [k \in 0..0 |-> head[1]]
  <2>1. f = [k \in 0..0 |-> IF k = 0 THEN head[1] ELSE NextNode(f[k - 1])]
    OBVIOUS
  <2> HIDE DEF f
  <2>2. QED
    BY <2>1
<1>2. ASSUME NEW n \in Nat, n \in T
      PROVE  n + 1 \in T
  <2>1. PICK f : f = [k \in 0..n |-> IF k = 0 THEN head[1] ELSE NextNode(f[k - 1])]
    BY <1>2
  <2> DEFINE g == [k \in 0..(n + 1) |-> IF k = 0 THEN head[1] ELSE NextNode(f[k - 1])]
  <2>2. \A k \in 0..n : g[k] = f[k]
    BY <2>1
  <2>3. \A k \in 0..(n + 1) : k # 0 => k - 1 \in 0..n
    OBVIOUS
  <2>4. g = [k \in 0..(n + 1) |-> IF k = 0 THEN head[1] ELSE NextNode(g[k - 1])]
    BY <2>2, <2>3
  <2> HIDE DEF g
  <2>5. QED
    BY <2>4
<1> HIDE DEF T
<1>3. Cardinality(Nodes) \in Nat
  BY FS_CardinalityType DEF MsQueueAssumption
<1>4. Cardinality(Nodes) \in T
  BY <1>1, <1>2, <1>3, AllNumbers
<1>5. QED
  BY <1>4 DEF T, Chain

LEMMA ListFits ==
  ASSUME MsQueueAssumption, NEW s \in Seq(Nodes), ListIs(s)
  PROVE  Len(s) \in Nat /\ Len(s) <= Cardinality(Nodes)
<1>1. Len(s) \in Nat /\ s \in [1..Len(s) -> Nodes]
  OBVIOUS
<1>2. s \in Injection(1..Len(s), Nodes)
  BY <1>1 DEF ListIs, Injection, IsInjective
<1>3. Cardinality(1..Len(s)) <= Cardinality(Nodes)
  BY <1>2, FS_Injection DEF MsQueueAssumption
<1>4. Cardinality(1..Len(s)) = Len(s)
  BY <1>1, FS_Interval DEF ListIs
<1>5. QED
  BY <1>1, <1>3, <1>4

LEMMA ChainIs ==
  ASSUME Base, NEW s \in Seq(Nodes), ListIs(s)
  PROVE  \A k \in 0..Cardinality(Nodes) :
           Chain[k] = IF k < Len(s) THEN s[k + 1] ELSE Null
<1> USE DEF Base
<1> DEFINE n == Len(s)
           N == Cardinality(Nodes)
           T == {k \in Nat : k <= N => Chain[k] = IF k < n THEN s[k + 1] ELSE Null}
<1>1. n \in Nat /\ n > 0 /\ N \in Nat
  BY FS_CardinalityType DEF ListIs, MsQueueAssumption
<1>2. Chain[0] = head[1] /\ \A k \in 0..N : k # 0 => Chain[k] = NextNode(Chain[k - 1])
  BY <1>1, ChainDef
<1>3. NextNode(Null) = Null
  BY DEF NextNode, MsQueueAssumption
<1>4. \A i \in 1..(n - 1) : NextNode(s[i]) = s[i + 1]
  <2> SUFFICES ASSUME NEW i \in 1..(n - 1)
               PROVE  NextNode(s[i]) = s[i + 1]
    OBVIOUS
  <2>1. i \in 1..n /\ i + 1 \in 1..n
    BY <1>1
  <2>2. s[i] \in Nodes /\ s[i + 1] \in Nodes \ free /\ next[s[i]] = s[i + 1]
    BY <2>1 DEF ListIs, Linked, Alive
  <2>3. QED
    BY <2>2 DEF NextNode
<1>5. NextNode(s[n]) = Null
  BY <1>1 DEF NextNode, ListIs, MsQueueAssumption
<1> HIDE DEF n, N
<1>6. 0 \in T
  BY <1>1, <1>2 DEF ListIs, n
<1>7. ASSUME NEW k \in Nat, k \in T
      PROVE  k + 1 \in T
  <2> SUFFICES ASSUME k + 1 <= N
               PROVE  Chain[k + 1] = IF k + 1 < n THEN s[k + 1 + 1] ELSE Null
    OBVIOUS
  <2>1. Chain[k] = IF k < n THEN s[k + 1] ELSE Null
    BY <1>1, <1>7
  <2>2. Chain[k + 1] = NextNode(Chain[k])
    <3>1. k + 1 \in 0..N /\ k + 1 # 0 /\ k + 1 - 1 = k
      BY <1>1
    <3>2. QED
      BY <1>2, <3>1
  <2>3. CASE k + 1 < n
    <3>1. k + 1 \in 1..(n - 1) /\ k < n
      BY <1>1, <2>3
    <3>2. QED
      BY <1>4, <2>1, <2>2, <2>3, <3>1
  <2>4. CASE k + 1 = n
    <3>1. k < n /\ ~(k + 1 < n)
      BY <1>1, <2>4
    <3>2. QED
      BY <1>5, <2>1, <2>2, <2>4, <3>1
  <2>5. CASE k + 1 > n
    <3>1. ~(k < n) /\ ~(k + 1 < n)
      BY <1>1, <2>5
    <3>2. QED
      BY <1>3, <2>1, <2>2, <3>1
  <2>6. QED
    BY <1>1, <2>3, <2>4, <2>5
<1> HIDE DEF T
<1>8. \A k \in Nat : k \in T
  BY <1>6, <1>7, AllNumbers
<1>9. QED
  BY <1>1, <1>8 DEF T, n, N

LEMMA ContentsAre ==
  ASSUME Base, NEW s \in Seq(Nodes), ListIs(s)
  PROVE  /\ Contents \in Seq(Messages \cup {NoMsg}) /\ Len(Contents) = Len(s) - 1
         /\ \A k \in 1..(Len(s) - 1) : Contents[k] = data[s[k + 1]]
<1> USE DEF Base
<1> DEFINE n == Len(s)
           N == Cardinality(Nodes)
<1>1. n \in Nat /\ n > 0 /\ N \in Nat /\ n <= N
  BY ListFits, FS_CardinalityType DEF ListIs, MsQueueAssumption
<1>2. \A k \in 0..N : Chain[k] = IF k < n THEN s[k + 1] ELSE Null
  BY ChainIs
<1>3. \A i \in 1..n : s[i] \in Nodes /\ s[i] # Null
  BY DEF MsQueueAssumption
<1> HIDE DEF n, N
<1>4. {i \in 1..N : Chain[i] # Null} = 1..(n - 1)
  <2>1. ASSUME NEW i \in 1..N
        PROVE  Chain[i] # Null <=> i \in 1..(n - 1)
    <3>1. i \in 0..N /\ (i < n => i + 1 \in 1..n /\ i \in 1..(n - 1))
      BY <1>1
    <3>2. ~(i < n) => i \notin 1..(n - 1)
      BY <1>1
    <3>3. QED
      BY <1>2, <1>3, <3>1, <3>2
  <2>2. 1..(n - 1) \subseteq 1..N
    BY <1>1
  <2>3. QED
    BY <2>1, <2>2
<1>5. Cardinality({i \in 1..N : Chain[i] # Null}) = n - 1
  <2>1. Cardinality(1..(n - 1)) = n - 1
    BY <1>1, FS_Interval
  <2>2. QED
    BY <1>4, <2>1
<1>6. Contents = [k \in 1..(n - 1) |-> data[Chain[k]]]
  BY <1>5 DEF Contents, N
<1>7. \A k \in 1..(n - 1) : Chain[k] = s[k + 1] /\ s[k + 1] \in Nodes
  <2> SUFFICES ASSUME NEW k \in 1..(n - 1)
               PROVE  Chain[k] = s[k + 1] /\ s[k + 1] \in Nodes
    OBVIOUS
  <2>1. k \in 0..N /\ k < n /\ k + 1 \in 1..n
    BY <1>1
  <2>2. QED
    BY <1>2, <1>3, <2>1
<1>8. \A k \in 1..(n - 1) : Contents[k] = data[s[k + 1]] /\ Contents[k] \in Messages \cup {NoMsg}
  BY <1>6, <1>7 DEF MsQueueTypeOK
<1>9. Contents \in [1..(n - 1) -> Messages \cup {NoMsg}] /\ n - 1 \in Nat
  BY <1>1, <1>6, <1>8
<1>10. QED
  BY <1>8, <1>9 DEF n

LEMMA FifoHolds == QInv /\ InOrder => Fifo
<1> SUFFICES ASSUME QInv, InOrder, ~reuse
             PROVE  received \o Contents = accepted
  BY DEF Fifo
<1>1. PICK s \in Seq(Nodes) : ListIs(s) /\ Ordered(s)
  BY DEF InOrder
<1>2. Base /\ received \in Seq(Messages) /\ accepted \in Seq(Messages)
  BY InvBase DEF Base, MsQueueTypeOK
<1>3. /\ Contents \in Seq(Messages \cup {NoMsg}) /\ Len(Contents) = Len(s) - 1
      /\ \A k \in 1..(Len(s) - 1) : Contents[k] = data[s[k + 1]]
  BY <1>1, <1>2, ContentsAre
<1> DEFINE M == Messages \cup {NoMsg}
           r == Len(received)
           n == Len(s)
           C == Contents
<1>4. received \in Seq(M) /\ accepted \in Seq(M) /\ C \in Seq(M)
  BY <1>2, <1>3
<1>5. r \in Nat /\ n \in Nat /\ n > 0
  BY <1>1, <1>2 DEF ListIs
<1>6. /\ Len(accepted) = r + (n - 1) /\ \A i \in 1..r : accepted[i] = received[i]
      /\ \A i \in 1..(n - 1) : accepted[r + i] = C[i]
  BY <1>1, <1>3 DEF Ordered
<1>c. Len(C) = n - 1
  BY <1>3
<1> HIDE DEF M, r, n, C
<1>7. /\ received \o C \in Seq(M) /\ Len(received \o C) = r + (n - 1)
      /\ \A i \in 1..(r + (n - 1)) :
           (received \o C)[i] = IF i <= r THEN received[i] ELSE C[i - r]
  BY <1>4, <1>c, ConcatProperties DEF r
<1>8. ASSUME NEW i \in 1..(r + (n - 1))
      PROVE  (received \o C)[i] = accepted[i]
  <2>1. CASE i <= r
    <3>1. i \in 1..r
      BY <1>5, <2>1
    <3>2. QED
      BY <1>6, <1>7, <2>1, <3>1
  <2>2. CASE ~(i <= r)
    <3>1. i - r \in 1..(n - 1) /\ r + (i - r) = i
      BY <1>5, <2>2
    <3>2. QED
      BY <1>6, <1>7, <2>2, <3>1
  <2>3. QED
    BY <2>1, <2>2
<1>9. received \o C = accepted
  BY <1>4, <1>6, <1>7, <1>8, SeqEqual
<1>10. QED
  BY <1>9 DEF C

\* The list keeps its order: QInv and InOrder are inductive together.
THEOREM QueueStaysInOrder == QueueSpec => [](QInv /\ InOrder)
<1>1. QueueInit => QInv /\ InOrder
  BY QueueInitInv, InOrderInit
<1>2. QInv /\ InOrder /\ [MpscNext \/ MpmcNext]_allVars => (QInv /\ InOrder)'
  BY QueueStepInv, InOrderStep
<1>3. QED
  BY <1>1, <1>2, PTL DEF QueueSpec

\* However many threads push to and pop from a shared queue: nothing is lost or
\* received twice, and while no call's node is reused, messages come out in the
\* order in which they were linked.
THEOREM QueueIsKept == QueueSpec => []QueueKept
<1>1. QInv /\ InOrder => QueueKept
  BY FifoHolds, QueueTypeOK DEF QueueKept, QInv
<1>2. QED
  BY <1>1, QueueStaysInOrder, PTL

\* A pop that returns NULL has read the next field of the dummy of an empty
\* list, and not of a node it was left behind with.
THEOREM QueueEmptyIsTrue == QueueSpec => EmptyIsTrue
<1> DEFINE A == ~reuse /\ (IF kind = "mpsc" THEN Mpsc!ReturnsNull ELSE Mpmc!ReturnsNull)
                  => Contents = <<>>
<1>1. ASSUME QInv, InOrder, ~reuse, NEW c \in Consumers, cpc[c] = "next",
             next[chead[c][1]] = Null
      PROVE  Contents = <<>>
  <2>1. PICK s \in Seq(Nodes) : ListIs(s)
    BY <1>1 DEF InOrder
  <2>2. Base
    BY <1>1, InvBase
  <2>3. chead[c][1] \in Alive /\ chead[c][1] = head[1]
    BY <1>1, <2>2 DEF Base, MsQueueTypeOK, Chained, InOrder, Unreused
  <2>4. Len(s) = 1
    <3>1. s[1] = head[1] /\ Len(s) > 0 /\ Len(s) \in Nat
      BY <2>1 DEF ListIs
    <3>2. next[s[1]] \notin Nodes
      BY <1>1, <2>3, <3>1, MsQueueAssumption
    <3>3. ASSUME Len(s) > 1
          PROVE  next[s[1]] \in Nodes
      <4>1. 1 \in 1..(Len(s) - 1) /\ 1 + 1 = 2 /\ 2 \in 1..Len(s)
        BY <3>1, <3>3
      <4>2. next[s[1]] = s[2]
        BY <2>1, <4>1 DEF ListIs
      <4>3. QED
        BY <4>1, <4>2
    <3>4. ~(Len(s) > 1)
      BY <3>2, <3>3
    <3> DEFINE n == Len(s)
    <3>5. n \in Nat /\ n > 0 /\ ~(n > 1)
      BY <3>1, <3>4
    <3> HIDE DEF n
    <3>6. n = 1
      BY <3>5
    <3>7. QED
      BY <3>6 DEF n
  <2>5. Contents \in Seq(Messages \cup {NoMsg}) /\ Len(Contents) = 0
    BY <2>1, <2>2, <2>4, ContentsAre
  <2>6. QED
    BY <2>5
<1>2. ASSUME QInv, kind = "mpsc", Mpsc!ReturnsNull, NEW c, c = Mpsc!C
      PROVE  c \in Consumers /\ cpc[c] = "next" /\ next[chead[c][1]] = Null
  <2>1. c \in Consumers /\ cpc = [d \in Consumers |-> cpc[d]]
    BY <1>2, CpcFunction DEF QInv, OneConsumer
  <2>2. Mpsc!Null = Null
    BY DEF Null, Mpsc!Null
  <2>3. QED
    BY <1>2, <2>1, <2>2 DEF Mpsc!ReturnsNull, Mpsc!PopLoadNext, Mpsc!PopGoto
<1>3. ASSUME QInv, NEW c \in Consumers, Mpmc!PopLoadNext(c), cpc'[c] = "idle"
      PROVE  cpc[c] = "next" /\ next[chead[c][1]] = Null
  <2>1. cpc = [d \in Consumers |-> cpc[d]]
    BY <1>3, CpcFunction DEF QInv
  <2>2. Mpmc!Null = Null
    BY DEF Null, Mpmc!Null
  <2>3. QED
    BY <1>3, <2>1, <2>2 DEF Mpmc!PopLoadNext, Mpmc!PopGoto
<1>4. QInv /\ InOrder /\ [MpscNext \/ MpmcNext]_allVars => [A]_allVars
  BY <1>1, <1>2, <1>3 DEF Mpmc!ReturnsNull
<1>5. QED
  BY <1>4, QueueStaysInOrder, PTL DEF QueueSpec, EmptyIsTrue
=============================================================================
