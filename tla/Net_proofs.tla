----------------------------- MODULE Net_proofs -----------------------------
(* What the modules of net/ keep, for every value of the constants: each     *)
(* theorem is about the specification of one of them, which is what it does  *)
(* in MCNet as well.                                                         *)
EXTENDS MCNet, Sequences, FiniteSetTheorems, TLAPS

-----------------------------------------------------------------------------
(* Ping *)

PingTypes ==
  /\ p_session \in [seq : Nat, state : {"idle", "waiting", "reply"}, data : Nat \cup {P!NoSeq}]
  /\ p_user \in [pc : {"idle", "arp", "build", "store", "send", "wait"}, seq : Nat, tries : Nat]
  /\ p_sent \in Nat /\ p_count \in Nat /\ p_heard \in Nat
  /\ p_thread \in [Workers -> [pc : {"free", "take", "compare", "write"}, seq : Nat \cup {P!NoSeq}, n : Nat]]
  /\ p_wire \subseteq Nat

\* The packets of the callbacks are numbered apart, and none of those that may
\* still take the session has taken it.
PacketsApart ==
  /\ p_took \subseteq 1..p_heard
  /\ \A t \in Workers : p_thread[t].pc = "take" =>
       /\ p_thread[t].n \in (1..p_heard) \ p_took
       /\ \A u \in Workers \ {t} : p_thread[u].pc = "take" => p_thread[u].n # p_thread[t].n

\* How many requests have set the session to waiting.
Stored == IF p_user.pc = "send" THEN p_sent + 1 ELSE p_sent

\* A session that waits has not been taken for the last request that set it;
\* one that has a reply has been taken for a request not yet counted, as long
\* as the command has not gone on to the next.
SessionTaken ==
  /\ Cardinality(p_took) + (IF p_session.state = "waiting" THEN 1 ELSE 0) <= Stored
  /\ p_count + (IF p_session.state = "reply" /\ p_user.pc \in {"send", "wait"} THEN 1 ELSE 0)
       <= Cardinality(p_took)

PingInv == PingTypes /\ PacketsApart /\ SessionTaken

LEMMA TookFinite ==
  ASSUME PacketsApart, PingTypes
  PROVE  IsFiniteSet(p_took) /\ Cardinality(p_took) \in Nat
<1>1. IsFiniteSet(1..p_heard)
  BY FS_Interval DEF PingTypes
<1>2. IsFiniteSet(p_took)
  BY <1>1, FS_Subset DEF PacketsApart
<1>3. QED
  BY <1>2, FS_CardinalityType

LEMMA PingInit == P!Init => PingInv
<1> SUFFICES ASSUME P!Init PROVE PingInv
  OBVIOUS
<1>1. PingTypes
  BY DEF P!Init, PingTypes, P!At, P!Free, P!NoSeq
<1>2. PacketsApart
  BY DEF P!Init, PacketsApart, P!Free
<1>3. SessionTaken
  BY FS_EmptySet DEF P!Init, SessionTaken, Stored, P!At
<1>4. QED
  BY <1>1, <1>2, <1>3 DEF PingInv

\* What the command does leaves the packets alone.
LEMMA PingUser == PingInv /\ P!User => PingInv'
<1> SUFFICES ASSUME PingInv, P!User PROVE PingInv'
  OBVIOUS
<1> USE DEF PingInv, PingTypes
<1>0. Cardinality(p_took) \in Nat
  BY TookFinite
<1>1. p_thread' = p_thread /\ p_took' = p_took /\ p_heard' = p_heard
  BY DEF P!User, P!Start, P!Arp, P!Build, P!Store, P!Send, P!WaitSleep, P!WaitOver,
         P!WaitReply
<1>2. PacketsApart'
  BY <1>1 DEF PacketsApart
<1>3. CASE P!Start \/ P!Arp
  BY <1>0, <1>1, <1>2, <1>3 DEF P!Start, P!Arp, P!At, SessionTaken, Stored
<1>4. CASE P!Build
  BY <1>0, <1>1, <1>2, <1>4 DEF P!Build, P!At, SessionTaken, Stored
<1>5. CASE P!Store
  BY <1>0, <1>1, <1>2, <1>5 DEF P!Store, SessionTaken, Stored
<1>6. CASE P!Send
  <2>1. PingTypes'
    <3>1. p_user' \in [pc : {"idle", "arp", "build", "store", "send", "wait"},
                       seq : Nat, tries : Nat]
      BY <1>6 DEF P!Send
    <3>2. p_wire' \subseteq Nat
      BY <1>6 DEF P!Send
    <3>3. QED
      BY <1>1, <1>6, <3>1, <3>2 DEF P!Send
  <2>2. p_user.pc = "send" /\ p_user'.pc = "wait" /\ p_sent' = p_sent + 1
        /\ p_session' = p_session /\ p_count' = p_count
    BY <1>6 DEF P!Send
  <2>3. SessionTaken'
    BY <1>0, <1>1, <2>2 DEF SessionTaken, Stored
  <2>4. QED
    BY <1>2, <2>1, <2>3
<1>7. CASE P!WaitSleep
  BY <1>0, <1>1, <1>2, <1>7 DEF P!WaitSleep, SessionTaken, Stored
<1>8. CASE P!WaitOver
  BY <1>0, <1>1, <1>2, <1>8 DEF P!WaitOver, P!NextRequest, P!At, SessionTaken, Stored
<1>9. CASE P!WaitReply
  BY <1>0, <1>1, <1>2, <1>9 DEF P!WaitReply, P!NextRequest, P!At, SessionTaken, Stored
<1>10. QED
  BY <1>3, <1>4, <1>5, <1>6, <1>7, <1>8, <1>9 DEF P!User

\* A callback that finds the session waiting takes it with a packet that has
\* not taken it before.
LEMMA PingCallback ==
  ASSUME PingInv, NEW t \in Workers,
         P!Reply(t) \/ P!Take(t) \/ P!Compare(t) \/ P!Write(t)
  PROVE  PingInv'
<1> USE DEF PingInv, PingTypes
<1>0. IsFiniteSet(p_took) /\ Cardinality(p_took) \in Nat
  BY TookFinite
<1>1. CASE P!Reply(t)
  <2>1. PingTypes'
    BY <1>1 DEF P!Reply, P!Free, P!NoSeq
  <2>2. PacketsApart'
    BY <1>1 DEF P!Reply, P!Free, PacketsApart
  <2>3. SessionTaken'
    BY <1>1 DEF P!Reply, SessionTaken, Stored
  <2>4. QED
    BY <2>1, <2>2, <2>3
<1>2. CASE P!Take(t) /\ p_took' # p_took
  <2>1. PingTypes'
    BY <1>2 DEF P!Take, P!Free, P!NoSeq
  <2>2. PacketsApart'
    <3>1. /\ p_thread[t].pc = "take" /\ p_took' = p_took \cup {p_thread[t].n}
          /\ p_thread' = [p_thread EXCEPT ![t].pc = "compare"] /\ p_heard' = p_heard
      BY <1>2 DEF P!Take
    <3>2. \A u \in Workers : /\ u # t => p_thread'[u] = p_thread[u]
                              /\ p_thread'[u].n = p_thread[u].n
      BY <3>1
    <3>3. QED
      BY <3>1, <3>2 DEF PacketsApart
  <2>3. Cardinality(p_took') = Cardinality(p_took) + 1
    <3>1. p_took' = p_took \cup {p_thread[t].n} /\ p_thread[t].pc = "take"
      BY <1>2 DEF P!Take
    <3>2. p_thread[t].n \notin p_took
      BY <3>1 DEF PacketsApart
    <3>3. QED
      BY <1>0, <3>1, <3>2, FS_AddElement
  <2>4. SessionTaken'
    BY <1>0, <1>2, <2>3 DEF P!Take, SessionTaken, Stored
  <2>5. QED
    BY <2>1, <2>2, <2>4
<1>3. CASE P!Take(t) /\ p_took' = p_took
  <2>1. p_session' = p_session /\ p_thread' = [p_thread EXCEPT ![t] = P!Free]
    BY <1>3 DEF P!Take, PacketsApart
  <2>2. PingTypes' /\ PacketsApart'
    BY <1>3, <2>1 DEF P!Take, P!Free, P!NoSeq, PacketsApart
  <2>3. SessionTaken'
    BY <1>3, <2>1 DEF P!Take, SessionTaken, Stored
  <2>4. QED
    BY <2>2, <2>3
<1>4. CASE P!Write(t)
  <2>1. PingTypes' /\ PacketsApart'
    BY <1>4 DEF P!Write, P!Free, P!NoSeq, PacketsApart
  <2>2. SessionTaken'
    BY <1>4 DEF P!Write, SessionTaken, Stored
  <2>3. QED
    BY <2>1, <2>2
<1>5. CASE P!Compare(t)
  <2>1. PingTypes' /\ PacketsApart'
    BY <1>5 DEF P!Compare, P!Free, P!NoSeq, PacketsApart
  <2>2. SessionTaken'
    BY <1>5 DEF P!Compare, SessionTaken, Stored
  <2>3. QED
    BY <2>1, <2>2
<1>6. QED
  BY <1>1, <1>2, <1>3, <1>4, <1>5

\* The command never reports more answers than packets that took the session,
\* nor are there more of those than requests, however many replies come late,
\* twice or for another program, and for any number of callback threads.
THEOREM PingCountedOnce == P!Spec => []CountedOnce
<1>1. PingInv /\ [P!Next]_(P!vars) => PingInv'
  <2> SUFFICES ASSUME PingInv, [P!Next]_(P!vars) PROVE PingInv'
    OBVIOUS
  <2>1. CASE UNCHANGED P!vars
    BY <2>1 DEF P!vars, PingInv, PingTypes, PacketsApart, SessionTaken, Stored
  <2>2. QED
    BY <2>1, PingUser, PingCallback DEF P!Next
<1>2. PingInv => CountedOnce
  <2> SUFFICES ASSUME PingInv PROVE CountedOnce
    OBVIOUS
  <2>1. Cardinality(p_took) \in Nat
    BY TookFinite DEF PingInv
  <2>2. QED
    <3>1. p_count <= Cardinality(p_took) /\ Cardinality(p_took) <= Stored
      BY <2>1 DEF PingInv, PingTypes, SessionTaken, Stored
    <3>2. P!Cardinality(p_took) = Cardinality(p_took)
      BY DEF Cardinality, P!Cardinality, IsFiniteSet, P!IsFiniteSet
    <3>3. QED
      BY <3>1, <3>2 DEF Stored, CountedOnce, P!CountedOnce
<1>3. QED
  BY <1>1, <1>2, PingInit, PTL DEF P!Spec
-----------------------------------------------------------------------------
(* Cmcp *)

\* One hello at most, and where its number can be.
HelloShape ==
  /\ c_fsm \in {"start", "test", "pop", "end"}
  /\ c_tx \in {"start", "test", "pop", "end"}
  /\ c_state \in {"IDLE", "MATCH", "ABORT"}
  /\ c_frame \in {<<>>, <<"queued">>, <<"lost">>, <<"given">>}
  /\ c_txq \in {None, <<>>, <<1>>}

\* A hello is there only if the machine has left its first state, and it is
\* built once the queue has been made.  A hello that waits is in the queue,
\* and nothing else is.
HelloQueued ==
  /\ c_frame # <<>> => c_state # "IDLE"
  /\ c_fsm = "start" => c_frame = <<>>
  /\ c_tx = "start" => c_txq = None /\ c_frame # <<"queued">>
  /\ c_tx \in {"test", "pop"} => c_txq # None
  /\ c_frame = <<>> => c_txq \in {None, <<>>}
  /\ c_frame = <<"queued">> => c_txq \in {None, <<1>>}

CmcpInv == HelloShape /\ HelloQueued

\* What is not there is no queue.
LEMMA CmcpNone == None # <<>> /\ None # <<1>>
<1>1. None \notin Seq(Nat)
  BY NetAssumptions DEF C!CmcpAssumption
<1>2. <<>> \in Seq(Nat) /\ <<1>> \in Seq(Nat)
  OBVIOUS
<1>3. QED
  BY <1>1, <1>2

\* The one hello is built when the match state is entered, which happens once:
\* no event leads back to the idle state.
LEMMA CmcpPop == CmcpInv /\ C!FsmPop => CmcpInv'
<1> SUFFICES ASSUME CmcpInv, C!FsmPop PROVE CmcpInv'
  OBVIOUS
<1> USE DEF CmcpInv, HelloShape, HelloQueued
<1>1. CASE UNCHANGED <<c_frame, c_txq>>
  BY <1>1 DEF C!FsmPop, C!Polled
<1>2. CASE ~UNCHANGED <<c_frame, c_txq>>
  <2>1. /\ c_state = "IDLE" /\ c_state' = "MATCH" /\ c_fsm' = "test"
        /\ UNCHANGED c_tx
        /\ C!Hello(Len(c_frame) + 1)
    BY <1>2 DEF C!FsmPop, C!Polled
  <2>2. c_frame = <<>> /\ c_txq \in {None, <<>>}
    BY <2>1
  <2>3. CASE c_frame' = <<"queued">> /\ c_txq # None /\ c_txq' = <<1>>
    BY <2>1, <2>3, CmcpNone
  <2>4. CASE c_frame' = <<"lost">> /\ c_txq' = c_txq
    BY <2>1, <2>2, <2>4
  <2>5. QED
    BY <1>2, <2>1, <2>2, <2>3, <2>4 DEF C!Hello
<1>3. QED
  BY <1>1, <1>2

\* The thread that sends takes the hello from the queue, and it is not in the
\* state of waiting any more.
LEMMA CmcpTx == CmcpInv /\ C!Tx => CmcpInv'
<1> SUFFICES ASSUME CmcpInv, C!Tx PROVE CmcpInv'
  OBVIOUS
<1> USE DEF CmcpInv, HelloShape, HelloQueued
<1>1. CASE C!TxInit \/ C!TxTest
  BY <1>1, CmcpNone DEF C!TxInit, C!TxTest, C!fsmVars
<1>2. CASE C!TxPop
  <2>1. CASE c_txq = <<>>
    BY <1>2, <2>1 DEF C!TxPop, C!fsmVars
  <2>2. CASE c_txq # <<>>
    <3>1. c_txq = <<1>> /\ c_frame # <<>> /\ c_tx' = "test" /\ c_txq' = <<>>
      <4>1. c_tx = "pop" /\ c_tx' = "test" /\ c_txq' = Tail(c_txq)
        BY <1>2, <2>2 DEF C!TxPop
      <4>2. c_txq # None
        BY <4>1
      <4>3. c_txq = <<1>> /\ c_frame # <<>>
        BY <2>2, <4>2
      <4>4. QED
        BY <4>1, <4>3
    <3>2. UNCHANGED <<c_fsm, c_state>>
      BY <1>2 DEF C!TxPop, C!fsmVars
    <3>3. c_frame' \in {<<"lost">>, <<"given">>}
      BY <1>2, <2>2, <3>1 DEF C!TxPop
    <3>4. QED
      BY <3>1, <3>2, <3>3, CmcpNone
  <2>3. QED
    BY <2>1, <2>2
<1>3. QED
  BY <1>1, <1>2 DEF C!Tx

\* One hello is built in the life of the machine, whatever commands come, and
\* as long as it waits it is the one thing in the queue, for any capacity.
THEOREM CmcpHelloOnce == C!Spec => []HelloOnce
<1>1. C!Init => CmcpInv
  BY DEF C!Init, CmcpInv, HelloShape, HelloQueued
<1>2. CmcpInv /\ [C!Next]_(C!vars) => CmcpInv'
  <2> SUFFICES ASSUME CmcpInv, [C!Next]_(C!vars) PROVE CmcpInv'
    OBVIOUS
  <2> USE DEF CmcpInv, HelloShape, HelloQueued
  <2>1. CASE C!Command \/ C!FsmInit \/ C!FsmTest
    BY <2>1 DEF C!Command, C!FsmInit, C!FsmTest, C!txVars
  <2>2. CASE C!Exit
    BY <2>2 DEF C!Exit, C!ExitFlag, C!ExitFree, C!ExitTx, C!ExitDone, C!fsmVars, C!txVars
  <2>3. CASE UNCHANGED C!vars
    BY <2>3 DEF C!vars, C!fsmVars, C!txVars
  <2>4. QED
    BY <2>1, <2>2, <2>3, CmcpPop, CmcpTx DEF C!Next, C!Fsm
<1>3. CmcpInv => HelloOnce
  <2> SUFFICES ASSUME CmcpInv PROVE HelloOnce
    OBVIOUS
  <2> USE DEF CmcpInv, HelloShape, HelloQueued, HelloOnce, C!HelloOnce
  <2>1. CASE c_frame = <<>>
    BY <2>1
  <2>2. CASE c_frame # <<>>
    <3>1. Len(c_frame) = 1 /\ (c_frame[1] = "queued" => c_frame = <<"queued">>)
      BY <2>2
    <3>2. QED
      BY <2>2, <3>1
  <2>3. QED
    BY <2>1, <2>2
<1>4. QED
  BY <1>1, <1>2, <1>3, PTL DEF C!Spec
-----------------------------------------------------------------------------
(* Sequences of frames, each a sender and a number: in the order in which    *)
(* each sender numbers its own                                               *)

Increasing(q) ==
  \A i, j \in 1..Len(q) : i < j /\ q[i][1] = q[j][1] => q[i][2] < q[j][2]

\* What a sender has in p it has numbered before what it has in q.
Before(p, q) ==
  \A i \in 1..Len(p), j \in 1..Len(q) : p[i][1] = q[j][1] => p[i][2] < q[j][2]

LEMMA SplitIncreasing ==
  ASSUME NEW S, NEW q \in Seq(S), NEW n \in 1..Len(q), Increasing(q)
  PROVE  LET front == SubSeq(q, 1, n)  back == SubSeq(q, n + 1, Len(q))
         IN  /\ front \in Seq(S) /\ back \in Seq(S) /\ Len(front) = n
             /\ \A i \in 1..n : front[i] = q[i]
             /\ Len(back) = Len(q) - n /\ \A i \in 1..Len(back) : back[i] = q[n + i]
             /\ Increasing(front) /\ Increasing(back) /\ Before(front, back)
<1> DEFINE front == SubSeq(q, 1, n)
           back == SubSeq(q, n + 1, Len(q))
<1>1. front \in Seq(S) /\ Len(front) = n /\ \A i \in 1..n : front[i] = q[i]
  OBVIOUS
<1>2. /\ back \in Seq(S) /\ Len(back) = Len(q) - n
      /\ \A i \in 1..Len(back) : back[i] = q[n + i]
  OBVIOUS
<1> HIDE DEF front, back
<1>3. Increasing(front)
  BY <1>1 DEF Increasing
<1>4. Increasing(back)
  <2> SUFFICES ASSUME NEW i \in 1..Len(back), NEW j \in 1..Len(back), i < j,
                      back[i][1] = back[j][1]
               PROVE  back[i][2] < back[j][2]
    BY DEF Increasing
  <2>1. n + i \in 1..Len(q) /\ n + j \in 1..Len(q) /\ n + i < n + j
    BY <1>2
  <2>2. QED
    BY <1>2, <2>1 DEF Increasing
<1>5. Before(front, back)
  <2> SUFFICES ASSUME NEW i \in 1..Len(front), NEW j \in 1..Len(back),
                      front[i][1] = back[j][1]
               PROVE  front[i][2] < back[j][2]
    BY DEF Before
  <2>1. i \in 1..Len(q) /\ n + j \in 1..Len(q) /\ i < n + j
    BY <1>1, <1>2
  <2>2. QED
    BY <1>1, <1>2, <2>1 DEF Increasing
<1>6. QED
  BY <1>1, <1>2, <1>3, <1>4, <1>5 DEF front, back

LEMMA ConcatIncreasing ==
  ASSUME NEW S, NEW p \in Seq(S), NEW q \in Seq(S),
         Increasing(p), Increasing(q), Before(p, q)
  PROVE  Increasing(p \o q)
<1>1. /\ Len(p \o q) = Len(p) + Len(q)
      /\ \A i \in 1..Len(p) : (p \o q)[i] = p[i]
      /\ \A i \in (Len(p) + 1)..(Len(p) + Len(q)) : (p \o q)[i] = q[i - Len(p)]
  OBVIOUS
<1> SUFFICES ASSUME NEW i \in 1..Len(p \o q), NEW j \in 1..Len(p \o q), i < j,
                    (p \o q)[i][1] = (p \o q)[j][1]
             PROVE  (p \o q)[i][2] < (p \o q)[j][2]
  BY DEF Increasing
<1> HIDE DEF Increasing, Before
<1>2. CASE j <= Len(p)
  <2>1. i \in 1..Len(p) /\ j \in 1..Len(p)
    BY <1>1, <1>2
  <2>2. QED
    BY <1>1, <2>1 DEF Increasing
<1>3. CASE i > Len(p)
  <2>1. /\ i - Len(p) \in 1..Len(q) /\ j - Len(p) \in 1..Len(q)
        /\ i - Len(p) < j - Len(p)
    BY <1>1, <1>3
  <2>2. (p \o q)[i] = q[i - Len(p)] /\ (p \o q)[j] = q[j - Len(p)]
    BY <1>1, <1>3
  <2>3. QED
    BY <2>1, <2>2 DEF Increasing
<1>4. CASE i <= Len(p) /\ j > Len(p)
  <2>1. i \in 1..Len(p) /\ j - Len(p) \in 1..Len(q)
    BY <1>1, <1>4
  <2>2. (p \o q)[i] = p[i] /\ (p \o q)[j] = q[j - Len(p)]
    BY <1>1, <1>4
  <2>3. QED
    BY <2>1, <2>2 DEF Before
<1>5. QED
  BY <1>1, <1>2, <1>3, <1>4
-----------------------------------------------------------------------------
(* Ftx *)

\* A sender has a frame in its hands that is not in the queue.
InHand(s) == f_sender[s] \in {"frame", "push", "udp"}

FtxTypes ==
  /\ f_listed \in BOOLEAN /\ f_status \in BOOLEAN /\ f_failed \in BOOLEAN
  /\ f_txq \in Seq(F!Frames) /\ f_batch \in Seq(F!Frames) /\ f_wire \in Seq(F!Frames)
  /\ f_sender \in [Senders -> {"ready", "frame", "push", "udp", "query"}]
  /\ f_sends \in [Senders -> 0..MaxSends]
  /\ f_node \in [F!Frames -> {"none", "user", "queued", "batch", "free", "lost"}]
  /\ f_tx_count \in Nat /\ f_dgrams \in Nat
  /\ \A s \in Senders : InHand(s) => f_sends[s] > 0

\* What is in q was numbered before what its sender has in its hands.
Numbered(q) ==
  \A i \in 1..Len(q) :
    /\ q[i][2] <= f_sends[q[i][1]]
    /\ InHand(q[i][1]) => q[i][2] < f_sends[q[i][1]]

\* From the kernel back to the senders, each sender's frames are in order.
FtxOrder ==
  /\ Increasing(f_wire) /\ Increasing(f_batch) /\ Increasing(f_txq)
  /\ Before(f_wire, f_batch) /\ Before(f_wire, f_txq) /\ Before(f_batch, f_txq)
  /\ Numbered(f_wire) /\ Numbered(f_batch) /\ Numbered(f_txq)

FtxCounted ==
  /\ f_tx_count = Len(f_wire) + f_dgrams
  /\ \A i \in 1..Len(f_wire) : f_node[f_wire[i]] = "free"

\* An interface that is not in the table, or is being taken down, is not up.
FtxLost ==
  /\ ~f_listed \/ f_deinit # "none" => ~f_status
  /\ (\E f \in F!Frames : f_node[f] = "lost") => f_failed \/ ~f_status

FtxInv == FtxTypes /\ FtxOrder /\ FtxCounted /\ FtxLost

LEMMA FtxFrame ==
  ASSUME FtxTypes
  PROVE  /\ \A f \in F!Frames : f = <<f[1], f[2]>> /\ f[1] \in Senders /\ f[2] \in 1..MaxSends
         /\ \A s \in Senders : InHand(s) =>
              /\ F!Frame(s) \in F!Frames
              /\ F!Frame(s)[1] = s /\ F!Frame(s)[2] = f_sends[s]
BY NetAssumptions DEF FtxTypes, F!Frames, F!Frame, F!FtxAssumption

\* What is placed somewhere is a set of frames; a frame that is not in it, and
\* all that have been sent when none of them is in it, stay where they are.
LEMMA FtxPlace ==
  ASSUME FtxTypes, NEW S, NEW w \in {"none", "user", "queued", "batch", "free", "lost"},
         F!Place(S, w)
  PROVE  /\ f_node' \in [F!Frames -> {"none", "user", "queued", "batch", "free", "lost"}]
         /\ \A f \in F!Frames : f_node'[f] = IF f \in S THEN w ELSE f_node[f]
BY DEF FtxTypes, F!Place

\* A frame in the hands of a sender, in a batch or in the queue is not one that
\* has been sent.
LEMMA FtxApart ==
  ASSUME FtxInv, NEW i \in 1..Len(f_wire)
  PROVE  /\ f_wire[i] \in F!Frames
         /\ \A j \in 1..Len(f_batch) : f_wire[i] # f_batch[j]
         /\ \A j \in 1..Len(f_txq) : f_wire[i] # f_txq[j]
         /\ \A s \in Senders : InHand(s) => f_wire[i] # F!Frame(s)
<1>1. f_wire[i] \in F!Frames /\ \A j \in 1..Len(f_batch) : f_batch[j] \in F!Frames
  BY DEF FtxInv, FtxTypes
<1>2. \A j \in 1..Len(f_txq) : f_txq[j] \in F!Frames
  BY DEF FtxInv, FtxTypes
<1>3. f_wire[i][2] \in Nat
  BY <1>1, FtxFrame, NetAssumptions DEF FtxInv, F!FtxAssumption
<1>4. \A j \in 1..Len(f_batch) : f_wire[i] # f_batch[j]
  BY <1>3 DEF FtxInv, FtxOrder, Before
<1>5. \A j \in 1..Len(f_txq) : f_wire[i] # f_txq[j]
  BY <1>3 DEF FtxInv, FtxOrder, Before
<1>6. \A s \in Senders : InHand(s) => f_wire[i] # F!Frame(s)
  BY <1>3, FtxFrame DEF FtxInv, FtxOrder, Numbered
<1>7. QED
  BY <1>1, <1>4, <1>5, <1>6

\* A sender that takes a new number, or puts its frame out of its hands, leaves
\* the order of what is under way as it is.
LEMMA FtxStill ==
  ASSUME FtxInv, UNCHANGED <<f_wire, f_batch, f_txq>>,
         \A s \in Senders :
           /\ f_sends'[s] \in Nat /\ f_sends'[s] >= f_sends[s]
           /\ InHand(s)' => InHand(s) \/ f_sends'[s] > f_sends[s]
  PROVE  FtxOrder'
<1>1. ASSUME NEW q \in Seq(F!Frames), Numbered(q), q' = q
      PROVE  Numbered(q)'
  <2> SUFFICES ASSUME NEW i \in 1..Len(q)
               PROVE  /\ q[i][2] <= f_sends'[q[i][1]]
                      /\ InHand(q[i][1])' => q[i][2] < f_sends'[q[i][1]]
    BY <1>1 DEF Numbered
  <2>1. q[i] \in F!Frames
    OBVIOUS
  <2>2. q[i][1] \in Senders /\ q[i][2] \in Nat
    BY <2>1, FtxFrame, NetAssumptions DEF FtxInv, F!FtxAssumption
  <2>3. f_sends[q[i][1]] \in Nat
    BY <2>2, NetAssumptions DEF FtxInv, FtxTypes, F!FtxAssumption
  <2>4. QED
    BY <1>1, <2>2, <2>3 DEF Numbered
<1>2. Numbered(f_wire)' /\ Numbered(f_batch)' /\ Numbered(f_txq)'
  BY <1>1 DEF FtxInv, FtxTypes, FtxOrder
<1>3. QED
  BY <1>2 DEF FtxInv, FtxOrder, Increasing, Before

LEMMA FtxInit == F!Init => FtxInv
<1> SUFFICES ASSUME F!Init PROVE FtxInv
  OBVIOUS
<1>1. FtxTypes
  <2>1. f_listed \in BOOLEAN /\ f_status \in BOOLEAN /\ f_failed \in BOOLEAN
    BY DEF F!Init
  <2>2. f_txq \in Seq(F!Frames) /\ f_batch \in Seq(F!Frames) /\ f_wire \in Seq(F!Frames)
    BY DEF F!Init
  <2>3. /\ f_sender \in [Senders -> {"ready", "frame", "push", "udp", "query"}]
        /\ \A s \in Senders : ~InHand(s)
    BY DEF F!Init, F!Ready, InHand
  <2>4. /\ f_sends \in [Senders -> 0..MaxSends] /\ f_tx_count \in Nat /\ f_dgrams \in Nat
        /\ f_node \in [F!Frames -> {"none", "user", "queued", "batch", "free", "lost"}]
    BY NetAssumptions DEF F!Init, F!FtxAssumption
  <2>5. QED
    BY <2>1, <2>2, <2>3, <2>4 DEF FtxTypes
<1>2. FtxOrder
  BY DEF F!Init, FtxOrder, Increasing, Before, Numbered
<1>3. FtxCounted /\ FtxLost
  BY DEF F!Init, FtxCounted, FtxLost
<1>4. QED
  BY <1>1, <1>2, <1>3 DEF FtxInv

LEMMA FtxCall ==
  ASSUME FtxInv, NEW s \in Senders, NEW kind \in {"frame", "udp"}, F!Call(s, kind)
  PROVE  FtxInv'
<1> USE NetAssumptions DEF F!FtxAssumption
<1> DEFINE w == IF f_listed THEN "user" ELSE IF kind = "udp" THEN "lost" ELSE "free"
<1>1. /\ f_node' \in [F!Frames -> {"none", "user", "queued", "batch", "free", "lost"}]
      /\ \A f \in F!Frames : f_node'[f] = IF f = <<s, f_sends'[s]>> THEN w ELSE f_node[f]
  BY FtxPlace DEF F!Call, FtxInv
<1>2. FtxTypes'
  BY <1>1 DEF FtxInv, FtxTypes, F!Call, InHand, F!iface
<1>3. FtxOrder'
  BY FtxStill DEF F!Call, FtxInv, FtxTypes, InHand
<1>4. FtxCounted'
  <2>1. \A i \in 1..Len(f_wire) : f_wire[i] \in F!Frames /\ f_wire[i] # <<s, f_sends'[s]>>
    <3> SUFFICES ASSUME NEW i \in 1..Len(f_wire)
                 PROVE  f_wire[i] \in F!Frames /\ f_wire[i] # <<s, f_sends'[s]>>
      OBVIOUS
    <3>1. f_wire[i] \in F!Frames /\ f_wire[i][1] \in Senders /\ f_wire[i][2] <= f_sends[f_wire[i][1]]
      BY FtxFrame DEF FtxInv, FtxTypes, FtxOrder, Numbered
    <3>2. f_sends'[s] = f_sends[s] + 1 /\ f_sends[s] \in Nat
      BY DEF F!Call, FtxInv, FtxTypes
    <3>3. QED
      BY <3>1, <3>2
  <2>2. QED
    BY <1>1, <2>1 DEF F!Call, FtxInv, FtxCounted
<1>5. FtxLost'
  BY <1>1 DEF F!Call, F!iface, FtxInv, FtxLost
<1>6. QED
  BY <1>2, <1>3, <1>4, <1>5 DEF FtxInv

LEMMA FtxSend ==
  ASSUME FtxInv, NEW s \in Senders, F!SendTest(s) \/ F!SendUdp(s) \/ F!Query(s)
  PROVE  FtxInv'
<1> USE NetAssumptions DEF F!FtxAssumption
<1>1. FtxOrder'
  BY FtxStill DEF F!SendTest, F!SendUdp, F!Query, FtxInv, FtxTypes, InHand
<1>2. CASE F!SendTest(s)
  <2>1. /\ f_node' \in [F!Frames -> {"none", "user", "queued", "batch", "free", "lost"}]
        /\ \A f \in F!Frames : f_node'[f] =
              IF f = F!Frame(s) /\ ~f_status THEN "lost" ELSE f_node[f]
    BY <1>2, FtxPlace DEF F!SendTest, FtxInv
  <2>2. FtxTypes'
    BY <1>2, <2>1 DEF FtxInv, FtxTypes, F!SendTest, InHand, F!iface
  <2>3. FtxCounted'
    BY <1>2, <2>1, FtxApart DEF F!SendTest, FtxInv, FtxCounted, InHand
  <2>4. FtxLost'
    BY <1>2, <2>1 DEF F!SendTest, F!iface, FtxInv, FtxLost
  <2>5. QED
    BY <1>1, <2>2, <2>3, <2>4 DEF FtxInv
<1>3. CASE F!SendUdp(s)
  <2>1. PICK w \in {"free", "lost"} :
        /\ F!Place({F!Frame(s)}, w)
        /\ w = "free" => f_status /\ f_tx_count' = f_tx_count + 1 /\ f_dgrams' = f_dgrams + 1
                         /\ UNCHANGED f_failed
        /\ w = "lost" => f_failed' = (f_failed \/ f_status) /\ UNCHANGED <<f_tx_count, f_dgrams>>
    BY <1>3 DEF F!SendUdp
  <2>2. /\ f_node' \in [F!Frames -> {"none", "user", "queued", "batch", "free", "lost"}]
        /\ \A f \in F!Frames : f_node'[f] = IF f = F!Frame(s) THEN w ELSE f_node[f]
    BY <2>1, FtxPlace DEF FtxInv
  <2>3. FtxTypes'
    BY <1>3, <2>1, <2>2 DEF FtxInv, FtxTypes, F!SendUdp, InHand, F!iface
  <2>4. FtxCounted'
    BY <1>3, <2>1, <2>2, FtxApart DEF F!SendUdp, FtxInv, FtxTypes, FtxCounted, InHand
  <2>5. FtxLost'
    BY <1>3, <2>1, <2>2 DEF F!SendUdp, F!iface, FtxInv, FtxTypes, FtxLost
  <2>6. QED
    BY <1>1, <2>3, <2>4, <2>5 DEF FtxInv
<1>4. CASE F!Query(s)
  <2>1. FtxTypes'
    BY <1>4 DEF FtxInv, FtxTypes, F!Query, InHand, F!iface
  <2>2. FtxCounted' /\ FtxLost'
    BY <1>4 DEF F!Query, F!iface, FtxInv, FtxCounted, FtxLost
  <2>3. QED
    BY <1>1, <2>1, <2>2 DEF FtxInv
<1>5. QED
  BY <1>2, <1>3, <1>4

\* A push puts the frame in the hands of the sender behind all it has numbered.
LEMMA FtxPush ==
  ASSUME FtxInv, NEW s \in Senders, F!SendPush(s)
  PROVE  FtxInv'
<1> USE NetAssumptions DEF F!FtxAssumption
<1> DEFINE m == F!Frame(s)
<1>1. /\ InHand(s) /\ m \in F!Frames /\ m[1] = s /\ m[2] = f_sends[s]
      /\ f_sends[s] \in Nat
  BY FtxFrame DEF F!SendPush, FtxInv, FtxTypes, InHand
<1>2. CASE Len(f_txq) < QueueCap
  <2>1. /\ f_node' \in [F!Frames -> {"none", "user", "queued", "batch", "free", "lost"}]
        /\ \A f \in F!Frames : f_node'[f] = IF f = m THEN "queued" ELSE f_node[f]
    BY <1>2, FtxPlace DEF F!SendPush, FtxInv
  <2>2. /\ f_txq' = Append(f_txq, m) /\ f_sends' = f_sends /\ f_wire' = f_wire
        /\ f_batch' = f_batch /\ f_sender' = [f_sender EXCEPT ![s] = "ready"]
    BY <1>2 DEF F!SendPush
  <2>3. /\ Len(f_txq') = Len(f_txq) + 1 /\ f_txq'[Len(f_txq) + 1] = m
        /\ \A i \in 1..Len(f_txq) : f_txq'[i] = f_txq[i]
        /\ Len(f_txq) \in Nat
    BY <1>1, <2>2 DEF FtxInv, FtxTypes
  <2>4. FtxTypes'
    BY <1>1, <1>2, <2>1, <2>2 DEF FtxInv, FtxTypes, F!SendPush, InHand, F!iface
  <2>5. \A t \in Senders : InHand(t)' => InHand(t) /\ t # s
    BY <2>2 DEF InHand, FtxInv, FtxTypes
  <2>6. ASSUME NEW q \in Seq(F!Frames), Numbered(q), q' = q
        PROVE  Numbered(q)' /\ \A i \in 1..Len(q) : q[i][1] = m[1] => q[i][2] < m[2]
    <3>1. \A i \in 1..Len(q) : q[i][1] \in Senders
      BY FtxFrame DEF FtxInv
    <3>2. QED
      BY <1>1, <2>2, <2>5, <2>6, <3>1 DEF Numbered
  <2>7. Numbered(f_wire)' /\ Numbered(f_batch)'
    BY <2>2, <2>6 DEF FtxInv, FtxTypes, FtxOrder
  <2>8. \A i \in 1..Len(f_txq) : f_txq[i][1] = m[1] => f_txq[i][2] < m[2]
    BY <1>1 DEF FtxInv, FtxTypes, FtxOrder, Numbered
  <2>9. Numbered(f_txq)'
    <3> SUFFICES ASSUME NEW i \in 1..Len(f_txq')
                 PROVE  (/\ f_txq[i][2] <= f_sends[f_txq[i][1]]
                         /\ InHand(f_txq[i][1]) => f_txq[i][2] < f_sends[f_txq[i][1]])'
      BY DEF Numbered
    <3>1. CASE i = Len(f_txq) + 1
      <4>1. f_txq'[i] = m /\ ~InHand(s)'
        BY <2>3, <2>5, <3>1, <1>1
      <4>2. QED
        BY <1>1, <2>2, <4>1 DEF InHand
    <3>2. CASE i \in 1..Len(f_txq)
      <4>1. f_txq[i][1] \in Senders
        BY <3>2, FtxFrame DEF FtxInv, FtxTypes
      <4>2. QED
        BY <2>2, <2>3, <2>5, <3>2, <4>1 DEF FtxInv, FtxOrder, Numbered, InHand
    <3>3. QED
      BY <2>3, <3>1, <3>2
  <2>10. Increasing(f_txq)'
    BY <2>3, <2>8 DEF FtxInv, FtxOrder, Increasing
  <2>11. Before(f_wire, f_txq)' /\ Before(f_batch, f_txq)'
    <3>1. \A i \in 1..Len(f_wire) : f_wire[i][1] = m[1] => f_wire[i][2] < m[2]
      BY <1>1 DEF FtxInv, FtxTypes, FtxOrder, Numbered
    <3>2. \A i \in 1..Len(f_batch) : f_batch[i][1] = m[1] => f_batch[i][2] < m[2]
      BY <1>1 DEF FtxInv, FtxTypes, FtxOrder, Numbered
    <3>3. QED
      BY <2>2, <2>3, <3>1, <3>2 DEF FtxInv, FtxOrder, Before
  <2>12. FtxOrder'
    BY <2>2, <2>7, <2>9, <2>10, <2>11 DEF FtxInv, FtxOrder, Increasing, Before
  <2>13. FtxCounted'
    BY <1>1, <2>1, FtxApart DEF F!SendPush, FtxInv, FtxCounted
  <2>14. FtxLost'
    BY <2>1 DEF F!SendPush, F!iface, FtxInv, FtxLost
  <2>15. QED
    BY <2>4, <2>12, <2>13, <2>14 DEF FtxInv
<1>3. CASE ~(Len(f_txq) < QueueCap)
  <2>1. FtxTypes'
    BY <1>3 DEF FtxInv, FtxTypes, F!SendPush, InHand, F!iface
  <2>2. FtxOrder'
    BY <1>3, FtxStill DEF F!SendPush, FtxInv, FtxTypes, InHand
  <2>3. FtxCounted' /\ FtxLost'
    BY <1>3 DEF F!SendPush, F!iface, FtxInv, FtxCounted, FtxLost
  <2>4. QED
    BY <2>1, <2>2, <2>3 DEF FtxInv
<1>4. QED
  BY <1>2, <1>3

\* The thread takes the whole queue, when it has nothing left of the last one.
LEMMA FtxTake ==
  ASSUME FtxInv, F!TxStart \/ F!TxTest \/ F!TxPop
  PROVE  FtxInv'
<1>1. CASE F!TxStart \/ F!TxTest
  <2>1. FtxTypes'
    BY <1>1 DEF FtxInv, FtxTypes, F!TxStart, F!TxTest, InHand, F!iface
  <2>2. FtxOrder'
    BY <1>1, FtxStill, NetAssumptions DEF F!TxStart, F!TxTest, FtxInv, FtxTypes, InHand, F!FtxAssumption
  <2>3. FtxCounted' /\ FtxLost'
    BY <1>1 DEF F!TxStart, F!TxTest, F!iface, FtxInv, FtxCounted, FtxLost
  <2>4. QED
    BY <2>1, <2>2, <2>3 DEF FtxInv
<1>2. CASE F!TxPop
  <2>1. /\ f_node' \in [F!Frames -> {"none", "user", "queued", "batch", "free", "lost"}]
        /\ \A f \in F!Frames :
             f_node'[f] = IF f \in F!ToSet(f_txq) THEN "batch" ELSE f_node[f]
    BY <1>2, FtxPlace DEF F!TxPop, FtxInv
  <2>2. /\ f_batch' = f_txq /\ f_txq' = <<>>
        /\ UNCHANGED <<f_wire, f_sends, f_sender, f_tx_count, f_dgrams, f_failed,
                       f_listed, f_status, f_deinit>>
    BY <1>2 DEF F!TxPop, F!iface
  <2>3. FtxTypes'
    BY <2>1, <2>2 DEF FtxInv, FtxTypes, InHand
  <2>4. FtxOrder'
    BY <2>2 DEF FtxInv, FtxOrder, Increasing, Before, Numbered, InHand
  <2>5. FtxCounted'
    BY <2>1, <2>2, FtxApart DEF FtxInv, FtxCounted, F!ToSet
  <2>6. FtxLost'
    BY <2>1, <2>2 DEF FtxInv, FtxLost
  <2>7. QED
    BY <2>3, <2>4, <2>5, <2>6 DEF FtxInv
<1>3. QED
  BY <1>1, <1>2

\* However many of a batch the kernel takes, they are the first ones, and the
\* rest comes after them.
LEMMA FtxTxSend ==
  ASSUME FtxInv, F!TxSend
  PROVE  FtxInv'
<1>1. PICK n \in 1..Len(f_batch) :
        /\ f_wire' = f_wire \o SubSeq(f_batch, 1, n) /\ f_tx_count' = f_tx_count + n
        /\ F!Place({f_batch[i] : i \in 1..n}, "free")
        /\ f_batch' = SubSeq(f_batch, n + 1, Len(f_batch))
  BY DEF F!TxSend
<1>2. UNCHANGED <<f_txq, f_sends, f_sender, f_dgrams, f_failed, f_listed, f_status, f_deinit>>
  BY DEF F!TxSend, F!iface
<1> DEFINE front == SubSeq(f_batch, 1, n)
           back == SubSeq(f_batch, n + 1, Len(f_batch))
<1>3. /\ front \in Seq(F!Frames) /\ back \in Seq(F!Frames) /\ Len(front) = n
      /\ \A i \in 1..n : front[i] = f_batch[i]
      /\ Len(back) = Len(f_batch) - n /\ \A i \in 1..Len(back) : back[i] = f_batch[n + i]
      /\ Increasing(front) /\ Increasing(back) /\ Before(front, back)
  BY SplitIncreasing DEF FtxInv, FtxTypes, FtxOrder
<1>4. f_wire' = f_wire \o front /\ f_batch' = back
  BY <1>1
<1> HIDE DEF front, back
<1>5. /\ Before(f_wire, front) /\ Before(f_wire, back) /\ Before(front, f_txq)
      /\ Before(back, f_txq) /\ Numbered(front) /\ Numbered(back)
  <2>1. \A i \in 1..n : i \in 1..Len(f_batch)
    BY DEF FtxInv, FtxTypes
  <2>2. \A i \in 1..Len(back) : n + i \in 1..Len(f_batch)
    BY <1>3 DEF FtxInv, FtxTypes
  <2>3. Before(f_wire, f_batch) /\ Before(f_batch, f_txq) /\ Numbered(f_batch)
    BY DEF FtxInv, FtxOrder
  <2>4. Before(f_wire, front) /\ Before(f_wire, back)
    <3>1. Before(f_wire, front)
      BY <1>3, <2>1, <2>3 DEF Before
    <3>2. Before(f_wire, back)
      BY <1>3, <2>2, <2>3 DEF Before
    <3>3. QED
      BY <3>1, <3>2
  <2>5. Before(front, f_txq) /\ Before(back, f_txq)
    <3>1. Before(front, f_txq)
      BY <1>3, <2>1, <2>3 DEF Before
    <3>2. Before(back, f_txq)
      BY <1>3, <2>2, <2>3 DEF Before
    <3>3. QED
      BY <3>1, <3>2
  <2>6. Numbered(front) /\ Numbered(back)
    <3>1. Numbered(front)
      BY <1>3, <2>1, <2>3 DEF Numbered
    <3>2. Numbered(back)
      BY <1>3, <2>2, <2>3 DEF Numbered
    <3>3. QED
      BY <3>1, <3>2
  <2>7. QED
    BY <2>4, <2>5, <2>6
<1>6. /\ f_wire' \in Seq(F!Frames) /\ Len(f_wire') = Len(f_wire) + n
      /\ \A i \in 1..Len(f_wire) : f_wire'[i] = f_wire[i]
      /\ \A i \in (Len(f_wire) + 1)..(Len(f_wire) + n) : f_wire'[i] = front[i - Len(f_wire)]
      /\ Len(f_wire) \in Nat
  <2>1. f_wire \in Seq(F!Frames) /\ front \in Seq(F!Frames) /\ Len(front) = n
    BY <1>3 DEF FtxInv, FtxTypes
  <2>2. QED
    BY <1>4, <2>1
<1>7. FtxOrder'
  <2>1. Increasing(f_wire)'
    BY <1>3, <1>4, <1>5, ConcatIncreasing DEF FtxInv, FtxTypes, FtxOrder, Increasing
  <2>2. ASSUME NEW i \in 1..Len(f_wire')
        PROVE  \/ i \in 1..Len(f_wire) /\ f_wire'[i] = f_wire[i]
               \/ i - Len(f_wire) \in 1..n /\ f_wire'[i] = front[i - Len(f_wire)]
    BY <1>6
  <2>3. Before(f_wire, f_batch)' /\ Before(f_wire, f_txq)' /\ Numbered(f_wire)'
    BY <1>2, <1>3, <1>4, <1>5, <2>2 DEF FtxInv, FtxOrder, Before, Numbered, InHand
  <2>4. Increasing(f_batch)' /\ Before(f_batch, f_txq)' /\ Numbered(f_batch)'
    BY <1>2, <1>3, <1>4, <1>5 DEF Increasing, Before, Numbered, InHand
  <2>5. Increasing(f_txq)' /\ Numbered(f_txq)'
    BY <1>2 DEF FtxInv, FtxOrder, Increasing, Numbered, InHand
  <2>6. QED
    BY <2>1, <2>3, <2>4, <2>5 DEF FtxOrder
<1>8. /\ f_node' \in [F!Frames -> {"none", "user", "queued", "batch", "free", "lost"}]
      /\ \A f \in F!Frames :
           f_node'[f] = IF f \in {f_batch[i] : i \in 1..n} THEN "free" ELSE f_node[f]
  BY <1>1, FtxPlace DEF FtxInv
<1>9. FtxTypes'
  <2>1. f_tx_count' \in Nat
    BY <1>1 DEF FtxInv, FtxTypes
  <2>2. QED
    BY <1>2, <1>3, <1>4, <1>6, <1>8, <2>1 DEF FtxInv, FtxTypes, InHand
<1>10. FtxCounted'
  <2>1. f_tx_count' = Len(f_wire') + f_dgrams'
    BY <1>1, <1>2, <1>6 DEF FtxInv, FtxTypes, FtxCounted
  <2>2. \A i \in 1..Len(f_wire') : f_node'[f_wire'[i]] = "free"
    <3> SUFFICES ASSUME NEW i \in 1..Len(f_wire') PROVE f_node'[f_wire'[i]] = "free"
      OBVIOUS
    <3>1. CASE i \in 1..Len(f_wire)
      BY <1>6, <1>8, <3>1 DEF FtxInv, FtxTypes, FtxCounted
    <3>2. CASE i - Len(f_wire) \in 1..n
      <4>1. f_wire'[i] = f_batch[i - Len(f_wire)] /\ f_wire'[i] \in F!Frames
        BY <1>3, <1>6, <3>2
      <4>2. QED
        BY <1>8, <3>2, <4>1
    <3>3. QED
      BY <1>6, <3>1, <3>2
  <2>3. QED
    BY <2>1, <2>2 DEF FtxCounted
<1>11. FtxLost'
  BY <1>2, <1>8 DEF FtxInv, FtxLost
<1>12. QED
  BY <1>7, <1>9, <1>10, <1>11 DEF FtxInv

\* What an error or the end of the interface loses has not been sent.
LEMMA FtxLose ==
  ASSUME FtxInv, F!TxFail \/ F!Deinit
  PROVE  FtxInv'
<1> USE NetAssumptions DEF F!FtxAssumption
<1>1. CASE F!TxFail
  <2>1. /\ f_node' \in [F!Frames -> {"none", "user", "queued", "batch", "free", "lost"}]
        /\ \A f \in F!Frames :
             f_node'[f] = IF f \in F!ToSet(f_batch) THEN "lost" ELSE f_node[f]
    BY <1>1, FtxPlace DEF F!TxFail, FtxInv
  <2>2. /\ f_batch' = <<>> /\ f_failed' = TRUE
        /\ UNCHANGED <<f_txq, f_wire, f_sends, f_sender, f_tx_count, f_dgrams,
                       f_listed, f_status, f_deinit>>
    BY <1>1 DEF F!TxFail, F!iface
  <2>3. FtxTypes'
    BY <2>1, <2>2 DEF FtxInv, FtxTypes, InHand
  <2>4. FtxOrder'
    BY <2>2 DEF FtxInv, FtxOrder, Increasing, Before, Numbered, InHand
  <2>5. FtxCounted'
    BY <2>1, <2>2, FtxApart DEF FtxInv, FtxCounted, F!ToSet
  <2>6. FtxLost'
    BY <2>1, <2>2 DEF FtxInv, FtxLost
  <2>7. QED
    BY <2>3, <2>4, <2>5, <2>6 DEF FtxInv
<1>2. CASE F!DeinitQueue
  <2>1. /\ f_node' \in [F!Frames -> {"none", "user", "queued", "batch", "free", "lost"}]
        /\ \A f \in F!Frames :
             f_node'[f] = IF f \in F!ToSet(f_txq) THEN "lost" ELSE f_node[f]
    BY <1>2, FtxPlace DEF F!DeinitQueue, FtxInv
  <2>2. /\ f_txq' = <<>> /\ f_deinit = "join" /\ f_deinit' = "unlist"
        /\ UNCHANGED <<f_batch, f_wire, f_sends, f_sender, f_tx_count, f_dgrams,
                       f_failed, f_listed, f_status>>
    BY <1>2 DEF F!DeinitQueue, F!iface
  <2>3. FtxTypes'
    BY <2>1, <2>2 DEF FtxInv, FtxTypes, InHand
  <2>4. FtxOrder'
    BY <2>2 DEF FtxInv, FtxOrder, Increasing, Before, Numbered, InHand
  <2>5. FtxCounted'
    BY <2>1, <2>2, FtxApart DEF FtxInv, FtxCounted, F!ToSet
  <2>6. FtxLost'
    BY <2>1, <2>2 DEF FtxInv, FtxLost
  <2>7. QED
    BY <2>3, <2>4, <2>5, <2>6 DEF FtxInv
<1>3. CASE F!DeinitFlag \/ F!DeinitUnlist \/ F!DeinitFree
  <2>1. FtxTypes'
    BY <1>3 DEF FtxInv, FtxTypes, F!DeinitFlag, F!DeinitUnlist, F!DeinitFree, InHand
  <2>2. FtxOrder'
    BY <1>3, FtxStill DEF F!DeinitFlag, F!DeinitUnlist, F!DeinitFree, FtxInv, FtxTypes, InHand
  <2>3. FtxCounted' /\ FtxLost'
    BY <1>3 DEF F!DeinitFlag, F!DeinitUnlist, F!DeinitFree, F!iface, FtxInv, FtxTypes,
         FtxCounted, FtxLost
  <2>4. QED
    BY <2>1, <2>2, <2>3 DEF FtxInv
<1>4. QED
  BY <1>1, <1>2, <1>3 DEF F!Deinit

\* Every frame goes out once and in the order of its sender, whatever the
\* kernel takes of each batch; it has been counted and its memory given back;
\* and memory is lost only to an error or with the interface: for any number of
\* senders and frames, and any capacity of the queue.
THEOREM FtxSentOnce == F!Spec => []SentOnce
<1>1. FtxInv /\ [F!Next]_(F!vars) => FtxInv'
  <2> SUFFICES ASSUME FtxInv, [F!Next]_(F!vars) PROVE FtxInv'
    OBVIOUS
  <2>1. CASE UNCHANGED F!vars
    BY <2>1 DEF F!vars, F!iface, FtxInv, FtxTypes, FtxOrder, Increasing, Before, Numbered,
         FtxCounted, FtxLost, InHand
  <2>2. CASE F!Next
    <3>1. ASSUME NEW s \in Senders,
                 \/ F!Call(s, "frame") \/ F!Call(s, "udp") \/ F!Query(s)
                 \/ F!SendTest(s) \/ F!SendPush(s) \/ F!SendUdp(s)
          PROVE  FtxInv'
      BY <3>1, FtxCall, FtxSend, FtxPush
    <3>2. QED
      BY <2>2, <3>1, FtxTake, FtxTxSend, FtxLose DEF F!Next, F!Tx
  <2>3. QED
    BY <2>1, <2>2
<1>2. FtxInv => SentOnce
  <2> SUFFICES ASSUME FtxInv PROVE SentOnce
    OBVIOUS
  <2>1. \A f \in F!ToSet(f_wire) : f_node[f] = "free"
    BY DEF FtxInv, FtxCounted, F!ToSet
  <2>2. QED
    BY <2>1 DEF FtxInv, FtxTypes, FtxOrder, Increasing, FtxCounted, FtxLost, SentOnce,
         F!SentOnce
<1>3. QED
  BY <1>1, <1>2, FtxInit, PTL DEF F!Spec
-----------------------------------------------------------------------------
(* ArpCache *)

ArpTypes ==
  /\ a_table \in [Ips -> Cells \cup {None}]
  /\ a_cell \in [Cells -> [used : BOOLEAN, ip : Ips \cup {None}, timer : {"off", "young", "old"}]]
  /\ \A c \in Cells : a_cell[c].used => a_cell[c].ip \in Ips
  /\ a_writer \in Workers \cup {"captor", None}
  /\ a_writer = "captor" => a_reply \in Ips
  /\ \A r \in a_asked : r.target \in Ips
  /\ a_tasks \in Seq(Cells)
  /\ a_worker \in [Workers -> [pc : {"idle", "called", "found", "remove", "free"},
                               cell : Cells \cup {None}]]
  /\ \A w \in Workers :
       IF a_worker[w].pc = "idle" THEN a_worker[w].cell = None ELSE a_worker[w].cell \in Cells

\* What EntriesAge says of an entry c of the address ip.
OwnCell(ip, c) == a_cell[c].used /\ a_cell[c].ip = ip

Leaving(c) ==
  \/ a_cell[c].timer # "off"
  \/ \E k \in 1..Len(a_tasks) : a_tasks[k] = c
  \/ \E w \in Workers : a_worker[w].cell = c /\ a_worker[w].pc # "free"

EntriesWhole ==
  \A ip \in Ips : a_table[ip] # None => OwnCell(ip, a_table[ip]) /\ Leaving(a_table[ip])

\* The memory that a callback is removing is in the table, under the lock that
\* the callback holds, and what it is about to free is not; and no other
\* callback is removing or freeing it.
RemovedOnce ==
  \A w \in Workers :
    LET c == a_worker[w].cell
    IN  /\ a_worker[w].pc = "remove" =>
             a_writer = w /\ a_cell[c].used /\ a_table[a_cell[c].ip] = c
        /\ a_worker[w].pc = "free" =>
             a_cell[c].used /\ \A ip \in Ips : a_table[ip] # c
        /\ a_worker[w].pc \in {"remove", "free"} =>
             \A v \in Workers \ {w} :
               a_worker[v].pc \in {"remove", "free"} => a_worker[v].cell # c

\* As long as no memory has been used that was freed.
ArpInv == ~a_wild => ArpTypes /\ EntriesWhole /\ RemovedOnce

ArpParts == ~a_wild /\ ArpTypes /\ EntriesWhole /\ RemovedOnce

LEMMA ArpInit == A!Init => ArpInv
<1> SUFFICES ASSUME A!Init PROVE ArpInv
  OBVIOUS
<1>1. \A r \in a_asked : r.target \in Ips
  BY DEF A!Init, A!AllRequests, A!ArpRequest
<1>2. ArpTypes
  BY <1>1, NetAssumptions DEF A!Init, A!FreeCell, A!Idle, A!ArpAssumption, ArpTypes
<1>3. EntriesWhole /\ RemovedOnce
  BY NetAssumptions DEF A!Init, A!Idle, EntriesWhole, RemovedOnce
<1>4. QED
  BY <1>2, <1>3 DEF ArpInv

\* A captor takes memory that is not in use, or gives an entry a new timer.
LEMMA ArpCaptor ==
  ASSUME ArpParts, A!CaptorLock \/ A!CaptorAdd
  PROVE  ArpInv'
<1> USE NetAssumptions DEF ArpParts, A!ArpAssumption
<1>1. CASE A!CaptorLock
  <2>1. a_reply' \in Ips
    BY <1>1 DEF A!CaptorLock, ArpTypes
  <2>2. ArpTypes'
    BY <1>1, <2>1 DEF A!CaptorLock, ArpTypes
  <2>3. EntriesWhole'
    BY <1>1 DEF A!CaptorLock, EntriesWhole, OwnCell, Leaving
  <2>4. RemovedOnce'
    BY <1>1 DEF A!CaptorLock, RemovedOnce, ArpTypes
  <2>5. QED
    BY <2>2, <2>3, <2>4 DEF ArpInv
<1>2. CASE A!CaptorAdd /\ a_table[a_reply] = None
  <2>1. PICK c \in Cells :
          /\ ~a_cell[c].used
          /\ a_cell' = [a_cell EXCEPT ![c] = [used |-> TRUE, ip |-> a_reply, timer |-> "young"]]
          /\ a_table' = [a_table EXCEPT ![a_reply] = c]
    BY <1>2 DEF A!CaptorAdd, A!NewEntry
  <2>2. /\ a_reply \in Ips /\ a_writer = "captor" /\ a_writer' = None
        /\ UNCHANGED <<a_tasks, a_worker, a_asked>>
    BY <1>2 DEF A!CaptorAdd, ArpTypes
  <2>3. ArpTypes'
    BY <2>1, <2>2 DEF ArpTypes
  <2>4. EntriesWhole'
    BY <2>1, <2>2 DEF ArpTypes, EntriesWhole, OwnCell, Leaving
  <2>5. RemovedOnce'
    BY <2>1, <2>2 DEF ArpTypes, RemovedOnce
  <2>6. QED
    BY <2>3, <2>4, <2>5 DEF ArpInv
<1>3. CASE A!CaptorAdd /\ a_table[a_reply] # None
  <2>1. /\ a_cell' = [a_cell EXCEPT ![a_table[a_reply]].timer = "young"]
        /\ a_reply \in Ips /\ a_writer = "captor" /\ a_writer' = None
        /\ UNCHANGED <<a_table, a_tasks, a_worker, a_asked>>
    BY <1>3 DEF A!CaptorAdd, A!OldEntry, ArpTypes
  <2>2. a_table[a_reply] \in Cells
    BY <1>3, <2>1 DEF ArpTypes
  <2>3. ArpTypes'
    BY <2>1, <2>2 DEF ArpTypes
  <2>4. EntriesWhole'
    BY <2>1, <2>2 DEF ArpTypes, EntriesWhole, OwnCell, Leaving
  <2>5. RemovedOnce'
    BY <2>1, <2>2 DEF ArpTypes, RemovedOnce
  <2>6. QED
    BY <2>3, <2>4, <2>5 DEF ArpInv
<1>4. QED
  BY <1>1, <1>2, <1>3

\* A timer that expires leaves its callback in its place.
LEMMA ArpTimer ==
  ASSUME ArpParts, NEW c \in Cells, A!Age(c) \/ A!Expire(c)
  PROVE  ArpInv'
<1> USE NetAssumptions DEF ArpParts, A!ArpAssumption
<1>1. CASE A!Age(c)
  <2>1. ArpTypes'
    BY <1>1 DEF A!Age, ArpTypes
  <2>2. EntriesWhole'
    BY <1>1 DEF A!Age, ArpTypes, EntriesWhole, OwnCell, Leaving
  <2>3. RemovedOnce'
    BY <1>1 DEF A!Age, ArpTypes, RemovedOnce
  <2>4. QED
    BY <2>1, <2>2, <2>3 DEF ArpInv
<1>2. CASE A!Expire(c)
  <2>1. /\ a_tasks' \in Seq(Cells) /\ Len(a_tasks') = Len(a_tasks) + 1
        /\ a_tasks'[Len(a_tasks) + 1] = c /\ Len(a_tasks) \in Nat
        /\ \A k \in 1..Len(a_tasks) : a_tasks'[k] = a_tasks[k]
    BY <1>2 DEF A!Expire, ArpTypes
  <2>2. ArpTypes'
    <3>1. a_cell' \in [Cells -> [used : BOOLEAN, ip : Ips \cup {None},
                                timer : {"off", "young", "old"}]]
      BY <1>2 DEF A!Expire, ArpTypes
    <3>2. /\ UNCHANGED <<a_table, a_writer, a_reply, a_asked, a_worker>>
          /\ \A d \in Cells : a_cell'[d].used = a_cell[d].used /\ a_cell'[d].ip = a_cell[d].ip
      BY <1>2 DEF A!Expire, ArpTypes
    <3>3. QED
      BY <2>1, <3>1, <3>2 DEF ArpTypes
  <2>3. ASSUME NEW d \in Cells, Leaving(d) PROVE Leaving(d)'
    BY <1>2, <2>1, <2>3 DEF A!Expire, ArpTypes, Leaving
  <2>4. EntriesWhole'
    BY <1>2, <2>3 DEF A!Expire, ArpTypes, EntriesWhole, OwnCell
  <2>5. RemovedOnce'
    BY <1>2 DEF A!Expire, ArpTypes, RemovedOnce
  <2>6. QED
    BY <2>2, <2>4, <2>5 DEF ArpInv
<1>3. QED
  BY <1>1, <1>2

\* Whatever asks for addresses asks for those that there are.
LEMMA ArpAsked ==
  ASSUME ArpTypes, NEW S \in SUBSET Ips, A!Request(S)
  PROVE  \A r \in a_asked' : r.target \in Ips
BY DEF ArpTypes, A!Request, A!ArpRequest

\* The callback of an entry's timer keeps the entry on its way out; it takes it
\* out of the table before it frees it.
LEMMA ArpWork ==
  ASSUME ArpParts, NEW w \in Workers, A!Work(w)
  PROVE  ArpInv'
<1> USE NetAssumptions DEF ArpParts, A!ArpAssumption
<1> DEFINE c == a_worker[w].cell
<1>1. CASE A!WorkerTake(w)
  <2>1. /\ a_tasks # <<>> /\ a_tasks' = Tail(a_tasks) /\ a_worker[w].pc = "idle"
        /\ a_worker' = [a_worker EXCEPT ![w] = [pc |-> "called", cell |-> a_tasks[1]]]
        /\ a_tasks[1] \in Cells
        /\ UNCHANGED <<a_table, a_cell, a_writer, a_reply, a_asked>>
    BY <1>1 DEF A!WorkerTake, ArpTypes
  <2>2. /\ a_tasks' \in Seq(Cells) /\ Len(a_tasks') = Len(a_tasks) - 1 /\ Len(a_tasks) \in Nat
        /\ \A k \in 1..Len(a_tasks') : a_tasks'[k] = a_tasks[k + 1]
    BY <2>1 DEF ArpTypes
  <2>3. ArpTypes'
    BY <2>1, <2>2 DEF ArpTypes
  <2>4. ASSUME NEW d \in Cells, Leaving(d), a_cell[d].used PROVE Leaving(d)'
    <3>1. CASE a_cell[d].timer # "off"
      BY <2>1, <3>1 DEF Leaving
    <3>2. CASE a_tasks[1] = d
      BY <2>1, <3>2 DEF Leaving, ArpTypes
    <3>3. ASSUME NEW k \in 2..Len(a_tasks), a_tasks[k] = d
          PROVE  Leaving(d)'
      <4>1. k - 1 \in 1..Len(a_tasks') /\ a_tasks'[k - 1] = d
        BY <2>2, <3>3
      <4>2. QED
        BY <4>1 DEF Leaving
    <3>4. ASSUME NEW v \in Workers, a_worker[v].cell = d, a_worker[v].pc # "free"
          PROVE  Leaving(d)'
      BY <2>1, <3>4 DEF Leaving, ArpTypes
    <3>5. QED
      BY <2>2, <2>4, <3>1, <3>2, <3>3, <3>4 DEF Leaving
  <2>5. EntriesWhole'
    BY <2>1, <2>4 DEF ArpTypes, EntriesWhole, OwnCell
  <2>6. RemovedOnce'
    BY <2>1 DEF ArpTypes, RemovedOnce
  <2>7. QED
    BY <2>3, <2>5, <2>6 DEF ArpInv
<1>2. CASE A!WorkerFind(w) /\ ~a_wild'
  <2> DEFINE found == a_table[a_cell[c].ip]
  <2>1. /\ c \in Cells /\ a_cell[c].used /\ a_worker[w].pc = "called"
        /\ UNCHANGED <<a_table, a_cell, a_writer, a_reply, a_tasks, a_asked>>
        /\ a_worker' = [a_worker EXCEPT ![w] =
             IF found = None THEN A!Idle ELSE [pc |-> "found", cell |-> found]]
    BY <1>2 DEF A!WorkerFind, ArpTypes
  <2>2. a_cell[c].ip \in Ips
    BY <2>1 DEF ArpTypes
  <2>3. ArpTypes'
    BY <2>1, <2>2 DEF ArpTypes, A!Idle
  <2>4. ASSUME NEW d \in Cells, Leaving(d), a_table[a_cell[d].ip] = d PROVE Leaving(d)'
    <3>1. CASE a_cell[d].timer # "off" \/ \E k \in 1..Len(a_tasks) : a_tasks[k] = d
      BY <2>1, <3>1 DEF Leaving
    <3>2. ASSUME NEW v \in Workers, a_worker[v].cell = d, a_worker[v].pc # "free"
          PROVE  \E u \in Workers : a_worker'[u].cell = d /\ a_worker'[u].pc # "free"
      <4>1. CASE v = w
        BY <2>1, <2>4, <3>2, <4>1 DEF ArpTypes
      <4>2. CASE v # w
        BY <2>1, <3>2, <4>2 DEF ArpTypes
      <4>3. QED
        BY <4>1, <4>2
    <3>3. QED
      BY <2>4, <3>1, <3>2 DEF Leaving
  <2>5. EntriesWhole'
    BY <2>1, <2>4 DEF ArpTypes, EntriesWhole, OwnCell
  <2>6. RemovedOnce'
    BY <2>1 DEF ArpTypes, RemovedOnce, A!Idle
  <2>7. QED
    BY <2>3, <2>5, <2>6 DEF ArpInv
<1>3. CASE A!WorkerLock(w) /\ ~a_wild'
  <2>1. /\ c \in Cells /\ a_cell[c].used /\ a_worker[w].pc = "found"
        /\ a_table[a_cell[c].ip] = c /\ a_writer = None /\ a_writer' = w
        /\ a_worker' = [a_worker EXCEPT ![w].pc = "remove"]
        /\ UNCHANGED <<a_table, a_cell, a_reply, a_tasks, a_asked>>
    BY <1>3 DEF A!WorkerLock, ArpTypes
  <2>2. a_cell[c].ip \in Ips
    BY <2>1 DEF ArpTypes
  <2>3. ArpTypes'
    BY <2>1 DEF ArpTypes
  <2>4. EntriesWhole'
    BY <2>1 DEF ArpTypes, EntriesWhole, OwnCell, Leaving
  <2>5. RemovedOnce'
    BY <2>1, <2>2 DEF ArpTypes, RemovedOnce
  <2>6. QED
    BY <2>3, <2>4, <2>5 DEF ArpInv
<1>4. CASE A!WorkerRemove(w)
  <2>1. /\ a_worker[w].pc = "remove" /\ a_writer' = None
        /\ a_table' = [a_table EXCEPT ![a_cell[c].ip] = None]
        /\ a_cell' = [a_cell EXCEPT ![c].timer = "off"]
        /\ a_worker' = [a_worker EXCEPT ![w].pc = "free"]
        /\ UNCHANGED <<a_reply, a_tasks, a_asked>>
    BY <1>4 DEF A!WorkerRemove
  <2>2. /\ c \in Cells /\ a_writer = w /\ a_cell[c].used /\ a_cell[c].ip \in Ips
        /\ a_table[a_cell[c].ip] = c
    BY <2>1 DEF ArpTypes, RemovedOnce
  <2>3. ArpTypes'
    BY <2>1, <2>2 DEF ArpTypes
  <2>4. \A ip \in Ips : a_table'[ip] # c
    BY <2>1, <2>2 DEF ArpTypes, EntriesWhole, OwnCell
  <2>5. EntriesWhole'
    <3> SUFFICES ASSUME NEW ip \in Ips, a_table'[ip] # None
                 PROVE  (OwnCell(ip, a_table[ip]) /\ Leaving(a_table[ip]))'
      BY DEF EntriesWhole
    <3> DEFINE d == a_table[ip]
    <3>1. a_table'[ip] = d /\ d \in Cells \ {c} /\ OwnCell(ip, d) /\ Leaving(d)
      BY <2>1, <2>2, <2>4 DEF ArpTypes, EntriesWhole
    <3>2. a_cell'[d] = a_cell[d]
      BY <2>1, <3>1 DEF ArpTypes
    <3>3. \A v \in Workers : a_worker[v].cell = d => a_worker'[v] = a_worker[v]
      BY <2>1, <3>1 DEF ArpTypes
    <3>4. QED
      BY <2>1, <3>1, <3>2, <3>3 DEF OwnCell, Leaving
  <2>6. RemovedOnce'
    BY <2>1, <2>2, <2>4 DEF ArpTypes, RemovedOnce
  <2>7. QED
    BY <2>3, <2>5, <2>6 DEF ArpInv
<1>5. CASE A!WorkerFree(w)
  BY <1>5 DEF A!WorkerFree, A!FreeCell, A!Idle, ArpInv, ArpTypes, EntriesWhole, OwnCell, Leaving, RemovedOnce
<1>6. CASE a_wild'
  BY <1>6 DEF ArpInv
<1>7. QED
  BY <1>1, <1>2, <1>3, <1>4, <1>5, <1>6 DEF A!Work

\* Who looks entries up, or asks for them, leaves them as they are; the exit
\* empties the table.
LEMMA ArpOthers ==
  ASSUME ArpParts,
         \/ A!HalfAge \/ A!UserCall \/ A!ScanNext \/ A!UserLook \/ A!UserUse \/ A!UserReturn
         \/ A!Exit
  PROVE  ArpInv'
<1> USE NetAssumptions DEF ArpParts, A!ArpAssumption
<1>1. CASE ~A!Exit
  <2>1. UNCHANGED <<a_table, a_cell, a_writer, a_reply, a_tasks, a_worker>>
    BY <1>1 DEF A!HalfAge, A!UserCall, A!ScanNext, A!UserLook, A!UserUse, A!UserReturn
  <2>2. a_asked' = a_asked \/ \E S \in SUBSET Ips : A!Request(S)
    <3>1. CASE A!HalfAge
      BY <3>1 DEF A!HalfAge
    <3>2. CASE A!UserCall
      <4>1. \A ip \in Ips : {ip} \in SUBSET Ips
        OBVIOUS
      <4>2. QED
        BY <3>2, <4>1 DEF A!UserCall, A!Probe, A!Scan
    <3>3. CASE A!ScanNext \/ A!UserLook \/ A!UserUse \/ A!UserReturn
      BY <3>3 DEF A!ScanNext, A!UserLook, A!UserUse, A!UserReturn
    <3>4. QED
      BY <1>1, <3>1, <3>2, <3>3
  <2>3. \A r \in a_asked' : r.target \in Ips
    BY <2>2, ArpAsked DEF ArpTypes
  <2>4. ArpTypes'
    BY <2>1, <2>3 DEF ArpTypes
  <2>5. EntriesWhole' /\ RemovedOnce'
    BY <2>1 DEF EntriesWhole, OwnCell, Leaving, RemovedOnce
  <2>6. QED
    BY <2>4, <2>5 DEF ArpInv
<1>2. CASE A!Exit
  <2>1. /\ a_table' = [ip \in Ips |-> None] /\ a_writer = None
        /\ a_cell' = [c \in Cells |->
              IF \E ip \in Ips : a_table[ip] = c THEN A!FreeCell ELSE a_cell[c]]
        /\ UNCHANGED <<a_writer, a_reply, a_tasks, a_worker, a_asked>>
    BY <1>2 DEF A!Exit
  <2>2. ArpTypes'
    BY <2>1 DEF ArpTypes, A!FreeCell
  <2>3. EntriesWhole' /\ RemovedOnce'
    BY <2>1 DEF ArpTypes, EntriesWhole, RemovedOnce
  <2>4. QED
    BY <2>2, <2>3 DEF ArpInv
<1>3. QED
  BY <1>1, <1>2

\* An entry of the ARP cache is under its own address, in memory that is not
\* anybody else's, and on its way out of the table, whatever captors, timers,
\* their callbacks and the exit do at the same time: for any number of
\* addresses, cells and threads, as long as no freed memory was used.
THEOREM ArpEntriesAge == A!Spec => []EntriesAge
<1>1. ArpInv /\ [A!Next]_(A!vars) => ArpInv'
  <2> SUFFICES ASSUME ArpInv, [A!Next]_(A!vars) PROVE ArpInv'
    OBVIOUS
  <2>1. CASE UNCHANGED A!vars
    BY <2>1 DEF A!vars, ArpInv, ArpTypes, EntriesWhole, OwnCell, Leaving, RemovedOnce
  <2>2. CASE A!Next
    <3>1. ArpParts
      BY <2>2 DEF A!Next, ArpInv, ArpParts
    <3>2. QED
      BY <2>2, <3>1, ArpCaptor, ArpTimer, ArpWork, ArpOthers DEF A!Next
  <2>3. QED
    BY <2>1, <2>2
<1>2. ArpInv => EntriesAge
  BY DEF ArpInv, EntriesWhole, OwnCell, Leaving, EntriesAge, A!EntriesAge
<1>3. QED
  BY <1>1, <1>2, ArpInit, PTL DEF A!Spec

-----------------------------------------------------------------------------
(* Zcap *)

ZcapBlock == 0..(Blocks - 1)

\* How far a block is ahead of the one the capture thread is at.
Ahead(b) == IF b >= z_block_idx THEN b - z_block_idx ELSE b - z_block_idx + Blocks

\* A block that the capture thread has yet to copy.
Under(b) == z_ring[b].user /\ ~(z_rx = "frames" /\ b = z_block_idx)

Rising(s) == \A i, j \in 1..Len(s) : i < j => s[i] < s[j]
Lower(s, t) == \A i \in 1..Len(s) : \A j \in 1..Len(t) : s[i] < t[j]

ZcapQueue(p) == Shard[Z!FlowKey(z_kind[p])]
Arrived == 1..Len(z_kind)

ZcapTypes ==
  /\ z_kind \in Seq(Kinds) /\ Len(z_kind) <= ZcapPackets
  /\ z_ring \in [ZcapBlock -> [user : BOOLEAN, frames : Seq(Arrived)]]
  /\ z_kernel \in ZcapBlock /\ z_block_idx \in ZcapBlock
  /\ z_rx \in {"off", "wait", "scan", "frames", "end"}
  /\ z_frames \in Seq(Arrived)
  /\ z_aq \in [Queues -> Seq(Arrived)] /\ z_analyzed \in Seq(Arrived)
  /\ z_alz \in [Queues -> {"off", "test", "pop", "match", "end"}]
  /\ z_rx = "off" => \A q \in Queues : z_alz[q] = "off"
  /\ z_filters \in [Filters -> Int] /\ z_since \in [Filters -> Nat]
  /\ z_called \subseteq Filters \X (1..Len(z_analyzed))
  /\ z_pool \in Int

\* The kernel gives blocks in turn: those of the user are the ones from the
\* capture thread's up to the kernel's.
InTurn ==
  /\ z_rx = "frames" => z_ring[z_block_idx].user
  /\ \/ z_kernel = z_block_idx /\ \A b \in ZcapBlock : z_ring[b].user
     \/ \A b \in ZcapBlock : z_ring[b].user <=> Ahead(b) < Ahead(z_kernel)

\* Packets lie in the order they came in: through the blocks that are to be
\* copied, what is left of the one under way, the queues and what was analyzed.
BlocksOrdered ==
  /\ \A b \in ZcapBlock : Under(b) => Rising(z_ring[b].frames)
  /\ \A b, c \in ZcapBlock :
       Under(b) /\ Under(c) /\ Ahead(b) < Ahead(c) => Lower(z_ring[b].frames, z_ring[c].frames)

FramesOrdered ==
  /\ Rising(z_frames)
  /\ \A b \in ZcapBlock : Under(b) => Lower(z_frames, z_ring[b].frames)
  /\ z_rx # "frames" => z_frames = <<>>

QueuesOrdered ==
  \A q \in Queues :
    /\ Rising(z_aq[q])
    /\ z_alz[q] = "match" => z_aq[q] # <<>>
    /\ \A i \in 1..Len(z_aq[q]) : ZcapQueue(z_aq[q][i]) = q
    /\ Lower(z_aq[q], z_frames)
    /\ \A b \in ZcapBlock : Under(b) => Lower(z_aq[q], z_ring[b].frames)

\* The thread of a queue has analyzed the first packet of it while it is still there.
From(q) == IF z_alz[q] = "match" THEN 2 ELSE 1

AnalyzedOrdered ==
  /\ Lower(z_analyzed, z_frames)
  /\ \A b \in ZcapBlock : Under(b) => Lower(z_analyzed, z_ring[b].frames)
  /\ \A i \in 1..Len(z_analyzed) :
       LET q == ZcapQueue(z_analyzed[i])
       IN  \A j \in From(q)..Len(z_aq[q]) : z_analyzed[i] < z_aq[q][j]
  /\ \A i, j \in 1..Len(z_analyzed) :
       i < j /\ ZcapQueue(z_analyzed[i]) = ZcapQueue(z_analyzed[j]) => z_analyzed[i] < z_analyzed[j]

\* As long as packets are analyzed, a filter has all its fields, or it has counted
\* no packet as one it must be called for; what it was called for, it asks for.
FiltersKept ==
  /\ \/ z_rx = "end" /\ \A q \in Queues : z_alz[q] = "end"
     \/ \A f \in Filters : z_since[f] = ZcapPackets \/ z_filters[f] = Len(Z!FilterFields[f])
  /\ \A f \in z_called : f[2] > z_since[f[1]] =>
       f[1] \in Z!Matching(z_analyzed[f[2]], [g \in Filters |-> Len(Z!FilterFields[g])])

NodesCounted ==
  /\ IsFiniteSet(Z!Queued) /\ z_pool + Cardinality(Z!Queued) = PoolSize

ZcapInv ==
  ZcapTypes /\ InTurn /\ BlocksOrdered /\ FramesOrdered /\ QueuesOrdered /\ AnalyzedOrdered
  /\ FiltersKept /\ NodesCounted

\* What taking the first off a sequence leaves, and what adding one makes.
LEMMA TailOf ==
  ASSUME NEW S, NEW s \in Seq(S), s # <<>>
  PROVE  /\ Tail(s) \in Seq(S) /\ Len(Tail(s)) = Len(s) - 1 /\ Len(s) > 0
         /\ \A i \in 1..(Len(s) - 1) : Tail(s)[i] = s[i + 1]
         /\ Head(s) = s[1] /\ s[1] \in S
OBVIOUS

LEMMA AppendOf ==
  ASSUME NEW S, NEW s \in Seq(S), NEW x \in S
  PROVE  /\ Append(s, x) \in Seq(S) /\ Len(Append(s, x)) = Len(s) + 1
         /\ \A i \in 1..Len(s) : Append(s, x)[i] = s[i]
         /\ Append(s, x)[Len(s) + 1] = x
OBVIOUS

LEMMA SeqWider ==
  ASSUME NEW S, NEW R, S \subseteq R
  PROVE  Seq(S) \subseteq Seq(R)
OBVIOUS

\* The constants.
LEMMA ZcapConsts ==
  /\ Blocks \in Nat \ {0} /\ PoolSize \in Nat /\ ZcapPackets \in Nat
  /\ Filters \subseteq {"arp", "icmp"}
  /\ \A k \in Kinds : Shard[Z!FlowKey(k)] \in Queues
BY NetAssumptions DEF NetAssumptions, Z!ZcapAssumption

\* Every packet has a queue.
LEMMA ZcapQueueOf ==
  ASSUME ZcapTypes, NEW p \in Arrived
  PROVE  ZcapQueue(p) \in Queues
BY ZcapConsts DEF ZcapTypes, ZcapQueue, Arrived

LEMMA ZcapInit == Z!Init => ZcapInv
<1> SUFFICES ASSUME Z!Init PROVE ZcapInv
  OBVIOUS
<1> USE ZcapConsts
<1>1. ZcapTypes
  <2>1. z_ring \in [ZcapBlock -> [user : BOOLEAN, frames : Seq(Arrived)]]
    BY DEF Z!Init, Z!KernelBlock, ZcapBlock
  <2>2. z_kind \in Seq(Kinds) /\ Len(z_kind) <= ZcapPackets /\ z_called = {}
    BY DEF Z!Init
  <2>3. z_kernel \in ZcapBlock /\ z_block_idx \in ZcapBlock
    BY DEF Z!Init, ZcapBlock
  <2>4. z_frames \in Seq(Arrived) /\ z_aq \in [Queues -> Seq(Arrived)] /\ z_analyzed \in Seq(Arrived)
    BY DEF Z!Init
  <2>5. z_alz \in [Queues -> {"off", "test", "pop", "match", "end"}] /\ z_filters \in [Filters -> Int]
        /\ z_since \in [Filters -> Nat] /\ z_pool \in Int
    BY DEF Z!Init
  <2>6. z_rx \in {"off", "wait", "scan", "frames", "end"} /\ \A q \in Queues : z_alz[q] = "off"
    BY DEF Z!Init
  <2>7. QED
    BY <2>1, <2>2, <2>3, <2>4, <2>5, <2>6 DEF ZcapTypes
<1>2. \A b \in ZcapBlock : ~z_ring[b].user
  BY DEF Z!Init, Z!KernelBlock, ZcapBlock
<1>3. InTurn
  BY <1>2 DEF Z!Init, InTurn, Ahead, ZcapBlock
<1>4. BlocksOrdered
  BY <1>2 DEF BlocksOrdered, Under
<1>5. FramesOrdered
  BY <1>2 DEF Z!Init, FramesOrdered, Under, Rising
<1>6. QueuesOrdered
  BY <1>2 DEF Z!Init, QueuesOrdered, Under, Rising, Lower
<1>7. AnalyzedOrdered
  BY <1>2 DEF Z!Init, AnalyzedOrdered, Under, Rising, Lower
<1>8. FiltersKept
  BY DEF Z!Init, FiltersKept
<1>9. NodesCounted
  <2>1. Z!Queued = {}
    BY DEF Z!Init, Z!Queued
  <2>2. z_pool = PoolSize
    BY DEF Z!Init
  <2>3. QED
    BY <2>1, <2>2, FS_EmptySet, ZcapConsts DEF NodesCounted
<1>10. QED
  BY <1>1, <1>3, <1>4, <1>5, <1>6, <1>7, <1>8, <1>9 DEF ZcapInv

-----------------------------------------------------------------------------
\* The ring, the frames, the queues and the analysis stay: so does their order.
LEMMA ZcapStill ==
  ASSUME InTurn, BlocksOrdered, FramesOrdered, QueuesOrdered, AnalyzedOrdered,
         UNCHANGED <<z_ring, z_kernel, z_block_idx, z_frames, z_aq, z_kind, z_analyzed>>,
         z_rx' = "frames" <=> z_rx = "frames",
         \A q \in Queues : (z_alz'[q] = "match" <=> z_alz[q] = "match"),
         \A i \in 1..Len(z_analyzed) : ZcapQueue(z_analyzed[i]) \in Queues
  PROVE  InTurn' /\ BlocksOrdered' /\ FramesOrdered' /\ QueuesOrdered' /\ AnalyzedOrdered'
<1>1. /\ z_ring' = z_ring /\ z_kernel' = z_kernel /\ z_block_idx' = z_block_idx
      /\ z_frames' = z_frames /\ z_aq' = z_aq /\ z_kind' = z_kind /\ z_analyzed' = z_analyzed
  OBVIOUS
<1>2. \A b : (Under(b)' <=> Under(b)) /\ Ahead(b)' = Ahead(b)
  BY <1>1 DEF Under, Ahead
<1>3. InTurn'
  BY <1>1, <1>2 DEF InTurn, Ahead
<1>4. BlocksOrdered'
  BY <1>1, <1>2 DEF BlocksOrdered, Rising, Lower, Under, Ahead
<1>5. FramesOrdered'
  BY <1>1, <1>2 DEF FramesOrdered, Rising, Lower, Under
<1>6. QueuesOrdered'
  BY <1>1, <1>2 DEF QueuesOrdered, Rising, Lower, Under, ZcapQueue
<1>7. AnalyzedOrdered'
  BY <1>1, <1>2 DEF AnalyzedOrdered, From, Rising, Lower, Under, ZcapQueue
<1>8. QED
  BY <1>3, <1>4, <1>5, <1>6, <1>7

-----------------------------------------------------------------------------
\* What nodes are taken stays as long as the queues do.
LEMMA NodesStay ==
  ASSUME NodesCounted, z_aq' = z_aq, z_pool' = z_pool
  PROVE  NodesCounted'
BY DEF NodesCounted, Z!Queued

-----------------------------------------------------------------------------
\* The block after b: the ring closes.
LEMMA NextBlock ==
  ASSUME NEW b \in ZcapBlock
  PROVE  /\ (b + 1) % Blocks \in ZcapBlock
         /\ b + 1 = Blocks => (b + 1) % Blocks = 0
         /\ b + 1 # Blocks => (b + 1) % Blocks = b + 1
<1>1. Blocks \in Nat \ {0}
  BY ZcapConsts
<1>2. CASE b + 1 = Blocks
  <2>1. Blocks % Blocks = 0
    BY <1>1
  <2>2. QED
    BY <1>1, <1>2, <2>1 DEF ZcapBlock
<1>3. CASE b + 1 # Blocks
  <2>1. b + 1 \in 0..(Blocks - 1)
    BY <1>1, <1>3 DEF ZcapBlock
  <2>2. (b + 1) % Blocks = b + 1
    BY <1>1, <2>1
  <2>3. QED
    BY <1>1, <1>3, <2>1, <2>2 DEF ZcapBlock
<1>4. QED
  BY <1>2, <1>3

\* The kernel fills its block with packets that are later than all others.
LEMMA ZcapFill == ZcapInv /\ Z!KernelFill => ZcapInv'
<1> SUFFICES ASSUME ZcapInv, Z!KernelFill PROVE ZcapInv'
  OBVIOUS
<1>0. ZcapTypes /\ InTurn /\ BlocksOrdered /\ FramesOrdered /\ QueuesOrdered /\ AnalyzedOrdered
      /\ FiltersKept /\ NodesCounted
  BY DEF ZcapInv
<1>c. Blocks \in Nat \ {0} /\ ZcapPackets \in Nat
  BY ZcapConsts
<1>1. PICK n \in 1..2 : \E ks \in [1..n -> Kinds] :
        /\ Len(z_kind) + n <= ZcapPackets /\ z_kind' = z_kind \o ks
        /\ z_ring' = [z_ring EXCEPT ![z_kernel] =
                        [user |-> TRUE, frames |-> [i \in 1..n |-> Len(z_kind) + i]]]
  BY DEF Z!KernelFill
<1>2. PICK ks \in [1..n -> Kinds] :
        /\ Len(z_kind) + n <= ZcapPackets /\ z_kind' = z_kind \o ks
        /\ z_ring' = [z_ring EXCEPT ![z_kernel] =
                        [user |-> TRUE, frames |-> [i \in 1..n |-> Len(z_kind) + i]]]
  BY <1>1
<1>3. /\ ~z_ring[z_kernel].user /\ z_kernel' = (z_kernel + 1) % Blocks
      /\ z_rx' = z_rx /\ z_block_idx' = z_block_idx /\ z_frames' = z_frames /\ z_aq' = z_aq
      /\ z_alz' = z_alz /\ z_filters' = z_filters /\ z_pool' = z_pool
      /\ z_analyzed' = z_analyzed /\ z_called' = z_called
      /\ z_since' = z_since
  BY DEF Z!KernelFill, Z!thread, Z!history
<1>4. /\ z_kind \in Seq(Kinds) /\ Len(z_kind) \in Nat /\ z_kernel \in ZcapBlock
      /\ z_block_idx \in ZcapBlock
      /\ z_ring \in [ZcapBlock -> [user : BOOLEAN, frames : Seq(Arrived)]]
  BY <1>0 DEF ZcapTypes
<1>5. /\ z_kind' \in Seq(Kinds) /\ Len(z_kind') = Len(z_kind) + n
      /\ \A i \in Arrived : z_kind'[i] = z_kind[i]
  <2>1. ks \in Seq(Kinds) /\ Len(ks) = n
    OBVIOUS
  <2>2. QED
    BY <1>2, <1>4, <2>1 DEF Arrived
<1>6. Arrived \subseteq Arrived' /\ Arrived' = 1..(Len(z_kind) + n)
  BY <1>4, <1>5 DEF Arrived
<1>7. Seq(Arrived) \subseteq Seq(Arrived')
  BY <1>6, SeqWider
<1> DEFINE new == [i \in 1..n |-> Len(z_kind) + i]
<1>8. new \in Seq(Arrived') /\ Len(new) = n /\ \A i \in 1..Len(new) : new[i] = Len(z_kind) + i
  BY <1>4, <1>6
<1> HIDE DEF new
<1>9. /\ z_ring'[z_kernel].user /\ z_ring'[z_kernel].frames = new
      /\ \A b \in ZcapBlock : b # z_kernel => z_ring'[b] = z_ring[b]
  BY <1>2, <1>4 DEF new
<1>10. z_ring' \in [ZcapBlock -> [user : BOOLEAN, frames : Seq(Arrived')]]
  <2>1. z_ring \in [ZcapBlock -> [user : BOOLEAN, frames : Seq(Arrived')]]
    BY <1>4, <1>7
  <2>2. QED
    BY <1>2, <1>8, <2>1 DEF new
<1>11. ZcapTypes'
  <2>1. z_kernel' \in ZcapBlock
    BY <1>3, <1>4, NextBlock
  <2>2. z_frames \in Seq(Arrived') /\ z_analyzed \in Seq(Arrived')
    BY <1>0, <1>7 DEF ZcapTypes
  <2>3. z_aq \in [Queues -> Seq(Arrived')]
    BY <1>0, <1>7 DEF ZcapTypes
  <2>4. Len(z_kind') <= ZcapPackets
    BY <1>2, <1>5
  <2>5. /\ z_rx' \in {"off", "wait", "scan", "frames", "end"}
        /\ z_rx' = "off" => \A q \in Queues : z_alz'[q] = "off"
        /\ z_alz' \in [Queues -> {"off", "test", "pop", "match", "end"}]
        /\ z_filters' \in [Filters -> Int] /\ z_since' \in [Filters -> Nat]
        /\ z_called' \subseteq Filters \X (1..Len(z_analyzed')) /\ z_pool' \in Int
    BY <1>0, <1>3 DEF ZcapTypes
  <2>6. QED
    BY <1>3, <1>4, <1>5, <1>10, <2>1, <2>2, <2>3, <2>4, <2>5 DEF ZcapTypes, ZcapBlock
\* The blocks of the user were those before the kernel's.
<1>12. \A b \in ZcapBlock : z_ring[b].user <=> Ahead(b) < Ahead(z_kernel)
  BY <1>0, <1>3, <1>4 DEF InTurn
<1>13. InTurn'
  <2>1. z_rx' = "frames" => z_ring'[z_block_idx'].user
    BY <1>0, <1>3, <1>4, <1>9 DEF InTurn
  <2>2. \A b \in ZcapBlock : z_ring'[b].user <=> (b = z_kernel \/ Ahead(b) < Ahead(z_kernel))
    BY <1>9, <1>12
  <2>3. z_kernel' \in ZcapBlock /\ (z_kernel + 1 = Blocks => z_kernel' = 0)
        /\ (z_kernel + 1 # Blocks => z_kernel' = z_kernel + 1)
    BY <1>3, <1>4, NextBlock
  <2>4. \A b \in ZcapBlock : Ahead(b)' = Ahead(b)
    BY <1>3 DEF Ahead
  <2>5. Ahead(z_kernel)' = IF z_kernel' >= z_block_idx THEN z_kernel' - z_block_idx
                           ELSE z_kernel' - z_block_idx + Blocks
    BY <1>3 DEF Ahead
  <2>6. CASE z_kernel' = z_block_idx
    <3>1. \A b \in ZcapBlock : b = z_kernel \/ Ahead(b) < Ahead(z_kernel)
      BY <1>c, <1>4, <2>3, <2>6 DEF Ahead, ZcapBlock
    <3>2. \A b \in ZcapBlock : z_ring'[b].user
      BY <2>2, <3>1
    <3>3. QED
      BY <1>3, <2>1, <2>6, <3>2 DEF InTurn, ZcapBlock
  <2>7. CASE z_kernel' # z_block_idx
    <3>1. Ahead(z_kernel)' = Ahead(z_kernel) + 1
      <4>1. /\ z_kernel' >= z_block_idx => Ahead(z_kernel)' = z_kernel' - z_block_idx
            /\ z_kernel' < z_block_idx => Ahead(z_kernel)' = z_kernel' - z_block_idx + Blocks
            /\ z_kernel >= z_block_idx => Ahead(z_kernel) = z_kernel - z_block_idx
            /\ z_kernel < z_block_idx => Ahead(z_kernel) = z_kernel - z_block_idx + Blocks
        BY <1>4, <2>3, <2>5 DEF Ahead, ZcapBlock
      <4>2. /\ z_kernel \in Int /\ z_kernel' \in Int /\ z_block_idx \in Int /\ Blocks \in Int
            /\ z_kernel < Blocks /\ z_block_idx < Blocks /\ z_block_idx >= 0
        BY <1>c, <1>4, <2>3 DEF ZcapBlock
      <4>3. CASE z_kernel + 1 = Blocks
        BY <2>3, <2>7, <4>1, <4>2, <4>3
      <4>4. CASE z_kernel + 1 # Blocks
        BY <2>3, <2>7, <4>1, <4>2, <4>4
      <4>5. QED
        BY <4>3, <4>4
    <3>2. \A b \in ZcapBlock : Ahead(b) \in Nat /\ (Ahead(b) = Ahead(z_kernel) => b = z_kernel)
      BY <1>c, <1>4 DEF Ahead, ZcapBlock
    <3>3. \A b \in ZcapBlock : z_ring'[b].user <=> Ahead(b)' < Ahead(z_kernel)'
      BY <1>4, <2>2, <2>4, <3>1, <3>2
    <3>4. QED
      BY <2>1, <3>3 DEF InTurn, ZcapBlock, Ahead
  <2>8. QED
    BY <2>6, <2>7
<1>14. \A b \in ZcapBlock : /\ Ahead(b)' = Ahead(b)
                            /\ b # z_kernel => (Under(b)' <=> Under(b))
  BY <1>3, <1>9 DEF Ahead, Under
<1>15. \A s \in Seq(Arrived) : Lower(s, new)
  BY <1>4, <1>8 DEF Lower, Arrived
<1>16. BlocksOrdered'
  <2>1. ASSUME NEW b \in ZcapBlock, Under(b)'
        PROVE  Rising(z_ring'[b].frames)
    <3>1. CASE b = z_kernel
      <4>1. Rising(new)
        BY <1>4, <1>8 DEF Rising
      <4>2. QED
        BY <1>9, <3>1, <4>1
    <3>2. CASE b # z_kernel
      BY <1>0, <1>9, <1>14, <2>1, <3>2 DEF BlocksOrdered
    <3>3. QED
      BY <3>1, <3>2
  <2>2. ASSUME NEW b \in ZcapBlock, NEW c \in ZcapBlock, Under(b)', Under(c)',
               Ahead(b) < Ahead(c)
        PROVE  Lower(z_ring'[b].frames, z_ring'[c].frames)
    <3>1. CASE b = z_kernel
      <4>1. c # z_kernel /\ Under(c)
        <5>1. c # z_kernel
          BY <1>c, <1>4, <2>2, <3>1 DEF Ahead, ZcapBlock
        <5>2. QED
          BY <1>14, <2>2, <5>1
      <4>2. Ahead(c) < Ahead(z_kernel)
        BY <1>12, <4>1 DEF Under
      <4>3. QED
        BY <1>c, <1>4, <2>2, <3>1, <4>2 DEF Ahead, ZcapBlock
    <3>2. CASE b # z_kernel /\ c = z_kernel
      <4>1. z_ring[b].frames \in Seq(Arrived)
        BY <1>4
      <4>2. QED
        BY <1>9, <1>15, <3>2, <4>1
    <3>3. CASE b # z_kernel /\ c # z_kernel
      BY <1>0, <1>9, <1>14, <2>2, <3>3 DEF BlocksOrdered
    <3>4. QED
      BY <3>1, <3>2, <3>3
  <2>3. QED
    BY <1>14, <2>1, <2>2 DEF BlocksOrdered, Rising, Lower, ZcapBlock
\* Whatever was before the blocks still is.
<1>17. ASSUME NEW s \in Seq(Arrived), \A b \in ZcapBlock : Under(b) => Lower(s, z_ring[b].frames)
       PROVE  \A b \in ZcapBlock : Under(b)' => Lower(s, z_ring'[b].frames)
  <2> SUFFICES ASSUME NEW b \in ZcapBlock, Under(b)' PROVE Lower(s, z_ring'[b].frames)
    OBVIOUS
  <2>1. CASE b = z_kernel
    BY <1>9, <1>15, <2>1
  <2>2. CASE b # z_kernel
    BY <1>9, <1>14, <1>17, <2>2
  <2>3. QED
    BY <2>1, <2>2
<1>18. FramesOrdered'
  <2>1. \A b \in ZcapBlock : Under(b)' => Lower(z_frames, z_ring'[b].frames)
    BY <1>0, <1>17 DEF FramesOrdered, ZcapTypes
  <2>2. Rising(z_frames) /\ (z_rx # "frames" => z_frames = <<>>)
    BY <1>0 DEF FramesOrdered
  <2>3. QED
    BY <1>3, <2>1, <2>2 DEF FramesOrdered, Rising, Lower, ZcapBlock
\* A packet has the queue it had.
<1>19. \A p \in Arrived : ZcapQueue(p)' = ZcapQueue(p)
  BY <1>5 DEF ZcapQueue
<1>20. QueuesOrdered'
  <2> SUFFICES ASSUME NEW q \in Queues
               PROVE  /\ Rising(z_aq[q])
                      /\ z_alz[q] = "match" => z_aq[q] # <<>>
                      /\ \A i \in 1..Len(z_aq[q]) : ZcapQueue(z_aq[q][i])' = q
                      /\ Lower(z_aq[q], z_frames)
                      /\ \A b \in ZcapBlock : Under(b)' => Lower(z_aq[q], z_ring'[b].frames)
    BY <1>3 DEF QueuesOrdered, Rising, Lower, ZcapBlock, ZcapQueue
  <2>1. z_aq[q] \in Seq(Arrived)
    BY <1>0 DEF ZcapTypes
  <2>2. \A b \in ZcapBlock : Under(b)' => Lower(z_aq[q], z_ring'[b].frames)
    BY <1>0, <1>17, <2>1 DEF QueuesOrdered
  <2>3. \A i \in 1..Len(z_aq[q]) : z_aq[q][i] \in Arrived
    BY <2>1
  <2>4. QED
    BY <1>0, <1>3, <1>5, <2>2, <2>3 DEF QueuesOrdered, ZcapQueue
<1>21. AnalyzedOrdered'
  <2>1. z_analyzed \in Seq(Arrived)
    BY <1>0 DEF ZcapTypes
  <2>2. \A b \in ZcapBlock : Under(b)' => Lower(z_analyzed, z_ring'[b].frames)
    BY <1>0, <1>17, <2>1 DEF AnalyzedOrdered
  <2>3. \A i \in 1..Len(z_analyzed) : ZcapQueue(z_analyzed[i])' = ZcapQueue(z_analyzed[i])
    BY <1>3, <1>5, <2>1 DEF ZcapQueue
  <2>4. \A i \in 1..Len(z_analyzed) :
          \A j \in From(ZcapQueue(z_analyzed[i]))..Len(z_aq[ZcapQueue(z_analyzed[i])]) :
             z_analyzed[i] < z_aq[ZcapQueue(z_analyzed[i])][j]
    BY <1>0 DEF AnalyzedOrdered
  <2>5. \A i, j \in 1..Len(z_analyzed) :
          i < j /\ ZcapQueue(z_analyzed[i]) = ZcapQueue(z_analyzed[j])
          => z_analyzed[i] < z_analyzed[j]
    BY <1>0 DEF AnalyzedOrdered
  <2>6. Lower(z_analyzed, z_frames)
    BY <1>0 DEF AnalyzedOrdered
  <2>7. QED
    BY <1>3, <2>2, <2>3, <2>4, <2>5, <2>6 DEF AnalyzedOrdered, From, Lower, ZcapBlock, ZcapQueue
<1>22. FiltersKept'
  <2>1. \A f \in z_called : Z!Matching(z_analyzed[f[2]], [g \in Filters |-> Len(Z!FilterFields[g])])'
                            = Z!Matching(z_analyzed[f[2]], [g \in Filters |-> Len(Z!FilterFields[g])])
    <3> SUFFICES ASSUME NEW f \in z_called
                 PROVE  z_kind'[z_analyzed'[f[2]]] = z_kind[z_analyzed[f[2]]]
      BY DEF Z!Matching
    <3>1. f[2] \in 1..Len(z_analyzed) /\ z_analyzed \in Seq(Arrived)
      BY <1>0 DEF ZcapTypes
    <3>2. z_analyzed[f[2]] \in Arrived
      BY <3>1
    <3>3. QED
      BY <1>3, <1>5, <3>2
  <2>2. \/ z_rx' = "end" /\ \A q \in Queues : z_alz'[q] = "end"
        \/ \A f \in Filters : z_since'[f] = ZcapPackets \/ z_filters'[f] = Len(Z!FilterFields[f])
    BY <1>0, <1>3 DEF FiltersKept
  <2>3. \A f \in z_called : f[2] > z_since[f[1]] =>
          f[1] \in Z!Matching(z_analyzed[f[2]], [g \in Filters |-> Len(Z!FilterFields[g])])
    BY <1>0 DEF FiltersKept
  <2>4. QED
    BY <1>3, <2>1, <2>2, <2>3 DEF FiltersKept
<1>23. NodesCounted'
  BY <1>0, <1>3, NodesStay
<1>24. QED
  BY <1>11, <1>13, <1>16, <1>18, <1>20, <1>21, <1>22, <1>23 DEF ZcapInv

-----------------------------------------------------------------------------
\* The types of what the order is of.
LEMMA ZcapSeqs ==
  ASSUME ZcapTypes
  PROVE  /\ Blocks \in Nat \ {0} /\ z_kernel \in ZcapBlock /\ z_block_idx \in ZcapBlock
         /\ \A b \in ZcapBlock : z_ring[b].frames \in Seq(Arrived) /\ z_ring[b].user \in BOOLEAN
         /\ z_frames \in Seq(Arrived) /\ z_analyzed \in Seq(Arrived)
         /\ \A q \in Queues : z_aq[q] \in Seq(Arrived)
         /\ Len(z_kind) \in Nat
<1>1. Blocks \in Nat \ {0}
  BY ZcapConsts
<1>2. QED
  BY <1>1 DEF ZcapTypes

\* The distance from the capture thread's block.
LEMMA AheadIs ==
  ASSUME ZcapTypes, NEW b \in ZcapBlock
  PROVE  /\ Ahead(b) \in 0..(Blocks - 1)
         /\ Ahead(b) = 0 <=> b = z_block_idx
         /\ b >= z_block_idx => Ahead(b) = b - z_block_idx
         /\ b < z_block_idx => Ahead(b) = b - z_block_idx + Blocks
BY ZcapSeqs DEF Ahead, ZcapBlock

\* The capture thread begins with a block: it comes before the others.
LEMMA ZcapRxBlock == ZcapInv /\ Z!RxBlock => ZcapInv'
<1> SUFFICES ASSUME ZcapInv, Z!RxBlock PROVE ZcapInv'
  OBVIOUS
<1>0. ZcapTypes /\ InTurn /\ BlocksOrdered /\ FramesOrdered /\ QueuesOrdered /\ AnalyzedOrdered
      /\ FiltersKept /\ NodesCounted
  BY DEF ZcapInv
<1>1. z_rx = "scan" /\ z_ring[z_block_idx].user /\ z_frames' = z_ring[z_block_idx].frames
      /\ z_rx' = "frames"
  BY DEF Z!RxBlock
<1>2. /\ z_ring' = z_ring /\ z_kernel' = z_kernel /\ z_block_idx' = z_block_idx /\ z_aq' = z_aq
      /\ z_kind' = z_kind /\ z_alz' = z_alz /\ z_filters' = z_filters /\ z_pool' = z_pool
      /\ z_analyzed' = z_analyzed /\ z_called' = z_called
      /\ z_since' = z_since
  BY DEF Z!RxBlock, Z!history
<1>3. /\ z_block_idx \in ZcapBlock /\ z_ring[z_block_idx].frames \in Seq(Arrived)
      /\ z_analyzed \in Seq(Arrived)
  BY <1>0, ZcapSeqs
<1>4. Under(z_block_idx) /\ \A b \in ZcapBlock : /\ Under(b)' <=> Under(b) /\ b # z_block_idx
                                                  /\ Ahead(b)' = Ahead(b)
  BY <1>1, <1>2 DEF Under, Ahead
<1>5. \A b \in ZcapBlock : b # z_block_idx => Ahead(z_block_idx) < Ahead(b)
  BY <1>0, <1>3, AheadIs
<1>6. ZcapTypes'
  BY <1>0, <1>1, <1>2, <1>3 DEF ZcapTypes, Arrived
<1>7. InTurn'
  BY <1>0, <1>1, <1>2 DEF InTurn, Ahead
<1>8. BlocksOrdered'
  BY <1>0, <1>2, <1>4 DEF BlocksOrdered, Rising, Lower
<1>9. FramesOrdered'
  <2>1. Rising(z_ring[z_block_idx].frames)
    BY <1>0, <1>3, <1>4 DEF BlocksOrdered
  <2>2. \A b \in ZcapBlock : Under(b)' => Lower(z_ring[z_block_idx].frames, z_ring[b].frames)
    BY <1>0, <1>3, <1>4, <1>5 DEF BlocksOrdered
  <2>3. QED
    BY <1>1, <1>2, <2>1, <2>2 DEF FramesOrdered, Rising, Lower
<1>10. QueuesOrdered'
  <2>1. \A q \in Queues : Lower(z_aq[q], z_ring[z_block_idx].frames)
    BY <1>0, <1>3, <1>4 DEF QueuesOrdered
  <2>2. \A q \in Queues : /\ Rising(z_aq[q]) /\ (z_alz[q] = "match" => z_aq[q] # <<>>)
                          /\ \A i \in 1..Len(z_aq[q]) : ZcapQueue(z_aq[q][i]) = q
    BY <1>0 DEF QueuesOrdered
  <2>3. \A q \in Queues : \A b \in ZcapBlock : Under(b)' => Lower(z_aq[q], z_ring[b].frames)
    BY <1>0, <1>4 DEF QueuesOrdered
  <2>4. QED
    BY <1>1, <1>2, <2>1, <2>2, <2>3 DEF QueuesOrdered, Rising, Lower, ZcapQueue
<1>11. AnalyzedOrdered'
  <2>1. Lower(z_analyzed, z_ring[z_block_idx].frames)
    BY <1>0, <1>3, <1>4 DEF AnalyzedOrdered
  <2>2. \A b \in ZcapBlock : Under(b)' => Lower(z_analyzed, z_ring[b].frames)
    BY <1>0, <1>4 DEF AnalyzedOrdered
  <2>3. /\ \A i \in 1..Len(z_analyzed) :
             \A j \in From(ZcapQueue(z_analyzed[i]))..Len(z_aq[ZcapQueue(z_analyzed[i])]) :
                z_analyzed[i] < z_aq[ZcapQueue(z_analyzed[i])][j]
        /\ \A i, j \in 1..Len(z_analyzed) :
             i < j /\ ZcapQueue(z_analyzed[i]) = ZcapQueue(z_analyzed[j])
             => z_analyzed[i] < z_analyzed[j]
    BY <1>0 DEF AnalyzedOrdered
  <2>4. QED
    BY <1>1, <1>2, <2>1, <2>2, <2>3 DEF AnalyzedOrdered, From, Lower, ZcapQueue
<1>12. FiltersKept'
  BY <1>0, <1>1, <1>2 DEF FiltersKept, Z!Matching
<1>13. NodesCounted'
  BY <1>0, <1>2, NodesStay
<1>14. QED
  BY <1>6, <1>7, <1>8, <1>9, <1>10, <1>11, <1>12, <1>13 DEF ZcapInv

\* It gives back the block: the others are nearer by one.
LEMMA ZcapRxReturn == ZcapInv /\ Z!RxReturn => ZcapInv'
<1> SUFFICES ASSUME ZcapInv, Z!RxReturn PROVE ZcapInv'
  OBVIOUS
<1>0. ZcapTypes /\ InTurn /\ BlocksOrdered /\ FramesOrdered /\ QueuesOrdered /\ AnalyzedOrdered
      /\ FiltersKept /\ NodesCounted
  BY DEF ZcapInv
<1>1. /\ z_rx = "frames" /\ z_frames = <<>> /\ z_rx' = "scan"
      /\ z_ring' = [z_ring EXCEPT ![z_block_idx] = Z!KernelBlock]
      /\ z_block_idx' = (z_block_idx + 1) % Blocks
  BY DEF Z!RxReturn
<1>2. /\ z_frames' = z_frames /\ z_kernel' = z_kernel /\ z_aq' = z_aq
      /\ z_kind' = z_kind /\ z_alz' = z_alz /\ z_filters' = z_filters /\ z_pool' = z_pool
      /\ z_analyzed' = z_analyzed /\ z_called' = z_called
      /\ z_since' = z_since
  BY DEF Z!RxReturn, Z!history
<1>3. /\ z_block_idx \in ZcapBlock /\ z_kernel \in ZcapBlock /\ Blocks \in Nat \ {0}
      /\ z_ring \in [ZcapBlock -> [user : BOOLEAN, frames : Seq(Arrived)]]
  BY <1>0, ZcapSeqs DEF ZcapTypes
<1>4. /\ ~z_ring'[z_block_idx].user
      /\ \A b \in ZcapBlock : b # z_block_idx => z_ring'[b] = z_ring[b]
  BY <1>1, <1>3 DEF Z!KernelBlock
<1>5. /\ z_block_idx' \in ZcapBlock
      /\ z_block_idx + 1 = Blocks => z_block_idx' = 0
      /\ z_block_idx + 1 # Blocks => z_block_idx' = z_block_idx + 1
  BY <1>1, <1>3, NextBlock
<1>6. ASSUME NEW b \in ZcapBlock
      PROVE  /\ b # z_block_idx => Ahead(b)' = Ahead(b) - 1
             /\ b = z_block_idx => Ahead(b)' = Blocks - 1
  <2>1. /\ b >= z_block_idx' => Ahead(b)' = b - z_block_idx'
        /\ b < z_block_idx' => Ahead(b)' = b - z_block_idx' + Blocks
    BY <1>3, <1>5 DEF Ahead, ZcapBlock
  <2>2. /\ b >= z_block_idx => Ahead(b) = b - z_block_idx
        /\ b < z_block_idx => Ahead(b) = b - z_block_idx + Blocks
    BY <1>0, AheadIs
  <2>3. b \in 0..(Blocks - 1) /\ z_block_idx \in 0..(Blocks - 1)
    BY <1>3 DEF ZcapBlock
  <2>4. CASE z_block_idx + 1 = Blocks
    BY <1>3, <1>5, <2>1, <2>2, <2>3, <2>4
  <2>5. CASE z_block_idx + 1 # Blocks
    <3>1. z_block_idx' = z_block_idx + 1
      BY <1>5, <2>5
    <3>2. b \in Int /\ z_block_idx \in Int /\ Blocks \in Int /\ b < Blocks /\ b >= 0
          /\ z_block_idx + 1 < Blocks
      BY <1>3, <2>3, <2>5
    <3>3. CASE b = z_block_idx
      BY <2>1, <3>1, <3>2, <3>3
    <3>4. CASE b < z_block_idx
      BY <2>1, <2>2, <3>1, <3>2, <3>4
    <3>5. CASE b > z_block_idx
      BY <2>1, <2>2, <3>1, <3>2, <3>5
    <3>6. QED
      BY <3>2, <3>3, <3>4, <3>5
  <2>6. QED
    BY <2>4, <2>5
<1>7. \A b \in ZcapBlock : /\ Ahead(b) \in 0..(Blocks - 1)
                           /\ Ahead(b) = 0 <=> b = z_block_idx
  BY <1>0, AheadIs
<1>8. \A b \in ZcapBlock : /\ Under(b)' <=> Under(b)
                           /\ Under(b) => b # z_block_idx
  BY <1>1, <1>4 DEF Under
<1>9. ZcapTypes'
  <2>1. z_ring' \in [ZcapBlock -> [user : BOOLEAN, frames : Seq(Arrived)]]
    BY <1>1, <1>3 DEF Z!KernelBlock
  <2>2. QED
    BY <1>0, <1>1, <1>2, <1>5, <2>1 DEF ZcapTypes, Arrived, ZcapBlock
<1>10. InTurn'
  <2>1. z_ring[z_block_idx].user
    BY <1>0, <1>1 DEF InTurn
  <2>2. \A b \in ZcapBlock : z_ring'[b].user <=> Ahead(b)' < Ahead(z_kernel)'
    <3> SUFFICES ASSUME NEW b \in ZcapBlock
                 PROVE  z_ring'[b].user <=> Ahead(b)' < Ahead(z_kernel)'
      OBVIOUS
    <3>0. z_kernel \in ZcapBlock /\ Ahead(b) \in 0..(Blocks - 1)
          /\ Ahead(z_kernel) \in 0..(Blocks - 1)
      BY <1>3, <1>7
    <3>p. \A c \in ZcapBlock : /\ c # z_block_idx => Ahead(c)' = Ahead(c) - 1
                               /\ c = z_block_idx => Ahead(c)' = Blocks - 1
      BY <1>6
    <3>1. Ahead(z_kernel)' = IF z_kernel = z_block_idx THEN Blocks - 1 ELSE Ahead(z_kernel) - 1
      <4>1. \A c \in ZcapBlock : c = z_kernel => Ahead(z_kernel)' = Ahead(c)'
        BY <1>2 DEF Ahead
      <4>2. QED
        BY <3>0, <3>p, <4>1
    <3>2. CASE z_kernel = z_block_idx /\ \A c \in ZcapBlock : z_ring[c].user
      BY <1>3, <1>4, <1>7, <3>0, <3>p, <3>1, <3>2
    <3>3. CASE \A c \in ZcapBlock : z_ring[c].user <=> Ahead(c) < Ahead(z_kernel)
      <4>1. Ahead(z_kernel) > 0 /\ z_kernel # z_block_idx
        BY <1>3, <1>7, <2>1, <3>0, <3>3
      <4>2. CASE b = z_block_idx
        BY <1>3, <1>4, <3>0, <3>p, <3>1, <4>1, <4>2
      <4>3. CASE b # z_block_idx
        BY <1>3, <1>4, <3>0, <3>p, <3>1, <3>3, <4>1, <4>3
      <4>4. QED
        BY <4>2, <4>3
    <3>4. QED
      BY <1>0, <3>2, <3>3 DEF InTurn
  <2>3. QED
    BY <1>1, <2>2 DEF InTurn, ZcapBlock, Ahead
<1>11. \A b \in ZcapBlock : Under(b)' => z_ring'[b] = z_ring[b] /\ Under(b)
  BY <1>4, <1>8
<1>12. BlocksOrdered'
  <2>1. \A b, c \in ZcapBlock : Under(b)' /\ Under(c)' /\ Ahead(b)' < Ahead(c)' => Ahead(b) < Ahead(c)
    BY <1>3, <1>6, <1>7, <1>8
  <2>2. \A b \in ZcapBlock : Under(b)' => Rising(z_ring'[b].frames)
    BY <1>0, <1>11 DEF BlocksOrdered
  <2>3. \A b, c \in ZcapBlock : Under(b)' /\ Under(c)' /\ Ahead(b)' < Ahead(c)' =>
          Lower(z_ring'[b].frames, z_ring'[c].frames)
    BY <1>0, <1>11, <2>1 DEF BlocksOrdered
  <2>4. QED
    BY <2>2, <2>3 DEF BlocksOrdered, Rising, Lower, ZcapBlock
<1>13. FramesOrdered'
  BY <1>1, <1>2 DEF FramesOrdered, Rising, Lower
<1>14. QueuesOrdered'
  <2>1. \A q \in Queues : \A b \in ZcapBlock : Under(b)' => Lower(z_aq[q], z_ring'[b].frames)
    BY <1>0, <1>11 DEF QueuesOrdered
  <2>2. \A q \in Queues : /\ Rising(z_aq[q]) /\ Lower(z_aq[q], z_frames)
                          /\ z_alz[q] = "match" => z_aq[q] # <<>>
                          /\ \A i \in 1..Len(z_aq[q]) : ZcapQueue(z_aq[q][i]) = q
    BY <1>0 DEF QueuesOrdered
  <2>3. QED
    BY <1>2, <2>1, <2>2 DEF QueuesOrdered, Rising, Lower, ZcapQueue, ZcapBlock
<1>15. AnalyzedOrdered'
  <2>1. \A b \in ZcapBlock : Under(b)' => Lower(z_analyzed, z_ring'[b].frames)
    BY <1>0, <1>11 DEF AnalyzedOrdered
  <2>2. /\ Lower(z_analyzed, z_frames)
        /\ \A i \in 1..Len(z_analyzed) :
             \A j \in From(ZcapQueue(z_analyzed[i]))..Len(z_aq[ZcapQueue(z_analyzed[i])]) :
                z_analyzed[i] < z_aq[ZcapQueue(z_analyzed[i])][j]
        /\ \A i, j \in 1..Len(z_analyzed) :
             i < j /\ ZcapQueue(z_analyzed[i]) = ZcapQueue(z_analyzed[j])
             => z_analyzed[i] < z_analyzed[j]
    BY <1>0 DEF AnalyzedOrdered
  <2>3. QED
    BY <1>2, <2>1, <2>2 DEF AnalyzedOrdered, From, Lower, ZcapQueue, ZcapBlock
<1>16. FiltersKept'
  BY <1>0, <1>1, <1>2 DEF FiltersKept, Z!Matching
<1>17. NodesCounted'
  BY <1>0, <1>2, NodesStay
<1>18. QED
  BY <1>9, <1>10, <1>12, <1>13, <1>14, <1>15, <1>16, <1>17 DEF ZcapInv

-----------------------------------------------------------------------------
\* A queue that is longer by one has one node more; the same the other way.
LEMMA LongerQueue ==
  ASSUME NEW s \in [Queues -> Nat], NEW t \in [Queues -> Nat], NEW q \in Queues,
         t[q] = s[q] + 1, \A r \in Queues : r # q => t[r] = s[r],
         NEW S, NEW R, S = UNION {{r} \X (1..s[r]) : r \in Queues},
         R = UNION {{r} \X (1..t[r]) : r \in Queues}
  PROVE  /\ IsFiniteSet(S) => IsFiniteSet(R) /\ Cardinality(R) = Cardinality(S) + 1
         /\ IsFiniteSet(R) => IsFiniteSet(S) /\ Cardinality(S) = Cardinality(R) - 1
<1> DEFINE x == <<q, t[q]>>
<1>1. \A r \in Queues : \A i : <<r, i>> \in S <=> i \in 1..s[r]
  OBVIOUS
<1>2. \A r \in Queues : \A i : <<r, i>> \in R <=> i \in 1..t[r]
  OBVIOUS
<1>3. \A e \in S \cup R : \E r \in Queues, i \in Nat : e = <<r, i>>
  OBVIOUS
<1>4. x \notin S /\ x \in R
  <2>1. ~(t[q] \in 1..s[q]) /\ t[q] \in 1..t[q]
    OBVIOUS
  <2>2. QED
    BY <1>1, <1>2, <2>1
<1>5. \A r \in Queues, i \in Nat : <<r, i>> # x => (i \in 1..s[r] <=> i \in 1..t[r])
  <2> SUFFICES ASSUME NEW r \in Queues, NEW i \in Nat, <<r, i>> # x
               PROVE  i \in 1..s[r] <=> i \in 1..t[r]
    OBVIOUS
  <2>1. CASE r # q
    BY <2>1
  <2>2. CASE r = q
    <3>1. i # t[q]
      BY <2>2
    <3>2. QED
      BY <2>2, <3>1
  <2>3. QED
    BY <2>1, <2>2
<1>6. R = S \cup {x}
  <2> HIDE DEF x
  <2>1. \A e : e \in R <=> e \in S \/ e = x
    BY <1>1, <1>2, <1>3, <1>4, <1>5
  <2>2. QED
    BY <2>1
<1>7. S = R \ {x}
  BY <1>4, <1>6
<1> HIDE DEF x
<1>8. ASSUME IsFiniteSet(S) PROVE IsFiniteSet(R) /\ Cardinality(R) = Cardinality(S) + 1
  BY <1>4, <1>6, <1>8, FS_AddElement
<1>9. ASSUME IsFiniteSet(R) PROVE IsFiniteSet(S) /\ Cardinality(S) = Cardinality(R) - 1
  BY <1>4, <1>7, <1>9, FS_RemoveElement
<1>10. QED
  BY <1>8, <1>9

\* One frame goes on to the queue of its flow, or to none.
LEMMA ZcapRxFrame == ZcapInv /\ Z!RxFrame => ZcapInv'
<1> SUFFICES ASSUME ZcapInv, Z!RxFrame PROVE ZcapInv'
  OBVIOUS
<1>0. ZcapTypes /\ InTurn /\ BlocksOrdered /\ FramesOrdered /\ QueuesOrdered /\ AnalyzedOrdered
      /\ FiltersKept /\ NodesCounted
  BY DEF ZcapInv
<1> DEFINE p == Head(z_frames)
           h == ZcapQueue(p)
<1>1. z_rx = "frames" /\ z_frames # <<>> /\ z_frames' = Tail(z_frames) /\ z_rx' = z_rx
  BY DEF Z!RxFrame, Z!thread
<1>2. \/ z_aq' = z_aq /\ z_pool' = z_pool
      \/ z_aq' = [z_aq EXCEPT ![h] = Append(@, p)] /\ z_pool' = z_pool - 1
  BY DEF Z!RxFrame, ZcapQueue
<1>3. /\ z_ring' = z_ring /\ z_kernel' = z_kernel /\ z_block_idx' = z_block_idx
      /\ z_kind' = z_kind /\ z_alz' = z_alz /\ z_filters' = z_filters
      /\ z_analyzed' = z_analyzed /\ z_called' = z_called
      /\ z_since' = z_since
  BY DEF Z!RxFrame, Z!thread, Z!history
<1>4. z_frames \in Seq(Arrived) /\ z_analyzed \in Seq(Arrived) /\ Len(z_kind) \in Nat
      /\ \A q \in Queues : z_aq[q] \in Seq(Arrived)
  BY <1>0, ZcapSeqs
<1>5. /\ Tail(z_frames) \in Seq(Arrived) /\ Len(Tail(z_frames)) = Len(z_frames) - 1
      /\ Len(z_frames) > 0 /\ p = z_frames[1] /\ p \in Arrived
      /\ \A i \in 1..Len(Tail(z_frames)) : Tail(z_frames)[i] = z_frames[i + 1]
  BY <1>1, <1>4, TailOf
<1>6. h \in Queues
  BY <1>0, <1>5, ZcapQueueOf
<1> HIDE DEF p, h
<1>7. \A b \in ZcapBlock : (Under(b)' <=> Under(b)) /\ Ahead(b)' = Ahead(b)
  BY <1>1, <1>3 DEF Under, Ahead
<1>8. /\ Append(z_aq[h], p) \in Seq(Arrived) /\ Len(Append(z_aq[h], p)) = Len(z_aq[h]) + 1
      /\ \A i \in 1..Len(z_aq[h]) : Append(z_aq[h], p)[i] = z_aq[h][i]
      /\ Append(z_aq[h], p)[Len(z_aq[h]) + 1] = p
  <2>1. z_aq[h] \in Seq(Arrived)
    BY <1>4, <1>6
  <2>2. QED
    BY <1>5, <2>1, AppendOf
\* The queue of the frame grows by it, and the others stay.
<1>9. \A q \in Queues :
        \/ z_aq'[q] = z_aq[q]
        \/ q = h /\ z_aq'[q] = Append(z_aq[h], p)
  BY <1>0, <1>2, <1>6 DEF ZcapTypes
<1>10. z_aq' \in [Queues -> Seq(Arrived)]
  <2>1. z_aq \in [Queues -> Seq(Arrived)]
    BY <1>0 DEF ZcapTypes
  <2>2. z_aq[h] \in Seq(Arrived) /\ Append(z_aq[h], p) \in Seq(Arrived)
    BY <1>6, <1>8, <2>1
  <2> DEFINE new == Append(z_aq[h], p)
  <2>3. \/ z_aq' = z_aq \/ z_aq' = [z_aq EXCEPT ![h] = new]
    BY <1>2
  <2>4. new \in Seq(Arrived)
    BY <2>2
  <2> HIDE DEF new
  <2>5. QED
    BY <2>1, <2>3, <2>4
<1>11. ZcapTypes'
  <2>1. z_pool' \in Int
    BY <1>0, <1>2 DEF ZcapTypes
  <2>2. QED
    BY <1>0, <1>1, <1>3, <1>5, <1>10, <2>1 DEF ZcapTypes, Arrived, ZcapBlock
<1>12. InTurn'
  BY <1>0, <1>1, <1>3 DEF InTurn, Ahead
<1>13. BlocksOrdered'
  BY <1>0, <1>3, <1>7 DEF BlocksOrdered, Rising, Lower
<1>14. \A i \in 1..Len(Tail(z_frames)) : i + 1 \in 1..Len(z_frames)
  BY <1>4, <1>5
<1>15. \A b \in ZcapBlock : Under(b) => Lower(z_frames, z_ring[b].frames)
  BY <1>0 DEF FramesOrdered
<1>16. FramesOrdered'
  <2>1. \A i, j \in 1..Len(Tail(z_frames)) : i < j => Tail(z_frames)[i] < Tail(z_frames)[j]
    <3> SUFFICES ASSUME NEW i \in 1..Len(Tail(z_frames)), NEW j \in 1..Len(Tail(z_frames)), i < j
                 PROVE  z_frames[i + 1] < z_frames[j + 1]
      BY <1>5
    <3>1. i + 1 \in 1..Len(z_frames) /\ j + 1 \in 1..Len(z_frames) /\ i + 1 < j + 1
      BY <1>14
    <3>2. QED
      BY <1>0, <3>1 DEF FramesOrdered, Rising
  <2>2. \A b \in ZcapBlock : Under(b)' => Lower(Tail(z_frames), z_ring[b].frames)
    BY <1>5, <1>7, <1>14, <1>15 DEF Lower
  <2>3. QED
    BY <1>1, <1>3, <2>1, <2>2 DEF FramesOrdered, Rising, Lower
<1>17. \A s : Lower(s, z_frames) => /\ Lower(s, Tail(z_frames))
                                    /\ \A i \in 1..Len(s) : s[i] < p
  BY <1>4, <1>5, <1>14 DEF Lower
<1>18. QueuesOrdered'
  <2> SUFFICES ASSUME NEW q \in Queues
               PROVE  /\ Rising(z_aq'[q])
                      /\ z_alz[q] = "match" => z_aq'[q] # <<>>
                      /\ \A i \in 1..Len(z_aq'[q]) : ZcapQueue(z_aq[q][i])' = q
                      /\ Lower(z_aq'[q], Tail(z_frames))
                      /\ \A b \in ZcapBlock : Under(b) => Lower(z_aq'[q], z_ring[b].frames)
    BY <1>1, <1>3, <1>7 DEF QueuesOrdered, Rising, Lower, ZcapBlock
  <2>0. /\ Rising(z_aq[q]) /\ Lower(z_aq[q], z_frames)
        /\ z_alz[q] = "match" => z_aq[q] # <<>>
        /\ \A i \in 1..Len(z_aq[q]) : ZcapQueue(z_aq[q][i]) = q
        /\ \A b \in ZcapBlock : Under(b) => Lower(z_aq[q], z_ring[b].frames)
    BY <1>0 DEF QueuesOrdered
  <2>1. CASE z_aq'[q] = z_aq[q]
    <3>1. Lower(z_aq[q], Tail(z_frames))
      BY <1>17, <2>0
    <3>2. \A i \in 1..Len(z_aq'[q]) : ZcapQueue(z_aq[q][i])' = q
      BY <1>3, <2>0, <2>1 DEF ZcapQueue
    <3>3. QED
      BY <2>0, <2>1, <3>1, <3>2
  <2>2. CASE q = h /\ z_aq'[q] = Append(z_aq[h], p)
    <3> DEFINE n == Len(z_aq[q])
               new == z_aq'[q]
    <3>1. /\ n \in Nat /\ Len(new) = n + 1 /\ new[n + 1] = p
          /\ \A i \in 1..n : new[i] = z_aq[q][i] /\ z_aq[q][i] < p
      BY <1>4, <1>8, <1>17, <2>0, <2>2
    <3>2. \A i \in 1..(n + 1) : i \in 1..n \/ i = n + 1
      BY <3>1
    <3> HIDE DEF new
    <3>3. Rising(new)
      BY <2>0, <3>1, <3>2 DEF Rising
    <3>4. \A i \in 1..Len(new) : ZcapQueue(new[i]) = q
      BY <2>0, <2>2, <3>1, <3>2 DEF h
    <3>5. \A i \in 1..Len(new) : ZcapQueue(z_aq[q][i])' = q
      BY <1>3, <3>4 DEF ZcapQueue, new
    <3>6. Lower(new, Tail(z_frames))
      <4>1. \A j \in 1..Len(Tail(z_frames)) : p < Tail(z_frames)[j]
        <5>1. \A j \in 1..Len(Tail(z_frames)) : j + 1 \in 1..Len(z_frames) /\ 1 < j + 1
          BY <1>14
        <5>2. 1 \in 1..Len(z_frames)
          BY <1>4, <1>5
        <5>3. \A j \in 1..Len(Tail(z_frames)) : z_frames[1] < z_frames[j + 1]
          BY <1>0, <5>1, <5>2 DEF FramesOrdered, Rising
        <5>4. QED
          BY <1>5, <5>3
      <4>2. Lower(z_aq[q], Tail(z_frames))
        BY <1>17, <2>0
      <4>3. QED
        BY <3>1, <3>2, <4>1, <4>2 DEF Lower
    <3>7. \A b \in ZcapBlock : Under(b) => Lower(new, z_ring[b].frames)
      <4>1. 1 \in 1..Len(z_frames)
        BY <1>4, <1>5
      <4>2. \A b \in ZcapBlock : Under(b) => \A j \in 1..Len(z_ring[b].frames) : p < z_ring[b].frames[j]
        BY <1>5, <1>15, <4>1 DEF Lower
      <4>3. QED
        BY <2>0, <3>1, <3>2, <4>2 DEF Lower
    <3>8. new # <<>>
      BY <3>1
    <3>9. QED
      BY <3>3, <3>5, <3>6, <3>7, <3>8 DEF new
  <2>3. QED
    BY <1>9, <2>1, <2>2
<1>19. AnalyzedOrdered'
  <2>1. Lower(z_analyzed, Tail(z_frames)) /\ \A i \in 1..Len(z_analyzed) : z_analyzed[i] < p
    BY <1>0, <1>17 DEF AnalyzedOrdered
  <2>2. \A b \in ZcapBlock : Under(b)' => Lower(z_analyzed, z_ring[b].frames)
    BY <1>0, <1>7 DEF AnalyzedOrdered
  <2>3. ASSUME NEW i \in 1..Len(z_analyzed), NEW j \in From(ZcapQueue(z_analyzed[i]))..Len(z_aq'[ZcapQueue(z_analyzed[i])])
        PROVE  z_analyzed[i] < z_aq'[ZcapQueue(z_analyzed[i])][j]
    <3> DEFINE q == ZcapQueue(z_analyzed[i])
    <3>1. q \in Queues
      BY <1>0, <1>4, ZcapQueueOf
    <3>2. \A k \in From(q)..Len(z_aq[q]) : z_analyzed[i] < z_aq[q][k]
      BY <1>0 DEF AnalyzedOrdered
    <3>3. CASE z_aq'[q] = z_aq[q]
      BY <2>3, <3>2, <3>3
    <3>4. CASE q = h /\ z_aq'[q] = Append(z_aq[h], p)
      <4>1. j \in From(q)..(Len(z_aq[q]) + 1) /\ Len(z_aq[q]) \in Nat /\ From(q) \in 1..2
        BY <1>4, <1>8, <2>3, <3>1, <3>4 DEF From
      <4>2. CASE j \in From(q)..Len(z_aq[q])
        <5>1. j \in 1..Len(z_aq[q])
          BY <4>1, <4>2
        <5>2. QED
          BY <1>8, <3>2, <3>4, <4>2, <5>1
      <4>3. CASE j = Len(z_aq[q]) + 1
        BY <1>8, <2>1, <3>4, <4>3
      <4>4. QED
        BY <4>1, <4>2, <4>3
    <3>5. QED
      BY <1>9, <3>1, <3>3, <3>4
  <2>4. \A i, j \in 1..Len(z_analyzed) :
          i < j /\ ZcapQueue(z_analyzed[i]) = ZcapQueue(z_analyzed[j])
          => z_analyzed[i] < z_analyzed[j]
    BY <1>0 DEF AnalyzedOrdered
  <2>5. QED
    BY <1>1, <1>3, <2>1, <2>2, <2>3, <2>4 DEF AnalyzedOrdered, From, Lower, ZcapQueue, ZcapBlock
<1>20. FiltersKept'
  BY <1>0, <1>1, <1>3 DEF FiltersKept, Z!Matching
<1>21. NodesCounted'
  <2>1. CASE z_aq' = z_aq /\ z_pool' = z_pool
    BY <1>0, <2>1, NodesStay
  <2>2. CASE z_aq' = [z_aq EXCEPT ![h] = Append(@, p)] /\ z_pool' = z_pool - 1
    <3> DEFINE s == [q \in Queues |-> Len(z_aq[q])]
               t == [q \in Queues |-> Len(z_aq'[q])]
    <3>1. s \in [Queues -> Nat] /\ t \in [Queues -> Nat]
      BY <1>4, <1>10
    <3>2. z_aq'[h] = Append(z_aq[h], p) /\ \A r \in Queues : r # h => z_aq'[r] = z_aq[r]
      BY <1>0, <1>6, <2>2 DEF ZcapTypes
    <3>3. t[h] = s[h] + 1 /\ \A r \in Queues : r # h => t[r] = s[r]
      BY <1>6, <1>8, <3>2
    <3>4. /\ Z!Queued = UNION {{r} \X (1..s[r]) : r \in Queues}
          /\ Z!Queued' = UNION {{r} \X (1..t[r]) : r \in Queues}
      BY DEF Z!Queued
    <3> HIDE DEF s, t
    <3>5. IsFiniteSet(Z!Queued) => /\ IsFiniteSet(Z!Queued')
                                   /\ Cardinality(Z!Queued') = Cardinality(Z!Queued) + 1
      BY <1>6, <3>1, <3>3, <3>4, LongerQueue
    <3>6. IsFiniteSet(Z!Queued) => Cardinality(Z!Queued) \in Nat
      BY FS_CardinalityType
    <3>7. z_pool \in Int /\ PoolSize \in Nat
      BY <1>0, ZcapConsts DEF ZcapTypes
    <3>8. QED
      BY <1>0, <2>2, <3>5, <3>6, <3>7 DEF NodesCounted
  <2>3. QED
    BY <1>2, <2>1, <2>2
<1>22. QED
  BY <1>11, <1>12, <1>13, <1>16, <1>18, <1>19, <1>20, <1>21 DEF ZcapInv

-----------------------------------------------------------------------------
\* No more is analyzed than has arrived.
LEMMA NoMoreThanArrived ==
  ASSUME NEW n \in Nat, NEW m \in Nat, NEW s \in [1..n -> 1..m],
         \A i, j \in 1..n : i < j => s[i] # s[j]
  PROVE  n <= m
<1>1. IsFiniteSet(1..m) /\ Cardinality(1..m) = m
  BY FS_Interval
<1>2. IsFiniteSet(1..n) /\ Cardinality(1..n) = n
  BY FS_Interval
<1>3. CASE n > m
  <2>1. PICK i \in 1..n, j \in 1..n : i # j /\ s[i] = s[j]
    BY <1>1, <1>2, <1>3, FS_PigeonHole
  <2>2. i < j \/ j < i
    BY <2>1
  <2>3. QED
    BY <2>1, <2>2
<1>4. QED
  BY <1>3

\* What a filter that is complete asks for.
LEMMA FieldsKnown ==
  ASSUME NEW f \in Filters
  PROVE  Len(Z!FilterFields[f]) \in Nat
BY ZcapConsts DEF Z!FilterFields

\* The thread of a queue analyzes the first packet of it, which stays there.
LEMMA ZcapAnalyze ==
  ASSUME ZcapInv, NEW q \in Queues, Z!AlzPacket(q)
  PROVE  ZcapInv'
<1>0. ZcapTypes /\ InTurn /\ BlocksOrdered /\ FramesOrdered /\ QueuesOrdered /\ AnalyzedOrdered
      /\ FiltersKept /\ NodesCounted
  BY DEF ZcapInv
<1> DEFINE p == Head(z_aq[q])
           n == Len(z_analyzed)
           full == [g \in Filters |-> Len(Z!FilterFields[g])]
<1>1. /\ z_alz[q] = "pop" /\ z_aq[q] # <<>> /\ z_analyzed' = Append(z_analyzed, p)
      /\ z_alz' = [z_alz EXCEPT ![q] = "match"]
      /\ z_called' = z_called \cup {<<f, Len(z_analyzed')>> : f \in Z!Matching(p, z_filters)}
  BY DEF Z!AlzPacket
<1>2. /\ z_ring' = z_ring /\ z_kernel' = z_kernel /\ z_block_idx' = z_block_idx
      /\ z_rx' = z_rx /\ z_frames' = z_frames /\ z_kind' = z_kind /\ z_aq' = z_aq
      /\ z_filters' = z_filters /\ z_pool' = z_pool /\ z_since' = z_since
  BY DEF Z!AlzPacket
<1>3. z_frames \in Seq(Arrived) /\ z_analyzed \in Seq(Arrived) /\ Len(z_kind) \in Nat
      /\ \A r \in Queues : z_aq[r] \in Seq(Arrived)
  BY <1>0, ZcapSeqs
<1>4. Len(z_aq[q]) > 0 /\ p = z_aq[q][1] /\ p \in Arrived
  BY <1>1, <1>3, TailOf
<1> HIDE DEF p, full
<1>5. /\ z_analyzed' \in Seq(Arrived) /\ Len(z_analyzed') = n + 1 /\ z_analyzed'[n + 1] = p
      /\ \A i \in 1..n : z_analyzed'[i] = z_analyzed[i]
      /\ n \in Nat
  BY <1>1, <1>3, <1>4, AppendOf
<1>6. /\ z_alz \in [Queues -> {"off", "test", "pop", "match", "end"}]
      /\ z_alz' \in [Queues -> {"off", "test", "pop", "match", "end"}]
      /\ z_alz'[q] = "match" /\ \A r \in Queues : r # q => z_alz'[r] = z_alz[r]
  BY <1>0, <1>1 DEF ZcapTypes
<1>r. z_rx # "off"
  BY <1>0, <1>1 DEF ZcapTypes
<1>8. \A b \in ZcapBlock : (Under(b)' <=> Under(b)) /\ Ahead(b)' = Ahead(b)
  BY <1>2 DEF Under, Ahead
<1>10. 1 \in 1..Len(z_aq[q]) /\ ZcapQueue(p) = q
  <2>1. 1 \in 1..Len(z_aq[q])
    BY <1>3, <1>4
  <2>2. QED
    BY <1>0, <1>4, <2>1 DEF QueuesOrdered
<1>11. \A i \in 1..(n + 1) : i \in 1..n \/ i = n + 1
  BY <1>5
<1>12. ZcapTypes'
  <2>1. z_called' \subseteq Filters \X (1..Len(z_analyzed'))
    <3>1. z_called \subseteq Filters \X (1..(n + 1))
      BY <1>0, <1>5 DEF ZcapTypes
    <3>2. n + 1 \in 1..(n + 1)
      BY <1>5
    <3>3. \A f \in Z!Matching(p, z_filters) : <<f, n + 1>> \in Filters \X (1..(n + 1))
      BY <3>2 DEF Z!Matching
    <3>4. QED
      BY <1>1, <1>5, <3>1, <3>3
  <2>2. QED
    BY <1>0, <1>r, <1>2, <1>5, <1>6, <2>1 DEF ZcapTypes, Arrived, ZcapBlock
<1>13. InTurn'
  BY <1>0, <1>2 DEF InTurn, Ahead
<1>14. BlocksOrdered'
  BY <1>0, <1>2, <1>8 DEF BlocksOrdered, Rising, Lower
<1>15. FramesOrdered'
  BY <1>0, <1>2, <1>8 DEF FramesOrdered, Rising, Lower
<1>16. \A t : Lower(z_aq[q], t) => \A j \in 1..Len(t) : p < t[j]
  BY <1>4, <1>10 DEF Lower
<1>17. \A j \in 2..Len(z_aq[q]) : p < z_aq[q][j]
  <2>1. \A j \in 2..Len(z_aq[q]) : j \in 1..Len(z_aq[q]) /\ 1 < j
    BY <1>3
  <2>2. QED
    BY <1>0, <1>4, <1>10, <2>1 DEF QueuesOrdered, Rising
<1>18. QueuesOrdered'
  <2> SUFFICES ASSUME NEW r \in Queues
               PROVE  /\ Rising(z_aq[r])
                      /\ z_alz'[r] = "match" => z_aq[r] # <<>>
                      /\ \A i \in 1..Len(z_aq[r]) : Shard[Z!FlowKey(z_kind[z_aq[r][i]])] = r
                      /\ Lower(z_aq[r], z_frames)
                      /\ \A b \in ZcapBlock : Under(b) => Lower(z_aq[r], z_ring[b].frames)
    BY <1>2, <1>8 DEF QueuesOrdered, Rising, Lower, ZcapBlock, ZcapQueue
  <2>1. z_alz'[r] = "match" => z_aq[r] # <<>>
    BY <1>0, <1>1, <1>6 DEF QueuesOrdered
  <2>2. QED
    BY <1>0, <2>1 DEF QueuesOrdered, ZcapQueue
<1>19. \A i \in 1..n : ZcapQueue(z_analyzed[i]) \in Queues
  BY <1>0, <1>3, ZcapQueueOf
<1>20. AnalyzedOrdered'
  <2> DEFINE next == [r \in Queues |-> IF z_alz'[r] = "match" THEN 2 ELSE 1]
  <2>1. Lower(z_analyzed', z_frames)
    <3>1. Lower(z_analyzed, z_frames) /\ Lower(z_aq[q], z_frames)
      BY <1>0 DEF AnalyzedOrdered, QueuesOrdered
    <3>2. QED
      BY <1>5, <1>11, <1>16, <3>1 DEF Lower
  <2>2. ASSUME NEW b \in ZcapBlock, Under(b) PROVE Lower(z_analyzed', z_ring[b].frames)
    <3>1. Lower(z_analyzed, z_ring[b].frames) /\ Lower(z_aq[q], z_ring[b].frames)
      BY <1>0, <2>2 DEF AnalyzedOrdered, QueuesOrdered
    <3>2. QED
      BY <1>5, <1>11, <1>16, <3>1 DEF Lower
  <2>3. ASSUME NEW i \in 1..(n + 1),
               NEW j \in next[ZcapQueue(z_analyzed'[i])]..Len(z_aq[ZcapQueue(z_analyzed'[i])])
        PROVE  z_analyzed'[i] < z_aq[ZcapQueue(z_analyzed'[i])][j]
    <3>1. CASE i = n + 1
      <4>1. ZcapQueue(z_analyzed'[i]) = q /\ next[q] = 2
        BY <1>5, <1>6, <1>10, <3>1
      <4>2. j \in 2..Len(z_aq[q])
        BY <2>3, <4>1
      <4>3. QED
        BY <1>5, <1>17, <3>1, <4>1, <4>2
    <3>2. CASE i \in 1..n
      <4> DEFINE r == ZcapQueue(z_analyzed[i])
      <4>1. r \in Queues /\ z_analyzed'[i] = z_analyzed[i]
        BY <1>5, <1>19, <3>2
      <4>2. \A k \in From(r)..Len(z_aq[r]) : z_analyzed[i] < z_aq[r][k]
        BY <1>0, <3>2 DEF AnalyzedOrdered
      <4>3. ZcapQueue(z_analyzed'[i]) = r
        BY <4>1
      <4> HIDE DEF r
      <4>4. From(r) <= next[r] /\ From(r) \in Nat /\ next[r] \in Nat
        BY <1>1, <1>6, <4>1 DEF From
      <4>5. j \in From(r)..Len(z_aq[r])
        BY <2>3, <4>3, <4>4
      <4>6. QED
        BY <4>1, <4>2, <4>3, <4>5
    <3>3. QED
      BY <1>11, <3>1, <3>2
  <2>4. ASSUME NEW i \in 1..(n + 1), NEW j \in 1..(n + 1), i < j,
               ZcapQueue(z_analyzed'[i]) = ZcapQueue(z_analyzed'[j])
        PROVE  z_analyzed'[i] < z_analyzed'[j]
    <3>1. i \in 1..n /\ z_analyzed'[i] = z_analyzed[i]
      BY <1>5, <2>4
    <3>2. CASE j \in 1..n
      <4>1. z_analyzed'[j] = z_analyzed[j]
        BY <1>5, <3>2
      <4>2. ZcapQueue(z_analyzed[i]) = ZcapQueue(z_analyzed[j])
        BY <2>4, <3>1, <4>1
      <4>3. QED
        BY <1>0, <2>4, <3>1, <3>2, <4>1, <4>2 DEF AnalyzedOrdered
    <3>3. CASE j = n + 1
      <4>1. ZcapQueue(z_analyzed[i]) = q
        BY <1>5, <1>10, <2>4, <3>1, <3>3
      <4>2. \A k \in 1..Len(z_aq[q]) : z_analyzed[i] < z_aq[q][k]
        BY <1>0, <1>1, <3>1, <4>1 DEF AnalyzedOrdered, From
      <4>3. QED
        BY <1>4, <1>5, <1>10, <3>1, <3>3, <4>2
    <3>4. QED
      BY <1>11, <3>2, <3>3
  <2>5. \A i \in 1..(n + 1) : ZcapQueue(z_analyzed[i])' = ZcapQueue(z_analyzed'[i])
    BY <1>2 DEF ZcapQueue
  <2>6. /\ \A i \in 1..(n + 1) : ZcapQueue(z_analyzed'[i]) \in Queues
        /\ \A r \in Queues : From(r)' = next[r]
    BY <1>0, <1>5, ZcapQueueOf DEF From
  <2> HIDE DEF next
  <2>7. QED
    BY <1>2, <1>5, <1>8, <2>1, <2>2, <2>3, <2>4, <2>5, <2>6 DEF AnalyzedOrdered, Lower, ZcapBlock
<1>21. FiltersKept'
  <2>1. n + 1 <= ZcapPackets
    <3>1. \A i, j \in 1..(n + 1) : i < j => z_analyzed'[i] # z_analyzed'[j]
      <4> SUFFICES ASSUME NEW i \in 1..(n + 1), NEW j \in 1..(n + 1), i < j,
                          z_analyzed'[i] = z_analyzed'[j]
                   PROVE  FALSE
        OBVIOUS
      <4>1. z_analyzed'[i] < z_analyzed'[j]
        BY <1>5, <1>20 DEF AnalyzedOrdered, ZcapQueue
      <4>2. z_analyzed'[i] \in Nat /\ z_analyzed'[j] \in Nat
        BY <1>5 DEF Arrived
      <4>3. QED
        BY <4>1, <4>2
    <3>2. z_analyzed' \in [1..(n + 1) -> 1..Len(z_kind)]
      BY <1>5 DEF Arrived
    <3>3. n + 1 \in Nat /\ Len(z_kind) <= ZcapPackets
      BY <1>0, <1>5 DEF ZcapTypes
    <3>4. n + 1 <= Len(z_kind)
      BY <1>3, <3>1, <3>2, <3>3, NoMoreThanArrived
    <3>5. QED
      BY <1>3, <1>5, <3>3, <3>4, ZcapConsts
  <2>2. \A f \in Filters : z_since[f] = ZcapPackets \/ z_filters[f] = Len(Z!FilterFields[f])
    BY <1>0, <1>1 DEF FiltersKept
  <2>3. \A x : Z!Matching(x, full)' = Z!Matching(x, full)
    BY <1>2 DEF Z!Matching, full
  <2>4. ASSUME NEW f \in z_called', f[2] > z_since[f[1]]
        PROVE  f[1] \in Z!Matching(z_analyzed'[f[2]], full)
    <3>1. CASE f \in z_called
      <4>1. f[2] \in 1..n
        BY <1>0, <3>1 DEF ZcapTypes
      <4>2. QED
        BY <1>0, <1>5, <2>4, <3>1, <4>1 DEF FiltersKept, full
    <3>2. CASE f \in {<<g, n + 1>> : g \in Z!Matching(p, z_filters)}
      <4>1. PICK g \in Z!Matching(p, z_filters) : f = <<g, n + 1>>
        BY <3>2
      <4>2. g \in Filters /\ f[1] = g /\ f[2] = n + 1
        BY <4>1 DEF Z!Matching
      <4>3. n + 1 > z_since[g] /\ z_since[g] \in Nat
        BY <1>0, <2>4, <4>2 DEF ZcapTypes
      <4>4. z_filters[g] = Len(Z!FilterFields[g])
        BY <1>5, <2>1, <2>2, <4>2, <4>3, ZcapConsts
      <4>5. full[g] = z_filters[g]
        BY <4>2, <4>4 DEF full
      <4>6. g \in Z!Matching(p, full)
        BY <4>1, <4>5 DEF Z!Matching
      <4>7. QED
        BY <1>5, <4>2, <4>6
    <3>3. QED
      BY <1>1, <1>5, <3>1, <3>2
  <2>5. QED
    BY <1>2, <2>2, <2>3, <2>4 DEF FiltersKept, full, Z!Matching
<1>22. NodesCounted'
  BY <1>0, <1>2, NodesStay
<1>23. QED
  BY <1>12, <1>13, <1>14, <1>15, <1>18, <1>20, <1>21, <1>22 DEF ZcapInv

\* It puts the node back, and with that the packet is off the queue.
LEMMA ZcapPut ==
  ASSUME ZcapInv, NEW q \in Queues, Z!AlzPut(q)
  PROVE  ZcapInv'
<1>0. ZcapTypes /\ InTurn /\ BlocksOrdered /\ FramesOrdered /\ QueuesOrdered /\ AnalyzedOrdered
      /\ FiltersKept /\ NodesCounted
  BY DEF ZcapInv
<1>1. /\ z_alz[q] = "match" /\ z_alz' = [z_alz EXCEPT ![q] = "pop"]
      /\ z_aq' = [z_aq EXCEPT ![q] = Tail(@)] /\ z_pool' = z_pool + 1
  BY DEF Z!AlzPut
<1>2. /\ z_ring' = z_ring /\ z_kernel' = z_kernel /\ z_block_idx' = z_block_idx
      /\ z_rx' = z_rx /\ z_frames' = z_frames /\ z_kind' = z_kind
      /\ z_filters' = z_filters /\ z_since' = z_since /\ z_analyzed' = z_analyzed
      /\ z_called' = z_called
  BY DEF Z!AlzPut, Z!history
<1>3. z_frames \in Seq(Arrived) /\ z_analyzed \in Seq(Arrived) /\ Len(z_kind) \in Nat
      /\ \A r \in Queues : z_aq[r] \in Seq(Arrived)
  BY <1>0, ZcapSeqs
<1>n. z_aq[q] # <<>>
  BY <1>0, <1>1 DEF QueuesOrdered
<1> DEFINE rest == Tail(z_aq[q])
<1>4. /\ rest \in Seq(Arrived) /\ Len(rest) = Len(z_aq[q]) - 1 /\ Len(z_aq[q]) > 0
      /\ \A i \in 1..Len(rest) : rest[i] = z_aq[q][i + 1]
  BY <1>n, <1>3, TailOf
<1> HIDE DEF rest
<1>5. z_aq' \in [Queues -> Seq(Arrived)]
  <2>1. z_aq \in [Queues -> Seq(Arrived)] /\ z_aq' = [z_aq EXCEPT ![q] = rest]
    BY <1>0, <1>1 DEF ZcapTypes, rest
  <2>2. QED
    BY <1>4, <2>1
<1>6. z_aq'[q] = rest /\ \A r \in Queues : r # q => z_aq'[r] = z_aq[r]
  BY <1>0, <1>1 DEF ZcapTypes, rest
<1>7. /\ z_alz' \in [Queues -> {"off", "test", "pop", "match", "end"}]
      /\ z_alz'[q] = "pop" /\ \A r \in Queues : r # q => z_alz'[r] = z_alz[r]
  BY <1>0, <1>1 DEF ZcapTypes
<1>r. z_rx # "off"
  BY <1>0, <1>1 DEF ZcapTypes
<1>8. \A b \in ZcapBlock : (Under(b)' <=> Under(b)) /\ Ahead(b)' = Ahead(b)
  BY <1>2 DEF Under, Ahead
<1>9. \A i \in 1..Len(rest) : i + 1 \in 1..Len(z_aq[q]) /\ i + 1 \in 2..Len(z_aq[q])
  BY <1>3, <1>4
<1>12. ZcapTypes'
  <2>1. z_pool' \in Int
    BY <1>0, <1>1 DEF ZcapTypes
  <2>2. QED
    BY <1>0, <1>r, <1>2, <1>5, <1>7, <2>1 DEF ZcapTypes, Arrived, ZcapBlock
<1>13. InTurn'
  BY <1>0, <1>2 DEF InTurn, Ahead
<1>14. BlocksOrdered'
  BY <1>0, <1>2, <1>8 DEF BlocksOrdered, Rising, Lower
<1>15. FramesOrdered'
  BY <1>0, <1>2, <1>8 DEF FramesOrdered, Rising, Lower
<1>16. \A t : Lower(z_aq[q], t) => Lower(rest, t)
  BY <1>4, <1>9 DEF Lower
<1>17. Rising(rest)
  <2>1. Rising(z_aq[q])
    BY <1>0 DEF QueuesOrdered
  <2>2. ASSUME NEW i \in 1..Len(rest), NEW j \in 1..Len(rest), i < j PROVE rest[i] < rest[j]
    <3>1. i + 1 \in 1..Len(z_aq[q]) /\ j + 1 \in 1..Len(z_aq[q]) /\ i + 1 < j + 1
      BY <1>9, <2>2
    <3>2. QED
      BY <1>4, <2>1, <3>1 DEF Rising
  <2>3. QED
    BY <2>2 DEF Rising
<1>18. QueuesOrdered'
  <2> SUFFICES ASSUME NEW r \in Queues
               PROVE  /\ Rising(z_aq'[r])
                      /\ z_alz'[r] = "match" => z_aq'[r] # <<>>
                      /\ \A i \in 1..Len(z_aq'[r]) : Shard[Z!FlowKey(z_kind[z_aq'[r][i]])] = r
                      /\ Lower(z_aq'[r], z_frames)
                      /\ \A b \in ZcapBlock : Under(b) => Lower(z_aq'[r], z_ring[b].frames)
    BY <1>2, <1>8 DEF QueuesOrdered, Rising, Lower, ZcapBlock, ZcapQueue
  <2>0. /\ Rising(z_aq[r]) /\ Lower(z_aq[r], z_frames)
        /\ z_alz[r] = "match" => z_aq[r] # <<>>
        /\ \A i \in 1..Len(z_aq[r]) : Shard[Z!FlowKey(z_kind[z_aq[r][i]])] = r
        /\ \A b \in ZcapBlock : Under(b) => Lower(z_aq[r], z_ring[b].frames)
    BY <1>0 DEF QueuesOrdered, ZcapQueue
  <2>1. CASE r # q
    BY <1>6, <1>7, <2>0, <2>1
  <2>2. CASE r = q
    <3>1. Lower(rest, z_frames) /\ \A b \in ZcapBlock : Under(b) => Lower(rest, z_ring[b].frames)
      BY <1>16, <2>0, <2>2
    <3>2. \A i \in 1..Len(rest) : Shard[Z!FlowKey(z_kind[rest[i]])] = q
      BY <1>4, <1>9, <2>0, <2>2
    <3>3. QED
      BY <1>6, <1>7, <1>17, <2>2, <3>1, <3>2
  <2>3. QED
    BY <2>1, <2>2
<1>19. \A i \in 1..Len(z_analyzed) : ZcapQueue(z_analyzed[i]) \in Queues
  BY <1>0, <1>3, ZcapQueueOf
<1>20. AnalyzedOrdered'
  <2> DEFINE next == [r \in Queues |-> IF z_alz'[r] = "match" THEN 2 ELSE 1]
  <2>1. ASSUME NEW i \in 1..Len(z_analyzed),
               NEW j \in next[ZcapQueue(z_analyzed[i])]..Len(z_aq'[ZcapQueue(z_analyzed[i])])
        PROVE  z_analyzed[i] < z_aq'[ZcapQueue(z_analyzed[i])][j]
    <3> DEFINE r == ZcapQueue(z_analyzed[i])
    <3>1. r \in Queues
      BY <1>19
    <3>2. \A k \in From(r)..Len(z_aq[r]) : z_analyzed[i] < z_aq[r][k]
      BY <1>0 DEF AnalyzedOrdered
    <3>4. j \in (IF z_alz'[r] = "match" THEN 2 ELSE 1)..Len(z_aq'[r])
      BY <2>1, <3>1
    <3> HIDE DEF r
    <3>5. CASE r # q
      <4>1. j \in From(r)..Len(z_aq[r]) /\ z_aq'[r] = z_aq[r]
        BY <1>6, <1>7, <3>1, <3>4, <3>5 DEF From
      <4>2. z_analyzed[i] < z_aq[r][j]
        BY <3>2, <4>1
      <4>3. QED
        BY <4>1, <4>2 DEF r
    <3>6. CASE r = q
      <4>1. From(r) = 2 /\ j \in 1..Len(rest)
        BY <1>1, <1>6, <1>7, <3>4, <3>6 DEF From
      <4>2. j + 1 \in From(r)..Len(z_aq[r]) /\ z_aq'[r][j] = z_aq[r][j + 1]
        BY <1>4, <1>6, <1>9, <3>6, <4>1
      <4>3. QED
        BY <3>2, <4>2 DEF r
    <3>7. QED
      BY <3>5, <3>6 DEF r
  <2>2. \A b \in ZcapBlock : Under(b)' => Lower(z_analyzed, z_ring[b].frames)
    BY <1>0, <1>8 DEF AnalyzedOrdered
  <2>3. /\ Lower(z_analyzed, z_frames)
        /\ \A i, j \in 1..Len(z_analyzed) :
             i < j /\ ZcapQueue(z_analyzed[i]) = ZcapQueue(z_analyzed[j])
             => z_analyzed[i] < z_analyzed[j]
    BY <1>0 DEF AnalyzedOrdered
  <2>4. \A r \in Queues : From(r)' = next[r]
    BY DEF From
  <2>5. \A i \in 1..Len(z_analyzed) : ZcapQueue(z_analyzed[i])' = ZcapQueue(z_analyzed[i])
    BY <1>2 DEF ZcapQueue
  <2> HIDE DEF next
  <2>6. QED
    BY <1>2, <1>19, <2>1, <2>2, <2>3, <2>4, <2>5 DEF AnalyzedOrdered, Lower, ZcapBlock
<1>21. FiltersKept'
  <2>1. \A f \in Filters : z_since[f] = ZcapPackets \/ z_filters[f] = Len(Z!FilterFields[f])
    BY <1>0, <1>1 DEF FiltersKept
  <2>2. QED
    BY <1>0, <1>2, <2>1 DEF FiltersKept, Z!Matching
<1>22. NodesCounted'
  <2> DEFINE s == [r \in Queues |-> Len(z_aq'[r])]
             t == [r \in Queues |-> Len(z_aq[r])]
  <2>1. s \in [Queues -> Nat] /\ t \in [Queues -> Nat]
    BY <1>3, <1>5
  <2>2. t[q] = s[q] + 1 /\ \A r \in Queues : r # q => t[r] = s[r]
    BY <1>3, <1>4, <1>6
  <2>3. /\ Z!Queued = UNION {{r} \X (1..t[r]) : r \in Queues}
        /\ Z!Queued' = UNION {{r} \X (1..s[r]) : r \in Queues}
    BY DEF Z!Queued
  <2> HIDE DEF s, t
  <2>4. IsFiniteSet(Z!Queued) => /\ IsFiniteSet(Z!Queued')
                                 /\ Cardinality(Z!Queued') = Cardinality(Z!Queued) - 1
    <3>1. IsFiniteSet(Z!Queued) => /\ IsFiniteSet(Z!Queued')
                                   /\ Cardinality(Z!Queued') = Cardinality(Z!Queued) - 1
      BY <2>1, <2>2, <2>3, LongerQueue, SMTT(60)
    <3>2. QED
      BY <3>1
  <2>5. IsFiniteSet(Z!Queued) => Cardinality(Z!Queued) \in Nat
    BY FS_CardinalityType
  <2>6. z_pool \in Int /\ PoolSize \in Nat
    BY <1>0, ZcapConsts DEF ZcapTypes
  <2>7. QED
    BY <1>0, <1>1, <2>4, <2>5, <2>6 DEF NodesCounted
<1>23. QED
  BY <1>12, <1>13, <1>14, <1>15, <1>18, <1>20, <1>21, <1>22 DEF ZcapInv

-----------------------------------------------------------------------------
\* What no packet moves in keeps it all, if the filters are kept.
LEMMA ZcapQuiet ==
  ASSUME ZcapInv,
         UNCHANGED <<z_ring, z_kernel, z_block_idx, z_frames, z_aq, z_kind, z_analyzed, z_called,
                     z_pool>>,
         z_rx' = "frames" <=> z_rx = "frames",
         z_rx' \in {"off", "wait", "scan", "frames", "end"},
         z_alz' \in [Queues -> {"off", "test", "pop", "match", "end"}],
         \A q \in Queues : (z_alz'[q] = "match" <=> z_alz[q] = "match"),
         z_rx' = "off" => \A q \in Queues : z_alz'[q] = "off",
         z_filters' \in [Filters -> Int],
         z_since' \in [Filters -> Nat], FiltersKept'
  PROVE  ZcapInv'
<1>0. ZcapTypes /\ InTurn /\ BlocksOrdered /\ FramesOrdered /\ QueuesOrdered /\ AnalyzedOrdered
      /\ NodesCounted
  BY DEF ZcapInv
<1>1. /\ z_ring' = z_ring /\ z_kernel' = z_kernel /\ z_block_idx' = z_block_idx
      /\ z_frames' = z_frames /\ z_aq' = z_aq /\ z_kind' = z_kind /\ z_analyzed' = z_analyzed
      /\ z_called' = z_called /\ z_pool' = z_pool
  OBVIOUS
<1>2. InTurn' /\ BlocksOrdered' /\ FramesOrdered' /\ QueuesOrdered' /\ AnalyzedOrdered'
  <2>1. z_analyzed \in Seq(Arrived)
    BY <1>0 DEF ZcapTypes
  <2>2. \A i \in 1..Len(z_analyzed) : ZcapQueue(z_analyzed[i]) \in Queues
    BY <1>0, <2>1, ZcapQueueOf
  <2>3. QED
    BY <1>0, <2>2, ZcapStill
<1>3. ZcapTypes'
  BY <1>0, <1>1 DEF ZcapTypes, Arrived, ZcapBlock
<1>4. NodesCounted'
  BY <1>0, <1>1, NodesStay
<1>5. QED
  BY <1>2, <1>3, <1>4 DEF ZcapInv

\* Filters are kept as long as none is registered and nothing is analyzed.
LEMMA FiltersStay ==
  ASSUME FiltersKept, UNCHANGED <<z_filters, z_since, z_called, z_analyzed, z_kind>>,
         z_rx = "end" /\ (\A q \in Queues : z_alz[q] = "end")
         => z_rx' = "end" /\ \A q \in Queues : z_alz'[q] = "end"
  PROVE  FiltersKept'
<1>1. \A x, h : Z!Matching(x, h)' = Z!Matching(x, h)
  BY DEF Z!Matching
<1>2. QED
  BY <1>1 DEF FiltersKept, Z!Matching

\* A filter is given its place, and its fields; it is complete from the last on.
LEMMA ZcapRegister ==
  ASSUME ZcapInv, NEW f \in Filters, Z!RegisterFilter(f) \/ Z!RegisterField(f)
  PROVE  ZcapInv'
<1>0. ZcapTypes /\ FiltersKept
  BY DEF ZcapInv
<1>1. /\ z_ring' = z_ring /\ z_kernel' = z_kernel /\ z_block_idx' = z_block_idx
      /\ z_frames' = z_frames /\ z_aq' = z_aq /\ z_kind' = z_kind /\ z_analyzed' = z_analyzed
      /\ z_called' = z_called /\ z_pool' = z_pool /\ z_rx' = z_rx /\ z_alz' = z_alz
  BY DEF Z!RegisterFilter, Z!RegisterField, Z!thread, Z!history
<1>2. /\ z_filters \in [Filters -> Int] /\ z_since \in [Filters -> Nat]
      /\ Len(z_analyzed) \in Nat /\ Len(Z!FilterFields[f]) \in Nat
      /\ z_called \subseteq Filters \X (1..Len(z_analyzed))
  BY <1>0, FieldsKnown DEF ZcapTypes
\* The filter has no packet counted for it, before or after, but when complete.
<1>3. /\ z_filters' \in [Filters -> Int] /\ z_since' \in [Filters -> Nat]
      /\ z_filters[f] # Len(Z!FilterFields[f])
      /\ \/ z_since'[f] = z_since[f]
         \/ z_filters'[f] = Len(Z!FilterFields[f]) /\ z_since'[f] = Len(z_analyzed)
      /\ \A g \in Filters \ {f} : z_filters'[g] = z_filters[g] /\ z_since'[g] = z_since[g]
  <2>1. CASE Z!RegisterFilter(f)
    <3>1. z_filters[f] = -1 /\ z_filters' = [z_filters EXCEPT ![f] = 0] /\ z_since' = z_since
      BY <2>1 DEF Z!RegisterFilter, Z!history
    <3>2. QED
      BY <1>2, <3>1
  <2>2. CASE Z!RegisterField(f)
    <3>1. /\ z_filters[f] \in 0..(Len(Z!FilterFields[f]) - 1)
          /\ z_filters' = [z_filters EXCEPT ![f] = @ + 1]
          /\ z_since' = [z_since EXCEPT ![f] = IF z_filters'[f] = Len(Z!FilterFields[f])
                                               THEN Len(z_analyzed) ELSE @]
      BY <2>2 DEF Z!RegisterField
    <3>2. QED
      BY <1>2, <3>1
  <2>3. QED
    BY <2>1, <2>2
<1>4. FiltersKept'
  <2>1. \/ z_rx' = "end" /\ \A q \in Queues : z_alz'[q] = "end"
        \/ \A g \in Filters : z_since'[g] = ZcapPackets \/ z_filters'[g] = Len(Z!FilterFields[g])
    BY <1>0, <1>1, <1>3 DEF FiltersKept
  <2>2. \A x, h : Z!Matching(x, h)' = Z!Matching(x, h)
    BY <1>1 DEF Z!Matching
  <2>3. ASSUME NEW c \in z_called, c[2] > z_since'[c[1]]
        PROVE  c[2] > z_since[c[1]]
    <3>1. c[1] \in Filters /\ c[2] \in 1..Len(z_analyzed)
      BY <1>2
    <3>2. CASE c[1] = f
      BY <1>2, <1>3, <2>3, <3>1, <3>2
    <3>3. CASE c[1] # f
      BY <1>3, <2>3, <3>1, <3>3
    <3>4. QED
      BY <3>2, <3>3
  <2>4. QED
    BY <1>0, <1>1, <2>1, <2>2, <2>3 DEF FiltersKept, Z!Matching
<1>5. /\ z_rx' \in {"off", "wait", "scan", "frames", "end"}
      /\ z_alz' \in [Queues -> {"off", "test", "pop", "match", "end"}]
      /\ \A q \in Queues : (z_alz'[q] = "match" <=> z_alz[q] = "match")
      /\ z_rx' = "off" => \A q \in Queues : z_alz'[q] = "off"
  <2>1. z_rx' = z_rx /\ z_alz' = z_alz
    BY <1>1
  <2>2. QED
    BY <1>0, <2>1 DEF ZcapTypes
<1>6. QED
  BY <1>1, <1>3, <1>4, <1>5, ZcapQuiet

\* The end of capture empties the queues, with nobody left to analyze.
LEMMA ZcapEnd == ZcapInv /\ Z!End => ZcapInv'
<1> SUFFICES ASSUME ZcapInv, Z!End PROVE ZcapInv'
  OBVIOUS
<1>0. ZcapTypes /\ InTurn /\ BlocksOrdered /\ FramesOrdered /\ QueuesOrdered /\ AnalyzedOrdered
      /\ FiltersKept /\ NodesCounted
  BY DEF ZcapInv
<1>1. /\ z_rx = "end" /\ \A q \in Queues : z_alz[q] = "end"
      /\ z_pool' = PoolSize /\ z_aq' = [q \in Queues |-> <<>>]
      /\ z_filters' = [f \in Filters |-> -1]
  BY DEF Z!End
<1>2. /\ z_ring' = z_ring /\ z_kernel' = z_kernel /\ z_block_idx' = z_block_idx
      /\ z_rx' = z_rx /\ z_frames' = z_frames /\ z_kind' = z_kind /\ z_alz' = z_alz
      /\ z_since' = z_since /\ z_analyzed' = z_analyzed
      /\ z_called' = z_called
  BY DEF Z!End, Z!thread, Z!history
<1>3. \A b \in ZcapBlock : (Under(b)' <=> Under(b)) /\ Ahead(b)' = Ahead(b)
  BY <1>2 DEF Under, Ahead
<1>4. z_analyzed \in Seq(Arrived)
  BY <1>0, ZcapSeqs
<1>5. ZcapTypes'
  <2>1. z_aq' \in [Queues -> Seq(Arrived)] /\ z_filters' \in [Filters -> Int] /\ z_pool' \in Int
    BY <1>1, ZcapConsts
  <2>2. QED
    BY <1>0, <1>2, <2>1 DEF ZcapTypes, Arrived, ZcapBlock
<1>6. InTurn'
  BY <1>0, <1>2 DEF InTurn, Ahead
<1>7. BlocksOrdered'
  BY <1>0, <1>2, <1>3 DEF BlocksOrdered, Rising, Lower
<1>8. FramesOrdered'
  BY <1>0, <1>2, <1>3 DEF FramesOrdered, Rising, Lower
<1>9. QueuesOrdered'
  BY <1>1, <1>2 DEF QueuesOrdered, Rising, Lower
<1>10. AnalyzedOrdered'
  <2>1. \A i \in 1..Len(z_analyzed) : ZcapQueue(z_analyzed[i]) \in Queues
    BY <1>0, <1>4, ZcapQueueOf
  <2>2. \A i \in 1..Len(z_analyzed) : Len(z_aq'[ZcapQueue(z_analyzed[i])]) = 0
    BY <1>1, <2>1
  <2>3. \A i \in 1..Len(z_analyzed) : ZcapQueue(z_analyzed[i])' = ZcapQueue(z_analyzed[i])
    BY <1>2 DEF ZcapQueue
  <2>4. \A b \in ZcapBlock : Under(b)' => Lower(z_analyzed, z_ring[b].frames)
    BY <1>0, <1>3 DEF AnalyzedOrdered
  <2>5. /\ Lower(z_analyzed, z_frames)
        /\ \A i, j \in 1..Len(z_analyzed) :
             i < j /\ ZcapQueue(z_analyzed[i]) = ZcapQueue(z_analyzed[j])
             => z_analyzed[i] < z_analyzed[j]
    BY <1>0 DEF AnalyzedOrdered
  <2>6. QED
    BY <1>2, <2>2, <2>3, <2>4, <2>5 DEF AnalyzedOrdered, From, Lower, ZcapBlock, ZcapQueue
<1>11. FiltersKept'
  <2>1. \A x, h : Z!Matching(x, h)' = Z!Matching(x, h)
    BY <1>2 DEF Z!Matching
  <2>2. QED
    BY <1>0, <1>1, <1>2, <2>1 DEF FiltersKept, Z!Matching
<1>12. NodesCounted'
  <2>1. Z!Queued' = {}
    BY <1>1 DEF Z!Queued
  <2>2. IsFiniteSet(Z!Queued') /\ Cardinality(Z!Queued') = 0
    BY <2>1, FS_EmptySet
  <2>3. QED
    BY <1>1, <2>2, ZcapConsts DEF NodesCounted
<1>13. QED
  BY <1>5, <1>6, <1>7, <1>8, <1>9, <1>10, <1>11, <1>12 DEF ZcapInv

\* The others: starts and stops, waits, and the ends of threads.
LEMMA ZcapOther ==
  ASSUME ZcapInv,
         \/ Z!Register \/ Z!Start \/ Z!Stop \/ Z!RxWait
         \/ \E q \in Queues : Z!AlzLoop(q)
         \/ UNCHANGED Z!vars
  PROVE  ZcapInv'
<1>0. ZcapTypes /\ FiltersKept
  BY DEF ZcapInv
<1>1. /\ z_ring' = z_ring /\ z_kernel' = z_kernel /\ z_block_idx' = z_block_idx
      /\ z_frames' = z_frames /\ z_aq' = z_aq /\ z_kind' = z_kind /\ z_analyzed' = z_analyzed
      /\ z_called' = z_called /\ z_pool' = z_pool /\ z_filters' = z_filters /\ z_since' = z_since
  BY DEF Z!Register, Z!Start, Z!Stop, Z!RxWait, Z!AlzLoop, Z!vars, Z!thread, Z!history
<1>2. /\ z_rx' \in {"off", "wait", "scan", "frames", "end"}
      /\ z_rx' = "frames" <=> z_rx = "frames"
      /\ z_rx = "end" => z_rx' = "end"
  BY <1>0 DEF ZcapTypes, Z!Register, Z!Start, Z!Stop, Z!RxWait, Z!AlzLoop, Z!vars, Z!thread
<1>3. /\ z_alz \in [Queues -> {"off", "test", "pop", "match", "end"}]
      /\ z_rx = "off" => \A q \in Queues : z_alz[q] = "off"
      /\ z_rx' = "off" => z_rx = "off"
  BY <1>0 DEF ZcapTypes, Z!Register, Z!Start, Z!Stop, Z!RxWait, Z!AlzLoop, Z!vars, Z!thread
<1>4. /\ z_alz' \in [Queues -> {"off", "test", "pop", "match", "end"}]
      /\ z_rx = "end" => \A q \in Queues : z_alz[q] = "end" => z_alz'[q] = "end"
      /\ Z!Start \/ \A q \in Queues : (z_alz'[q] = "match" <=> z_alz[q] = "match")
      /\ z_rx' = "off" => \A q \in Queues : z_alz'[q] = "off"
  <2>1. CASE Z!Register \/ Z!Stop \/ Z!RxWait \/ UNCHANGED Z!vars
    <3>1. z_alz' = z_alz
      BY <2>1 DEF Z!Register, Z!Stop, Z!RxWait, Z!vars, Z!thread
    <3>2. QED
      BY <1>3, <3>1
  <2>2. CASE Z!Start
    BY <2>2 DEF Z!Start
  <2>3. CASE \E q \in Queues : Z!AlzLoop(q)
    BY <1>3, <2>3 DEF Z!AlzLoop
  <2>4. QED
    BY <2>1, <2>2, <2>3
<1>5. z_filters' \in [Filters -> Int] /\ z_since' \in [Filters -> Nat]
  BY <1>0, <1>1 DEF ZcapTypes
<1>6. FiltersKept'
  <2>1. z_rx = "end" /\ (\A q \in Queues : z_alz[q] = "end")
        => z_rx' = "end" /\ \A q \in Queues : z_alz'[q] = "end"
    BY <1>2, <1>4
  <2>2. QED
    BY <1>0, <1>1, <2>1, FiltersStay
<1>7. \A q \in Queues : (z_alz'[q] = "match" <=> z_alz[q] = "match")
  <2>1. CASE Z!Start
    BY <2>1, <1>0 DEF Z!Start, ZcapTypes
  <2>2. QED
    BY <1>4, <2>1
<1>8. QED
  BY <1>1, <1>2, <1>4, <1>5, <1>6, <1>7, ZcapQuiet

LEMMA ZcapNext == ZcapInv /\ [Z!Next]_(Z!vars) => ZcapInv'
<1> SUFFICES ASSUME ZcapInv, [Z!Next]_(Z!vars) PROVE ZcapInv'
  OBVIOUS
<1>1. CASE Z!KernelFill
  BY <1>1, ZcapFill
<1>2. CASE Z!RxBlock
  BY <1>2, ZcapRxBlock
<1>3. CASE Z!RxFrame
  BY <1>3, ZcapRxFrame
<1>4. CASE Z!RxReturn
  BY <1>4, ZcapRxReturn
<1>5. CASE Z!End
  BY <1>5, ZcapEnd
<1>6. CASE \E f \in Filters : Z!RegisterFilter(f) \/ Z!RegisterField(f)
  BY <1>6, ZcapRegister
<1>7. CASE \E q \in Queues : Z!AlzPacket(q)
  BY <1>7, ZcapAnalyze
<1>8. CASE \E q \in Queues : Z!AlzPut(q)
  BY <1>8, ZcapPut
<1>9. CASE \/ Z!Register \/ Z!Start \/ Z!Stop \/ Z!RxWait
           \/ \E q \in Queues : Z!AlzLoop(q)
           \/ UNCHANGED Z!vars
  BY <1>9, ZcapOther
<1>10. QED
  BY <1>1, <1>2, <1>3, <1>4, <1>5, <1>6, <1>7, <1>8, <1>9 DEF Z!Next, Z!Rx, Z!Alz

\* The packets of a flow share a queue.
LEMMA ZcapInOrder == ZcapInv => AnalyzedInOrder
<1> SUFFICES ASSUME ZcapInv PROVE AnalyzedInOrder
  OBVIOUS
<1>1. AnalyzedOrdered /\ FiltersKept /\ NodesCounted
  BY DEF ZcapInv
<1>2. \A i, j \in 1..Len(z_analyzed) :
        i < j /\ Z!FlowKey(z_kind[z_analyzed[i]]) = Z!FlowKey(z_kind[z_analyzed[j]])
        => z_analyzed[i] < z_analyzed[j]
  BY <1>1 DEF AnalyzedOrdered, ZcapQueue
<1>3. z_pool + Z!Cardinality(Z!Queued) = PoolSize
  <2>1. Z!Cardinality(Z!Queued) = Cardinality(Z!Queued)
    BY DEF Cardinality, Z!Cardinality
  <2>2. QED
    BY <1>1, <2>1 DEF NodesCounted
<1>4. QED
  BY <1>1, <1>2, <1>3 DEF AnalyzedInOrder, Z!AnalyzedInOrder, FiltersKept, NodesCounted

\* Whatever frames come in, however the kernel, the capture thread and those of
\* the queues take turns, and whenever filters are registered and capture is
\* ended, as long as no walk of the filters has lost the table: the packets of a flow are analyzed in the order they came in, none of
\* them twice, no node of the pool is lost, and no filter is called for what it
\* does not ask for from the time it is complete.
THEOREM ZcapAnalyzedInOrder == Z!Spec => []AnalyzedInOrder
<1>1. Z!Init => ZcapInv
  BY ZcapInit
<1>2. ZcapInv /\ [Z!Next]_(Z!vars) => ZcapInv'
  BY ZcapNext
<1>3. ZcapInv => AnalyzedInOrder
  BY ZcapInOrder
<1>4. QED
  BY <1>1, <1>2, <1>3, PTL DEF Z!Spec
=============================================================================
