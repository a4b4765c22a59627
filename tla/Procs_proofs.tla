---------------------------- MODULE Procs_proofs ----------------------------
(* What the read-write lock, the processes, the watchdog and the system log  *)
(* keep, for every value of the constants: each theorem is about the         *)
(* specification of one of them, which is what it does in MCRwLock as well.  *)
EXTENDS MCRwLock, Integers, SequenceTheorems, FiniteSetTheorems, TLAPS

-----------------------------------------------------------------------------
(* The read-write lock *)

\* The inductive invariant: the counter is exact, which is also what keeps it
\* a natural number when a reader decrements it.
IInv == TypeOK /\ WriterExclusion /\ ReadersCounted

\* The set of readers is finite, and entering or leaving it moves its
\* cardinality by one.
LEMMA ReadingFinite == IsFiniteSet(Reading)
BY ThreadsFinite, FS_Subset DEF Reading

LEMMA InitIInv == Init => IInv
<1> SUFFICES ASSUME Init PROVE IInv
  OBVIOUS
<1>1. TypeOK
  BY DEF Init, TypeOK
<1>2. Claiming = {} /\ Reading = {}
  BY DEF Init, Claiming, Reading
<1>3. WriterExclusion
  BY <1>2 DEF Init, WriterExclusion
<1>4. ReadersCounted
  BY <1>2, FS_EmptySet DEF Init, ReadersCounted
<1>5. QED
  BY <1>1, <1>3, <1>4 DEF IInv

\* A step that moves one thread between locations none of which is "reading"
\* leaves the set of readers alone.
LEMMA NextIInv == IInv /\ [Next]_vars => IInv'
<1> SUFFICES ASSUME IInv, [Next]_vars PROVE IInv'
  OBVIOUS
<1> USE DEF IInv, Goto
<1>1. ASSUME NEW t \in Threads,
             RdCall(t) \/ WrCall(t) \/ RdCheck(t)
      PROVE  IInv'
  <2>1. Claiming' = Claiming /\ Reading' = Reading
    BY <1>1 DEF RdCall, WrCall, RdCheck, TypeOK, Claiming, Reading
  <2>2. QED
    BY <1>1, <2>1 DEF RdCall, WrCall, RdCheck, TypeOK, WriterExclusion,
                      ReadersCounted
<1>2. ASSUME NEW t \in Threads, RdEnter(t)
      PROVE  IInv'
  <2>1. Claiming' = Claiming /\ Reading' = Reading \cup {t} /\ t \notin Reading
    BY <1>2 DEF RdEnter, TypeOK, Claiming, Reading
  <2>2. Cardinality(Reading') = Cardinality(Reading) + 1
    BY <2>1, ReadingFinite, FS_AddElement
  <2>3. QED
    BY <1>2, <2>1, <2>2 DEF RdEnter, TypeOK, WriterExclusion, ReadersCounted
<1>3. ASSUME NEW t \in Threads, RdUnlock(t)
      PROVE  IInv'
  <2>1. Claiming' = Claiming /\ Reading' = Reading \ {t} /\ t \in Reading
    BY <1>3 DEF RdUnlock, TypeOK, Claiming, Reading
  <2>2. /\ Cardinality(Reading') = Cardinality(Reading) - 1
        /\ Cardinality(Reading') \in Nat
    BY <2>1, ReadingFinite, FS_RemoveElement, FS_CardinalityType
  <2>3. QED
    BY <1>3, <2>1, <2>2 DEF RdUnlock, TypeOK, WriterExclusion, ReadersCounted
<1>4. ASSUME NEW t \in Threads, WrClaim(t)
      PROVE  IInv'
  <2>1. Reading' = Reading /\ Claiming' = Claiming \cup {t} /\ Claiming = {}
    BY <1>4 DEF WrClaim, TypeOK, WriterExclusion, Claiming, Reading
  <2>2. QED
    BY <1>4, <2>1 DEF WrClaim, TypeOK, WriterExclusion, ReadersCounted
<1>5. ASSUME NEW t \in Threads, WrEnter(t)
      PROVE  IInv'
  <2>1. Claiming' = Claiming /\ Reading' = Reading
    BY <1>5 DEF WrEnter, TypeOK, Claiming, Reading
  <2>2. QED
    BY <1>5, <2>1 DEF WrEnter, TypeOK, WriterExclusion, ReadersCounted
<1>6. ASSUME NEW t \in Threads, WrUnlock(t)
      PROVE  IInv'
  <2>1. Reading' = Reading /\ Claiming' = Claiming \ {t} /\ t \in Claiming
    BY <1>6 DEF WrUnlock, TypeOK, Claiming, Reading
  <2>2. Claiming' = {}
    BY <2>1 DEF WriterExclusion
  <2>3. QED
    BY <1>6, <2>1, <2>2 DEF WrUnlock, TypeOK, WriterExclusion, ReadersCounted
<1>7. CASE UNCHANGED vars
  BY <1>7 DEF vars, TypeOK, WriterExclusion, ReadersCounted, Claiming, Reading
<1>8. QED
  BY <1>1, <1>2, <1>3, <1>4, <1>5, <1>6, <1>7 DEF Next, Running

\* The inductive invariant holds of every behaviour of the lock.
LEMMA SpecIInv == Spec => []IInv
BY InitIInv, NextIInv, PTL DEF Spec

\* Two writers never hold the lock together, and writing is 1 exactly while
\* one of them does: for any finite set of threads.
THEOREM RwWriterExclusion == Spec => []WriterExclusion
<1>1. IInv => WriterExclusion
  BY DEF IInv
<1>2. QED
  BY <1>1, SpecIInv, PTL

\* The readers counter is the number of threads inside a read block, for any
\* finite set of threads: it returns to 0, so a writer is not shut out.
THEOREM RwReadersCounted == Spec => []ReadersCounted
<1>1. IInv => ReadersCounted
  BY DEF IInv
<1>2. QED
  BY <1>1, SpecIInv, PTL

\* While one writer keeps its claim no further reader gets past the check.
THEOREM RwClaimStopsReaders == Spec => ClaimStopsReaders
<1> DEFINE Stops == \A w \in Threads :
                      w \in Claiming /\ w \in Claiming'
                        => (Entering \cup Reading)' \subseteq Entering \cup Reading
<1>1. IInv /\ [Next]_vars => [Stops]_vars
  <2> SUFFICES ASSUME IInv, Next PROVE Stops
    OBVIOUS
  <2> SUFFICES ASSUME NEW w \in Threads, w \in Claiming, w \in Claiming'
               PROVE  (Entering \cup Reading)' \subseteq Entering \cup Reading
    OBVIOUS
  <2>1. writing = 1
    BY DEF IInv, WriterExclusion
  <2>2. PICK t \in Threads : RdCall(t) \/ WrCall(t) \/ Running(t)
    BY DEF Next
  <2>3. QED
    BY <2>1, <2>2 DEF Running, RdCall, WrCall, RdCheck, RdEnter, RdUnlock, WrClaim,
         WrEnter, WrUnlock, Goto, IInv, TypeOK, Entering, Reading
<1>2. QED
  BY <1>1, SpecIInv, PTL DEF Spec, ClaimStopsReaders

-----------------------------------------------------------------------------
(* Core *)

Started == {"set", "sleep", "tell", "crash", "exit_th", "join", "exit", "done"}
Telling == {"exit_th", "join", "exit", "done"}

\* Core has come to this process when it tells the processes to end.
Told(p) == c_core[1] \in Telling \/ (c_core[1] \in {"tell", "crash"} /\ p \notin c_core[2])

CoreTypes ==
  /\ c_core[1] \in {"th", "fork", "bh", "modules", "post"} \cup Started
  /\ c_shm \in [Procs -> {None, C!NoSize, 0, 1}]
  /\ c_child \in [Procs -> {"none", "forked", "created", "opened", "loop", "done"}]
  /\ c_early \in BOOLEAN

\* A process that looks at its flag finds the 1 that it wrote itself, until
\* core writes its 0.
FlagIsFresh ==
  \A p \in Procs :
    (c_child[p] = "loop" /\ c_shm[p] = 0) \/ c_child[p] = "done" => Told(p)

\* The command line runs once core has posted, and ends when core_running is 0
\* for good, or before core has set it.
CliIsLate ==
  /\ c_cli \in {"read", "read_done", "done", "crash"} => c_posted
  /\ c_posted => c_core[1] \in Started
  /\ c_cli = "done" /\ ~c_early => c_core[1] \in Started \ {"set"} /\ c_core_running = 0

CoreInv == CoreTypes /\ FlagIsFresh /\ CliIsLate

\* The main thread of core goes through its stages in their order.
LEMMA CoreMain ==
  ASSUME CoreInv, C!Main
  PROVE  CoreInv'
<1> USE DEF CoreInv, CoreTypes, FlagIsFresh, CliIsLate, Told, Started, Telling,
            C!Go, C!At, C!Stage, C!Left, C!line, C!main
<1>1. CASE C!InitTh \/ C!InitBh \/ C!InitModules
  BY <1>1 DEF C!InitTh, C!InitBh, C!InitModules
<1>2. CASE C!Post \/ C!SetRunning \/ C!Sleep
  BY <1>2 DEF C!Post, C!SetRunning, C!Sleep
<1>3. CASE C!ExitTh \/ C!Join \/ C!ExitModules
  BY <1>3 DEF C!ExitTh, C!Join, C!ExitModules
<1>4. ASSUME NEW p \in Procs, C!Fork(p)
      PROVE  CoreInv'
  BY <1>4 DEF C!Fork
<1>5. ASSUME NEW p \in Procs, C!Tell(p)
      PROVE  CoreInv'
  BY <1>5 DEF C!Tell
<1>6. ASSUME NEW p \in Procs, C!TellDies(p)
      PROVE  CoreInv'
  BY <1>6 DEF C!TellDies
<1>7. QED
  BY <1>1, <1>2, <1>3, <1>4, <1>5, <1>6 DEF C!Main

LEMMA CoreOthers ==
  ASSUME CoreInv, C!Interrupt \/ C!Cli
  PROVE  CoreInv'
<1> USE DEF CoreInv, CoreTypes, FlagIsFresh, CliIsLate, Told, Started, Telling,
            C!At, C!Stage, C!main, C!line
<1>1. CASE C!Interrupt
  BY <1>1 DEF C!Interrupt
<1>2. CASE C!CliWake \/ C!CliHook \/ C!CliStop \/ C!CliObey
  BY <1>2 DEF C!CliWake, C!CliHook, C!CliStop, C!CliObey
<1>3. ASSUME NEW i \in C!Inputs, C!CliRead(i)
      PROVE  CoreInv'
  BY <1>3 DEF C!CliRead
<1>4. QED
  BY <1>1, <1>2, <1>3 DEF C!Cli

LEMMA CoreChild ==
  ASSUME CoreInv, NEW p \in Procs, C!Child(p)
  PROVE  CoreInv'
<1> USE DEF CoreInv, CoreTypes, FlagIsFresh, CliIsLate, Told, C!main, C!line
<1>1. CASE C!Create(p) \/ C!Open(p)
  BY <1>1 DEF C!Create, C!Open, C!NoSize
<1>2. CASE C!Raise(p)
  BY <1>2 DEF C!Raise
<1>3. CASE C!Look(p)
  BY <1>3 DEF C!Look
<1>4. QED
  BY <1>1, <1>2, <1>3 DEF C!Child

\* A process ends only when core has told it to, whatever its shared memory
\* held when the program began, and the command line does not end while core
\* runs, unless it looked at core_running before core had set it: for any set of
\* processes.
THEOREM CoreKeptAlways == C!Spec => []CoreKept
<1>1. C!Init => CoreInv
  <2> SUFFICES ASSUME C!Init PROVE CoreInv
    OBVIOUS
  <2>1. c_shm \in [Procs -> {None, 0, 1}]
    BY DEF C!Init
  <2>2. c_core[1] = "th" /\ c_child \in [Procs -> {"none"}] /\ c_early = FALSE
    BY DEF C!Init
  <2>3. c_posted = FALSE /\ c_cli = "none"
    BY DEF C!Init
  <2>4. CoreTypes
    BY <2>1, <2>2 DEF CoreTypes
  <2>5. FlagIsFresh /\ CliIsLate
    BY <2>2, <2>3 DEF FlagIsFresh, CliIsLate
  <2>6. QED
    BY <2>4, <2>5 DEF CoreInv
<1>2. CoreInv /\ [C!Next]_(C!vars) => CoreInv'
  <2> SUFFICES ASSUME CoreInv, [C!Next]_(C!vars) PROVE CoreInv'
    OBVIOUS
  <2>1. CASE UNCHANGED C!vars
    BY <2>1 DEF C!vars, CoreInv, CoreTypes, FlagIsFresh, CliIsLate, Told
  <2>2. QED
    BY <2>1, CoreMain, CoreOthers, CoreChild DEF C!Next
<1>3. CoreInv => CoreKept
  BY DEF CoreInv, FlagIsFresh, CliIsLate, Told, Telling, Started, CoreKept,
     C!EndsWhenTold, C!CommandLineStays, C!At, C!Stage, C!Left
<1>4. QED
  BY <1>1, <1>2, <1>3, PTL DEF C!Spec

-----------------------------------------------------------------------------
(* HeartBeat *)

Times == Nat \cup {None}

BeatTypes ==
  /\ h_now \in Nat /\ h_tries \in [Beating -> Times] /\ h_beat \in [Beating -> Times]
  /\ h_socket \in [Beating -> Seq(Nat)]
  /\ h_note \in [Beating -> Times] /\ h_last \in [Beating -> Times]
  /\ h_running \in [H!Workers -> {0, 1}]
  /\ h_phase \in [H!Workers -> {"none", "new", "loop", "done"}]
  /\ h_due \in [H!Workers -> Times]
  /\ h_begun \in [threads : Times, exit : Times]
  /\ h_leaving \in {"no", "chk", "recv", "done"} /\ h_early \in BOOLEAN

\* The clock never leaves a thread behind by more than Late.
BeatClock ==
  /\ \A w \in H!Workers :
       /\ h_due[w] = None <=> h_phase[w] \in {"none", "done"}
       /\ h_phase[w] = "none" <=> h_begun.threads = None
       /\ h_due[w] # None => h_now <= h_due[w] + Late /\ h_due[w] <= h_now + 8
       /\ h_phase[w] = "new" => h_due[w] = h_begun.threads
  /\ h_due["recv"] # None => h_due["recv"] <= h_now + 1
  /\ h_phase["chk"] = "loop" => h_due["chk"] >= h_begun.threads + 8
  /\ \A p \in Beating : h_beat[p] # None => h_now <= h_beat[p] + Late
  /\ h_begun.threads # None => h_begun.threads <= h_now

\* The threads run until they are told to end, the check first.
BeatFlags ==
  /\ h_leaving = "no" =>
       \A w \in H!Workers : h_phase[w] # "done" /\ (h_phase[w] = "loop" => h_running[w] = 1)
  /\ h_leaving = "chk" =>
       h_phase["recv"] # "done" /\ (h_phase["recv"] = "loop" => h_running["recv"] = 1)
  /\ h_leaving \in {"recv", "done"} => h_phase["chk"] = "done"
  /\ h_leaving = "done" => h_phase["recv"] = "done"
  /\ h_leaving # "no" => h_begun.threads # None /\ h_begun.exit # None

BeatExit ==
  /\ h_leaving = "chk" /\ ~h_early =>
       /\ h_phase["chk"] # "new" /\ h_running["chk"] = 0
       /\ h_phase["chk"] = "loop" => h_due["chk"] <= h_begun.exit + 8
       /\ h_now <= h_begun.exit + 8 + Late
  /\ h_leaving = "recv" /\ ~h_early =>
       /\ h_phase["recv"] # "new" /\ h_running["recv"] = 0
       /\ h_phase["recv"] = "loop" => h_due["recv"] <= h_begun.exit + 9 + Late
       /\ h_now <= h_begun.exit + 9 + 2 * Late

\* What a process sent: each time an interval or a little more after the last,
\* and all of it is in the note and behind it in the socket.
BeatStamps(p) ==
  /\ h_last[p] # None => h_last[p] <= h_now /\ h_tries[p] \in {None, 0}
  /\ h_beat[p] # None => h_tries[p] \in {None, 0}
  /\ h_beat[p] # None /\ h_last[p] # None => h_beat[p] = h_last[p] + 4
  /\ h_tries[p] # None => h_socket[p] = <<>> /\ h_note[p] = None
  /\ h_tries[p] = None => h_begun.threads # None
  /\ h_phase["recv"] \in {"none", "new"} => h_note[p] = None
  /\ h_note[p] # None => h_last[p] # None /\ h_note[p] <= h_last[p]

Connection(p) ==
  /\ \A i \in 1..Len(h_socket[p]) :
       /\ h_last[p] # None
       /\ h_begun.threads <= h_socket[p][i] /\ h_socket[p][i] <= h_last[p]
  /\ \A i \in 1..Len(h_socket[p]) : i + 1 <= Len(h_socket[p]) =>
       /\ h_socket[p][i] + 4 <= h_socket[p][i + 1]
       /\ h_socket[p][i + 1] <= h_socket[p][i] + 4 + Late
  /\ h_note[p] # None /\ Len(h_socket[p]) > 0 =>
       h_note[p] + 4 <= h_socket[p][1] /\ h_socket[p][1] <= h_note[p] + 4 + Late
  /\ h_tries[p] = None /\ h_leaving # "done" =>
       /\ Len(h_socket[p]) > 0 => h_socket[p][Len(h_socket[p])] = h_last[p]
       /\ ~(Len(h_socket[p]) > 0) => h_note[p] = h_last[p]

\* How soon the first datagram of a socket is received.
BeatFresh(p) ==
  h_phase["recv"] # "none" /\ h_leaving \in {"no", "chk"} /\ Len(h_socket[p]) > 0 =>
    /\ h_due["recv"] <= h_socket[p][1] + Late + 1
    /\ \/ h_due["recv"] <= h_socket[p][1] + 1
       \/ h_note[p] = None /\ h_due["recv"] <= h_begun.threads + Late
       \/ h_note[p] # None /\ h_due["recv"] <= h_note[p] + 2 * Late + 2

\* The last check was a quarter before the next, if there was one.
BeatLost ==
  h_phase["chk"] = "loop" /\ h_leaving = "no" =>
    \/ h_due["chk"] <= h_begun.threads + Late + 8
    \/ \A p \in Beating : p \notin h_lost => h_note[p] # None /\ h_due["chk"] <= h_note[p] + 13

BeatInv ==
  /\ BeatTypes /\ BeatClock /\ BeatFlags /\ BeatExit /\ BeatLost
  /\ \A p \in Beating : BeatStamps(p) /\ Connection(p) /\ BeatFresh(p)

LEMMA LateSmall == Late \in Nat /\ Late <= 3 /\ None \notin Nat /\ Retries \in Nat
  BY ProcsAssumptions DEF H!HeartBeatAssumption, H!Interval

LEMMA BeatTick ==
  ASSUME BeatInv, H!Tick
  PROVE  BeatInv'
<1>1. /\ h_now' = h_now + 1
      /\ UNCHANGED <<h_tries, h_beat, h_last, h_socket, h_note, h_running, h_phase, h_due,
                     h_lost, h_leaving, h_begun, h_early>>
      /\ \A p \in Beating : h_beat[p] # None => ~(h_beat[p] + Late <= h_now)
      /\ \A w \in H!Workers : h_due[w] # None => ~(h_due[w] + Late <= h_now)
      /\ \A w \in H!Workers : h_leaving = w => h_phase[w] # "done"
  BY DEF H!Tick, H!Overdue, H!Joins, H!process, H!core
<1>2. BeatTypes /\ BeatTypes'
  BY <1>1 DEF BeatInv, BeatTypes
<1>3. BeatClock'
  BY <1>1, <1>2, LateSmall DEF BeatInv, BeatTypes, BeatClock, Times, H!Workers
<1>4. BeatFlags' /\ BeatLost'
  BY <1>1 DEF BeatInv, BeatFlags, BeatLost
<1>5. BeatExit'
  <2> SUFFICES ASSUME ~h_early PROVE BeatExit'
    BY <1>1 DEF BeatExit
  <2>1. CASE h_leaving = "chk"
    <3>1. h_phase["chk"] = "loop" /\ h_due["chk"] \in Nat /\ h_begun.exit \in Nat
      BY <1>1, <1>2, <2>1 DEF BeatInv, BeatTypes, BeatExit, BeatClock, BeatFlags, H!Workers, Times
    <3>2. h_now' <= h_due["chk"] + Late
      BY <1>1, <1>2, <3>1, LateSmall DEF BeatTypes, H!Workers
    <3>3. QED
      BY <1>1, <1>2, <2>1, <3>1, <3>2, LateSmall DEF BeatInv, BeatExit, BeatTypes
  <2>2. CASE h_leaving = "recv"
    <3>1. h_phase["recv"] = "loop" /\ h_due["recv"] \in Nat /\ h_begun.exit \in Nat
      BY <1>1, <1>2, <2>2 DEF BeatInv, BeatTypes, BeatExit, BeatClock, BeatFlags, H!Workers, Times
    <3>2. h_now' <= h_due["recv"] + Late
      BY <1>1, <1>2, <3>1, LateSmall DEF BeatTypes, H!Workers
    <3>3. QED
      BY <1>1, <1>2, <2>2, <3>1, <3>2, LateSmall DEF BeatInv, BeatExit, BeatTypes
  <2>3. QED
    BY <1>1, <2>1, <2>2 DEF BeatExit
<1>6. ASSUME NEW p \in Beating
      PROVE  (BeatStamps(p) /\ Connection(p) /\ BeatFresh(p))'
  <2>1. BeatStamps(p) /\ Connection(p) /\ BeatFresh(p)
    BY DEF BeatInv
  <2>2. BeatStamps(p)'
    BY <1>1, <1>2, <2>1, LateSmall DEF BeatStamps, BeatTypes, Times
  <2>3. (Connection(p) /\ BeatFresh(p))'
    BY <1>1, <2>1 DEF Connection, BeatFresh
  <2>4. QED
    BY <2>2, <2>3
<1>7. QED
  BY <1>2, <1>3, <1>4, <1>5, <1>6 DEF BeatInv

LEMMA BeatConnect ==
  ASSUME BeatInv, NEW p \in Beating, H!Connect(p)
  PROVE  BeatInv'
<1>1. /\ UNCHANGED <<h_now, h_last, h_socket, h_note, h_running, h_phase, h_due,
                     h_lost, h_leaving, h_begun, h_early>>
      /\ h_tries[p] \notin {None, 0}
      /\ h_tries' = [h_tries EXCEPT ![p] = IF H!Bound THEN None ELSE @ - 1]
      /\ h_beat' = [h_beat EXCEPT ![p] = IF H!Bound \/ h_tries[p] = 1 THEN h_now ELSE None]
  BY DEF H!Connect, H!core
<1>2. BeatTypes /\ h_tries[p] \in Nat /\ h_tries[p] > 0
  BY <1>1, LateSmall DEF BeatInv, BeatTypes, Times
<1>3. /\ h_tries'[p] \in Times /\ h_beat'[p] \in Times
      /\ h_beat'[p] # None => h_beat'[p] = h_now /\ h_tries'[p] \in {None, 0}
      /\ h_tries'[p] = None => h_begun.threads # None
      /\ h_tries' \in [Beating -> Times] /\ h_beat' \in [Beating -> Times]
      /\ \A q \in Beating \ {p} : h_tries'[q] = h_tries[q] /\ h_beat'[q] = h_beat[q]
  <2>1. CASE H!Bound
    BY <1>1, <1>2, <2>1, LateSmall DEF BeatTypes, Times, H!Bound
  <2>2. CASE ~H!Bound
    <3>1. h_tries[p] - 1 \in Nat
      BY <1>2
    <3>2. /\ h_tries' = [h_tries EXCEPT ![p] = h_tries[p] - 1]
          /\ h_beat' = [h_beat EXCEPT ![p] = IF h_tries[p] = 1 THEN h_now ELSE None]
      BY <1>1, <2>2
    <3>3. QED
      BY <1>2, <3>1, <3>2, LateSmall DEF BeatTypes, Times
  <2>3. QED
    BY <2>1, <2>2
<1>4. BeatTypes'
  BY <1>1, <1>3 DEF BeatInv, BeatTypes
<1>5. BeatClock'
  <2>1. \A q \in Beating : h_beat'[q] # None => h_now <= h_beat'[q] + Late
    BY <1>2, <1>3, LateSmall DEF BeatInv, BeatClock, BeatTypes, Times
  <2>2. QED
    BY <1>1, <2>1 DEF BeatInv, BeatClock
<1>6. BeatFlags' /\ BeatExit' /\ BeatLost'
  BY <1>1 DEF BeatInv, BeatFlags, BeatExit, BeatLost
<1>7. ASSUME NEW q \in Beating
      PROVE  (BeatStamps(q) /\ Connection(q) /\ BeatFresh(q))'
  <2>1. BeatStamps(q) /\ Connection(q) /\ BeatFresh(q)
    BY DEF BeatInv
  <2>2. CASE q # p
    BY <1>1, <1>3, <2>1, <2>2 DEF BeatStamps, Connection, BeatFresh
  <2>3. CASE q = p
    <3>1. h_socket[p] = <<>> /\ h_note[p] = None /\ h_last[p] = None
      BY <1>1, <2>1, <2>3 DEF BeatStamps
    <3>2. Len(h_socket[p]) = 0
      BY <3>1
    <3>3. QED
      BY <1>1, <1>3, <2>3, <3>1, <3>2 DEF BeatStamps, Connection, BeatFresh
  <2>4. QED
    BY <2>2, <2>3
<1>8. QED
  BY <1>4, <1>5, <1>6, <1>7 DEF BeatInv

LEMMA BeatDie ==
  ASSUME BeatInv, NEW p \in Beating, H!Die(p)
  PROVE  BeatInv'
<1>1. /\ UNCHANGED <<h_now, h_tries, h_last, h_socket, h_note, h_running, h_phase, h_due,
                     h_lost, h_leaving, h_begun, h_early>>
      /\ h_beat' = [h_beat EXCEPT ![p] = None]
  BY DEF H!Die, H!core
<1>2. /\ h_beat' \in [Beating -> Times]
      /\ \A q \in Beating : h_beat'[q] # None => h_beat'[q] = h_beat[q]
  BY <1>1 DEF BeatInv, BeatTypes, Times
<1>3. BeatTypes' /\ BeatClock'
  BY <1>1, <1>2 DEF BeatInv, BeatTypes, BeatClock
<1>4. BeatFlags' /\ BeatExit' /\ BeatLost'
  BY <1>1 DEF BeatInv, BeatFlags, BeatExit, BeatLost
<1>5. \A q \in Beating : (BeatStamps(q) /\ Connection(q) /\ BeatFresh(q))'
  BY <1>1, <1>2 DEF BeatInv, BeatStamps, Connection, BeatFresh
<1>6. QED
  BY <1>3, <1>4, <1>5 DEF BeatInv

LEMMA BeatSend ==
  ASSUME BeatInv, NEW p \in Beating, H!Send(p)
  PROVE  BeatInv'
<1> DEFINE reaches == h_tries[p] = None /\ H!Bound
<1>1. /\ UNCHANGED <<h_now, h_tries, h_note, h_running, h_phase, h_due,
                     h_lost, h_leaving, h_begun, h_early>>
      /\ h_beat[p] # None /\ h_beat[p] <= h_now
      /\ h_beat' = [h_beat EXCEPT ![p] = h_now + 4]
      /\ h_socket' = (IF reaches THEN [h_socket EXCEPT ![p] = Append(@, h_now)] ELSE h_socket)
      /\ h_last' = [h_last EXCEPT ![p] = h_now]
  BY DEF H!Send, H!core, H!Due, H!Connected, H!Interval
<1>2. /\ BeatTypes /\ h_now \in Nat /\ h_beat[p] \in Nat /\ h_now + 4 \in Nat
      /\ h_socket[p] \in Seq(Nat)
  BY <1>1, LateSmall DEF BeatInv, BeatTypes, Times
<1>3. /\ h_beat' \in [Beating -> Times] /\ h_last' \in [Beating -> Times]
      /\ h_beat'[p] = h_now + 4 /\ h_last'[p] = h_now
      /\ \A q \in Beating \ {p} : h_beat'[q] = h_beat[q] /\ h_last'[q] = h_last[q]
  BY <1>1, <1>2 DEF BeatTypes, Times
<1>4. /\ h_socket' \in [Beating -> Seq(Nat)]
      /\ h_socket'[p] = (IF reaches THEN Append(h_socket[p], h_now) ELSE h_socket[p])
      /\ \A q \in Beating \ {p} : h_socket'[q] = h_socket[q]
  <2>1. Append(h_socket[p], h_now) \in Seq(Nat)
    BY <1>2
  <2>2. QED
    BY <1>1, <1>2, <2>1 DEF BeatTypes
<1>5. BeatTypes'
  BY <1>1, <1>3, <1>4 DEF BeatInv, BeatTypes
<1>6. BeatClock'
  <2>1. \A q \in Beating : h_beat'[q] # None => h_now <= h_beat'[q] + Late
    BY <1>2, <1>3, LateSmall DEF BeatInv, BeatClock
  <2>2. QED
    BY <1>1, <2>1 DEF BeatInv, BeatClock
<1>7. BeatFlags' /\ BeatExit' /\ BeatLost'
  BY <1>1 DEF BeatInv, BeatFlags, BeatExit, BeatLost
<1>8. BeatStamps(p) /\ Connection(p) /\ BeatFresh(p)
  BY DEF BeatInv
<1>9. BeatStamps(p)'
  BY <1>1, <1>2, <1>3, <1>4, <1>8, LateSmall DEF BeatStamps, BeatTypes, Times, H!Bound
<1>10. ASSUME ~reaches
       PROVE  (Connection(p) /\ BeatFresh(p))'
  <2>1. h_tries[p] # None \/ h_leaving = "done"
    BY <1>8, <1>10 DEF BeatStamps, H!Bound
  <2>2. h_socket'[p] = h_socket[p] /\ h_now \in Nat
    BY <1>2, <1>4, <1>10
  <2>3. \A i \in 1..Len(h_socket[p]) : h_socket[p][i] \in Nat
    BY <1>2
  <2>4. h_last[p] # None => h_last[p] <= h_now /\ h_last[p] \in Nat
    BY <1>2, <1>8 DEF BeatStamps, BeatTypes, Times
  <2>5. \A i \in 1..Len(h_socket[p]) :
          h_begun.threads <= h_socket[p][i] /\ h_socket[p][i] <= h_now
    BY <1>2, <1>8, <2>3, <2>4 DEF Connection
  <2>6. Connection(p)'
    BY <1>1, <1>2, <1>3, <1>8, <2>1, <2>2, <2>5, LateSmall DEF Connection
  <2>7. BeatFresh(p)'
    BY <1>1, <1>8, <2>2 DEF BeatFresh
  <2>8. QED
    BY <2>6, <2>7
<1>11. ASSUME reaches
       PROVE  (Connection(p) /\ BeatFresh(p))'
  <2> DEFINE s == h_socket[p]
             t == h_socket'[p]
  <2>1. /\ Len(s) \in Nat /\ Len(t) = Len(s) + 1 /\ \A i \in 1..Len(s) : t[i] = s[i] /\ s[i] \in Nat
        /\ t[Len(s) + 1] = h_now
    BY <1>2, <1>4, <1>11
  <2>2. /\ h_tries[p] = None /\ h_leaving # "done" /\ h_begun.threads \in Nat
        /\ h_begun.threads <= h_now
    BY <1>2, <1>11 DEF BeatInv, BeatClock, BeatTypes, Times, H!Bound
  <2>3. h_last[p] # None => /\ h_last[p] \in Nat /\ h_last[p] + 4 <= h_now
                            /\ h_now <= h_last[p] + 4 + Late
    BY <1>1, <1>2, <1>8, LateSmall DEF BeatInv, BeatStamps, BeatClock, BeatTypes, Times
  <2>4. /\ Len(s) > 0 => s[Len(s)] = h_last[p] /\ h_last[p] # None
        /\ Len(s) = 0 => h_note[p] = h_last[p]
    BY <1>8, <2>1, <2>2 DEF Connection
  <2>5. \A i \in 1..Len(t) : h_begun.threads <= t[i] /\ t[i] <= h_now
    <3>1. \A i \in 1..Len(s) : h_begun.threads <= s[i] /\ s[i] <= h_now
      BY <1>2, <1>8, <2>1, <2>2, <2>3 DEF Connection
    <3> SUFFICES ASSUME NEW i \in 1..Len(t)
                 PROVE  h_begun.threads <= t[i] /\ t[i] <= h_now
      OBVIOUS
    <3>2. CASE i \in 1..Len(s)
      BY <2>1, <3>1, <3>2
    <3>3. CASE i = Len(s) + 1
      BY <1>2, <2>1, <2>2, <3>3
    <3>4. QED
      BY <2>1, <3>2, <3>3
  <2>6. \A i \in 1..Len(t) : i + 1 <= Len(t) => t[i] + 4 <= t[i + 1] /\ t[i + 1] <= t[i] + 4 + Late
    <3> SUFFICES ASSUME NEW i \in 1..Len(s)
                 PROVE  t[i] + 4 <= t[i + 1] /\ t[i + 1] <= t[i] + 4 + Late
      BY <2>1
    <3>1. CASE i + 1 <= Len(s)
      <4>1. i + 1 \in 1..Len(s)
        BY <2>1, <3>1
      <4>2. QED
        BY <1>8, <2>1, <3>1, <4>1 DEF Connection
    <3>2. CASE i = Len(s)
      BY <2>1, <2>3, <2>4, <3>2
    <3>3. QED
      BY <2>1, <3>1, <3>2
  <2>7. h_note[p] # None =>
          h_note[p] + 4 <= t[1] /\ t[1] <= h_note[p] + 4 + Late
    <3>1. CASE Len(s) = 0
      BY <2>1, <2>3, <2>4, <3>1
    <3>2. CASE Len(s) > 0
      BY <1>8, <2>1, <3>2 DEF Connection
    <3>3. QED
      BY <2>1, <3>1, <3>2
  <2>8. Connection(p)'
    <3>1. h_last'[p] # None /\ h_last'[p] = h_now /\ Len(t) > 0 /\ t[Len(t)] = h_now
      BY <1>2, <1>3, <2>1, LateSmall
    <3>2. QED
      BY <1>1, <2>5, <2>6, <2>7, <3>1 DEF Connection
  <2>9. BeatFresh(p)'
    <3>1. CASE Len(s) > 0
      <4>1. t[1] = s[1]
        BY <2>1, <3>1
      <4>2. QED
        BY <1>1, <1>8, <3>1, <4>1 DEF BeatFresh
    <3>2. CASE Len(s) = 0
      <4>1. t[1] = h_now
        BY <2>1, <3>2
      <4>2. h_phase["recv"] # "none" /\ h_leaving \in {"no", "chk"} =>
              h_due["recv"] # None /\ h_due["recv"] \in Nat /\ h_due["recv"] <= h_now + 1
        BY <1>2 DEF BeatInv, BeatClock, BeatFlags, BeatTypes, Times, H!Workers
      <4>3. UNCHANGED <<h_phase, h_leaving, h_due>> /\ t[1] + 1 = h_now + 1
        BY <1>1, <4>1
      <4> HIDE DEF s, t, reaches
      <4>4. ASSUME h_phase["recv"] # "none", h_leaving \in {"no", "chk"}
            PROVE  h_due["recv"] <= t[1] + Late + 1 /\ h_due["recv"] <= t[1] + 1
        BY <1>2, <4>1, <4>2, <4>3, <4>4, LateSmall
      <4>5. QED
        BY <4>3, <4>4 DEF BeatFresh, t
    <3>3. QED
      BY <2>1, <3>1, <3>2
  <2>10. QED
    BY <2>8, <2>9
<1>12. ASSUME NEW q \in Beating, q # p
       PROVE  (BeatStamps(q) /\ Connection(q) /\ BeatFresh(q))'
  <2>1. BeatStamps(q) /\ Connection(q) /\ BeatFresh(q)
    BY DEF BeatInv
  <2>2. QED
    BY <1>1, <1>3, <1>4, <1>12, <2>1 DEF BeatStamps, Connection, BeatFresh
<1>13. QED
  BY <1>5, <1>6, <1>7, <1>9, <1>10, <1>11, <1>12 DEF BeatInv

LEMMA BeatCreate ==
  ASSUME BeatInv, H!Create
  PROVE  BeatInv'
<1>1. /\ UNCHANGED <<h_now, h_tries, h_beat, h_last, h_socket, h_note, h_running,
                     h_lost, h_leaving, h_early>>
      /\ h_begun.threads = None /\ h_begun' = [h_begun EXCEPT !.threads = h_now]
      /\ h_phase' = [w \in H!Workers |-> "new"] /\ h_due' = [w \in H!Workers |-> h_now]
  BY DEF H!Create, H!process
<1>2. BeatTypes /\ h_now \in Nat /\ h_begun'.threads = h_now /\ h_begun'.exit = h_begun.exit
      /\ h_begun' \in [threads : Times, exit : Times]
  BY <1>1 DEF BeatInv, BeatTypes, Times
<1>3. BeatTypes'
  BY <1>1, <1>2 DEF BeatTypes, Times
<1>4. h_leaving = "no" /\ \A w \in H!Workers : h_phase[w] = "none"
  BY <1>1, <1>2 DEF BeatInv, BeatFlags, BeatClock, BeatTypes
<1>5. BeatClock'
  BY <1>1, <1>2, LateSmall DEF BeatInv, BeatClock, BeatTypes, H!Workers
<1>6. BeatFlags' /\ BeatExit' /\ BeatLost'
  BY <1>1, <1>4 DEF BeatInv, BeatFlags, BeatExit, BeatLost, H!Workers
<1>7. ASSUME NEW p \in Beating
      PROVE  (BeatStamps(p) /\ Connection(p) /\ BeatFresh(p))'
  <2>1. BeatStamps(p) /\ Connection(p) /\ BeatFresh(p)
    BY DEF BeatInv
  <2>2. h_tries[p] # None /\ h_socket[p] = <<>> /\ h_note[p] = None
    BY <1>1, <2>1 DEF BeatStamps
  <2>3. Len(h_socket[p]) = 0
    BY <2>2
  <2>4. BeatStamps(p)'
    BY <1>1, <2>1, <2>2 DEF BeatStamps
  <2>5. (Connection(p) /\ BeatFresh(p))'
    BY <1>1, <2>2, <2>3 DEF Connection, BeatFresh
  <2>6. QED
    BY <2>4, <2>5
<1>8. QED
  BY <1>3, <1>5, <1>6, <1>7 DEF BeatInv

LEMMA BeatStart ==
  ASSUME BeatInv, NEW w \in H!Workers, H!Start(w)
  PROVE  BeatInv'
<1>1. /\ UNCHANGED <<h_now, h_tries, h_beat, h_last, h_socket, h_note,
                     h_lost, h_leaving, h_begun, h_early>>
      /\ h_phase[w] = "new" /\ h_phase' = [h_phase EXCEPT ![w] = "loop"]
      /\ h_running' = [h_running EXCEPT ![w] = 1]
      /\ h_due' = [h_due EXCEPT ![w] = IF w = "chk" THEN h_now + 2 * 4 ELSE h_now]
  BY DEF H!Start, H!process, H!Interval
<1>2. /\ BeatTypes /\ h_now \in Nat /\ w \in {"recv", "chk"}
      /\ h_due[w] = h_begun.threads /\ h_due[w] \in Nat /\ h_now <= h_due[w] + Late
      /\ h_begun.threads <= h_now
  BY <1>1 DEF BeatInv, BeatTypes, BeatClock, Times, H!Workers
<1>3. /\ h_phase' \in [H!Workers -> {"none", "new", "loop", "done"}]
      /\ h_running' \in [H!Workers -> {0, 1}]
      /\ h_phase'[w] = "loop" /\ h_running'[w] = 1
      /\ \A v \in H!Workers \ {w} : /\ h_phase'[v] = h_phase[v] /\ h_running'[v] = h_running[v]
                                    /\ h_due'[v] = h_due[v]
  BY <1>1, <1>2 DEF BeatTypes
<1>4. /\ h_due' \in [H!Workers -> Times]
      /\ h_due'[w] = (IF w = "chk" THEN h_now + 8 ELSE h_now) /\ h_due'[w] \in Nat
  <2>1. h_now + 2 * 4 \in Nat /\ h_now + 2 * 4 = h_now + 8
    BY <1>2
  <2>2. QED
    BY <1>1, <1>2, <2>1 DEF BeatTypes, Times
<1>5. BeatTypes'
  BY <1>1, <1>3, <1>4 DEF BeatInv, BeatTypes
<1>6. BeatClock'
  <2>1. \A v \in H!Workers \ {w} :
          /\ h_due'[v] = None <=> h_phase'[v] \in {"none", "done"}
          /\ h_phase'[v] = "none" <=> h_begun.threads = None
          /\ h_due'[v] # None => h_now <= h_due'[v] + Late /\ h_due'[v] <= h_now + 8
          /\ h_phase'[v] = "new" => h_due'[v] = h_begun.threads
    BY <1>3 DEF BeatInv, BeatClock
  <2>2. /\ h_due'[w] # None /\ h_begun.threads # None
        /\ h_now <= h_due'[w] + Late /\ h_due'[w] <= h_now + 8
    BY <1>2, <1>4, LateSmall
  <2>3. h_due'["recv"] # None => h_due'["recv"] <= h_now + 1
    BY <1>2, <1>3, <1>4 DEF BeatInv, BeatClock, H!Workers
  <2>4. h_phase'["chk"] = "loop" => h_due'["chk"] >= h_begun.threads + 8
    BY <1>2, <1>3, <1>4 DEF BeatInv, BeatClock, H!Workers
  <2>5. QED
    BY <1>1, <1>3, <2>1, <2>2, <2>3, <2>4 DEF BeatInv, BeatClock
<1>7. BeatFlags'
  BY <1>1, <1>3 DEF BeatInv, BeatFlags, H!Workers
<1>8. BeatExit'
  <2>1. CASE w = "chk"
    BY <1>1, <1>2, <1>3, <2>1 DEF BeatInv, BeatExit, BeatFlags, H!Workers
  <2>2. CASE w = "recv"
    BY <1>1, <1>2, <1>3, <2>2 DEF BeatInv, BeatExit, BeatFlags, H!Workers
  <2>3. QED
    BY <1>2, <2>1, <2>2
<1>9. BeatLost'
  <2>1. CASE w = "chk"
    BY <1>1, <1>2, <1>4, <2>1, LateSmall DEF BeatLost
  <2>2. CASE w = "recv"
    BY <1>1, <1>3, <2>2 DEF BeatInv, BeatLost, H!Workers
  <2>3. QED
    BY <1>2, <2>1, <2>2
<1>10. ASSUME NEW p \in Beating
       PROVE  (BeatStamps(p) /\ Connection(p) /\ BeatFresh(p))'
  <2>1. BeatStamps(p) /\ Connection(p) /\ BeatFresh(p)
    BY DEF BeatInv
  <2>2. BeatStamps(p)'
    BY <1>1, <1>2, <1>3, <2>1 DEF BeatStamps, H!Workers
  <2>3. Connection(p)'
    BY <1>1, <2>1 DEF Connection
  <2>4. BeatFresh(p)'
    <3>1. CASE w = "chk"
      BY <1>1, <1>3, <2>1, <3>1 DEF BeatFresh, H!Workers
    <3>2. CASE w = "recv"
      <4> SUFFICES ASSUME Len(h_socket[p]) > 0
                   PROVE  /\ h_now <= h_socket[p][1] + Late + 1
                          /\ h_note[p] = None /\ h_now <= h_begun.threads + Late
        BY <1>1, <1>2, <1>4, <3>2 DEF BeatFresh
      <4>1. h_socket[p] \in Seq(Nat) /\ h_socket[p][1] \in Nat /\ 1 \in 1..Len(h_socket[p])
        BY <1>2 DEF BeatTypes
      <4>2. h_begun.threads <= h_socket[p][1]
        BY <2>1, <4>1 DEF Connection
      <4>3. h_note[p] = None
        BY <1>1, <2>1, <3>2 DEF BeatStamps
      <4>4. QED
        BY <1>2, <4>1, <4>2, <4>3, LateSmall
    <3>3. QED
      BY <1>2, <3>1, <3>2
  <2>5. QED
    BY <2>2, <2>3, <2>4
<1>11. QED
  BY <1>5, <1>6, <1>7, <1>8, <1>9, <1>10 DEF BeatInv

\* A thread of core that wakes: it goes on, or it ends because it was told to.
LEMMA BeatWakes ==
  ASSUME BeatInv, NEW w \in H!Workers, H!Wakes(w)
  PROVE  /\ UNCHANGED <<h_now, h_tries, h_beat, h_last, h_running, h_leaving, h_begun, h_early>>
         /\ h_phase[w] = "loop" /\ h_due[w] \in Nat /\ h_due[w] <= h_now /\ h_now <= h_due[w] + Late
         /\ h_begun.threads \in Nat /\ h_now \in Nat
         /\ h_phase'[w] = (IF h_running[w] = 1 THEN "loop" ELSE "done")
         /\ h_due'[w] = (IF h_running[w] = 1 THEN h_now + 1 ELSE None)
         /\ \A v \in H!Workers \ {w} : h_phase'[v] = h_phase[v] /\ h_due'[v] = h_due[v]
         /\ h_phase' \in [H!Workers -> {"none", "new", "loop", "done"}]
         /\ h_due' \in [H!Workers -> Times]
         /\ BeatClock' /\ BeatFlags' /\ BeatExit'
<1>1. /\ UNCHANGED <<h_now, h_tries, h_beat, h_last, h_running, h_leaving, h_begun, h_early>>
      /\ h_phase[w] = "loop" /\ h_due[w] # None /\ h_due[w] <= h_now
      /\ h_phase' = [h_phase EXCEPT ![w] = IF h_running[w] = 1 THEN "loop" ELSE "done"]
      /\ h_due' = [h_due EXCEPT ![w] = IF h_running[w] = 1 THEN h_now + 1 ELSE None]
  BY DEF H!Wakes, H!process, H!Due
<1>2. /\ h_due[w] \in Nat /\ h_now <= h_due[w] + Late /\ h_now \in Nat
      /\ h_begun.threads \in Nat /\ w \in {"recv", "chk"} /\ h_running[w] \in {0, 1}
  BY <1>1 DEF BeatInv, BeatTypes, BeatClock, Times, H!Workers
<1>3. /\ h_phase'[w] = (IF h_running[w] = 1 THEN "loop" ELSE "done")
      /\ \A v \in H!Workers \ {w} : h_phase'[v] = h_phase[v] /\ h_due'[v] = h_due[v]
      /\ h_phase' \in [H!Workers -> {"none", "new", "loop", "done"}]
  BY <1>1 DEF BeatInv, BeatTypes
<1>4. /\ h_due'[w] = (IF h_running[w] = 1 THEN h_now + 1 ELSE None)
      /\ h_due' \in [H!Workers -> Times]
  <2>1. h_now + 1 \in Nat
    BY <1>2
  <2>2. QED
    BY <1>1, <2>1 DEF BeatInv, BeatTypes, Times
<1>5. BeatClock'
  <2>1. \A v \in H!Workers \ {w} :
          /\ h_due'[v] = None <=> h_phase'[v] \in {"none", "done"}
          /\ h_phase'[v] = "none" <=> h_begun.threads = None
          /\ h_due'[v] # None => h_now <= h_due'[v] + Late /\ h_due'[v] <= h_now + 8
          /\ h_phase'[v] = "new" => h_due'[v] = h_begun.threads
    BY <1>3 DEF BeatInv, BeatClock
  <2>2. /\ h_due'[w] = None <=> h_phase'[w] \in {"none", "done"}
        /\ h_phase'[w] \notin {"none", "new"} /\ h_begun.threads # None
        /\ h_due'[w] # None => h_now <= h_due'[w] + Late /\ h_due'[w] <= h_now + 8
    <3>1. CASE h_running[w] = 1
      <4>1. h_phase'[w] = "loop" /\ h_due'[w] = h_now + 1
        BY <1>3, <1>4, <3>1
      <4>2. QED
        BY <1>2, <4>1, LateSmall
    <3>2. CASE h_running[w] # 1
      <4>1. h_phase'[w] = "done" /\ h_due'[w] = None
        BY <1>3, <1>4, <3>2
      <4>2. QED
        BY <1>2, <4>1, LateSmall
    <3>3. QED
      BY <3>1, <3>2
  <2>3. h_due'["recv"] # None => h_due'["recv"] <= h_now + 1
    BY <1>2, <1>3, <1>4 DEF BeatInv, BeatClock, H!Workers
  <2>4. h_phase'["chk"] = "loop" => h_due'["chk"] >= h_begun.threads + 8
    <3>1. CASE w = "chk"
      <4>1. h_due["chk"] >= h_begun.threads + 8
        BY <1>1, <3>1 DEF BeatInv, BeatClock
      <4>2. QED
        <5> SUFFICES ASSUME h_phase'["chk"] = "loop"
                     PROVE  h_due'["chk"] >= h_begun.threads + 8
          OBVIOUS
        <5>1. h_due'["chk"] = h_now + 1
          BY <1>3, <1>4, <3>1
        <5>2. QED
          BY <1>1, <1>2, <3>1, <4>1, <5>1
    <3>2. CASE w # "chk"
      BY <1>3, <3>2 DEF BeatInv, BeatClock, H!Workers
    <3>3. QED
      BY <3>1, <3>2
  <2>5. QED
    BY <1>1, <1>3, <2>1, <2>2, <2>3, <2>4 DEF BeatInv, BeatClock
<1>6. BeatFlags'
  BY <1>1, <1>2, <1>3 DEF BeatInv, BeatFlags, H!Workers
<1>7. BeatExit'
  <2>1. CASE w = "chk"
    BY <1>1, <1>2, <1>3, <1>4, <2>1 DEF BeatInv, BeatExit, BeatFlags, H!Workers
  <2>2. CASE w = "recv"
    BY <1>1, <1>2, <1>3, <1>4, <2>2 DEF BeatInv, BeatExit, BeatFlags, H!Workers
  <2>3. QED
    BY <1>2, <2>1, <2>2
<1>8. QED
  BY <1>1, <1>2, <1>3, <1>4, <1>5, <1>6, <1>7

LEMMA InTime ==
  ASSUME NEW now \in Nat, NEW due \in Nat, NEW first \in Nat, NEW second \in Nat,
         NEW late \in Nat, late <= 3,
         now <= due + late, due <= first + late + 1, first + 4 <= second
  PROVE  now + 1 <= second + late + 1 /\ now + 1 <= first + 2 * late + 2
  OBVIOUS

LEMMA BeatRecv ==
  ASSUME BeatInv, H!Recv("recv")
  PROVE  BeatInv'
<1> DEFINE takes(p) == h_running["recv"] = 1 /\ h_socket[p] # <<>>
<1>1. /\ H!Wakes("recv") /\ "recv" \in H!Workers /\ "chk" \in H!Workers \ {"recv"}
      /\ h_lost' = h_lost
      /\ h_note' = [p \in Beating |-> IF takes(p) THEN h_socket[p][1] ELSE h_note[p]]
      /\ h_socket' = [p \in Beating |-> IF takes(p) THEN Tail(h_socket[p]) ELSE h_socket[p]]
  BY DEF H!Recv, H!Workers
<1>2. /\ UNCHANGED <<h_now, h_tries, h_beat, h_last, h_running, h_leaving, h_begun, h_early>>
      /\ h_phase["recv"] = "loop" /\ h_due["recv"] \in Nat /\ h_due["recv"] <= h_now
      /\ h_now <= h_due["recv"] + Late
      /\ h_begun.threads \in Nat /\ h_now \in Nat
      /\ h_phase'["recv"] = (IF h_running["recv"] = 1 THEN "loop" ELSE "done")
      /\ h_due'["recv"] = (IF h_running["recv"] = 1 THEN h_now + 1 ELSE None)
      /\ h_phase'["chk"] = h_phase["chk"] /\ h_due'["chk"] = h_due["chk"]
      /\ h_phase' \in [H!Workers -> {"none", "new", "loop", "done"}]
      /\ h_due' \in [H!Workers -> Times]
      /\ BeatClock' /\ BeatFlags' /\ BeatExit'
  BY <1>1, BeatWakes
<1>3. ASSUME NEW p \in Beating
      PROVE  /\ h_socket[p] \in Seq(Nat) /\ h_note[p] \in Times /\ h_last[p] \in Times
             /\ h_note'[p] = (IF takes(p) THEN h_socket[p][1] ELSE h_note[p])
             /\ h_socket'[p] = (IF takes(p) THEN Tail(h_socket[p]) ELSE h_socket[p])
             /\ takes(p) => /\ Len(h_socket[p]) \in Nat /\ Len(h_socket[p]) > 0
                            /\ h_socket[p][1] \in Nat /\ Tail(h_socket[p]) \in Seq(Nat)
                            /\ Len(Tail(h_socket[p])) = Len(h_socket[p]) - 1
                            /\ \A i \in 1..Len(Tail(h_socket[p])) :
                                 /\ i + 1 \in 1..Len(h_socket[p])
                                 /\ Tail(h_socket[p])[i] = h_socket[p][i + 1]
  <2>1. h_socket[p] \in Seq(Nat) /\ h_note[p] \in Times /\ h_last[p] \in Times
    BY DEF BeatInv, BeatTypes
  <2>2. /\ h_note'[p] = (IF takes(p) THEN h_socket[p][1] ELSE h_note[p])
        /\ h_socket'[p] = (IF takes(p) THEN Tail(h_socket[p]) ELSE h_socket[p])
    BY <1>1
  <2>3. h_socket[p] # <<>> =>
          /\ Len(h_socket[p]) \in Nat /\ Len(h_socket[p]) > 0
          /\ h_socket[p][1] \in Nat /\ Tail(h_socket[p]) \in Seq(Nat)
          /\ Len(Tail(h_socket[p])) = Len(h_socket[p]) - 1
    BY <2>1
  <2>4. h_socket[p] # <<>> =>
          \A i \in 1..Len(Tail(h_socket[p])) :
            i + 1 \in 1..Len(h_socket[p]) /\ Tail(h_socket[p])[i] = h_socket[p][i + 1]
    BY <2>1, <2>3
  <2>5. QED
    BY <2>1, <2>2, <2>3, <2>4
<1>4. BeatTypes'
  <2>1. h_note' \in [Beating -> Times] /\ h_socket' \in [Beating -> Seq(Nat)]
    <3> SUFFICES ASSUME NEW p \in Beating
                 PROVE  h_note'[p] \in Times /\ h_socket'[p] \in Seq(Nat)
      BY <1>1
    <3>1. QED
      BY <1>3 DEF Times
  <2>2. QED
    BY <1>1, <1>2, <2>1 DEF BeatInv, BeatTypes
<1> HIDE DEF takes
<1>5. ASSUME NEW p \in Beating
      PROVE  (BeatStamps(p) /\ Connection(p) /\ BeatFresh(p))'
             /\ (h_note[p] # None => h_note'[p] # None /\ h_note[p] <= h_note'[p])
  <2>1. BeatStamps(p) /\ Connection(p) /\ BeatFresh(p)
    BY DEF BeatInv
  <2>2. CASE ~takes(p)
    <3>1. h_note'[p] = h_note[p] /\ h_socket'[p] = h_socket[p]
      BY <1>3, <2>2
    <3>2. BeatStamps(p)'
      BY <1>2, <2>1, <3>1 DEF BeatStamps
    <3>3. Connection(p)'
      BY <1>2, <2>1, <3>1 DEF Connection
    <3>4. h_leaving \in {"no", "chk"} => Len(h_socket[p]) = 0
      <4>1. h_leaving \in {"no", "chk"} => h_running["recv"] = 1
        BY <1>1, <1>2 DEF BeatInv, BeatFlags
      <4>2. QED
        BY <2>2, <4>1 DEF takes
    <3>5. BeatFresh(p)'
      BY <1>2, <3>1, <3>4 DEF BeatFresh
    <3>6. h_note[p] # None => h_note[p] \in Nat
      BY <1>3 DEF Times
    <3>7. QED
      BY <3>1, <3>2, <3>3, <3>5, <3>6
  <2>3. CASE takes(p)
    <3> DEFINE s == h_socket[p]
               t == h_socket'[p]
    <3>1. /\ h_note'[p] = s[1] /\ s[1] \in Nat /\ s[1] # None /\ h_running["recv"] = 1
          /\ Len(s) \in Nat /\ Len(s) > 0 /\ t \in Seq(Nat) /\ Len(t) = Len(s) - 1
          /\ \A i \in 1..Len(t) : i + 1 \in 1..Len(s) /\ t[i] = s[i + 1]
      <4>1. h_note'[p] = s[1] /\ t = Tail(s)
        BY <1>3, <2>3
      <4>2. /\ s[1] \in Nat /\ Len(s) \in Nat /\ Len(s) > 0 /\ Tail(s) \in Seq(Nat)
            /\ Len(Tail(s)) = Len(s) - 1
            /\ \A i \in 1..Len(Tail(s)) : i + 1 \in 1..Len(s) /\ Tail(s)[i] = s[i + 1]
        BY <1>3, <2>3
      <4>3. h_running["recv"] = 1 /\ s[1] # None
        BY <2>3, <4>2, LateSmall DEF takes
      <4>4. QED
        BY <4>1, <4>2, <4>3
    <3>2. 1 \in 1..Len(s) /\ Len(s) \in 1..Len(s)
      BY <3>1
    <3>3. /\ h_last[p] # None /\ h_last[p] \in Nat
          /\ h_begun.threads <= s[1] /\ s[1] <= h_last[p]
      BY <1>3, <2>1, <3>2 DEF Connection, Times
    <3>4. h_note[p] # None => h_note[p] \in Nat /\ h_note[p] + 4 <= s[1]
      BY <1>3, <2>1, <3>1 DEF Connection, Times
    <3>5. BeatStamps(p)'
      <4>1. h_tries[p] = None
        BY <2>1, <2>3 DEF BeatStamps, takes
      <4>2. h_phase'["recv"] = "loop"
        BY <1>2, <3>1
      <4>3. QED
        BY <1>2, <2>1, <3>1, <3>3, <4>1, <4>2 DEF BeatStamps
    <3>6. Len(t) > 0 => s[1] + 4 <= t[1] /\ t[1] <= s[1] + 4 + Late /\ t[1] \in Nat
      <4> SUFFICES ASSUME Len(t) > 0
                   PROVE  s[1] + 4 <= t[1] /\ t[1] <= s[1] + 4 + Late /\ t[1] \in Nat
        OBVIOUS
      <4>1. 1 \in 1..Len(t) /\ 1 + 1 <= Len(s)
        BY <3>1
      <4>2. t[1] = s[1 + 1] /\ t[1] \in Nat
        BY <3>1, <4>1
      <4>3. s[1] + 4 <= s[1 + 1] /\ s[1 + 1] <= s[1] + 4 + Late
        BY <2>1, <3>2, <4>1 DEF Connection
      <4>4. QED
        BY <4>2, <4>3
    <3>7. Connection(p)'
      <4>1. \A i \in 1..Len(t) : /\ h_last[p] # None
                                 /\ h_begun.threads <= t[i] /\ t[i] <= h_last[p]
        BY <2>1, <3>1 DEF Connection
      <4>2. \A i \in 1..Len(t) : i + 1 <= Len(t) =>
              t[i] + 4 <= t[i + 1] /\ t[i + 1] <= t[i] + 4 + Late
        <5> SUFFICES ASSUME NEW i \in 1..Len(t), i + 1 <= Len(t)
                     PROVE  t[i] + 4 <= t[i + 1] /\ t[i + 1] <= t[i] + 4 + Late
          OBVIOUS
        <5>1. /\ i + 1 \in 1..Len(s) /\ (i + 1) + 1 <= Len(s)
              /\ t[i] = s[i + 1] /\ t[i + 1] = s[(i + 1) + 1]
          BY <3>1
        <5>2. QED
          BY <2>1, <5>1 DEF Connection
      <4>3. h_tries[p] = None /\ h_leaving # "done" =>
              /\ Len(t) > 0 => t[Len(t)] = h_last[p]
              /\ ~(Len(t) > 0) => s[1] = h_last[p]
        <5> SUFFICES ASSUME h_tries[p] = None, h_leaving # "done"
                     PROVE  /\ Len(t) > 0 => t[Len(t)] = h_last[p]
                            /\ ~(Len(t) > 0) => s[1] = h_last[p]
          OBVIOUS
        <5>1. s[Len(s)] = h_last[p]
          BY <2>1, <3>1 DEF Connection
        <5>2. ASSUME Len(t) > 0
              PROVE  t[Len(t)] = s[Len(s)]
          <6>1. Len(t) \in 1..Len(t) /\ Len(t) + 1 = Len(s)
            BY <3>1, <5>2
          <6>2. t[Len(t)] = s[Len(t) + 1]
            BY <3>1, <6>1
          <6>3. QED
            BY <6>1, <6>2
        <5>3. ~(Len(t) > 0) => Len(s) = 1
          <6>1. Len(s) \in Nat /\ Len(s) > 0 /\ Len(t) = Len(s) - 1
            BY <3>1
          <6> DEFINE m == Len(s)
          <6>2. m \in Nat /\ m > 0 /\ Len(t) = m - 1
            BY <6>1
          <6> HIDE DEF m, s, t
          <6>3. ~(Len(t) > 0) => m = 1
            BY <6>2
          <6>4. QED
            BY <6>3 DEF m
        <5>4. QED
          BY <5>1, <5>2, <5>3
      <4>4. QED
        BY <1>2, <3>1, <3>6, <4>1, <4>2, <4>3 DEF Connection
    <3>8. BeatFresh(p)'
      <4> SUFFICES ASSUME h_leaving \in {"no", "chk"}, Len(t) > 0
                   PROVE  /\ h_now + 1 <= t[1] + Late + 1
                          /\ h_now + 1 <= s[1] + 2 * Late + 2
        BY <1>2, <3>1 DEF BeatFresh
      <4>1. h_due["recv"] <= s[1] + Late + 1
        BY <1>2, <2>1, <3>1 DEF BeatFresh
      <4>2. t[1] \in Nat /\ s[1] + 4 <= t[1] /\ s[1] \in Nat
        BY <3>1, <3>6
      <4>3. /\ h_now \in Nat /\ h_due["recv"] \in Nat /\ h_now <= h_due["recv"] + Late
            /\ Late \in Nat /\ Late <= 3
        BY <1>2, LateSmall
      <4> HIDE DEF s, t
      <4>4. QED
        BY <4>1, <4>2, <4>3, InTime
    <3>9. h_note[p] # None => h_note'[p] # None /\ h_note[p] <= h_note'[p]
      BY <3>1, <3>4
    <3>10. QED
      BY <3>5, <3>7, <3>8, <3>9
  <2>4. QED
    BY <2>2, <2>3
<1>6. BeatLost'
  <2> SUFFICES ASSUME h_phase["chk"] = "loop", h_leaving = "no",
                      ~(h_due["chk"] <= h_begun.threads + Late + 8),
                      NEW p \in Beating, p \notin h_lost
               PROVE  h_note'[p] # None /\ h_due["chk"] <= h_note'[p] + 13
    BY <1>1, <1>2 DEF BeatLost
  <2>1. h_note[p] # None /\ h_due["chk"] <= h_note[p] + 13
    BY DEF BeatInv, BeatLost
  <2>2. h_note[p] \in Nat /\ h_note'[p] \in Times /\ h_due["chk"] \in Times /\ h_due["chk"] # None
    BY <1>1, <1>3, <1>4, <2>1 DEF BeatTypes, Times, BeatInv, BeatClock
  <2>3. QED
    BY <1>5, <2>1, <2>2 DEF Times
<1>7. QED
  BY <1>2, <1>4, <1>5, <1>6 DEF BeatInv

LEMMA BeatCheck ==
  ASSUME BeatInv, H!Check("chk")
  PROVE  BeatInv'
<1>1. /\ H!Wakes("chk") /\ "chk" \in H!Workers /\ "recv" \in H!Workers \ {"chk"}
      /\ h_note' = h_note /\ h_socket' = h_socket
      /\ h_lost' = (IF h_running["chk"] = 0 THEN h_lost
                    ELSE {p \in Beating : h_note[p] = None \/ h_now - h_note[p] > 3 * 4})
  BY DEF H!Check, H!Workers, H!Interval
<1>2. /\ UNCHANGED <<h_now, h_tries, h_beat, h_last, h_running, h_leaving, h_begun, h_early>>
      /\ h_phase["chk"] = "loop" /\ h_now \in Nat
      /\ h_phase'["chk"] = (IF h_running["chk"] = 1 THEN "loop" ELSE "done")
      /\ h_due'["chk"] = (IF h_running["chk"] = 1 THEN h_now + 1 ELSE None)
      /\ h_phase'["recv"] = h_phase["recv"] /\ h_due'["recv"] = h_due["recv"]
      /\ h_phase' \in [H!Workers -> {"none", "new", "loop", "done"}]
      /\ h_due' \in [H!Workers -> Times]
      /\ BeatClock' /\ BeatFlags' /\ BeatExit'
  BY <1>1, BeatWakes
<1>3. BeatTypes'
  BY <1>1, <1>2 DEF BeatInv, BeatTypes
<1>4. \A p \in Beating : (BeatStamps(p) /\ Connection(p) /\ BeatFresh(p))'
  BY <1>1, <1>2 DEF BeatInv, BeatStamps, Connection, BeatFresh
<1>5. BeatLost'
  <2> SUFFICES ASSUME h_phase'["chk"] = "loop", NEW p \in Beating, p \notin h_lost'
               PROVE  h_note[p] # None /\ h_due'["chk"] <= h_note[p] + 13
    BY <1>1, <1>2 DEF BeatLost
  <2>1. h_running["chk"] = 1 /\ h_due'["chk"] = h_now + 1
    BY <1>2
  <2>2. h_note[p] # None /\ ~(h_now - h_note[p] > 3 * 4)
    BY <1>1, <2>1
  <2>3. h_note[p] \in Nat
    BY <2>2 DEF BeatInv, BeatTypes, Times
  <2>4. QED
    BY <1>2, <2>1, <2>2, <2>3
<1>6. QED
  BY <1>2, <1>3, <1>4, <1>5 DEF BeatInv

LEMMA BeatCancel ==
  ASSUME BeatInv, H!Cancel
  PROVE  BeatInv'
<1> USE DEF H!process
<1>1. /\ UNCHANGED <<h_now, h_tries, h_beat, h_last, h_note, h_phase, h_due, h_lost>>
      /\ h_begun.threads' = h_begun.threads
  BY DEF H!Cancel, BeatInv, BeatTypes
<1>2. BeatTypes /\ BeatTypes'
  <2>1. BeatTypes
    BY DEF BeatInv
  <2>2. h_running' \in [H!Workers -> {0, 1}]
    BY <2>1 DEF H!Cancel, BeatTypes
  <2>3. h_begun' \in [threads : Times, exit : Times]
    BY <2>1 DEF H!Cancel, BeatTypes, Times
  <2>4. h_socket' \in [Beating -> Seq(Nat)]
    <3>1. h_socket' = h_socket \/ h_socket' = [p \in Beating |-> <<>>]
      BY DEF H!Cancel
    <3>2. [p \in Beating |-> <<>>] \in [Beating -> Seq(Nat)]
      OBVIOUS
    <3>3. QED
      BY <2>1, <3>1, <3>2 DEF BeatTypes
  <2>5. h_leaving' \in {"no", "chk", "recv", "done"} /\ h_early' \in BOOLEAN
    BY <2>1 DEF H!Cancel, BeatTypes
  <2>6. QED
    BY <1>1, <2>1, <2>2, <2>3, <2>4, <2>5 DEF BeatTypes
<1>3. BeatClock'
  BY <1>1 DEF BeatInv, BeatClock
<1>4. CASE /\ h_begun.threads # None /\ h_leaving = "no" /\ h_leaving' = "chk"
           /\ h_begun' = [h_begun EXCEPT !.exit = h_now]
           /\ h_running' = [h_running EXCEPT !["chk"] = 0]
           /\ h_early' = (h_early \/ h_phase["chk"] = "new") /\ h_socket' = h_socket
  <2>1. /\ h_begun'.exit = h_now /\ h_now \in Nat /\ h_running'["chk"] = 0
        /\ h_running'["recv"] = h_running["recv"]
    BY <1>2, <1>4 DEF BeatTypes, H!Workers
  <2>2. BeatFlags'
    BY <1>1, <1>2, <1>4, <2>1, LateSmall DEF BeatInv, BeatFlags, H!Workers
  <2>3. BeatExit'
    <3>1. h_phase["chk"] = "loop" => h_due["chk"] <= h_now + 8
      BY DEF BeatInv, BeatClock, H!Workers
    <3>2. h_now <= h_now + 8 + Late
      BY <2>1, LateSmall
    <3>3. h_leaving' = "chk" /\ (~h_early' => h_phase["chk"] # "new")
      BY <1>4
    <3>4. QED
      BY <1>1, <2>1, <3>1, <3>2, <3>3 DEF BeatExit
  <2>4. BeatLost' /\ \A p \in Beating : (BeatStamps(p) /\ Connection(p) /\ BeatFresh(p))'
    BY <1>1, <1>4 DEF BeatInv, BeatLost, BeatStamps, Connection, BeatFresh
  <2>5. QED
    BY <1>2, <1>3, <2>2, <2>3, <2>4 DEF BeatInv
<1>5. CASE /\ H!Joins("chk") /\ h_leaving' = "recv"
           /\ h_running' = [h_running EXCEPT !["recv"] = 0]
           /\ h_early' = (h_early \/ h_phase["recv"] = "new")
           /\ UNCHANGED <<h_begun, h_socket>>
  <2>1. h_leaving = "chk" /\ h_phase["chk"] = "done" /\ h_running'["recv"] = 0
    BY <1>2, <1>5 DEF BeatTypes, H!Workers, H!Joins
  <2>2. BeatFlags'
    BY <1>1, <1>5, <2>1 DEF BeatInv, BeatFlags, H!Workers
  <2>3. BeatExit'
    <3> SUFFICES ASSUME ~h_early, h_phase["recv"] # "new"
                 PROVE  /\ h_phase["recv"] = "loop" => h_due["recv"] <= h_begun.exit + 9 + Late
                        /\ h_now <= h_begun.exit + 9 + 2 * Late
      BY <1>1, <1>5, <2>1 DEF BeatExit
    <3>1. h_now <= h_begun.exit + 8 + Late /\ h_begun.exit # None
      BY <2>1 DEF BeatInv, BeatExit, BeatFlags
    <3>2. h_phase["recv"] = "loop" => /\ h_due["recv"] # None /\ h_due["recv"] <= h_now + 1
      BY DEF BeatInv, BeatClock, H!Workers
    <3>3. h_now \in Nat /\ h_begun.exit \in Nat /\ h_due["recv"] \in Times
      BY <1>2, <3>1 DEF BeatTypes, Times, H!Workers
    <3>4. QED
      BY <3>1, <3>2, <3>3, LateSmall DEF Times
  <2>4. BeatLost' /\ \A p \in Beating : (BeatStamps(p) /\ Connection(p) /\ BeatFresh(p))'
    BY <1>1, <1>5, <2>1 DEF BeatInv, BeatLost, BeatStamps, Connection, BeatFresh
  <2>5. QED
    BY <1>2, <1>3, <2>2, <2>3, <2>4 DEF BeatInv
<1>6. CASE /\ H!Joins("recv") /\ h_leaving' = "done"
           /\ h_socket' = [p \in Beating |-> <<>>] /\ UNCHANGED <<h_running, h_begun, h_early>>
  <2>1. h_leaving = "recv" /\ h_phase["recv"] = "done"
    BY <1>6 DEF H!Joins
  <2>2. BeatFlags' /\ BeatExit' /\ BeatLost'
    BY <1>1, <1>6, <2>1 DEF BeatInv, BeatFlags, BeatExit, BeatLost
  <2>3. ASSUME NEW p \in Beating
        PROVE  (BeatStamps(p) /\ Connection(p) /\ BeatFresh(p))'
    <3>1. h_socket'[p] = <<>> /\ Len(h_socket'[p]) = 0
      BY <1>6
    <3>2. BeatStamps(p)
      BY DEF BeatInv
    <3>3. QED
      BY <1>1, <1>6, <3>1, <3>2 DEF BeatStamps, Connection, BeatFresh
  <2>4. QED
    BY <1>2, <1>3, <2>2, <2>3 DEF BeatInv
<1>7. QED
  BY <1>4, <1>5, <1>6 DEF H!Cancel

LEMMA BeatInit == H!Init => BeatInv
<1> SUFFICES ASSUME H!Init PROVE BeatInv
  OBVIOUS
<1>1. /\ h_now = 0 /\ h_tries = [p \in Beating |-> Retries]
      /\ h_beat = [p \in Beating |-> None] /\ h_socket = [p \in Beating |-> <<>>]
      /\ h_note = [p \in Beating |-> None] /\ h_last = [p \in Beating |-> None]
      /\ h_running = [w \in H!Workers |-> 0] /\ h_phase = [w \in H!Workers |-> "none"]
      /\ h_due = [w \in H!Workers |-> None] /\ h_leaving = "no" /\ h_early = FALSE
      /\ h_begun = [threads |-> None, exit |-> None]
  BY DEF H!Init
<1>2. BeatTypes
  <2>1. /\ h_now \in Nat /\ h_tries \in [Beating -> Times] /\ h_beat \in [Beating -> Times]
        /\ h_note \in [Beating -> Times] /\ h_last \in [Beating -> Times]
    BY <1>1, LateSmall DEF Times
  <2>2. /\ h_running \in [H!Workers -> {0, 1}]
        /\ h_phase \in [H!Workers -> {"none", "new", "loop", "done"}]
        /\ h_due \in [H!Workers -> Times]
    BY <1>1 DEF Times
  <2>3. h_begun \in [threads : Times, exit : Times] /\ h_socket \in [Beating -> Seq(Nat)]
    BY <1>1 DEF Times
  <2>4. QED
    BY <1>1, <2>1, <2>2, <2>3 DEF BeatTypes
<1>3. BeatClock /\ BeatFlags /\ BeatExit /\ BeatLost
  BY <1>1, LateSmall DEF BeatClock, BeatFlags, BeatExit, BeatLost, H!Workers
<1>4. ASSUME NEW p \in Beating
      PROVE  BeatStamps(p) /\ Connection(p) /\ BeatFresh(p)
  <2>1. /\ h_tries[p] = Retries /\ h_beat[p] = None /\ h_socket[p] = <<>>
        /\ h_note[p] = None /\ h_last[p] = None /\ Len(h_socket[p]) = 0
    BY <1>1
  <2>2. QED
    BY <1>1, <2>1, LateSmall DEF BeatStamps, Connection, BeatFresh, H!Workers
<1>5. QED
  BY <1>2, <1>3, <1>4 DEF BeatInv

LEMMA BeatKept == BeatInv /\ [H!Next]_(H!vars) => BeatInv'
<1> SUFFICES ASSUME BeatInv, [H!Next]_(H!vars) PROVE BeatInv'
  OBVIOUS
<1>1. CASE UNCHANGED H!vars
  BY <1>1 DEF H!vars, BeatInv, BeatTypes, BeatClock, BeatFlags, BeatExit, BeatLost,
              BeatStamps, Connection, BeatFresh
<1>2. QED
  BY <1>1, BeatTick, BeatCreate, BeatCancel, BeatRecv, BeatCheck, BeatStart, BeatConnect,
     BeatSend, BeatDie DEF H!Next

\* A process that is gone or that core cannot hear is among the lost once its
\* last beat is four intervals old, and the exit ends in time: for any processes
\* and any delay of the threads that is shorter than the interval.
THEOREM BeatDeadIsReported == H!Spec => []DeadIsReported
<1>1. BeatInv => DeadIsReported
  <2> SUFFICES ASSUME BeatInv PROVE H!DeadIsReported /\ H!ExitsInTime
    BY DEF DeadIsReported
  <2>1. BeatTypes /\ h_now \in Nat
    BY DEF BeatInv, BeatTypes
  <2>2. H!DeadIsReported
    <3> SUFFICES ASSUME h_phase["chk"] = "loop", h_leaving = "no",
                        h_now > h_begun.threads + 2 * 4 + 2 * Late,
                        NEW p \in Beating, H!Silent(p)
                 PROVE  p \in h_lost
      BY DEF H!DeadIsReported, H!Checks, H!Interval
    <3>1. /\ h_begun.threads \in Nat /\ h_due["chk"] \in Nat
          /\ h_now <= h_due["chk"] + Late
      BY <2>1 DEF BeatInv, BeatTypes, BeatClock, Times, H!Workers
    <3>2. ~(h_due["chk"] <= h_begun.threads + Late + 8)
      BY <2>1, <3>1, LateSmall
    <3> SUFFICES ASSUME p \notin h_lost PROVE FALSE
      OBVIOUS
    <3>3. h_note[p] # None /\ h_due["chk"] <= h_note[p] + 13
      BY <3>2 DEF BeatInv, BeatLost
    <3>4. /\ h_last[p] # None /\ h_note[p] <= h_last[p] /\ h_tries[p] = None
      BY <3>3 DEF BeatInv, BeatStamps
    <3>5. h_last[p] \in Nat /\ h_note[p] \in Nat
      BY <2>1, <3>3, <3>4 DEF BeatTypes, Times
    <3>6. h_now > h_last[p] + 4 * 4
      BY <3>4 DEF H!Silent, H!Connected, H!Interval
    <3>7. QED
      BY <2>1, <3>1, <3>3, <3>4, <3>5, <3>6, LateSmall
  <2>3. H!ExitsInTime
    <3> SUFFICES ASSUME h_leaving \in {"chk", "recv"}, ~h_early
                 PROVE  h_now <= h_begun.exit + 2 * 4 + 1 + 2 * Late
      BY DEF H!ExitsInTime, H!Interval
    <3>1. h_begun.exit \in Nat
      BY <2>1 DEF BeatInv, BeatFlags, BeatTypes, Times
    <3>2. h_now <= h_begun.exit + 8 + Late \/ h_now <= h_begun.exit + 9 + 2 * Late
      BY DEF BeatInv, BeatExit
    <3>3. QED
      BY <2>1, <3>1, <3>2, LateSmall
  <2>4. QED
    BY <2>2, <2>3
<1>2. QED
  BY <1>1, BeatInit, BeatKept, PTL DEF H!Spec

-----------------------------------------------------------------------------
Feedings == [last : Nat, threshold : Nat]

\* The clock the monitor read is not after the present; who is registered has a
\* record, which is its own unless the id has been left; and a record of nobody
\* is one of an id that has been left.
SwdgInv ==
  /\ d_now \in Nat /\ d_monitor \in Times
  /\ d_monitor # None => d_monitor <= d_now
  /\ d_thread \in [Watched -> {None} \cup Feedings]
  /\ d_table \in [Watched -> {None} \cup Feedings]
  /\ \A t \in Watched :
       /\ d_thread[t] # None => d_table[t] # None
       /\ t \notin d_left => d_table[t] = d_thread[t]

LEMMA SwdgConstants ==
  Thresholds \subseteq Nat /\ None \notin Nat /\ None \notin Feedings
  BY ProcsAssumptions DEF D!SwdgAssumption, Feedings

LEMMA SwdgKept == SwdgInv /\ [D!Next]_(D!vars) => SwdgInv'
<1> SUFFICES ASSUME SwdgInv, [D!Next]_(D!vars) PROVE SwdgInv'
  OBVIOUS
<1>1. CASE UNCHANGED D!vars
  BY <1>1 DEF D!vars, SwdgInv
<1>2. CASE D!Tick \/ D!Monitor
  <2>1. /\ UNCHANGED <<d_thread, d_table, d_left>>
        /\ \/ d_now' = d_now + 1 /\ d_monitor' = d_monitor
           \/ d_now' = d_now /\ d_monitor' \in {d_now, None}
    BY <1>2 DEF D!Tick, D!Monitor, D!MonitorStart, D!MonitorScan
  <2>2. QED
    BY <2>1, SwdgConstants DEF SwdgInv, Times
<1>3. ASSUME NEW t \in Watched, NEW h \in Thresholds, D!Register(t, h)
      PROVE  SwdgInv'
  <2> DEFINE r == [last |-> d_now, threshold |-> h]
  <2>1. r \in Feedings /\ r # None
    BY SwdgConstants DEF SwdgInv, Feedings
  <2> HIDE DEF r
  <2>2. /\ d_thread[t] = None /\ UNCHANGED <<d_now, d_monitor, d_left>>
        /\ d_thread' = [d_thread EXCEPT ![t] = r]
        /\ d_table' = [d_table EXCEPT ![t] = IF d_table[t] = None THEN r ELSE d_table[t]]
    BY <1>3 DEF D!Register, D!Alive, r
  <2>3. QED
    BY <2>1, <2>2 DEF SwdgInv
<1>4. ASSUME NEW t \in Watched, D!Feed(t)
      PROVE  SwdgInv'
  <2> DEFINE r == [d_thread[t] EXCEPT !.last = d_now]
             s == [d_table[t] EXCEPT !.last = d_now]
  <2>1. d_thread[t] \in Feedings /\ d_table[t] \in Feedings
    BY <1>4 DEF D!Feed, D!Alive, SwdgInv
  <2>2. r \in Feedings /\ s \in Feedings /\ r # None /\ s # None
    BY <2>1, SwdgConstants DEF SwdgInv, Feedings
  <2>3. t \notin d_left => r = s
    BY DEF SwdgInv
  <2> HIDE DEF r, s
  <2>4. /\ UNCHANGED <<d_now, d_monitor, d_left>>
        /\ d_thread' = [d_thread EXCEPT ![t] = r] /\ d_table' = [d_table EXCEPT ![t] = s]
    BY <1>4 DEF D!Feed, r, s
  <2>5. QED
    BY <2>2, <2>3, <2>4 DEF SwdgInv
<1>5. ASSUME NEW t \in Watched, D!Deregister(t)
      PROVE  SwdgInv'
  BY <1>5 DEF D!Deregister, SwdgInv
<1>6. QED
  BY <1>1, <1>2, <1>3, <1>4, <1>5 DEF D!Next

LEMMA SwdgWarns ==
  ASSUME SwdgInv, D!Next, d_monitor # None, d_monitor' = None
  PROVE  /\ \A t \in d_warned' : D!Unfed(t, d_monitor) \/ D!Fed(t) \/ t \in d_left
         /\ \A t \in Watched \ d_left : D!Unfed(t, d_monitor) => t \in d_warned'
<1>1. D!MonitorScan
  BY DEF D!Next, D!Tick, D!Monitor, D!MonitorStart, D!Register, D!Feed, D!Deregister
<1>2. /\ d_monitor \in Nat
      /\ d_warned' = {t \in D!Recorded : D!OverThreshold(d_table[t], d_monitor)}
  BY <1>1 DEF D!MonitorScan, SwdgInv, Times
<1>3. ASSUME NEW t \in Watched \ d_left, d_table[t] # None
      PROVE  /\ t \in D!Alive /\ d_table[t] = d_thread[t]
             /\ d_table[t].last \in Nat /\ d_table[t].threshold \in Nat
  BY <1>3 DEF SwdgInv, D!Alive, Feedings
<1>4. ASSUME NEW t \in d_warned', t \notin d_left
      PROVE  D!Unfed(t, d_monitor) \/ D!Fed(t)
  <2>1. t \in Watched \ d_left /\ d_table[t] # None /\ D!OverThreshold(d_table[t], d_monitor)
    BY <1>2, <1>4 DEF D!Recorded
  <2>2. QED
    BY <1>2, <1>3, <2>1 DEF D!OverThreshold, D!Unfed, D!Fed
<1>5. ASSUME NEW t \in Watched \ d_left, D!Unfed(t, d_monitor)
      PROVE  t \in d_warned'
  <2>1. d_table[t] # None
    BY <1>5 DEF D!Unfed, D!Alive, SwdgInv
  <2>2. D!OverThreshold(d_table[t], d_monitor)
    BY <1>3, <1>5, <2>1 DEF D!Unfed, D!OverThreshold
  <2>3. QED
    BY <1>2, <2>1, <2>2 DEF D!Recorded
<1>6. QED
  BY <1>4, <1>5

LEMMA BeatNoFalseLoss ==
  ASSUME BeatInv, H!Next, NEW p \in h_lost' \ h_lost
  PROVE  H!Excused(p)
<1>1. H!Check("chk")
  BY DEF H!Next, H!Tick, H!Create, H!Cancel, H!Recv, H!Start, H!Connect, H!Send, H!Die, H!core
<1>2. p \in Beating /\ (h_note[p] = None \/ h_now - h_note[p] > 12)
  BY <1>1 DEF H!Check, H!Interval
<1>3. /\ h_phase["chk"] = "loop" /\ h_due["chk"] # None /\ h_due["chk"] <= h_now
  BY <1>1 DEF H!Check, H!Wakes, H!Due
<1>4. BeatTypes /\ BeatStamps(p) /\ Connection(p) /\ BeatFresh(p) /\ p \in Beating
  BY <1>1, <1>2 DEF BeatInv, H!Check
<1>5. /\ h_now \in Nat /\ h_begun.threads \in Nat /\ h_due["chk"] \in Nat
      /\ h_begun.threads + 8 <= h_now /\ h_leaving \in {"no", "chk"}
      /\ h_phase["recv"] \in {"new", "loop"} /\ h_due["recv"] \in Nat
      /\ h_now <= h_due["recv"] + Late
  <2>1. h_now \in Nat /\ h_begun.threads \in Nat /\ h_due["chk"] \in Nat
    BY <1>3, <1>4 DEF BeatInv, BeatTypes, BeatClock, Times, H!Workers
  <2>2. h_due["chk"] >= h_begun.threads + 8
    BY <1>3 DEF BeatInv, BeatClock
  <2>3. h_leaving \in {"no", "chk"} /\ h_phase["recv"] \in {"new", "loop"}
    BY <1>3, <1>4, <2>1, LateSmall DEF BeatInv, BeatTypes, BeatFlags, BeatClock, H!Workers
  <2>4. h_due["recv"] \in Nat /\ h_now <= h_due["recv"] + Late
    BY <1>4, <2>3 DEF BeatInv, BeatTypes, BeatClock, Times, H!Workers
  <2>5. QED
    BY <1>3, <2>1, <2>2, <2>3, <2>4
<1> SUFFICES ASSUME h_beat[p] # None, h_tries[p] = None
             PROVE  h_note[p] = None /\ (h_last[p] = None \/ h_last[p] + 1 + Late >= h_now)
  BY DEF H!Excused, H!Connected, H!FirstIsLate
<1> DEFINE first == h_socket[p][1]
<1>6. Len(h_socket[p]) > 0 =>
        /\ first \in Nat /\ h_last[p] \in Nat /\ first <= h_last[p]
        /\ h_note[p] # None => first <= h_note[p] + 4 + Late
        /\ \/ h_due["recv"] <= first + 1
           \/ h_note[p] = None /\ h_due["recv"] <= h_begun.threads + Late
           \/ h_note[p] # None /\ h_due["recv"] <= h_note[p] + 2 * Late + 2
  <2> SUFFICES ASSUME Len(h_socket[p]) > 0
               PROVE  /\ first \in Nat /\ h_last[p] \in Nat /\ first <= h_last[p]
                      /\ h_note[p] # None => first <= h_note[p] + 4 + Late
                      /\ \/ h_due["recv"] <= first + 1
                         \/ h_note[p] = None /\ h_due["recv"] <= h_begun.threads + Late
                         \/ h_note[p] # None /\ h_due["recv"] <= h_note[p] + 2 * Late + 2
    OBVIOUS
  <2>1. h_socket[p] \in Seq(Nat) /\ 1 \in 1..Len(h_socket[p]) /\ first \in Nat
    BY <1>4 DEF BeatTypes
  <2>2. h_last[p] \in Nat /\ first <= h_last[p]
    BY <1>4, <2>1 DEF Connection, BeatTypes, Times
  <2>3. QED
    BY <1>4, <1>5, <2>1, <2>2 DEF Connection, BeatFresh
<1> HIDE DEF first
<1>7. CASE h_note[p] = None
  <2> SUFFICES ASSUME h_last[p] # None PROVE h_last[p] + 1 + Late >= h_now
    BY <1>7
  <2>1. Len(h_socket[p]) > 0
    BY <1>4, <1>5, <1>7 DEF Connection
  <2>2. h_due["recv"] <= first + 1 \/ h_due["recv"] <= h_begun.threads + Late
    BY <1>6, <1>7, <2>1
  <2>3. QED
    BY <1>5, <1>6, <2>1, <2>2, LateSmall
<1>8. CASE h_note[p] # None
  <2>1. /\ h_note[p] \in Nat /\ h_now > h_note[p] + 12
    BY <1>2, <1>4, <1>5, <1>8 DEF BeatTypes, Times
  <2>2. CASE Len(h_socket[p]) > 0
    <3>1. h_due["recv"] <= first + 1 \/ h_due["recv"] <= h_note[p] + 2 * Late + 2
      BY <1>6, <1>8, <2>2
    <3>2. QED
      BY <1>5, <1>6, <1>8, <2>1, <2>2, <3>1, LateSmall
  <2>3. CASE ~(Len(h_socket[p]) > 0)
    <3>1. h_note[p] = h_last[p]
      BY <1>4, <1>5, <2>3 DEF Connection
    <3>2. h_beat[p] = h_note[p] + 4 /\ h_now <= h_beat[p] + Late
      BY <1>4, <1>8, <3>1 DEF BeatInv, BeatStamps, BeatClock
    <3>3. QED
      BY <1>5, <2>1, <3>2, LateSmall
  <2>4. QED
    BY <2>2, <2>3
<1>9. QED
  BY <1>7, <1>8

\* A round of the watchdog warns of every thread with an id of its own that is
\* late, and of no other, save those that feed it in the middle of the round and
\* the ids of threads that have deregistered; and a process that runs and is
\* connected is not reported as lost, unless its first beat has just been sent:
\* for any threads, processes and thresholds.
THEOREM NeverAFalseAlarm == D!Spec /\ H!Spec => NoFalseAlarm
<1>1. D!Init => SwdgInv
  BY SwdgConstants DEF D!Init, SwdgInv, Times, Feedings
<1>2. SwdgInv /\ [D!Next]_(D!vars) =>
        [d_monitor # None /\ d_monitor' = None =>
           /\ \A t \in d_warned' : D!Unfed(t, d_monitor) \/ D!Fed(t) \/ t \in d_left
           /\ \A t \in Watched \ d_left : D!Unfed(t, d_monitor) => t \in d_warned']_(D!vars)
  BY SwdgWarns
<1>3. D!Spec => D!WarnsOfTheLate
  BY <1>1, <1>2, SwdgKept, PTL DEF D!Spec, D!WarnsOfTheLate
<1>4. BeatInv /\ [H!Next]_(H!vars) => [\A p \in h_lost' \ h_lost : H!Excused(p)]_(H!vars)
  BY BeatNoFalseLoss
<1>5. H!Spec => H!NoFalseLoss
  BY <1>4, BeatInit, BeatKept, PTL DEF H!Spec, H!NoFalseLoss
<1>6. QED
  BY <1>3, <1>5, PTL DEF NoFalseAlarm

-----------------------------------------------------------------------------
(* Syslog *)

LogTypes ==
  /\ l_queue \in Seq(Nat) /\ l_made \in Nat
  /\ l_head \in Nat /\ l_tail \in Nat /\ l_entries \in [0..LogRing - 1 -> Nat]
  /\ l_flushCtx \in Seq(Nat) /\ l_static \in Seq(Nat) /\ l_file \in Seq(Nat)
  /\ l_shown \in Seq(Nat) /\ l_meant \in Seq(Nat)
  /\ l_fd \in {-1, 0, 3}
  /\ l_has \in [{"consumer", "flusher"} -> Nat]
  /\ l_pc \in [{"consumer", "flusher"} -> {"start", "test", "pop", "write", "last",
                                           "writeLast", "wait", "done"}]
  /\ l_accepted \in Seq(Nat) /\ l_astray \in Seq(Nat)
  /\ l_raced \in BOOLEAN /\ l_flash \in BOOLEAN

\* A thread has an offset in the static buffer only between its copy and its
\* write, and two have one only when the buffer was written to under the other.
Offsets ==
  /\ \A f \in {"consumer", "flusher"} : l_has[f] <= Len(l_static)
  /\ l_has["consumer"] > 0 => l_pc["consumer"] \in {"write", "writeLast"}
  /\ l_has["flusher"] > 0 => l_pc["flusher"] = "write"
  /\ ~l_raced => l_has["consumer"] = 0 \/ l_has["flusher"] = 0

\* The ring: entry number i, counted from zero, is at i modulo the size.
RingHolds ==
  /\ l_head = Len(l_shown)
  /\ l_head - l_tail = IF Len(l_shown) < LogRing THEN Len(l_shown) ELSE LogRing
  /\ \A i \in l_tail..l_head - 1 : l_entries[i % LogRing] = l_shown[i + 1]

\* What is written, and what is due from the static buffer, if one thread has an
\* offset in it.
Out == l_astray \o l_file
Due == IF l_has["consumer"] > 0 THEN l_has["consumer"] ELSE l_has["flusher"]

OnItsWay == Out \o SubSeq(l_static, 1, Due) \o l_flushCtx

\* Whether the file is open or not yet, the warnings are written, in the static
\* buffer or in the one of the ring.
Meant == ~l_raced /\ l_fd # -1 => OnItsWay = l_meant

\* In a race their number still is that of the lines.
Counted ==
  l_fd # -1 => Len(l_astray) + Len(l_file) + l_has["consumer"] + l_has["flusher"]
                 + Len(l_flushCtx) = Len(l_meant)

\* With a file the buffer is flushed before it is full; before it is open nothing
\* is in it.
Small ==
  /\ l_fd # -1 => Len(l_flushCtx) < L!Threshold
  /\ l_fd = 0 => l_file = <<>>

\* The last flush leaves nothing, and the exit waits for both threads.
Leaving ==
  /\ l_pc["consumer"] \in {"writeLast", "done"} /\ l_fd # -1 => l_flushCtx = <<>>
  /\ l_exit \in {"cancel", "done"} => l_pc["consumer"] = "done"
  /\ l_exit = "done" => l_pc["flusher"] = "done"

LogInv ==
  LogTypes /\ Offsets /\ RingHolds /\ Meant /\ Counted /\ Small /\ Leaving
    /\ l_accepted = l_shown \o l_queue

\* What a sequence begins with, and what it ends with.
LEMMA StartsWith ==
  ASSUME NEW s \in Seq(Nat), NEW t \in Seq(Nat)
  PROVE  SubSeq(s \o t, 1, Len(s)) = s
<1>1. SubSeq(s \o t, 1, Len(s)) \in Seq(Nat) /\ Len(SubSeq(s \o t, 1, Len(s))) = Len(s)
  OBVIOUS
<1>2. \A i \in 1..Len(s) : SubSeq(s \o t, 1, Len(s))[i] = s[i]
  OBVIOUS
<1>3. QED
  BY <1>1, <1>2, SeqEqual

LEMMA AppendLast ==
  ASSUME NEW s \in Seq(Nat), NEW t \in Seq(Nat), NEW e \in Nat
  PROVE  s \o Append(t, e) = Append(s \o t, e)
<1>1. Append(t, e) \in Seq(Nat) /\ s \o t \in Seq(Nat)
  OBVIOUS
<1>2. Len(s \o Append(t, e)) = Len(Append(s \o t, e))
  BY <1>1
<1>3. \A i \in 1..Len(s \o Append(t, e)) : (s \o Append(t, e))[i] = Append(s \o t, e)[i]
  BY <1>1
<1>4. QED
  BY <1>1, <1>2, <1>3, SeqEqual

LEMMA ConcatType ==
  ASSUME NEW s \in Seq(Nat), NEW t \in Seq(Nat)
  PROVE  s \o t \in Seq(Nat) /\ Len(s \o t) = Len(s) + Len(t)
  OBVIOUS

LEMMA ConcatEmpty ==
  ASSUME NEW s \in Seq(Nat)
  PROVE  s \o <<>> = s /\ <<>> \o s = s
  OBVIOUS

LEMMA ConcatAssoc ==
  ASSUME NEW s \in Seq(Nat), NEW t \in Seq(Nat), NEW u \in Seq(Nat)
  PROVE  s \o (t \o u) = (s \o t) \o u
<1>1. t \o u \in Seq(Nat) /\ s \o t \in Seq(Nat)
  OBVIOUS
<1>2. Len(s \o (t \o u)) = Len((s \o t) \o u)
  BY <1>1
<1>3. \A i \in 1..Len(s \o (t \o u)) : (s \o (t \o u))[i] = ((s \o t) \o u)[i]
  BY <1>1
<1>4. s \o (t \o u) \in Seq(Nat) /\ (s \o t) \o u \in Seq(Nat)
  BY <1>1
<1>5. QED
  BY <1>2, <1>3, <1>4, SeqEqual

LEMMA RingSize == LogRing \in Nat /\ LogRing > 1
  BY ProcsAssumptions DEF ProcsAssumptions, L!SyslogAssumption

\* Two of the last entries are not at one place of the ring.
LEMMA Whole == ASSUME NEW r \in Nat, NEW a \in Int, a >= 1 PROVE r * a >= r
  OBVIOUS

LEMMA Divided ==
  ASSUME NEW r \in Nat \ {0}, NEW i \in Nat
  PROVE  i = r * (i \div r) + (i % r) /\ (i % r) \in 0..r - 1 /\ (i \div r) \in Int
  OBVIOUS

LEMMA PlacesDiffer ==
  ASSUME NEW r \in Nat \ {0}, NEW i \in Nat, NEW j \in Nat, i < j, j < i + r
  PROVE  i % r # j % r
<1> SUFFICES ASSUME i % r = j % r PROVE FALSE
  OBVIOUS
<1>1. /\ i = r * (i \div r) + (i % r) /\ j = r * (j \div r) + (j % r)
      /\ (i \div r) \in Int /\ (j \div r) \in Int /\ (i % r) \in Int
  BY Divided
<1> DEFINE d == (j \div r) - (i \div r)
<1>2. d \in Int /\ r * d = r * (j \div r) - r * (i \div r)
  BY <1>1
<1>3. r * (j \div r) - r * (i \div r) = j - i
  BY <1>1
<1> HIDE DEF d
<1>4. r * d = j - i
  BY <1>2, <1>3
<1>5. CASE d >= 1
  BY <1>2, <1>4, <1>5, Whole
<1>6. CASE d <= 0
  <2>1. r * d <= 0
    BY <1>2, <1>6
  <2>2. QED
    BY <1>4, <2>1
<1>7. QED
  BY <1>2, <1>5, <1>6

\* The static buffer keeps its length or grows, so that what is due is there.
LEMMA CopyTypes ==
  ASSUME LogTypes, Offsets, NEW f \in {"consumer", "flusher"}, NEW pending \in Seq(Nat),
         L!Copy(f, pending)
  PROVE  /\ l_static' \in Seq(Nat) /\ l_flushCtx' \in Seq(Nat) /\ l_raced' \in BOOLEAN
         /\ l_has' \in [{"consumer", "flusher"} -> Nat]
         /\ \A g \in {"consumer", "flusher"} : l_has'[g] <= Len(l_static')
<1>1. CASE l_fd >= 0 /\ pending # <<>>
  <2> DEFINE rest == SubSeq(l_static, Len(pending) + 1, Len(l_static))
  <2>1. /\ rest \in Seq(Nat) /\ Len(pending) \in Nat /\ Len(rest) \in Nat
        /\ Len(pending) + Len(rest) >= Len(l_static)
    <3>1. Len(pending) \in Nat /\ Len(l_static) \in Nat /\ l_static \in Seq(Nat)
      BY DEF LogTypes
    <3>2. rest \in Seq(Nat) /\ Len(rest) = IF Len(pending) + 1 <= Len(l_static)
                                          THEN Len(l_static) - Len(pending) ELSE 0
      BY <3>1
    <3>3. QED
      BY <3>1, <3>2
  <2>2. /\ l_static' = pending \o rest /\ l_flushCtx' = <<>>
        /\ l_has' = [l_has EXCEPT ![f] = Len(pending)]
        /\ l_raced' = (l_raced \/ \E g \in {"consumer", "flusher"} \ {f} : l_has[g] > 0)
    BY <1>1 DEF L!Copy, L!Flushers
  <2> HIDE DEF rest
  <2>3. l_static' \in Seq(Nat) /\ Len(l_static') = Len(pending) + Len(rest)
    BY <2>1, <2>2
  <2>4. l_has' \in [{"consumer", "flusher"} -> Nat] /\ l_raced' \in BOOLEAN
    BY <2>1, <2>2 DEF LogTypes
  <2>5. ASSUME NEW g \in {"consumer", "flusher"} PROVE l_has'[g] <= Len(l_static')
    <3>1. l_has[g] <= Len(l_static) /\ l_has[g] \in Nat /\ Len(l_static) \in Nat
      BY DEF Offsets, LogTypes
    <3>2. l_has'[g] = IF g = f THEN Len(pending) ELSE l_has[g]
      BY <2>2 DEF LogTypes
    <3>3. QED
      BY <2>1, <2>3, <3>1, <3>2
  <2>6. QED
    BY <2>2, <2>3, <2>4, <2>5
<1>2. CASE ~(l_fd >= 0 /\ pending # <<>>)
  BY <1>2 DEF L!Copy, LogTypes, Offsets
<1>3. QED
  BY <1>1, <1>2

\* A flush moves what is pending to the static buffer: what was due to be
\* written from there is not lost unless that is a race.
LEMMA CopyKeeps ==
  ASSUME LogTypes, Offsets, NEW f \in {"consumer", "flusher"}, l_has[f] = 0,
         NEW pending \in Seq(Nat), NEW m, L!Copy(f, pending),
         Out' = Out, l_fd' = l_fd,
         ~l_raced /\ l_fd # -1 =>
           Out \o SubSeq(l_static, 1, Due) \o pending = m
  PROVE  ~l_raced' /\ l_fd' # -1 => OnItsWay' = m
<1> SUFFICES ASSUME ~l_raced', l_fd' # -1 PROVE OnItsWay' = m
  OBVIOUS
<1>1. CASE l_fd >= 0 /\ pending # <<>>
  <2>1. /\ l_static' = pending \o SubSeq(l_static, Len(pending) + 1, Len(l_static))
        /\ l_has' = [l_has EXCEPT ![f] = Len(pending)] /\ l_flushCtx' = <<>>
        /\ ~l_raced /\ \A g \in {"consumer", "flusher"} \ {f} : ~(l_has[g] > 0)
    BY <1>1 DEF L!Copy, L!Flushers
  <2>2. l_has["consumer"] = 0 /\ l_has["flusher"] = 0
    <3>1. l_has["consumer"] \in Nat /\ l_has["flusher"] \in Nat
      BY DEF LogTypes
    <3>2. CASE f = "consumer"
      BY <2>1, <3>1, <3>2
    <3>3. CASE f = "flusher"
      BY <2>1, <3>1, <3>3
    <3>4. QED
      BY <3>2, <3>3
  <2>3. Due = 0 /\ Due' = Len(pending)
    BY <2>1, <2>2, <1>1 DEF Due, LogTypes
  <2>4. Out \o SubSeq(l_static, 1, 0) \o pending = m
    BY <2>1, <2>3
  <2>5. Out \in Seq(Nat) /\ Out \o pending = m
    BY <2>4 DEF LogTypes, Out
  <2>6. SubSeq(l_static, Len(pending) + 1, Len(l_static)) \in Seq(Nat)
    BY DEF LogTypes
  <2>7. SubSeq(l_static', 1, Len(pending)) = pending
    BY <2>1, <2>6, StartsWith
  <2>8. OnItsWay' = Out \o pending \o <<>>
    BY <2>1, <2>3, <2>7 DEF OnItsWay
  <2>9. Out \o pending \in Seq(Nat)
    BY <2>5, ConcatType
  <2>10. QED
    BY <2>5, <2>8, <2>9
<1>2. CASE ~(l_fd >= 0 /\ pending # <<>>)
  <2>1. l_flushCtx' = pending /\ l_static' = l_static /\ l_has' = l_has /\ l_raced' = l_raced
    BY <1>2 DEF L!Copy
  <2>2. QED
    BY <2>1 DEF OnItsWay, Due
<1>3. QED
  BY <1>1, <1>2

\* What a thread writes was copied.
LEMMA Written ==
  ASSUME LogTypes, Offsets, NEW f \in {"consumer", "flusher"}
  PROVE  SubSeq(l_static, 1, l_has[f]) \in Seq(Nat)
<1>1. l_has[f] \in Nat /\ l_has[f] <= Len(l_static) /\ l_static \in Seq(Nat)
  BY DEF LogTypes, Offsets
<1>2. QED
  BY <1>1

\* A write takes what is due to the file, or to fd 0 as long as the file is not
\* open.
LEMMA WriteMoves ==
  ASSUME LogInv, NEW f \in {"consumer", "flusher"}, L!Write(f), l_fd # -1
  PROVE  /\ Out' = Out \o SubSeq(l_static, 1, l_has[f])
         /\ l_astray' \in Seq(Nat) /\ l_file' \in Seq(Nat)
         /\ Len(l_astray') + Len(l_file') = Len(l_astray) + Len(l_file) + l_has[f]
<1> DEFINE lines == SubSeq(l_static, 1, l_has[f])
<1>1. /\ lines \in Seq(Nat) /\ Len(lines) = l_has[f] /\ l_has[f] \in Nat
      /\ l_astray \in Seq(Nat) /\ l_file \in Seq(Nat)
  BY Written DEF LogInv, LogTypes
<1>2. /\ l_file' = IF l_fd = 3 THEN l_file \o lines ELSE l_file
      /\ l_astray' = IF l_fd = 0 THEN l_astray \o lines ELSE l_astray
      /\ l_fd = 0 \/ l_fd = 3
  BY DEF L!Write, LogInv, LogTypes
<1> HIDE DEF lines
<1>3. CASE l_fd = 3
  <2>1. l_file' = l_file \o lines /\ l_astray' = l_astray
    BY <1>2, <1>3
  <2>2. l_astray \o (l_file \o lines) = (l_astray \o l_file) \o lines
    BY <1>1, ConcatAssoc
  <2>3. l_file \o lines \in Seq(Nat) /\ Len(l_file \o lines) = Len(l_file) + l_has[f]
    BY <1>1, ConcatType
  <2>4. Out' = Out \o lines
    BY <2>1, <2>2 DEF Out
  <2>5. QED
    BY <1>1, <2>1, <2>3, <2>4 DEF lines
<1>4. CASE l_fd = 0
  <2>1. l_file' = <<>> /\ l_file = <<>> /\ l_astray' = l_astray \o lines
    BY <1>2, <1>4 DEF LogInv, Small
  <2>2. /\ l_astray \o lines \in Seq(Nat)
        /\ Len(l_astray \o lines) = Len(l_astray) + l_has[f]
    BY <1>1, ConcatType
  <2>3. l_astray \o <<>> = l_astray /\ (l_astray \o lines) \o <<>> = l_astray \o lines
    BY <1>1, <2>2, ConcatEmpty
  <2>4. Out' = Out \o lines
    BY <2>1, <2>3 DEF Out
  <2>5. QED
    BY <1>1, <2>1, <2>2, <2>4 DEF lines
<1>5. QED
  BY <1>2, <1>3, <1>4

LEMMA WriteKeeps ==
  ASSUME LogInv, NEW f \in {"consumer", "flusher"}, L!Write(f)
  PROVE  Meant'
<1> SUFFICES ASSUME ~l_raced', l_fd' # -1 PROVE OnItsWay' = l_meant'
  BY DEF Meant
<1>1. /\ l_has' = [l_has EXCEPT ![f] = 0] /\ l_flushCtx' = l_flushCtx
      /\ l_static' = l_static /\ l_meant' = l_meant /\ l_fd' = l_fd /\ l_raced' = l_raced
  BY DEF L!Write
<1>2. OnItsWay = l_meant /\ Out' = Out \o SubSeq(l_static, 1, l_has[f])
  BY <1>1, WriteMoves DEF LogInv, Meant
<1>3. l_flushCtx \in Seq(Nat) /\ l_static \in Seq(Nat) /\ Out' \in Seq(Nat)
  BY <1>1, WriteMoves DEF LogInv, LogTypes, Out
<1>4. /\ l_has["consumer"] \in Nat /\ l_has["flusher"] \in Nat
      /\ l_has["consumer"] = 0 \/ l_has["flusher"] = 0
  BY <1>1 DEF LogInv, LogTypes, Offsets
<1>5. CASE l_has[f] > 0
  <2>1. Due = l_has[f] /\ Due' = 0
    BY <1>1, <1>4, <1>5 DEF Due, LogInv, LogTypes
  <2>2. SubSeq(l_static', 1, Due') = <<>> /\ Out' \o <<>> = Out'
    BY <1>1, <1>3, <2>1
  <2>3. OnItsWay' = Out' \o l_flushCtx
    BY <1>1, <2>2 DEF OnItsWay
  <2>4. QED
    BY <1>1, <1>2, <2>1, <2>3 DEF OnItsWay
<1>6. CASE ~(l_has[f] > 0)
  <2>1. l_has[f] = 0 /\ l_has' = l_has
    BY <1>1, <1>4, <1>6 DEF LogInv, LogTypes
  <2>2. SubSeq(l_static, 1, l_has[f]) = <<>> /\ Out \in Seq(Nat)
    BY <1>3, <2>1 DEF LogInv, LogTypes, Out
  <2>3. Out' = Out
    BY <1>2, <2>2, ConcatEmpty
  <2>4. QED
    BY <1>1, <1>2, <2>1, <2>3 DEF OnItsWay, Due
<1>7. QED
  BY <1>5, <1>6

\* The types.
LEMMA LogTypesStep == LogInv /\ [L!Next]_(L!vars) => LogTypes'
<1> SUFFICES ASSUME LogInv, [L!Next]_(L!vars) PROVE LogTypes'
  OBVIOUS
<1>1. CASE L!Push
  <2>1. l_made' \in Nat /\ l_queue' \in Seq(Nat) /\ l_accepted' \in Seq(Nat)
    <3>1. l_made + 1 \in Nat /\ l_queue \in Seq(Nat) /\ l_accepted \in Seq(Nat)
      BY DEF LogInv, LogTypes
    <3>2. CASE Len(l_queue) < LogQueue
      <4>1. /\ l_made' = l_made + 1 /\ l_queue' = Append(l_queue, l_made + 1)
            /\ l_accepted' = Append(l_accepted, l_made + 1)
        BY <1>1, <3>2 DEF L!Push
      <4>2. QED
        BY <3>1, <4>1
    <3>3. CASE ~(Len(l_queue) < LogQueue)
      BY <1>1, <3>1, <3>3 DEF L!Push
    <3>4. QED
      BY <3>2, <3>3
  <2>2. QED
    BY <1>1, <2>1 DEF L!Push, L!Logging, L!ringVars, LogInv, LogTypes
<1>2. CASE L!Direction
  BY <1>2 DEF L!Direction, L!Logging, L!ringVars, LogInv, LogTypes
<1>3. CASE L!Open
  BY <1>3 DEF L!Open, L!Logging, L!ringVars, LogInv, LogTypes
<1>4. CASE L!Begin
  BY <1>4 DEF L!Begin, L!Consumer, L!Logging, L!ringVars, LogInv, LogTypes
<1>5. CASE L!Test
  BY <1>5 DEF L!Test, L!Consumer, L!Logging, L!ringVars, LogInv, LogTypes
<1>6. CASE L!Timeout
  BY <1>6 DEF L!Timeout, L!Consumer, L!Logging, L!ringVars, LogInv, LogTypes
<1>7. CASE L!Pop
  <2> DEFINE e == l_queue[1]
             pending == IF l_flash /\ L!Warning(e) /\ L!Fits THEN Append(l_flushCtx, e)
                        ELSE l_flushCtx
  <2>0. e \in Nat /\ pending \in Seq(Nat)
    BY <1>7 DEF L!Pop, LogInv, LogTypes
  <2>1. /\ l_queue' \in Seq(Nat) /\ l_shown' \in Seq(Nat) /\ l_meant' \in Seq(Nat)
    BY <1>7, <2>0 DEF L!Pop, LogInv, LogTypes
  <2>2. l_head' \in Nat /\ l_tail' \in Nat /\ l_entries' \in [0..LogRing - 1 -> Nat]
    <3>1. (l_head % LogRing) \in 0..LogRing - 1 /\ l_head \in Nat /\ l_tail \in Nat
      <4>1. LogRing \in Nat \ {0} /\ l_head \in Nat /\ l_tail \in Nat
        BY RingSize DEF LogInv, LogTypes
      <4>2. QED
        BY <4>1, Divided
    <3>2. QED
      BY <1>7, <2>0, <3>1 DEF L!Pop, L!Analyze, LogInv, LogTypes
  <2>3. /\ l_static' \in Seq(Nat) /\ l_flushCtx' \in Seq(Nat) /\ l_raced' \in BOOLEAN
        /\ l_has' \in [{"consumer", "flusher"} -> Nat]
    <3>1. CASE L!Copy("consumer", pending)
      BY <3>1, <2>0, CopyTypes DEF LogInv
    <3>2. CASE l_flushCtx' = pending /\ UNCHANGED <<l_static, l_has, l_raced>>
      BY <3>2, <2>0 DEF LogInv, LogTypes
    <3>3. QED
      BY <1>7, <3>1, <3>2 DEF L!Pop
  <2>4. l_pc' \in [{"consumer", "flusher"} -> {"start", "test", "pop", "write", "last",
                                           "writeLast", "wait", "done"}]
    BY <1>7 DEF L!Pop, LogInv, LogTypes
  <2>5. /\ l_made' = l_made /\ l_fd' = l_fd /\ l_file' = l_file /\ l_flash' = l_flash
        /\ l_accepted' = l_accepted /\ l_astray' = l_astray
    BY <1>7 DEF L!Pop
  <2>6. QED
    BY <2>1, <2>2, <2>3, <2>4, <2>5 DEF LogInv, LogTypes
<1>8. CASE L!WriteFull
  <2>1. /\ l_file' \in Seq(Nat) /\ l_astray' \in Seq(Nat)
        /\ l_has' \in [{"consumer", "flusher"} -> Nat]
    <3>1. SubSeq(l_static, 1, l_has["consumer"]) \in Seq(Nat)
      BY Written DEF LogInv
    <3>2. QED
      BY <1>8, <3>1 DEF L!WriteFull, L!Write, LogInv, LogTypes
  <2>2. QED
    BY <1>8, <2>1 DEF L!WriteFull, L!Consumer, L!ringVars, L!Write, LogInv, LogTypes
<1>9. CASE L!Last
  <2>1. L!Copy("consumer", l_flushCtx)
    BY <1>9 DEF L!Last
  <2>2. l_flushCtx \in Seq(Nat)
    BY DEF LogInv, LogTypes
  <2>3. /\ l_static' \in Seq(Nat) /\ l_flushCtx' \in Seq(Nat) /\ l_raced' \in BOOLEAN
        /\ l_has' \in [{"consumer", "flusher"} -> Nat]
    BY <2>1, <2>2, CopyTypes DEF LogInv
  <2>4. QED
    BY <1>9, <2>3 DEF L!Last, L!Consumer, L!ringVars, LogInv, LogTypes
<1>10. CASE L!WriteLast
  <2>1. /\ l_file' \in Seq(Nat) /\ l_astray' \in Seq(Nat)
        /\ l_has' \in [{"consumer", "flusher"} -> Nat]
    <3>1. SubSeq(l_static, 1, l_has["consumer"]) \in Seq(Nat)
      BY Written DEF LogInv
    <3>2. QED
      BY <1>10, <3>1 DEF L!WriteLast, L!Write, LogInv, LogTypes
  <2>2. QED
    BY <1>10, <2>1 DEF L!WriteLast, L!Consumer, L!ringVars, L!Write, LogInv, LogTypes
<1>11. CASE L!Flush
  <2>1. L!Copy("flusher", l_flushCtx)
    BY <1>11 DEF L!Flush
  <2>2. l_flushCtx \in Seq(Nat)
    BY DEF LogInv, LogTypes
  <2>3. /\ l_static' \in Seq(Nat) /\ l_flushCtx' \in Seq(Nat) /\ l_raced' \in BOOLEAN
        /\ l_has' \in [{"consumer", "flusher"} -> Nat]
    BY <2>1, <2>2, CopyTypes DEF LogInv
  <2>4. QED
    BY <1>11, <2>3 DEF L!Flush, L!ringVars, LogInv, LogTypes
<1>12. CASE L!WriteFlush
  <2>1. /\ l_file' \in Seq(Nat) /\ l_astray' \in Seq(Nat)
        /\ l_has' \in [{"consumer", "flusher"} -> Nat]
    <3>1. SubSeq(l_static, 1, l_has["flusher"]) \in Seq(Nat)
      BY Written DEF LogInv
    <3>2. QED
      BY <1>12, <3>1 DEF L!WriteFlush, L!Write, LogInv, LogTypes
  <2>2. QED
    BY <1>12, <2>1 DEF L!WriteFlush, L!ringVars, L!Write, LogInv, LogTypes
<1>13. CASE L!ExitFlag
  BY <1>13 DEF L!ExitFlag, L!Logging, L!ringVars, LogInv, LogTypes
<1>14. CASE L!ExitJoin
  BY <1>14 DEF L!ExitJoin, L!Logging, L!ringVars, LogInv, LogTypes
<1>15. CASE L!ExitCancel
  BY <1>15 DEF L!ExitCancel, L!Logging, L!ringVars, LogInv, LogTypes
<1>16. CASE UNCHANGED L!vars
  BY <1>16 DEF L!vars, L!ringVars, LogInv, LogTypes
<1>17. QED
  BY <1>1, <1>2, <1>3, <1>4, <1>5, <1>6, <1>7, <1>8, <1>9, <1>10, <1>11, <1>12, <1>13,
       <1>14, <1>15, <1>16 DEF L!Next, L!Consume, L!Exit

\* The thread that copies had no offset before.
LEMMA CopyOffsets ==
  ASSUME LogTypes, Offsets, NEW f \in {"consumer", "flusher"}, NEW pending \in Seq(Nat),
         L!Copy(f, pending), NEW to,
         \A g \in {"consumer", "flusher"} : l_has'[g] <= Len(l_static'),
         l_pc[f] \in {"pop", "last", "wait"}, l_pc' = [l_pc EXCEPT ![f] = to],
         to = "write" \/ (f = "consumer" /\ to = "writeLast")
  PROVE  Offsets'
<1>1. l_has[f] = 0
  BY DEF LogTypes, Offsets
<1>2. \A g \in {"consumer", "flusher"} \ {f} : l_has'[g] = l_has[g] /\ l_pc'[g] = l_pc[g]
  BY DEF L!Copy, LogTypes
<1>3. l_pc'[f] = to
  BY DEF LogTypes
<1>4. /\ l_has'["consumer"] > 0 => l_pc'["consumer"] \in {"write", "writeLast"}
      /\ l_has'["flusher"] > 0 => l_pc'["flusher"] = "write"
  BY <1>2, <1>3 DEF Offsets
<1>5. ~l_raced' => l_has'["consumer"] = 0 \/ l_has'["flusher"] = 0
  <2>1. CASE l_fd >= 0 /\ pending # <<>>
    <3>1. ~l_raced' => \A g \in {"consumer", "flusher"} \ {f} : ~(l_has[g] > 0)
      BY <2>1 DEF L!Copy, L!Flushers
    <3>2. QED
      BY <1>2, <3>1 DEF LogTypes
  <2>2. CASE ~(l_fd >= 0 /\ pending # <<>>)
    BY <2>2 DEF L!Copy, Offsets
  <2>3. QED
    BY <2>1, <2>2
<1>6. QED
  BY <1>4, <1>5 DEF Offsets

\* An offset is set by a copy and reset by the write that follows it.
LEMMA OffsetsStep == LogInv /\ [L!Next]_(L!vars) => Offsets'
<1> SUFFICES ASSUME LogInv, [L!Next]_(L!vars) PROVE Offsets'
  OBVIOUS
<1>1. CASE L!Push
  BY <1>1 DEF L!Push, L!Logging, L!ringVars, LogInv, LogTypes, Offsets, L!Flushers
<1>2. CASE L!Direction
  BY <1>2 DEF L!Direction, L!Logging, L!ringVars, LogInv, LogTypes, Offsets, L!Flushers
<1>3. CASE L!Open
  BY <1>3 DEF L!Open, L!Logging, L!ringVars, LogInv, LogTypes, Offsets, L!Flushers
<1>4. CASE L!Begin
  BY <1>4 DEF L!Begin, L!Consumer, L!Logging, L!ringVars, LogInv, LogTypes, Offsets,
       L!Flushers
<1>5. CASE L!Test
  BY <1>5 DEF L!Test, L!Consumer, L!Logging, L!ringVars, LogInv, LogTypes, Offsets,
       L!Flushers
<1>6. CASE L!Timeout
  BY <1>6 DEF L!Timeout, L!Consumer, L!Logging, L!ringVars, LogInv, LogTypes, Offsets,
       L!Flushers
<1>7. CASE L!Pop
  <2> DEFINE e == l_queue[1]
             pending == IF l_flash /\ L!Warning(e) /\ L!Fits THEN Append(l_flushCtx, e)
                        ELSE l_flushCtx
  <2>0. e \in Nat /\ pending \in Seq(Nat)
    BY <1>7 DEF L!Pop, LogInv, LogTypes
  <2>1. CASE L!Copy("consumer", pending) /\ l_pc' = [l_pc EXCEPT !["consumer"] = "write"]
    <3>1. \A g \in {"consumer", "flusher"} : l_has'[g] <= Len(l_static')
      BY <2>0, <2>1, CopyTypes DEF LogInv
    <3>2. l_pc["consumer"] = "pop"
      BY <1>7 DEF L!Pop
    <3>3. QED
      BY <2>0, <2>1, <3>1, <3>2, CopyOffsets DEF LogInv
  <2>2. CASE /\ UNCHANGED <<l_static, l_has, l_raced>>
             /\ l_pc' = [l_pc EXCEPT !["consumer"] = "test"]
    BY <1>7, <2>2 DEF L!Pop, LogInv, LogTypes, Offsets
  <2>3. QED
    BY <1>7, <2>1, <2>2 DEF L!Pop
<1>8. CASE L!WriteFull
  BY <1>8 DEF L!WriteFull, L!Consumer, L!ringVars, L!Write, LogInv, LogTypes, Offsets,
       L!Flushers
<1>9. CASE L!Last
  <2>1. L!Copy("consumer", l_flushCtx) /\ l_flushCtx \in Seq(Nat)
    BY <1>9 DEF L!Last, LogInv, LogTypes
  <2>2. \A g \in {"consumer", "flusher"} : l_has'[g] <= Len(l_static')
    BY <2>1, CopyTypes DEF LogInv
  <2>3. l_pc["consumer"] = "last" /\ l_pc' = [l_pc EXCEPT !["consumer"] = "writeLast"]
    BY <1>9 DEF L!Last, L!Consumer
  <2>4. QED
    BY <2>1, <2>2, <2>3, CopyOffsets DEF LogInv
<1>10. CASE L!WriteLast
  BY <1>10 DEF L!WriteLast, L!Consumer, L!ringVars, L!Write, LogInv, LogTypes, Offsets,
       L!Flushers
<1>11. CASE L!Flush
  <2>1. L!Copy("flusher", l_flushCtx) /\ l_flushCtx \in Seq(Nat)
    BY <1>11 DEF L!Flush, LogInv, LogTypes
  <2>2. \A g \in {"consumer", "flusher"} : l_has'[g] <= Len(l_static')
    BY <2>1, CopyTypes DEF LogInv
  <2>3. l_pc["flusher"] = "wait" /\ l_pc' = [l_pc EXCEPT !["flusher"] = "write"]
    BY <1>11 DEF L!Flush, L!Consumer
  <2>4. QED
    BY <2>1, <2>2, <2>3, CopyOffsets DEF LogInv
<1>12. CASE L!WriteFlush
  BY <1>12 DEF L!WriteFlush, L!ringVars, L!Write, LogInv, LogTypes, Offsets, L!Flushers
<1>13. CASE L!ExitFlag
  BY <1>13 DEF L!ExitFlag, L!Logging, L!ringVars, LogInv, LogTypes, Offsets, L!Flushers
<1>14. CASE L!ExitJoin
  BY <1>14 DEF L!ExitJoin, L!Logging, L!ringVars, LogInv, LogTypes, Offsets, L!Flushers
<1>15. CASE L!ExitCancel
  BY <1>15 DEF L!ExitCancel, L!Logging, L!ringVars, LogInv, LogTypes, Offsets, L!Flushers
<1>16. CASE UNCHANGED L!vars
  BY <1>16 DEF L!vars, L!ringVars, LogInv, LogTypes, Offsets, L!Flushers
<1>17. QED
  BY <1>1, <1>2, <1>3, <1>4, <1>5, <1>6, <1>7, <1>8, <1>9, <1>10, <1>11, <1>12, <1>13,
       <1>14, <1>15, <1>16 DEF L!Next, L!Consume, L!Exit

\* An entry takes the place of the oldest one when the ring is full.
LEMMA RingStep == LogInv /\ [L!Next]_(L!vars) => RingHolds'
<1> SUFFICES ASSUME LogInv, [L!Next]_(L!vars) PROVE RingHolds'
  OBVIOUS
<1>1. CASE L!Push
  BY <1>1 DEF L!Push, L!Logging, L!ringVars, LogInv, RingHolds
<1>2. CASE L!Direction
  BY <1>2 DEF L!Direction, L!Logging, L!ringVars, LogInv, RingHolds
<1>3. CASE L!Open
  BY <1>3 DEF L!Open, L!Logging, L!ringVars, LogInv, RingHolds
<1>4. CASE L!Begin
  BY <1>4 DEF L!Begin, L!Consumer, L!Logging, L!ringVars, LogInv, RingHolds
<1>5. CASE L!Test
  BY <1>5 DEF L!Test, L!Consumer, L!Logging, L!ringVars, LogInv, RingHolds
<1>6. CASE L!Timeout
  BY <1>6 DEF L!Timeout, L!Consumer, L!Logging, L!ringVars, LogInv, RingHolds
<1>7. CASE L!Pop
  <2> DEFINE e == l_queue[1]
             pending == IF l_flash /\ L!Warning(e) /\ L!Fits THEN Append(l_flushCtx, e)
                        ELSE l_flushCtx
  <2>0. e \in Nat /\ pending \in Seq(Nat)
    BY <1>7 DEF L!Pop, LogInv, LogTypes
  <2> DEFINE n == Len(l_shown)
  <2>1. /\ l_shown' = Append(l_shown, e) /\ l_head' = l_head + 1
        /\ l_tail' = IF l_head - l_tail = LogRing THEN l_tail + 1 ELSE l_tail
        /\ l_entries' = [l_entries EXCEPT ![l_head % LogRing] = e]
    BY <1>7 DEF L!Pop, L!Analyze
  <2>2. /\ l_head = n /\ n \in Nat /\ l_tail \in Nat
        /\ l_head - l_tail = IF n < LogRing THEN n ELSE LogRing
        /\ l_shown \in Seq(Nat) /\ l_entries \in [0..LogRing - 1 -> Nat]
    BY DEF LogInv, LogTypes, RingHolds
  <2>3. l_head' = Len(l_shown') /\ Len(l_shown') = n + 1
    BY <2>0, <2>1, <2>2
  <2>4. l_head' - l_tail' = IF Len(l_shown') < LogRing THEN Len(l_shown') ELSE LogRing
    <3>1. LogRing \in Nat /\ n \in Nat /\ l_tail \in Nat /\ l_head = n /\ n + 1 \in Nat
      BY <2>2, RingSize
    <3> HIDE DEF n
    <3>2. CASE l_head - l_tail = LogRing
      BY <2>1, <2>2, <2>3, <3>1, <3>2
    <3>3. CASE l_head - l_tail # LogRing
      BY <2>1, <2>2, <2>3, <3>1, <3>3
    <3>4. QED
      BY <3>2, <3>3
  <2>5. ASSUME NEW i \in l_tail'..l_head' - 1
        PROVE  l_entries'[i % LogRing] = l_shown'[i + 1]
    <3>1. i \in Nat /\ i <= n /\ i >= l_tail'
      BY <2>1, <2>2
    <3>2. (n % LogRing) \in 0..LogRing - 1 /\ (i % LogRing) \in 0..LogRing - 1
      <4>1. LogRing \in Nat \ {0} /\ n \in Nat
        BY <2>2, RingSize
      <4> HIDE DEF n
      <4>2. QED
        BY <3>1, <4>1, Divided
    <3>3. CASE i = n
      BY <2>0, <2>1, <2>2, <3>2, <3>3
    <3>4. CASE i < n
      <4>1. n < i + LogRing
        BY <2>1, <2>2, <3>1, <3>4, RingSize
      <4>2. i % LogRing # n % LogRing
        <5>1. LogRing \in Nat \ {0} /\ n \in Nat
          BY <2>2, RingSize
        <5> HIDE DEF n
        <5>2. QED
          BY <3>1, <3>4, <4>1, <5>1, PlacesDiffer
      <4>3. l_entries'[i % LogRing] = l_entries[i % LogRing]
        BY <2>1, <2>2, <3>2, <4>2
      <4>4. i \in l_tail..l_head - 1
        BY <2>1, <2>2, <3>1, <3>4
      <4>5. l_entries[i % LogRing] = l_shown[i + 1]
        BY <4>4 DEF LogInv, RingHolds
      <4>6. l_shown'[i + 1] = l_shown[i + 1]
        BY <2>0, <2>1, <2>2, <3>1, <3>4
      <4>7. QED
        BY <4>3, <4>5, <4>6
    <3>5. QED
      BY <2>2, <3>1, <3>3, <3>4
  <2>6. QED
    BY <2>3, <2>4, <2>5 DEF RingHolds
<1>8. CASE L!WriteFull
  BY <1>8 DEF L!WriteFull, L!Consumer, L!ringVars, L!Write, LogInv, RingHolds
<1>9. CASE L!Last
  BY <1>9 DEF L!Last, L!Consumer, L!ringVars, L!Copy, LogInv, RingHolds
<1>10. CASE L!WriteLast
  BY <1>10 DEF L!WriteLast, L!Consumer, L!ringVars, L!Write, LogInv, RingHolds
<1>11. CASE L!Flush
  BY <1>11 DEF L!Flush, L!ringVars, L!Copy, LogInv, RingHolds
<1>12. CASE L!WriteFlush
  BY <1>12 DEF L!WriteFlush, L!ringVars, L!Write, LogInv, RingHolds
<1>13. CASE L!ExitFlag
  BY <1>13 DEF L!ExitFlag, L!Logging, L!ringVars, LogInv, RingHolds
<1>14. CASE L!ExitJoin
  BY <1>14 DEF L!ExitJoin, L!Logging, L!ringVars, LogInv, RingHolds
<1>15. CASE L!ExitCancel
  BY <1>15 DEF L!ExitCancel, L!Logging, L!ringVars, LogInv, RingHolds
<1>16. CASE UNCHANGED L!vars
  BY <1>16 DEF L!vars, L!ringVars, LogInv, RingHolds
<1>17. QED
  BY <1>1, <1>2, <1>3, <1>4, <1>5, <1>6, <1>7, <1>8, <1>9, <1>10, <1>11, <1>12, <1>13,
       <1>14, <1>15, <1>16 DEF L!Next, L!Consume, L!Exit

\* The consumer puts nothing in the buffer after its last flush, and the exit
\* goes on when it has returned.
LEMMA LeavingStep == LogInv /\ [L!Next]_(L!vars) => Leaving'
<1> SUFFICES ASSUME LogInv, [L!Next]_(L!vars) PROVE Leaving'
  OBVIOUS
<1>1. CASE L!Push
  BY <1>1 DEF L!Push, L!Logging, L!ringVars, LogInv, LogTypes, Leaving, L!Flushers
<1>2. CASE L!Direction
  BY <1>2 DEF L!Direction, L!Logging, L!ringVars, LogInv, LogTypes, Leaving, L!Flushers
<1>3. CASE L!Open
  BY <1>3 DEF L!Open, L!Logging, L!ringVars, LogInv, LogTypes, Leaving, L!Flushers
<1>4. CASE L!Begin
  BY <1>4 DEF L!Begin, L!Consumer, L!Logging, L!ringVars, LogInv, LogTypes, Leaving,
       L!Flushers
<1>5. CASE L!Test
  BY <1>5 DEF L!Test, L!Consumer, L!Logging, L!ringVars, LogInv, LogTypes, Leaving,
       L!Flushers
<1>6. CASE L!Timeout
  BY <1>6 DEF L!Timeout, L!Consumer, L!Logging, L!ringVars, LogInv, LogTypes, Leaving,
       L!Flushers
<1>7. CASE L!Pop
  BY <1>7 DEF L!Pop, L!ringVars, L!Copy, L!Analyze, LogInv, LogTypes, Leaving, L!Flushers
<1>8. CASE L!WriteFull
  BY <1>8 DEF L!WriteFull, L!Consumer, L!ringVars, L!Write, LogInv, LogTypes, Leaving,
       L!Flushers
<1>9. CASE L!Last
  BY <1>9 DEF L!Last, L!Consumer, L!ringVars, L!Copy, LogInv, LogTypes, Leaving, L!Flushers
<1>10. CASE L!WriteLast
  BY <1>10 DEF L!WriteLast, L!Consumer, L!ringVars, L!Write, LogInv, LogTypes, Leaving,
       L!Flushers
<1>11. CASE L!Flush
  BY <1>11 DEF L!Flush, L!ringVars, L!Copy, LogInv, LogTypes, Leaving, L!Flushers
<1>12. CASE L!WriteFlush
  BY <1>12 DEF L!WriteFlush, L!ringVars, L!Write, LogInv, LogTypes, Leaving, L!Flushers
<1>13. CASE L!ExitFlag
  BY <1>13 DEF L!ExitFlag, L!Logging, L!ringVars, LogInv, LogTypes, Leaving, L!Flushers
<1>14. CASE L!ExitJoin
  BY <1>14 DEF L!ExitJoin, L!Logging, L!ringVars, LogInv, LogTypes, Leaving, L!Flushers
<1>15. CASE L!ExitCancel
  BY <1>15 DEF L!ExitCancel, L!Logging, L!ringVars, LogInv, LogTypes, Leaving, L!Flushers
<1>16. CASE UNCHANGED L!vars
  BY <1>16 DEF L!vars, L!ringVars, LogInv, LogTypes, Leaving, L!Flushers
<1>17. QED
  BY <1>1, <1>2, <1>3, <1>4, <1>5, <1>6, <1>7, <1>8, <1>9, <1>10, <1>11, <1>12, <1>13,
       <1>14, <1>15, <1>16 DEF L!Next, L!Consume, L!Exit

\* The buffer, below its half, has room for a line.
LEMMA HalfRing == L!Threshold \in Nat /\ L!Threshold > 0 /\ L!Threshold < LogRing
  BY RingSize DEF L!Threshold

LEMMA FlushLeavesRoom ==
  ASSUME LogTypes, Small, l_fd # -1
  PROVE  L!Fits
<1>1. Len(l_flushCtx) \in Nat /\ Len(l_flushCtx) < L!Threshold
  BY DEF LogTypes, Small
<1>2. QED
  BY <1>1, HalfRing, RingSize DEF L!Fits, L!Threshold

\* What is meant for the file is appended with the entry, and then goes from one
\* buffer to the next.
LEMMA MeantStep == LogInv /\ [L!Next]_(L!vars) => Meant'
<1> SUFFICES ASSUME LogInv, [L!Next]_(L!vars) PROVE Meant'
  OBVIOUS
<1>1. CASE L!Push
  BY <1>1 DEF L!Push, L!Logging, L!ringVars, LogInv, Meant, OnItsWay, Out, Due
<1>2. CASE L!Direction
  BY <1>2 DEF L!Direction, L!Logging, L!ringVars, LogInv, Meant, OnItsWay, Out, Due
<1>3. CASE L!Open
  <2>1. /\ l_fd = 0 /\ UNCHANGED <<Out, l_static, l_has, l_flushCtx, l_meant, l_raced>>
    BY <1>3 DEF L!Open, L!Logging, Out
  <2>2. OnItsWay' = OnItsWay
    BY <2>1 DEF OnItsWay, Due
  <2>3. QED
    BY <2>1, <2>2 DEF LogInv, Meant
<1>4. CASE L!Begin
  BY <1>4 DEF L!Begin, L!Consumer, L!Logging, L!ringVars, LogInv, Meant, OnItsWay, Out, Due
<1>5. CASE L!Test
  BY <1>5 DEF L!Test, L!Consumer, L!Logging, L!ringVars, LogInv, Meant, OnItsWay, Out, Due
<1>6. CASE L!Timeout
  BY <1>6 DEF L!Timeout, L!Consumer, L!Logging, L!ringVars, LogInv, Meant, OnItsWay, Out, Due
<1>7. CASE L!Pop
  <2> DEFINE e == l_queue[1]
             pending == IF l_flash /\ L!Warning(e) /\ L!Fits THEN Append(l_flushCtx, e)
                        ELSE l_flushCtx
  <2>0. e \in Nat /\ pending \in Seq(Nat)
    BY <1>7 DEF L!Pop, LogInv, LogTypes
  <2>1. Out' = Out /\ l_fd' = l_fd
        /\ l_meant' = IF l_flash /\ L!Warning(e) THEN Append(l_meant, e) ELSE l_meant
    BY <1>7 DEF L!Pop, Out
  <2>2. l_has["consumer"] = 0
    BY <1>7 DEF L!Pop, LogInv, LogTypes, Offsets
  <2>3. ~l_raced /\ l_fd # -1 =>
          Out \o SubSeq(l_static, 1, Due) \o pending = l_meant'
    <3> SUFFICES ASSUME ~l_raced, l_fd # -1
                 PROVE  Out \o SubSeq(l_static, 1, Due) \o pending = l_meant'
      OBVIOUS
    <3>1. Out \o SubSeq(l_static, 1, Due) \o l_flushCtx = l_meant
      BY DEF LogInv, Meant, OnItsWay
    <3>0. L!Fits
      BY FlushLeavesRoom DEF LogInv
    <3>2. CASE l_flash /\ L!Warning(e)
      <4>1. Out \o SubSeq(l_static, 1, Due) \in Seq(Nat) /\ l_flushCtx \in Seq(Nat)
        <5>1. SubSeq(l_static, 1, Due) \in Seq(Nat)
          BY Written DEF LogInv, Due
        <5>2. QED
          BY <5>1 DEF LogInv, LogTypes, Out
      <4>2. QED
        BY <2>0, <2>1, <3>0, <3>1, <3>2, <4>1, AppendLast
    <3>3. CASE ~(l_flash /\ L!Warning(e))
      BY <2>1, <3>1, <3>3
    <3>4. QED
      BY <3>2, <3>3
  <2>4. CASE L!Copy("consumer", pending)
    BY <2>0, <2>1, <2>2, <2>3, <2>4, CopyKeeps DEF LogInv, Meant
  <2>5. CASE l_flushCtx' = pending /\ UNCHANGED <<l_static, l_has, l_raced>>
    BY <2>1, <2>3, <2>5 DEF Meant, OnItsWay, Due
  <2>6. QED
    BY <1>7, <2>4, <2>5 DEF L!Pop
<1>8. CASE L!WriteFull
  BY <1>8, WriteKeeps DEF L!WriteFull
<1>9. CASE L!Last
  <2>1. /\ L!Copy("consumer", l_flushCtx) /\ Out' = Out /\ l_fd' = l_fd
        /\ l_meant' = l_meant
    BY <1>9 DEF L!Last, Out
  <2>2. l_has["consumer"] = 0 /\ l_flushCtx \in Seq(Nat)
    BY <1>9 DEF L!Last, L!Consumer, L!ringVars, LogInv, LogTypes, Offsets
  <2>3. ~l_raced /\ l_fd # -1 =>
          Out \o SubSeq(l_static, 1, Due) \o l_flushCtx = l_meant
    BY DEF LogInv, Meant, OnItsWay
  <2>4. QED
    BY <2>1, <2>2, <2>3, CopyKeeps DEF LogInv, Meant
<1>10. CASE L!WriteLast
  BY <1>10, WriteKeeps DEF L!WriteLast
<1>11. CASE L!Flush
  <2>1. /\ L!Copy("flusher", l_flushCtx) /\ Out' = Out /\ l_fd' = l_fd
        /\ l_meant' = l_meant
    BY <1>11 DEF L!Flush, Out
  <2>2. l_has["flusher"] = 0 /\ l_flushCtx \in Seq(Nat)
    BY <1>11 DEF L!Flush, L!ringVars, LogInv, LogTypes, Offsets
  <2>3. ~l_raced /\ l_fd # -1 =>
          Out \o SubSeq(l_static, 1, Due) \o l_flushCtx = l_meant
    BY DEF LogInv, Meant, OnItsWay
  <2>4. QED
    BY <2>1, <2>2, <2>3, CopyKeeps DEF LogInv, Meant
<1>12. CASE L!WriteFlush
  BY <1>12, WriteKeeps DEF L!WriteFlush
<1>13. CASE L!ExitFlag
  BY <1>13 DEF L!ExitFlag, L!Logging, L!ringVars, LogInv, Meant, OnItsWay, Out, Due
<1>14. CASE L!ExitJoin
  BY <1>14 DEF L!ExitJoin, L!Logging, L!ringVars, LogInv, Meant, OnItsWay, Out, Due
<1>15. CASE L!ExitCancel
  BY <1>15 DEF L!ExitCancel, L!Logging, L!ringVars, LogInv, Meant, OnItsWay, Out, Due
<1>16. CASE UNCHANGED L!vars
  BY <1>16 DEF L!vars, L!ringVars, LogInv, Meant, OnItsWay, Out, Due
<1>17. QED
  BY <1>1, <1>2, <1>3, <1>4, <1>5, <1>6, <1>7, <1>8, <1>9, <1>10, <1>11, <1>12, <1>13,
       <1>14, <1>15, <1>16 DEF L!Next, L!Consume, L!Exit

\* The flush and the write lose no line, whatever they find in the static buffer.
LEMMA CopyCounts ==
  ASSUME LogTypes, NEW f \in {"consumer", "flusher"}, l_has[f] = 0,
         NEW pending \in Seq(Nat), L!Copy(f, pending)
  PROVE  /\ l_has'["consumer"] + l_has'["flusher"] + Len(l_flushCtx')
              = l_has["consumer"] + l_has["flusher"] + Len(pending)
         /\ l_has' \in [{"consumer", "flusher"} -> Nat] /\ l_flushCtx' \in Seq(Nat)
<1>0. l_has \in [{"consumer", "flusher"} -> Nat] /\ Len(pending) \in Nat
  BY DEF LogTypes
<1>1. CASE l_fd >= 0 /\ pending # <<>>
  <2>1. l_has' = [l_has EXCEPT ![f] = Len(pending)] /\ l_flushCtx' = <<>>
    BY <1>1 DEF L!Copy
  <2>2. Len(l_flushCtx') = 0 /\ l_flushCtx' \in Seq(Nat)
    BY <2>1
  <2>3. QED
    BY <1>0, <2>1, <2>2
<1>2. CASE ~(l_fd >= 0 /\ pending # <<>>)
  BY <1>0, <1>2 DEF L!Copy
<1>3. QED
  BY <1>1, <1>2

LEMMA WriteCounts ==
  ASSUME LogInv, NEW f \in {"consumer", "flusher"}, L!Write(f)
  PROVE  Counted'
<1> SUFFICES ASSUME l_fd # -1 PROVE Counted'
  BY DEF Counted, L!Write
<1>1. /\ l_has' = [l_has EXCEPT ![f] = 0] /\ l_flushCtx' = l_flushCtx /\ l_meant' = l_meant
      /\ l_fd' = l_fd
  BY DEF L!Write
<1>2. /\ l_astray' \in Seq(Nat) /\ l_file' \in Seq(Nat)
      /\ Len(l_astray') + Len(l_file') = Len(l_astray) + Len(l_file) + l_has[f]
  BY WriteMoves
<1>3. /\ l_has \in [{"consumer", "flusher"} -> Nat] /\ Len(l_flushCtx) \in Nat
      /\ Len(l_astray) \in Nat /\ Len(l_file) \in Nat
      /\ Len(l_astray') \in Nat /\ Len(l_file') \in Nat
  BY <1>2 DEF LogInv, LogTypes
<1>4. /\ f = "consumer" => l_has'["consumer"] = 0 /\ l_has'["flusher"] = l_has["flusher"]
      /\ f = "flusher" => l_has'["flusher"] = 0 /\ l_has'["consumer"] = l_has["consumer"]
  BY <1>1, <1>3
<1>5. QED
  BY <1>1, <1>2, <1>3, <1>4 DEF LogInv, Counted

LEMMA SameSum ==
  ASSUME NEW o \in Int, NEW a \in Int, NEW b \in Int, NEW c \in Int, NEW m \in Int,
         NEW x \in Int, NEW y \in Int, NEW z \in Int, NEW n \in Int,
         NEW p \in Int, x + y + z = a + b + p, n - m = p - c, o + a + b + c = m
  PROVE  o + x + y + z = n
  OBVIOUS

LEMMA StillCounted ==
  ASSUME LogInv, l_fd' = l_fd, l_astray' = l_astray, l_file' = l_file,
         l_has' \in [{"consumer", "flusher"} -> Nat], l_flushCtx' \in Seq(Nat),
         l_meant' \in Seq(Nat), NEW pending \in Seq(Nat),
         l_has'["consumer"] + l_has'["flusher"] + Len(l_flushCtx')
           = l_has["consumer"] + l_has["flusher"] + Len(pending),
         l_fd # -1 => Len(l_meant') - Len(l_meant) = Len(pending) - Len(l_flushCtx)
  PROVE  Counted'
<1> SUFFICES ASSUME l_fd # -1 PROVE Counted'
  BY DEF Counted
<1>1. /\ l_has["consumer"] \in Nat /\ l_has["flusher"] \in Nat
      /\ l_has'["consumer"] \in Nat /\ l_has'["flusher"] \in Nat
  BY DEF LogInv, LogTypes
<1>2. /\ Len(l_astray) \in Nat /\ Len(l_file) \in Nat
      /\ Len(l_flushCtx) \in Nat /\ Len(l_meant) \in Nat
      /\ Len(l_flushCtx') \in Nat /\ Len(l_meant') \in Nat
  BY DEF LogInv, LogTypes
<1>3. Len(l_astray) + Len(l_file) + l_has["consumer"] + l_has["flusher"]
        + Len(l_flushCtx) = Len(l_meant)
  BY DEF LogInv, Counted
<1>4. Len(l_astray) + Len(l_file) + l_has'["consumer"] + l_has'["flusher"]
        + Len(l_flushCtx') = Len(l_meant')
  <2> DEFINE o == Len(l_astray) + Len(l_file)
             a == l_has["consumer"]   b == l_has["flusher"]   c == Len(l_flushCtx)
             x == l_has'["consumer"]  y == l_has'["flusher"]  z == Len(l_flushCtx')
             m == Len(l_meant)        n == Len(l_meant')  p == Len(pending)
  <2>1. /\ o \in Int /\ a \in Int /\ b \in Int /\ c \in Int /\ m \in Int
        /\ x \in Int /\ y \in Int /\ z \in Int /\ n \in Int /\ p \in Int
    BY <1>1, <1>2
  <2>2. x + y + z = a + b + p /\ n - m = p - c /\ o + a + b + c = m
    BY <1>3
  <2> HIDE DEF o, a, b, c, x, y, z, m, n, p
  <2>3. o + x + y + z = n
    BY <2>1, <2>2, SameSum
  <2>4. QED
    BY <2>3 DEF o, x, y, z, n
<1>5. QED
  BY <1>4 DEF Counted

\* The lines are as many as the warnings.
LEMMA CountedStep == LogInv /\ [L!Next]_(L!vars) => Counted'
<1> SUFFICES ASSUME LogInv, [L!Next]_(L!vars) PROVE Counted'
  OBVIOUS
<1>1. CASE L!Push
  BY <1>1 DEF L!Push, L!Logging, L!ringVars, LogInv, Counted
<1>2. CASE L!Direction
  BY <1>2 DEF L!Direction, L!Logging, L!ringVars, LogInv, Counted
<1>3. CASE L!Open
  BY <1>3 DEF L!Open, L!Logging, L!ringVars, LogInv, Counted
<1>4. CASE L!Begin
  BY <1>4 DEF L!Begin, L!Consumer, L!Logging, L!ringVars, LogInv, Counted
<1>5. CASE L!Test
  BY <1>5 DEF L!Test, L!Consumer, L!Logging, L!ringVars, LogInv, Counted
<1>6. CASE L!Timeout
  BY <1>6 DEF L!Timeout, L!Consumer, L!Logging, L!ringVars, LogInv, Counted
<1>7. CASE L!Pop
  <2> DEFINE e == l_queue[1]
             pending == IF l_flash /\ L!Warning(e) /\ L!Fits THEN Append(l_flushCtx, e)
                        ELSE l_flushCtx
  <2>0. e \in Nat /\ pending \in Seq(Nat)
    BY <1>7 DEF L!Pop, LogInv, LogTypes
  <2>1. /\ l_fd' = l_fd /\ l_astray' = l_astray /\ l_file' = l_file
        /\ l_meant' = IF l_flash /\ L!Warning(e) THEN Append(l_meant, e) ELSE l_meant
    BY <1>7 DEF L!Pop
  <2>2. l_has["consumer"] = 0 /\ l_has \in [{"consumer", "flusher"} -> Nat]
    BY <1>7 DEF L!Pop, LogInv, LogTypes, Offsets
  <2>3. l_fd # -1 => Len(l_meant') - Len(l_meant) = Len(pending) - Len(l_flushCtx)
    <3> SUFFICES ASSUME l_fd # -1
                 PROVE  Len(l_meant') - Len(l_meant) = Len(pending) - Len(l_flushCtx)
      OBVIOUS
    <3>1. L!Fits
      BY FlushLeavesRoom DEF LogInv
    <3>2. l_meant \in Seq(Nat) /\ l_flushCtx \in Seq(Nat)
      BY DEF LogInv, LogTypes
    <3>3. CASE l_flash /\ L!Warning(e)
      BY <2>0, <2>1, <3>1, <3>2, <3>3
    <3>4. CASE ~(l_flash /\ L!Warning(e))
      BY <2>0, <2>1, <3>2, <3>4
    <3>5. QED
      BY <3>3, <3>4
  <2>4. /\ l_has'["consumer"] + l_has'["flusher"] + Len(l_flushCtx')
             = l_has["consumer"] + l_has["flusher"] + Len(pending)
        /\ l_has' \in [{"consumer", "flusher"} -> Nat] /\ l_flushCtx' \in Seq(Nat)
    <3>1. CASE L!Copy("consumer", pending)
      BY <2>0, <2>2, <3>1, CopyCounts DEF LogInv
    <3>2. CASE l_flushCtx' = pending /\ UNCHANGED <<l_static, l_has, l_raced>>
      BY <2>0, <2>2, <3>2
    <3>3. QED
      BY <1>7, <3>1, <3>2 DEF L!Pop
  <2>5. l_meant' \in Seq(Nat)
    <3>1. l_meant \in Seq(Nat)
      BY DEF LogInv, LogTypes
    <3>2. QED
      BY <2>0, <2>1, <3>1
  <2> HIDE DEF pending, e
  <2>6. QED
    BY <2>0, <2>1, <2>3, <2>4, <2>5, StillCounted
<1>8. CASE L!WriteFull
  <2>1. L!Write("consumer") /\ l_fd' = l_fd /\ l_flushCtx' = l_flushCtx /\ l_meant' = l_meant
    BY <1>8 DEF L!WriteFull, L!Write
  <2>2. QED
    BY <2>1, WriteCounts DEF LogInv, Counted
<1>9. CASE L!Last
  <2>1. /\ L!Copy("consumer", l_flushCtx) /\ l_fd' = l_fd /\ l_meant' = l_meant
        /\ l_astray' = l_astray /\ l_file' = l_file
    BY <1>9 DEF L!Last
  <2>2. l_has["consumer"] = 0 /\ l_flushCtx \in Seq(Nat)
    BY <1>9 DEF L!Last, L!Consumer, LogInv, LogTypes, Offsets
  <2>3. /\ l_has'["consumer"] + l_has'["flusher"] + Len(l_flushCtx')
             = l_has["consumer"] + l_has["flusher"] + Len(l_flushCtx)
        /\ l_has' \in [{"consumer", "flusher"} -> Nat] /\ l_flushCtx' \in Seq(Nat)
    BY <2>1, <2>2, CopyCounts DEF LogInv
  <2>4. l_meant' \in Seq(Nat) /\ Len(l_meant) \in Nat /\ Len(l_flushCtx) \in Nat
    BY <2>1, <2>2 DEF LogInv, LogTypes
  <2>5. Len(l_meant') - Len(l_meant) = Len(l_flushCtx) - Len(l_flushCtx)
    BY <2>1, <2>4
  <2>6. QED
    BY <2>1, <2>2, <2>3, <2>4, <2>5, StillCounted
<1>10. CASE L!WriteLast
  <2>1. L!Write("consumer") /\ l_fd' = l_fd /\ l_flushCtx' = l_flushCtx /\ l_meant' = l_meant
    BY <1>10 DEF L!WriteLast, L!Write
  <2>2. QED
    BY <2>1, WriteCounts DEF LogInv, Counted
<1>11. CASE L!Flush
  <2>1. /\ L!Copy("flusher", l_flushCtx) /\ l_fd' = l_fd /\ l_meant' = l_meant
        /\ l_astray' = l_astray /\ l_file' = l_file
    BY <1>11 DEF L!Flush
  <2>2. l_has["flusher"] = 0 /\ l_flushCtx \in Seq(Nat)
    BY <1>11 DEF L!Flush, L!Consumer, LogInv, LogTypes, Offsets
  <2>3. /\ l_has'["consumer"] + l_has'["flusher"] + Len(l_flushCtx')
             = l_has["consumer"] + l_has["flusher"] + Len(l_flushCtx)
        /\ l_has' \in [{"consumer", "flusher"} -> Nat] /\ l_flushCtx' \in Seq(Nat)
    BY <2>1, <2>2, CopyCounts DEF LogInv
  <2>4. l_meant' \in Seq(Nat) /\ Len(l_meant) \in Nat /\ Len(l_flushCtx) \in Nat
    BY <2>1, <2>2 DEF LogInv, LogTypes
  <2>5. Len(l_meant') - Len(l_meant) = Len(l_flushCtx) - Len(l_flushCtx)
    BY <2>1, <2>4
  <2>6. QED
    BY <2>1, <2>2, <2>3, <2>4, <2>5, StillCounted
<1>12. CASE L!WriteFlush
  <2>1. L!Write("flusher") /\ l_fd' = l_fd /\ l_flushCtx' = l_flushCtx /\ l_meant' = l_meant
    BY <1>12 DEF L!WriteFlush, L!Write
  <2>2. QED
    BY <2>1, WriteCounts DEF LogInv, Counted
<1>13. CASE L!ExitFlag
  BY <1>13 DEF L!ExitFlag, L!Logging, L!ringVars, LogInv, Counted
<1>14. CASE L!ExitJoin
  BY <1>14 DEF L!ExitJoin, L!Logging, L!ringVars, LogInv, Counted
<1>15. CASE L!ExitCancel
  BY <1>15 DEF L!ExitCancel, L!Logging, L!ringVars, LogInv, Counted
<1>16. CASE UNCHANGED L!vars
  BY <1>16 DEF L!vars, L!ringVars, LogInv, Counted
<1>17. QED
  BY <1>1, <1>2, <1>3, <1>4, <1>5, <1>6, <1>7, <1>8, <1>9, <1>10, <1>11, <1>12, <1>13,
       <1>14, <1>15, <1>16 DEF L!Next, L!Consume, L!Exit

\* With a file the buffer is flushed at its half.
LEMMA SmallStep == LogInv /\ [L!Next]_(L!vars) => Small'
<1> SUFFICES ASSUME LogInv, [L!Next]_(L!vars) PROVE Small'
  OBVIOUS
<1>1. CASE L!Push
  BY <1>1 DEF L!Push, L!Logging, L!ringVars, LogInv, Small
<1>2. CASE L!Direction
  BY <1>2 DEF L!Direction, L!Logging, L!ringVars, LogInv, Small
<1>3. CASE L!Open
  BY <1>3 DEF L!Open, L!Logging, L!ringVars, LogInv, Small
<1>4. CASE L!Begin
  BY <1>4 DEF L!Begin, L!Consumer, L!Logging, L!ringVars, LogInv, Small
<1>5. CASE L!Test
  BY <1>5 DEF L!Test, L!Consumer, L!Logging, L!ringVars, LogInv, Small
<1>6. CASE L!Timeout
  BY <1>6 DEF L!Timeout, L!Consumer, L!Logging, L!ringVars, LogInv, Small
<1>7. CASE L!Pop
  <2> DEFINE e == l_queue[1]
             pending == IF l_flash /\ L!Warning(e) /\ L!Fits THEN Append(l_flushCtx, e)
                        ELSE l_flushCtx
  <2>0. e \in Nat /\ pending \in Seq(Nat)
    BY <1>7 DEF L!Pop, LogInv, LogTypes
  <2>1. l_fd' = l_fd /\ l_file' = l_file
    BY <1>7 DEF L!Pop
  <2>2. l_fd # -1 => Len(l_flushCtx') < L!Threshold
    <3> SUFFICES ASSUME l_fd # -1 PROVE Len(l_flushCtx') < L!Threshold
      OBVIOUS
    <3>1. l_fd >= 0 /\ L!Fits /\ l_flushCtx \in Seq(Nat) /\ Len(l_flushCtx) < L!Threshold
      BY FlushLeavesRoom DEF LogInv, LogTypes, Small
    <3>2. CASE l_flash /\ L!Warning(e) /\ Len(pending) >= L!Threshold
      <4>1. L!Copy("consumer", pending)
        BY <1>7, <3>2 DEF L!Pop
      <4>2. pending # <<>>
        BY <2>0, <3>2, HalfRing
      <4>3. l_flushCtx' = <<>>
        BY <3>1, <4>1, <4>2 DEF L!Copy
      <4>4. QED
        BY <4>3, HalfRing
    <3>3. CASE ~(l_flash /\ L!Warning(e) /\ Len(pending) >= L!Threshold)
      <4>1. l_flushCtx' = pending
        BY <1>7, <3>3 DEF L!Pop
      <4>2. l_flash /\ L!Warning(e) => Len(pending) < L!Threshold
        BY <2>0, <3>3, HalfRing
      <4>3. ~(l_flash /\ L!Warning(e)) => pending = l_flushCtx
        OBVIOUS
      <4>4. QED
        BY <3>1, <4>1, <4>2, <4>3
    <3>4. QED
      BY <3>2, <3>3
  <2>3. QED
    BY <2>1, <2>2 DEF LogInv, Small
<1>8. CASE L!WriteFull
  <2>1. L!Write("consumer") /\ l_fd' = l_fd /\ l_flushCtx' = l_flushCtx
    BY <1>8 DEF L!WriteFull, L!Write
  <2>2. QED
    BY <2>1 DEF LogInv, LogTypes, Small, L!Write
<1>9. CASE L!Last
  <2>1. /\ L!Copy("consumer", l_flushCtx) /\ l_fd' = l_fd /\ l_file' = l_file
    BY <1>9 DEF L!Last
  <2>2. l_flushCtx' = l_flushCtx \/ l_flushCtx' = <<>>
    BY <2>1 DEF L!Copy
  <2>3. QED
    BY <2>1, <2>2, HalfRing DEF LogInv, LogTypes, Small
<1>10. CASE L!WriteLast
  <2>1. L!Write("consumer") /\ l_fd' = l_fd /\ l_flushCtx' = l_flushCtx
    BY <1>10 DEF L!WriteLast, L!Write
  <2>2. QED
    BY <2>1 DEF LogInv, LogTypes, Small, L!Write
<1>11. CASE L!Flush
  <2>1. /\ L!Copy("flusher", l_flushCtx) /\ l_fd' = l_fd /\ l_file' = l_file
    BY <1>11 DEF L!Flush
  <2>2. l_flushCtx' = l_flushCtx \/ l_flushCtx' = <<>>
    BY <2>1 DEF L!Copy
  <2>3. QED
    BY <2>1, <2>2, HalfRing DEF LogInv, LogTypes, Small
<1>12. CASE L!WriteFlush
  <2>1. L!Write("flusher") /\ l_fd' = l_fd /\ l_flushCtx' = l_flushCtx
    BY <1>12 DEF L!WriteFlush, L!Write
  <2>2. QED
    BY <2>1 DEF LogInv, LogTypes, Small, L!Write
<1>13. CASE L!ExitFlag
  BY <1>13 DEF L!ExitFlag, L!Logging, L!ringVars, LogInv, Small
<1>14. CASE L!ExitJoin
  BY <1>14 DEF L!ExitJoin, L!Logging, L!ringVars, LogInv, Small
<1>15. CASE L!ExitCancel
  BY <1>15 DEF L!ExitCancel, L!Logging, L!ringVars, LogInv, Small
<1>16. CASE UNCHANGED L!vars
  BY <1>16 DEF L!vars, L!ringVars, LogInv, Small
<1>17. QED
  BY <1>1, <1>2, <1>3, <1>4, <1>5, <1>6, <1>7, <1>8, <1>9, <1>10, <1>11, <1>12, <1>13,
       <1>14, <1>15, <1>16 DEF L!Next, L!Consume, L!Exit

\* What the queue takes leaves it to be analysed, in its order.
LEMMA HeadMoves ==
  ASSUME NEW s \in Seq(Nat), NEW q \in Seq(Nat), q # <<>>
  PROVE  Append(s, q[1]) \o Tail(q) = s \o q
<1>1. /\ Append(s, q[1]) \in Seq(Nat) /\ Tail(q) \in Seq(Nat) /\ s \o q \in Seq(Nat)
      /\ Append(s, q[1]) \o Tail(q) \in Seq(Nat)
  OBVIOUS
<1>2. Len(Append(s, q[1]) \o Tail(q)) = Len(s \o q)
  BY <1>1
<1>3. \A i \in 1..Len(s \o q) : (Append(s, q[1]) \o Tail(q))[i] = (s \o q)[i]
  BY <1>1
<1>4. QED
  BY <1>1, <1>2, <1>3, SeqEqual

LEMMA AcceptedStep ==
  LogInv /\ [L!Next]_(L!vars) => l_accepted' = l_shown' \o l_queue'
<1> SUFFICES ASSUME LogInv, [L!Next]_(L!vars) PROVE l_accepted' = l_shown' \o l_queue'
  OBVIOUS
<1>1. CASE L!Push
  <2>1. l_shown' = l_shown /\ l_shown \in Seq(Nat) /\ l_queue \in Seq(Nat)
        /\ l_made + 1 \in Nat
    BY <1>1 DEF L!Push, L!Logging, LogInv, LogTypes
  <2>2. CASE l_queue' = Append(l_queue, l_made + 1)
             /\ l_accepted' = Append(l_accepted, l_made + 1)
    BY <2>1, <2>2, AppendLast DEF LogInv
  <2>3. CASE UNCHANGED <<l_queue, l_accepted>>
    BY <2>1, <2>3 DEF LogInv
  <2>4. QED
    BY <1>1, <2>2, <2>3 DEF L!Push
<1>2. CASE L!Direction
  BY <1>2 DEF L!Direction, L!Logging, L!ringVars, LogInv
<1>3. CASE L!Open
  BY <1>3 DEF L!Open, L!Logging, L!ringVars, LogInv
<1>4. CASE L!Begin
  BY <1>4 DEF L!Begin, L!Consumer, L!Logging, L!ringVars, LogInv
<1>5. CASE L!Test
  BY <1>5 DEF L!Test, L!Consumer, L!Logging, L!ringVars, LogInv
<1>6. CASE L!Timeout
  BY <1>6 DEF L!Timeout, L!Consumer, L!Logging, L!ringVars, LogInv
<1>7. CASE L!Pop
  <2>1. /\ l_queue # <<>> /\ l_queue' = Tail(l_queue) /\ l_accepted' = l_accepted
        /\ l_shown' = Append(l_shown, l_queue[1])
    BY <1>7 DEF L!Pop
  <2>2. QED
    BY <2>1, HeadMoves DEF LogInv, LogTypes
<1>8. CASE L!WriteFull
  BY <1>8 DEF L!WriteFull, L!Write, LogInv
<1>9. CASE L!Last
  BY <1>9 DEF L!Last, LogInv
<1>10. CASE L!WriteLast
  BY <1>10 DEF L!WriteLast, L!Write, LogInv
<1>11. CASE L!Flush
  BY <1>11 DEF L!Flush, LogInv
<1>12. CASE L!WriteFlush
  BY <1>12 DEF L!WriteFlush, L!Write, LogInv
<1>13. CASE L!ExitFlag
  BY <1>13 DEF L!ExitFlag, L!Logging, L!ringVars, LogInv
<1>14. CASE L!ExitJoin
  BY <1>14 DEF L!ExitJoin, L!Logging, L!ringVars, LogInv
<1>15. CASE L!ExitCancel
  BY <1>15 DEF L!ExitCancel, L!Logging, L!ringVars, LogInv
<1>16. CASE UNCHANGED L!vars
  BY <1>16 DEF L!vars, L!ringVars, LogInv
<1>17. QED
  BY <1>1, <1>2, <1>3, <1>4, <1>5, <1>6, <1>7, <1>8, <1>9, <1>10, <1>11, <1>12, <1>13,
       <1>14, <1>15, <1>16 DEF L!Next, L!Consume, L!Exit

LEMMA LogInitially == L!Init => LogInv
<1> SUFFICES ASSUME L!Init PROVE LogInv
  OBVIOUS
<1>1. LogTypes
  <2>1. <<>> \in Seq(Nat) /\ [i \in 0..LogRing - 1 |-> 0] \in [0..LogRing - 1 -> Nat]
    OBVIOUS
  <2>2. QED
    BY <2>1 DEF L!Init, LogTypes, L!Flushers
<1>2. Offsets /\ Leaving
  BY DEF L!Init, Offsets, Leaving, L!Flushers
<1>3. RingHolds
  BY RingSize DEF L!Init, RingHolds
<1>4. Meant
  BY DEF L!Init, Meant, OnItsWay, Out, Due, L!Flushers
<1>5. Counted /\ Small
  BY HalfRing DEF L!Init, Counted, Small, L!Flushers
<1>6. l_accepted = l_shown \o l_queue
  BY DEF L!Init
<1>7. QED
  BY <1>1, <1>2, <1>3, <1>4, <1>5, <1>6 DEF LogInv

\* The lines that are due to one thread or the other, where at most one has some.
LEMMA LinesOnTheirWay ==
  ASSUME LogInv
  PROVE  /\ l_fd # -1 => Len(L!Lines) = Len(l_meant)
         /\ l_fd # -1 /\ ~l_raced => L!Lines = l_meant
         /\ l_fd # -1 /\ l_exit = "done" => L!Lines = Out
<1> DEFINE c == SubSeq(l_static, 1, l_has["consumer"])
           f == SubSeq(l_static, 1, l_has["flusher"])
<1>1. /\ c \in Seq(Nat) /\ Len(c) = l_has["consumer"] /\ (l_has["consumer"] = 0 => c = <<>>)
      /\ f \in Seq(Nat) /\ Len(f) = l_has["flusher"] /\ (l_has["flusher"] = 0 => f = <<>>)
  BY Written DEF LogInv, LogTypes, Offsets
<1>2. Out \in Seq(Nat) /\ l_flushCtx \in Seq(Nat) /\ Len(Out) = Len(l_astray) + Len(l_file)
  BY DEF LogInv, LogTypes, Out
<1>3. L!Lines = Out \o c \o f \o l_flushCtx
  BY DEF L!Lines, L!Due, Out
<1>4. OnItsWay = Out \o (IF l_has["consumer"] > 0 THEN c ELSE f) \o l_flushCtx
  BY DEF OnItsWay, Due
<1>5. l_has["consumer"] \in Nat /\ l_has["flusher"] \in Nat
  BY DEF LogInv, LogTypes
<1> HIDE DEF c, f
<1>6. Len(L!Lines) = Len(Out) + Len(c) + Len(f) + Len(l_flushCtx)
  <2>1. Out \o c \in Seq(Nat) /\ Len(Out \o c) = Len(Out) + Len(c)
    BY <1>1, <1>2, ConcatType
  <2>2. Out \o c \o f \in Seq(Nat) /\ Len(Out \o c \o f) = Len(Out \o c) + Len(f)
    BY <1>1, <2>1, ConcatType
  <2>3. Len(L!Lines) = Len(Out \o c \o f) + Len(l_flushCtx)
    BY <1>2, <1>3, <2>2, ConcatType
  <2>4. QED
    BY <2>1, <2>2, <2>3
<1>7. l_fd # -1 => Len(L!Lines) = Len(l_meant)
  BY <1>1, <1>2, <1>6 DEF LogInv, Counted
<1>8. ASSUME l_fd # -1, ~l_raced PROVE L!Lines = l_meant
  <2>1. l_has["consumer"] = 0 \/ l_has["flusher"] = 0
    BY <1>8 DEF LogInv, Offsets
  <2>2. Out \o <<>> = Out /\ (Out \o c) \o <<>> = Out \o c
    BY <1>1, <1>2, ConcatType, ConcatEmpty
  <2>3. CASE l_has["consumer"] > 0
    <3>1. f = <<>>
      BY <1>1, <1>5, <2>1, <2>3
    <3>2. OnItsWay = (Out \o c) \o l_flushCtx
      BY <1>4, <2>3
    <3>3. QED
      BY <1>3, <1>8, <2>2, <3>1, <3>2 DEF LogInv, Meant
  <2>4. CASE ~(l_has["consumer"] > 0)
    <3>1. l_has["consumer"] = 0
      BY <1>5, <2>4
    <3>2. c = <<>>
      BY <1>1, <3>1
    <3>3. OnItsWay = (Out \o f) \o l_flushCtx
      BY <1>4, <2>4
    <3>4. QED
      BY <1>3, <1>8, <2>2, <3>2, <3>3 DEF LogInv, Meant
  <2>5. QED
    BY <2>3, <2>4
<1>9. ASSUME l_fd # -1, l_exit = "done" PROVE L!Lines = Out
  <2>1. c = <<>> /\ f = <<>> /\ l_flushCtx = <<>>
    BY <1>1, <1>5, <1>9 DEF LogInv, Leaving, Offsets
  <2>2. Out \o <<>> = Out
    BY <1>2, ConcatEmpty
  <2>3. QED
    BY <1>3, <2>1, <2>2
<1>10. QED
  BY <1>7, <1>8, <1>9

LEMMA LogInvKept == LogInv => LogKept
<1> SUFFICES ASSUME LogInv PROVE LogKept
  OBVIOUS
<1>1. L!RingIsLast
  <2>1. ASSUME NEW i \in l_tail..l_head - 1
        PROVE  l_entries[i % LogRing] = l_shown[Len(l_shown) - (l_head - 1 - i)]
    <3>1. Len(l_shown) - (l_head - 1 - i) = i + 1
      BY DEF LogInv, LogTypes, RingHolds
    <3>2. QED
      BY <3>1 DEF LogInv, RingHolds
  <2>2. QED
    BY <2>1 DEF L!RingIsLast, LogInv, RingHolds
<1>2. L!LoggedOnce
  BY LinesOnTheirWay DEF L!LoggedOnce, Out, LogInv
<1>3. QED
  BY <1>1, <1>2 DEF LogKept

\* lib/syslog: whatever the consumer, the thread that flushes, the command that
\* turns the file on and off and the exit do, what the queue accepts is analysed
\* once and in order or still in the queue, where the exit leaves it; the ring
\* holds the last entries that were analysed; and, with a file, each warning that
\* was analysed while the direction was on is one line of the file, of fd 0
\* before the file is open, or on its way there, in order too unless two threads
\* used the static buffer at a time.
THEOREM LogKeptAlways == L!Spec => []LogKept
<1>1. L!Init => LogInv
  BY LogInitially
<1>2. LogInv /\ [L!Next]_(L!vars) => LogInv'
  BY LogTypesStep, OffsetsStep, RingStep, MeantStep, CountedStep, SmallStep, LeavingStep,
     AcceptedStep DEF LogInv
<1>3. LogInv => LogKept
  BY LogInvKept
<1>4. QED
  BY <1>1, <1>2, <1>3, PTL DEF L!Spec
=============================================================================
