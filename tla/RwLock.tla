------------------------------- MODULE RwLock -------------------------------
(***************************************************************************)
(* ev_rwlock_t of lib/event/ev_lock.c and lib/include/event/ev_lock.h: a   *)
(* counter of readers and a writing flag, both accessed atomically.        *)
(*                                                                         *)
(* A reader first sees writing = 0 and then, in a separate access,         *)
(* increments readers; a writer first claims writing with a weak           *)
(* compare-and-swap and then waits until it reads readers = 0.  The spin   *)
(* loops are guards: a failed test or swap leaves the state as it was.     *)
(***************************************************************************)
EXTENDS Naturals, FiniteSets

CONSTANT Threads        \* the threads that share the lock

ASSUME ThreadsFinite == IsFiniteSet(Threads)

VARIABLES readers,      \* ev_rwlock_t.readers
          writing,      \* ev_rwlock_t.writing
          pc            \* the operation each thread is in

vars == <<readers, writing, pc>>

Init ==
  /\ readers = 0
  /\ writing = 0
  /\ pc = [t \in Threads |-> "idle"]

Goto(t, from, to) == pc[t] = from /\ pc' = [pc EXCEPT ![t] = to]

-----------------------------------------------------------------------------
(* ev_rd_lock, ev_rd_unlock *)

RdCall(t) == Goto(t, "idle", "rd_wait") /\ UNCHANGED <<readers, writing>>

RdCheck_Skipped(t) ==           \* mutant: do not wait for the writer
  Goto(t, "rd_wait", "rd_enter") /\ UNCHANGED <<readers, writing>>

\* The load of writing that ends the wait for the writer.
RdCheck(t) ==
  /\ writing = 0
  /\ Goto(t, "rd_wait", "rd_enter")
  /\ UNCHANGED <<readers, writing>>

\* The increment of readers; nothing looks at writing again.
RdEnter(t) ==
  /\ Goto(t, "rd_enter", "reading")
  /\ readers' = readers + 1
  /\ UNCHANGED writing

RdUnlock_Forgotten(t) ==        \* mutant: leave without the decrement
  Goto(t, "reading", "idle") /\ UNCHANGED <<readers, writing>>

RdUnlock(t) ==
  /\ Goto(t, "reading", "idle")
  /\ readers' = readers - 1
  /\ UNCHANGED writing

-----------------------------------------------------------------------------
(* ev_wr_lock, ev_wr_unlock *)

WrCall(t) == Goto(t, "idle", "wr_wait") /\ UNCHANGED <<readers, writing>>

WrClaim_NoCompare(t) ==         \* mutant: store instead of compare-and-swap
  /\ Goto(t, "wr_wait", "wr_drain")
  /\ writing' = 1
  /\ UNCHANGED readers

\* The compare-and-swap of writing 0 -> 1 that succeeds.
WrClaim(t) ==
  /\ writing = 0
  /\ Goto(t, "wr_wait", "wr_drain")
  /\ writing' = 1
  /\ UNCHANGED readers

\* The load that finds no reader: ev_wr_lock returns.
WrEnter(t) ==
  /\ readers = 0
  /\ Goto(t, "wr_drain", "writing")
  /\ UNCHANGED <<readers, writing>>

WrUnlock(t) ==
  /\ Goto(t, "writing", "idle")
  /\ writing' = 0
  /\ UNCHANGED readers

-----------------------------------------------------------------------------
Running(t) ==
  \/ RdCheck(t) \/ RdEnter(t) \/ RdUnlock(t)
  \/ WrClaim(t) \/ WrEnter(t) \/ WrUnlock(t)

Next == \E t \in Threads : RdCall(t) \/ WrCall(t) \/ Running(t)

Spec == Init /\ [][Next]_vars

\* A thread inside an operation or a protected block keeps running.
FairSpec == Spec /\ \A t \in Threads : WF_vars(Running(t))

-----------------------------------------------------------------------------
TypeOK ==
  /\ readers \in Nat
  /\ writing \in {0, 1}
  /\ pc \in [Threads -> {"idle", "rd_wait", "rd_enter", "reading",
                         "wr_wait", "wr_drain", "writing"}]

Reading  == {t \in Threads : pc[t] = "reading"}
Claiming == {t \in Threads : pc[t] \in {"wr_drain", "writing"}}
Entering == {t \in Threads : pc[t] = "rd_enter"}

\* At most one writer is past its swap, draining or writing, and writing = 1
\* exactly then: two writers never hold the lock together.
WriterExclusion ==
  /\ \A s, t \in Claiming : s = t
  /\ writing = 1 <=> Claiming # {}

\* readers counts the threads inside a read block: it neither drifts, so that
\* a writer would wait for ever, nor wraps below zero.
ReadersCounted == readers = Cardinality(Reading)

\* docs/event/ev_lock.md: the writing flag is raised first "to keep new readers
\* out".  While one writer holds it, the readers that have passed their check
\* or are inside only become fewer.
ClaimStopsReaders ==
  [][\A w \in Threads :
       w \in Claiming /\ w \in Claiming'
         => (Entering \cup Reading)' \subseteq Entering \cup Reading]_vars

\* docs/event/ev_lock.md: the design avoids writer starvation.  A writer that
\* has claimed the lock gets it, however often readers come and go.
WriterNotStarved ==
  \A t \in Threads : pc[t] = "wr_drain" ~> pc[t] = "writing"

\* docs/event/ev_lock.md: a writer gets the lock only when nobody is reading,
\* and with a writer present a reader waits until it has released the lock.
\* The code does not give this: a reader that passed its check before the
\* writer's swap increments readers after the writer found it 0.
ReadWriteExclusion ==
  \A r, w \in Threads : ~(pc[r] = "reading" /\ pc[w] = "writing")
=============================================================================
