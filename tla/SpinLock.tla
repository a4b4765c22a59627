------------------------------ MODULE SpinLock ------------------------------
(***************************************************************************)
(* ev_spinlock_t of lib/include/event/ev_lock.h: a byte that is 0 when the *)
(* lock is free.  _ev_spin_lock repeats a weak compare-and-swap 0 -> 1     *)
(* until it succeeds, _ev_spin_unlock stores 0.  A failed swap (the lock   *)
(* is taken, or the weak swap failed spuriously) changes nothing, so it is *)
(* a stuttering step; the pause / sched_yield counter only chooses how the *)
(* thread waits.                                                           *)
(*                                                                         *)
(* The module is a component: MsgQ and others instantiate it for the lock  *)
(* they embed and conjoin its actions with their own.                      *)
(***************************************************************************)
EXTENDS Naturals, TLAPS

CONSTANT Threads        \* the threads that share the lock

VARIABLES flag,         \* ev_spinlock_t.flag
          spc           \* where each thread is with respect to the lock

spinVars == <<flag, spc>>

Init ==
  /\ flag = 0
  /\ spc = [t \in Threads |-> "out"]

\* A thread enters _ev_spin_lock.
Call(t) ==
  /\ spc[t] = "out"
  /\ spc' = [spc EXCEPT ![t] = "spin"]
  /\ UNCHANGED flag

Acquire_FetchAdd(t) ==          \* mutant: an addition, and no comparison
  /\ spc[t] = "spin"
  /\ flag' = flag + 1
  /\ spc' = [spc EXCEPT ![t] = "in"]

\* The compare-and-swap 0 -> 1 succeeds and _ev_spin_lock returns.
Acquire(t) ==
  /\ spc[t] = "spin"
  /\ flag = 0
  /\ flag' = 1
  /\ spc' = [spc EXCEPT ![t] = "in"]

\* _ev_spin_unlock, run by the cleanup attribute when the block is left.
Release(t) ==
  /\ spc[t] = "in"
  /\ flag' = 0
  /\ spc' = [spc EXCEPT ![t] = "out"]

Next == \E t \in Threads : Call(t) \/ Acquire(t) \/ Release(t)

Spec == Init /\ [][Next]_spinVars

-----------------------------------------------------------------------------
TypeOK ==
  /\ flag \in {0, 1}
  /\ spc \in [Threads -> {"out", "spin", "in"}]

\* At most one thread is between _ev_spin_lock and _ev_spin_unlock, and the
\* flag says whether there is one (the unconditional store of 0 in the unlock
\* would otherwise free a lock that another thread holds).
MutualExclusion ==
  /\ \A s, t \in Threads : spc[s] = "in" /\ spc[t] = "in" => s = t
  /\ flag = 1 <=> \E t \in Threads : spc[t] = "in"

-----------------------------------------------------------------------------
\* The flag is a bit and each thread is outside, spinning or inside.
THEOREM SpinTypeOK == Spec => []TypeOK
<1>1. Init => TypeOK
  BY DEF Init, TypeOK
<1>2. TypeOK /\ [Next]_spinVars => TypeOK'
  BY DEF TypeOK, Next, Call, Acquire, Release, spinVars
<1>3. QED
  BY <1>1, <1>2, PTL DEF Spec

\* One step of the lock preserves mutual exclusion; the modules that embed a
\* spin lock cite this lemma for theirs.
LEMMA SpinStep ==
  TypeOK /\ MutualExclusion /\ [Next]_spinVars => MutualExclusion'
<1> SUFFICES ASSUME TypeOK, MutualExclusion, [Next]_spinVars
             PROVE  MutualExclusion'
  OBVIOUS
<1>1. ASSUME NEW t \in Threads, Call(t)
      PROVE  MutualExclusion'
  BY <1>1 DEF Call, TypeOK, MutualExclusion
<1>2. ASSUME NEW t \in Threads, Acquire(t)
      PROVE  MutualExclusion'
  BY <1>2 DEF Acquire, TypeOK, MutualExclusion
<1>3. ASSUME NEW t \in Threads, Release(t)
      PROVE  MutualExclusion'
  BY <1>3 DEF Release, TypeOK, MutualExclusion
<1>4. CASE UNCHANGED spinVars
  BY <1>4 DEF spinVars, MutualExclusion
<1>5. QED
  BY <1>1, <1>2, <1>3, <1>4 DEF Next

\* ev_with_spinlock protects its block: two threads are never inside together,
\* for any number of threads.
THEOREM SpinMutualExclusion == Spec => []MutualExclusion
<1>1. Init => MutualExclusion
  BY DEF Init, MutualExclusion
<1>2. QED
  BY <1>1, SpinStep, SpinTypeOK, PTL DEF Spec
=============================================================================
