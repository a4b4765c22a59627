------------------------------- MODULE EvLoop -------------------------------
(***************************************************************************)
(* The event loop of lib/event/ev_loop.c, with the eventfds registered in  *)
(* it.  Registrations and deregistrations are put in a list, and the loop, *)
(* woken by an eventfd of its own, takes them from it; a registered fd is  *)
(* watched edge-triggered.  What a callback does is left to the module     *)
(* that extends this one, which also says who writes and registers.  Every *)
(* fd is below EV_LOOP_FILE_EVENT_COUNT_MAX, the size of the loop's table. *)
(***************************************************************************)
EXTENDS Naturals, Sequences

CONSTANT Fds            \* the eventfds that are registered at some time

Own == "reg_event_fd"   \* file_events_reg_event_fd

ASSUME EvLoopAssumption == Own \notin Fds

VARIABLES
  regs,         \* file_events_reg_list: what is to be registered, or not any more
  listening,    \* the fds with a mask, in file_events and in the kernel
  written,      \* the kernel: eventfds whose counter is not zero
  edges,        \* the kernel: the ready list of the epoll
  fired,        \* file_fireds, less what was dispatched
  lpc, lrun     \* the loop's thread, and g_event_loop.run

loopVars == <<regs, listening, written, edges, fired, lpc, lrun>>

LoopInit ==
  /\ regs = <<>> /\ listening = {} /\ written = {} /\ edges = {}
  /\ fired = {} /\ lpc = "start" /\ lrun = FALSE

LoopTypeOK ==
  /\ regs \in Seq([fd : Fds, on : BOOLEAN])
  /\ listening \subseteq Fds /\ written \subseteq Fds
  /\ edges \subseteq listening \cup {Own} /\ fired \subseteq Fds \cup {Own}
  /\ lpc \in {"start", "wait", "dispatch", "regs", "ended"}
  /\ lrun \in BOOLEAN

-----------------------------------------------------------------------------
(* What others do. *)

\* _el_reg_fe puts an item in the list, and wakes the loop.
ListReg(f, on) ==
  /\ regs' = Append(regs, [fd |-> f, on |-> on])
  /\ UNCHANGED <<listening, written, edges, fired, lpc, lrun>>

AnnounceReg ==
  /\ edges' = edges \cup {Own}
  /\ UNCHANGED <<regs, listening, written, fired, lpc, lrun>>

\* eventfd_write_one.  Every write makes an edge, if the fd is watched.
WriteFd(f) ==
  /\ written' = written \cup {f}
  /\ edges' = IF f \in listening THEN edges \cup {f} ELSE edges
  /\ UNCHANGED <<regs, listening, fired, lpc, lrun>>

\* ev_loop_module_exit_th, long after the start, and the join in it.
LoopExit ==
  /\ lrun /\ lrun' = FALSE
  /\ UNCHANGED <<regs, listening, written, edges, fired, lpc>>
LoopJoined == lpc = "ended" /\ UNCHANGED loopVars

-----------------------------------------------------------------------------
(* _el_main *)

LoopStart ==
  /\ lpc = "start" /\ lpc' = "dispatch"
  /\ lrun' = TRUE
  /\ UNCHANGED <<regs, listening, written, edges, fired>>

\* All that was reported is dispatched: on to the next round, or out.
LoopTest ==
  /\ lpc = "dispatch" /\ fired = {}
  /\ lpc' = IF lrun THEN "wait" ELSE "ended"
  /\ UNCHANGED <<regs, listening, written, edges, fired, lrun>>

\* epoll_wait returns what is ready, or nothing after its timeout.
LoopPoll ==
  /\ lpc = "wait" /\ lpc' = "dispatch"
  /\ fired' = edges /\ edges' = {}
  /\ UNCHANGED <<regs, listening, written, lrun>>

\* The event of f.  Its callback is called if it is registered still.  (The
\* type of a registered fd is never stored, so no counter is read.)
LoopDispatch(f) ==
  /\ lpc = "dispatch" /\ f \in fired \ {Own}
  /\ fired' = fired \ {f}
  /\ UNCHANGED <<regs, listening, written, edges, lpc, lrun>>
Calls(f) == f \in listening

LoopDispatchOwn ==
  /\ lpc = "dispatch" /\ Own \in fired /\ lpc' = "regs"
  /\ fired' = fired \ {Own}
  /\ UNCHANGED <<regs, listening, written, edges, lrun>>

\* One item of _el_reg_fe_handle.  A registered fd that is ready already makes
\* an edge.
Handle(it) ==
  IF it.on
  THEN /\ listening' = listening \cup {it.fd}
       /\ edges' = edges \cup ({it.fd} \cap written)
  ELSE /\ listening' = listening \ {it.fd}
       /\ edges' = edges \ {it.fd}

LoopReg_LastFirst ==            \* mutant: the newest item is taken first
  /\ lpc = "regs" /\ regs # <<>>
  /\ Handle(regs[Len(regs)])
  /\ regs' = SubSeq(regs, 1, Len(regs) - 1)
  /\ UNCHANGED <<written, fired, lpc, lrun>>

LoopReg ==
  /\ lpc = "regs" /\ regs # <<>>
  /\ Handle(Head(regs))
  /\ regs' = Tail(regs)
  /\ UNCHANGED <<written, fired, lpc, lrun>>

LoopRegsDone ==
  /\ lpc = "regs" /\ regs = <<>> /\ lpc' = "dispatch"
  /\ UNCHANGED <<regs, listening, written, edges, fired, lrun>>

\* The loop's steps that call no callback.
LoopStep ==
  \/ LoopStart \/ LoopTest \/ LoopPoll
  \/ LoopDispatchOwn \/ LoopReg \/ LoopRegsDone

-----------------------------------------------------------------------------
\* Is f watched once the list is worked off?
WillListen(f) ==
  LET its == {i \in 1..Len(regs) : regs[i].fd = f}
  IN IF its = {} THEN f \in listening
     ELSE regs[CHOOSE i \in its : \A j \in its : j <= i].on
=============================================================================
