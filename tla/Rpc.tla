-------------------------------- MODULE Rpc ---------------------------------
(***************************************************************************)
(* procs/rpc/rpc.c over lib/ipc/uss/uss.c: processes call functions of     *)
(* each other through a broker, the rpc process, with which each has one   *)
(* stream socket.  A message is written as a length and a body, two writes *)
(* that arrive one after the other; all sockets are non-blocking.  The     *)
(* broker's epoll thread waits for edges: an event comes when something    *)
(* arrives, once.  It reads into one fifo (lib/fifo/fifo.c) for all of the *)
(* clients, takes messages out of it and passes them on.  A client reads   *)
(* in a thread of its own, as long as there is something to read.          *)
(*                                                                         *)
(* A reader that takes other bytes for a length or for a body is out of    *)
(* step with its stream: how much it then reads and what that gives is     *)
(* left open, and a message made of such bytes is Garbled, whatever it     *)
(* says; which function that calls is not followed.                        *)
(***************************************************************************)
EXTENDS Integers, Sequences

CONSTANTS Procs,        \* the clients: PID_CORE and PID_TEST
          None,
          Callers,      \* bound: those that call
          Called,       \* bound: those they call, and garbled messages go to
          Tries,        \* USS_SENDER_RETRY_TIMES
          SocketCap,    \* the writes that a socket holds until they are read
          MaxCalls      \* bound: calls in all

VARIABLES
  conn, tries,          \* the client's end: g_rpc_uss_mgnt
  accepted,             \* the clients with an accepter in g_rpc_uss_mgnt_table
  up, down,             \* what is in the sockets to and from the broker
  sending,              \* what a client's rpc_call_func_async has yet to write
  events,               \* of the epoll: <<"conn", p>> or <<"msg", p>>
  pc, at, msg,          \* the epoll thread: where it is, the client it reads
                        \* from or writes to, the message it has in hand
  fifo, dirty,          \* g_rpc_fifo: "ok", "freed" or "gone"; it holds bytes
                        \* that are not the start of a message
  running, run,         \* g_rpc_epoll_thd_running; the flag in shared memory
  main,                 \* rpc_proc_entry
  reader, stop,         \* of each client: its select thread, and whether it was
                        \* told to stop, or was before it began, which is lost
  sent, got             \* history: the calls made, and those whose function was
                        \* called

connVars == <<conn, tries, accepted>>
thread == <<events, pc, at, msg>>
mains == <<fifo, running, run, main>>
clients == <<sending, reader, stop>>
vars == <<connVars, up, down, thread, mains, dirty, clients, sent, got>>

\* A message of stray bytes.
Garbled == [src |-> None, dest |-> None, id |-> 0]

\* What a stream carries: the length of a message, then its body; and what is
\* left of one of them.
Parts(m) == <<<<"length", m>>, <<"body", m>>>>
Bytes == <<"bytes", Garbled>>

Holds(s, what) == s # <<>> /\ s[1][1] = what

\* What a read of some bytes out of step may leave of a stream.
Rests(s) ==
  UNION {{SubSeq(s, n, Len(s)), <<Bytes>> \o SubSeq(s, n, Len(s))} : n \in 2..Len(s) + 1}

Init ==
  /\ conn = [p \in Procs |-> "none"] /\ tries = [p \in Procs |-> 0] /\ accepted = {}
  /\ up = [p \in Procs |-> <<>>] /\ down = [p \in Procs |-> <<>>]
  /\ sending = [p \in Procs |-> <<>>] /\ events = {}
  /\ pc = "start" /\ at = None /\ msg = Garbled
  /\ fifo = "ok" /\ dirty = FALSE /\ running = FALSE /\ run = TRUE /\ main = "init"
  /\ reader = [p \in Procs |-> "none"] /\ stop = [p \in Procs |-> "no"]
  /\ sent = <<>> /\ got = [p \in Procs |-> <<>>]

\* The broker's ends of the sockets are there, and its listeners.
Listening == main \in {"loop", "free", "flag", "join"}
Gone == main \in {"gone", "killed"}

\* An end that a client closes makes an event, once the epoll has its socket.
Hangup(p) == IF p \in accepted THEN events \cup {<<"msg", p>>} ELSE events

-----------------------------------------------------------------------------
(* a client: uss_mgnter_create, rpc_call_func_async *)

\* The last try counts as a failure though it comes through.
Connect(p) ==
  /\ conn[p] = "none" /\ Listening
  /\ events' = events \cup {<<"conn", p>>}
  /\ tries' = [tries EXCEPT ![p] = 0]
  /\ IF tries[p] = Tries
     THEN conn' = [conn EXCEPT ![p] = "failed"] /\ UNCHANGED reader
     ELSE /\ conn' = [conn EXCEPT ![p] = "open"]
          /\ reader' = [reader EXCEPT ![p] = "start"]
  /\ UNCHANGED <<accepted, up, down, pc, at, msg, mains, dirty, sending, stop, sent, got>>

\* Without a listener the connect fails, and is tried again; a client that
\* gives up has no select thread.
ConnectFails(p) ==
  /\ conn[p] = "none" /\ ~Listening
  /\ IF tries[p] = Tries
     THEN conn' = [conn EXCEPT ![p] = "failed"] /\ tries' = [tries EXCEPT ![p] = 0]
     ELSE tries' = [tries EXCEPT ![p] = @ + 1] /\ UNCHANGED conn
  /\ UNCHANGED <<accepted, up, down, thread, mains, dirty, clients, sent, got>>

\* One call at a time in a process.
Call(p, dest) ==
  /\ conn[p] = "open" /\ stop[p] = "no" /\ sending[p] = <<>> /\ Len(sent) < MaxCalls
  /\ LET m == [src |-> p, dest |-> dest, id |-> Len(sent) + 1]
     IN  sending' = [sending EXCEPT ![p] = Parts(m)] /\ sent' = Append(sent, m)
  /\ UNCHANGED <<connVars, up, down, thread, mains, dirty, reader, stop, got>>

\* One write of uss_send: an edge for the epoll, once the socket is in it;
WriteArrives(p) ==
  /\ ~Gone /\ Len(up[p]) < SocketCap
  /\ sending' = [sending EXCEPT ![p] = Tail(@)]
  /\ up' = [up EXCEPT ![p] = Append(@, sending[p][1])] /\ events' = Hangup(p)
  /\ UNCHANGED <<conn, reader>>

\* a full socket answers EAGAIN, and the rest of the message is never written;
WriteRefused(p) ==
  /\ ~Gone /\ Len(up[p]) >= SocketCap
  /\ sending' = [sending EXCEPT ![p] = <<>>] /\ UNCHANGED <<up, events, conn, reader>>

\* and a broker that is gone is a SIGPIPE, which ends the process.
WriteKills(p) ==
  /\ Gone
  /\ sending' = [sending EXCEPT ![p] = <<>>] /\ conn' = [conn EXCEPT ![p] = "killed"]
  /\ reader' = [reader EXCEPT ![p] = "done"] /\ UNCHANGED <<up, events>>

Write(p) ==
  /\ conn[p] = "open" /\ sending[p] # <<>>
  /\ (WriteArrives(p) \/ WriteRefused(p) \/ WriteKills(p))
  /\ UNCHANGED <<tries, accepted, down, pc, at, msg, mains, dirty, stop, sent, got>>

-----------------------------------------------------------------------------
(* _rpc_epoll_thd_routine *)

Epoll == <<tries, conn, fifo, run, clients, sent, got>>

\* Back to epoll_wait: what the handlers held is gone.
Wait == pc' = "wait" /\ at' = None /\ msg' = Garbled

EpollStart ==
  /\ pc = "start" /\ main # "init" /\ pc' = "wait" /\ running' = TRUE
  /\ UNCHANGED <<Epoll, accepted, up, down, events, at, msg, dirty, main>>

\* The events of one epoll_wait are all handled before the flag is read again.
EpollWait ==
  /\ pc = "wait"
  /\ \E e \in events :
       /\ events' = events \ {e} /\ at' = e[2]
       /\ pc' = IF e[1] = "conn" THEN "accept" ELSE "length"
  /\ UNCHANGED <<Epoll, accepted, up, down, msg, dirty, main, running>>

EpollEnd ==
  /\ pc = "wait" /\ ~running /\ pc' = "done"
  /\ UNCHANGED <<Epoll, accepted, up, down, events, at, msg, dirty, main, running>>

\* _rpc_handle_new_conn: what has arrived already makes an event.
Accept ==
  /\ pc = "accept" /\ accepted' = accepted \cup {at}
  /\ events' = IF up[at] = <<>> /\ conn[at] = "open" THEN events
               ELSE events \cup {<<"msg", at>>}
  /\ Wait /\ UNCHANGED <<Epoll, up, down, dirty, main, running>>

\* Other bytes than those that were due: none for the fifo, or some.
ReadStray ==
  /\ \E rest \in Rests(up[at]) : up' = [up EXCEPT ![at] = rest]
  /\ \/ Wait
     \/ pc' = "fifo" /\ msg' = Garbled /\ UNCHANGED at

\* uss_recv in _rpc_handle_msg reads a length
ReadLength ==
  /\ pc = "length"
  /\ \/ up[at] = <<>> /\ Wait /\ UNCHANGED up
     \/ /\ Holds(up[at], "length") /\ pc' = "body"
        /\ up' = [up EXCEPT ![at] = Tail(@)] /\ UNCHANGED <<at, msg>>
     \/ (Holds(up[at], "body") \/ Holds(up[at], "bytes")) /\ ReadStray
  /\ UNCHANGED <<Epoll, accepted, down, events, dirty, main, running>>

\* and the body.  If there is none yet the length is lost; the end of a stream
\* leaves the body empty.  One message is all that an event brings: less than
\* the buffer holds counts as all there is.
ReadBody ==
  /\ pc = "body"
  /\ \/ up[at] = <<>> /\ Wait /\ UNCHANGED up
     \/ /\ up[at] = <<>> /\ conn[at] # "open" /\ pc' = "fifo" /\ msg' = Garbled
        /\ UNCHANGED <<up, at>>
     \/ /\ Holds(up[at], "body") /\ pc' = "fifo" /\ msg' = up[at][1][2]
        /\ up' = [up EXCEPT ![at] = Tail(@)] /\ UNCHANGED at
     \/ Holds(up[at], "length") /\ ReadStray
  /\ UNCHANGED <<Epoll, accepted, down, events, dirty, main, running>>

\* The epoll thread meets a SIGPIPE or a fault.
Killed == main' = "killed" /\ pc' = "dead" /\ at' = None /\ msg' = Garbled

\* fifo_write and _rpc_fifo_handle.  A message alone in the fifo comes out as
\* it is.
HandleWhole ==
  /\ fifo = "ok" /\ ~dirty /\ msg # Garbled /\ pc' = "route"
  /\ UNCHANGED <<at, msg, dirty, main>>

\* Among stray bytes it makes none or a garbled one, and the fifo is in step
\* again or not, or waits for more than it can hold, and is written to for ever.
\* So may a fifo that is freed, which is also a fault.
HandleStray ==
  /\ fifo # "gone" /\ (fifo = "freed" \/ dirty \/ msg = Garbled)
  /\ dirty' \in BOOLEAN
  /\ \/ Wait /\ UNCHANGED main
     \/ pc' \in {"route", "spin"} /\ msg' = Garbled /\ UNCHANGED <<at, main>>
     \/ fifo = "freed" /\ Killed

\* Without a fifo nothing is ever written.
HandleGone ==
  fifo = "gone" /\ pc' = "spin" /\ UNCHANGED <<at, msg, dirty, main>>

Handle ==
  /\ pc = "fifo" /\ (HandleWhole \/ HandleStray \/ HandleGone)
  /\ UNCHANGED <<Epoll, accepted, up, down, events, running>>

Route_Back(m) == {m.src}        \* mutant: to the process that calls

\* The processes that a message may be passed on to.
Route(m) == IF m = Garbled THEN Called ELSE {m.dest}

\* One write of uss_send to a client: a full socket answers EAGAIN, and one that
\* the client closed is a SIGPIPE.
PassArrives(q, part) ==
  /\ conn[q] = "open" /\ Len(down[q]) < SocketCap
  /\ down' = [down EXCEPT ![q] = Append(@, part)]
PassRefused(q) ==
  conn[q] = "open" /\ Len(down[q]) >= SocketCap /\ Wait /\ UNCHANGED <<down, main>>
PassKills(q) == conn[q] # "open" /\ Killed /\ UNCHANGED down

\* The two writes, if the header names a process and it is connected.
PassLength ==
  /\ pc = "route"
  /\ \/ \E q \in Route(msg) \cap accepted :
          \/ /\ PassArrives(q, <<"length", msg>>)
             /\ pc' = "passBody" /\ at' = q /\ UNCHANGED <<msg, main>>
          \/ PassRefused(q)
          \/ PassKills(q)
     \/ /\ (msg = Garbled \/ Route(msg) \cap accepted = {})
        /\ Wait /\ UNCHANGED <<down, main>>
  /\ UNCHANGED <<Epoll, accepted, up, events, dirty, running>>

PassBody ==
  /\ pc = "passBody"
  /\ \/ PassArrives(at, <<"body", msg>>) /\ Wait /\ UNCHANGED main
     \/ PassRefused(at)
     \/ PassKills(at)
  /\ UNCHANGED <<Epoll, accepted, up, events, dirty, running>>

Poll == \/ EpollStart \/ EpollWait \/ EpollEnd \/ Accept \/ ReadLength \/ ReadBody
        \/ Handle \/ PassLength \/ PassBody

-----------------------------------------------------------------------------
(* rpc_module_init and rpc_proc_entry of the broker; the core process clears *)
(* the flag                                                                  *)

Main(from, to) == main = from /\ main' = to

Leaving == <<connVars, up, down, thread, dirty, clients, sent, got>>

Listen ==
  Main("init", "loop") /\ UNCHANGED <<Leaving, fifo, running, run>>

Stop ==
  /\ run /\ main # "init" /\ run' = FALSE
  /\ UNCHANGED <<Leaving, fifo, running, main>>

\* fifo_destroy frees the fifo and then clears the pointer to it.
MainFree ==
  Main("loop", "free") /\ ~run /\ fifo' = "freed" /\ UNCHANGED <<Leaving, running, run>>

MainGone ==
  /\ Main("free", "flag") /\ fifo' = "gone" /\ dirty' = FALSE
  /\ UNCHANGED <<connVars, up, down, thread, clients, sent, got, running, run>>

MainFlag ==
  Main("flag", "join") /\ running' = FALSE /\ UNCHANGED <<Leaving, fifo, run>>

\* and rpc_module_exit, which closes the sockets.
MainJoin ==
  Main("join", "gone") /\ pc = "done" /\ UNCHANGED <<Leaving, fifo, running, run>>

Leave == Listen \/ MainFree \/ MainGone \/ MainFlag \/ MainJoin

-----------------------------------------------------------------------------
(* _rpc_select_routine, _rpc_module_exit_for_others *)

Others == <<tries, accepted, up, pc, at, msg, mains, dirty, sending, sent>>

ReaderStart(p) ==
  /\ reader[p] = "start" /\ reader' = [reader EXCEPT ![p] = "select"]
  /\ stop' = [stop EXCEPT ![p] = IF @ = "told" THEN "lost" ELSE @]
  /\ UNCHANGED <<Others, conn, events, down, got>>

\* Other bytes than those that were due.
ReceiveStray(p) ==
  /\ \E rest \in Rests(down[p]) : down' = [down EXCEPT ![p] = rest]
  /\ reader' = [reader EXCEPT ![p] = "select"] /\ UNCHANGED got

\* uss_recv: a length that is more than the header has, as a garbled one may be,
\* is all that is read.
ReadHeader(p) ==
  /\ reader[p] = "select"
  /\ \/ /\ Holds(down[p], "length") /\ down' = [down EXCEPT ![p] = Tail(@)]
        /\ \/ reader' = [reader EXCEPT ![p] = "body"]
           \/ down[p][1][2] = Garbled /\ UNCHANGED reader
        /\ UNCHANGED got
     \/ (Holds(down[p], "body") \/ Holds(down[p], "bytes")) /\ ReceiveStray(p)
  /\ UNCHANGED <<Others, conn, events, stop>>

\* Without a body the header is empty, and calls no function.
ReadCall(p) ==
  /\ reader[p] = "body"
  /\ \/ /\ down[p] = <<>> /\ UNCHANGED <<down, got>>
        /\ reader' = [reader EXCEPT ![p] = "select"]
     \/ /\ Holds(down[p], "body") /\ down' = [down EXCEPT ![p] = Tail(@)]
        /\ reader' = [reader EXCEPT ![p] = "select"]
        /\ got' = IF down[p][1][2] = Garbled THEN got
                  ELSE [got EXCEPT ![p] = Append(@, down[p][1][2])]
     \/ Holds(down[p], "length") /\ ReceiveStray(p)
  /\ UNCHANGED <<Others, conn, events, stop>>

ReaderEnd(p) ==
  /\ reader[p] = "select" /\ stop[p] = "told" /\ reader' = [reader EXCEPT ![p] = "done"]
  /\ UNCHANGED <<Others, conn, events, down, stop, got>>

\* A client without a select thread joins the thread 0, which is undefined: the
\* process ends there, or the join returns an error.
ExitClient(p) ==
  /\ ~run /\ stop[p] = "no" /\ sending[p] = <<>> /\ stop' = [stop EXCEPT ![p] = "told"]
  /\ \/ conn[p] = "open" /\ UNCHANGED conn
     \/ conn[p] = "failed" /\ \E end \in {"closed", "killed"} : conn' = [conn EXCEPT ![p] = end]
  /\ UNCHANGED <<Others, events, down, reader, got>>

\* After the join.
Close(p) ==
  /\ conn[p] = "open" /\ stop[p] # "no" /\ reader[p] = "done"
  /\ conn' = [conn EXCEPT ![p] = "closed"] /\ events' = Hangup(p)
  /\ UNCHANGED <<Others, down, reader, stop, got>>

Reader(p) == ReaderStart(p) \/ ReadHeader(p) \/ ReadCall(p) \/ ReaderEnd(p) \/ Close(p)

Client(p) ==
  \/ Connect(p) \/ ConnectFails(p) \/ Write(p) \/ ExitClient(p)
  \/ p \in Callers /\ \E dest \in Procs \cap Called : Call(p, dest)

Next == Poll \/ Stop \/ Leave \/ \E p \in Procs : Client(p) \/ Reader(p)

Spec == Init /\ [][Next]_vars

\* Every thread goes on.
FairSpec ==
  /\ Spec /\ WF_vars(Poll) /\ WF_vars(Leave)
  /\ \A p \in Procs : /\ WF_vars(Reader(p)) /\ WF_vars(Write(p))
                       /\ WF_vars(Connect(p) \/ ConnectFails(p))

-----------------------------------------------------------------------------
\* A function is called in the process it was called of, for a call that was
\* made, once, and the calls of one process in their order, whatever is lost
\* and whatever stray bytes come between.
CalledInOrder ==
  \A p \in Procs :
    /\ \A i \in 1..Len(got[p]) :
         got[p][i].dest = p /\ got[p][i] \in {sent[k] : k \in 1..Len(sent)}
    /\ \A i, j \in 1..Len(got[p]) :
         i < j /\ got[p][i].src = got[p][j].src => got[p][i].id < got[p][j].id

\* "IO needs to be read to the end, with nothing left" (rpc.c:290): as long as
\* the broker runs, all that has arrived gets read.
AllRead == []<>(~run \/ Gone \/ \A p \in Procs : up[p] = <<>>)
=============================================================================
