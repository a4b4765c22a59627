------------------------------ MODULE ArpCache ------------------------------
(***************************************************************************)
(* net/nt/arp.c: the cache of ARP replies.  Captor threads add and refresh *)
(* entries, a timer for each calls back when it is too old, a thread asks  *)
(* again for entries of half that age, and the command line and ping look  *)
(* entries up.  A rwlock guards the table; some look-ups are made, and the *)
(* entries that look-ups return are used, without it.                      *)
(***************************************************************************)
EXTENDS Naturals, Sequences

CONSTANTS Ips, Cells,   \* addresses, and memory for entries
          Workers,      \* threads that run the callbacks of timers
          None,
          MaxReplies,   \* bound: replies that come in
          MaxCalls      \* bound: calls of the user

\* Assumed of the constants.
ArpAssumption == None \notin Cells \cup Workers /\ "captor" \notin Workers \cup {None}

VARIABLES
  table,        \* g_arp_reply_cache: Ips -> Cells \cup {None}
  cell,         \* the memory of the entries
  writer,       \* who holds the write lock of g_arp_reply_cache_rwlock
  reply,        \* the reply a captor is adding
  tasks,        \* callbacks of expired timers that wait for a thread
  worker,       \* the threads that run them
  user, calls,  \* probe, scan or query
  up,           \* arp_module_exit has not come
  asked, heard, \* external: requests sent; replies so far
  wild          \* freed memory or a broken table was used: the model ends

vars == <<table, cell, writer, reply, tasks, worker, user, calls, up, asked, heard,
          wild>>

FreeCell == [used |-> FALSE, ip |-> None, timer |-> "off"]
Idle == [pc |-> "idle", cell |-> None]

\* _arp_request_build.
ArpRequest(ip) == [op |-> "request", target |-> ip]
AllRequests == {ArpRequest(ip) : ip \in Ips}

\* arp_module_init asks for every address of the network (_arp_scan_interface).
Init ==
  /\ table = [ip \in Ips |-> None] /\ cell = [c \in Cells |-> FreeCell]
  /\ writer = None /\ reply = None
  /\ tasks = <<>> /\ worker = [w \in Workers |-> Idle]
  /\ user = [pc |-> "idle", todo |-> {}, cell |-> None] /\ calls = 0
  /\ up = TRUE /\ asked \in {AllRequests, {}} /\ heard = 0 /\ wild = FALSE

\* arp_request_send: nothing is sent when the interface is down.
Request(ips) ==
  \/ asked' = asked \cup {ArpRequest(ip) : ip \in ips}
  \/ asked' = asked

\* A table that is being written, or that is no more, is not to be read.
Broken == writer # None \/ ~up

-----------------------------------------------------------------------------
(* the captor: _arp_zcap_filter_cb *)

CaptorLock ==
  /\ writer = None /\ heard < MaxReplies
  /\ \E r \in asked : reply' = r.target
  /\ writer' = "captor" /\ heard' = heard + 1
  /\ wild' = ~up
  /\ UNCHANGED <<table, cell, tasks, worker, user, calls, up, asked>>

NewEntry ==
  \E c \in Cells :
    /\ ~cell[c].used
    /\ cell' = [cell EXCEPT ![c] = [used |-> TRUE, ip |-> reply, timer |-> "young"]]
    /\ table' = [table EXCEPT ![reply] = c]

OldEntry_NoTimer ==             \* mutant: the new timer is not started
  /\ cell' = [cell EXCEPT ![table[reply]].timer = "off"]
  /\ UNCHANGED table

\* The timer is destroyed and another started.
OldEntry ==
  /\ cell' = [cell EXCEPT ![table[reply]].timer = "young"]
  /\ UNCHANGED table

\* _arp_reply_cache_add.
CaptorAdd ==
  /\ writer = "captor"
  /\ IF table[reply] = None THEN NewEntry ELSE OldEntry
  /\ writer' = None /\ reply' = None
  /\ UNCHANGED <<tasks, worker, user, calls, up, asked, heard, wild>>

-----------------------------------------------------------------------------
(* age *)

Age(c) ==
  /\ cell[c].used /\ cell[c].timer = "young"
  /\ cell' = [cell EXCEPT ![c].timer = "old"]
  /\ UNCHANGED <<table, writer, reply, tasks, worker, user, calls, up, asked, heard,
                 wild>>

Expire(c) ==
  /\ cell[c].used /\ cell[c].timer = "old"
  /\ cell' = [cell EXCEPT ![c].timer = "off"]
  /\ tasks' = Append(tasks, c)
  /\ UNCHANGED <<table, writer, reply, worker, user, calls, up, asked, heard, wild>>

\* _arp_half_age_detect_wf, under the read lock.
HalfAge ==
  /\ up /\ writer = None
  /\ Request({ip \in Ips : table[ip] # None /\ cell[table[ip]].timer # "young"})
  /\ UNCHANGED <<table, cell, writer, reply, tasks, worker, user, calls, up, heard,
                 wild>>

\* _arp_reply_cache_del: the entry that the callback was given names the
\* address; which is looked up, without the lock;
WorkerTake(w) ==
  /\ worker[w].pc = "idle" /\ tasks # <<>>
  /\ worker' = [worker EXCEPT ![w] = [pc |-> "called", cell |-> Head(tasks)]]
  /\ tasks' = Tail(tasks)
  /\ UNCHANGED <<table, cell, writer, reply, user, calls, up, asked, heard, wild>>

WorkerFind(w) ==
  /\ worker[w].pc = "called"
  /\ LET c == worker[w].cell
         found == IF cell[c].used THEN table[cell[c].ip] ELSE None
     IN  worker' = [worker EXCEPT ![w] =
                      IF found = None THEN Idle ELSE [pc |-> "found", cell |-> found]]
  /\ wild' = (Broken \/ ~cell[worker[w].cell].used)
  /\ UNCHANGED <<table, cell, writer, reply, tasks, user, calls, up, asked, heard>>

\* the entry it finds is removed, though it may be fresh by now; one that was
\* removed in the meantime has no timer to destroy;
WorkerLock(w) ==
  /\ worker[w].pc = "found" /\ writer = None
  /\ writer' = w /\ worker' = [worker EXCEPT ![w].pc = "remove"]
  /\ LET c == worker[w].cell
     IN  wild' = (~up \/ ~cell[c].used \/ table[cell[c].ip] # c)
  /\ UNCHANGED <<table, cell, reply, tasks, user, calls, up, asked, heard>>

WorkerRemove(w) ==
  /\ worker[w].pc = "remove"
  /\ LET c == worker[w].cell
     IN  /\ table' = [table EXCEPT ![cell[c].ip] = None]
         /\ cell' = [cell EXCEPT ![c].timer = "off"]
  /\ writer' = None /\ worker' = [worker EXCEPT ![w].pc = "free"]
  /\ UNCHANGED <<reply, tasks, user, calls, up, asked, heard, wild>>

\* and freed.
WorkerFree(w) ==
  /\ worker[w].pc = "free"
  /\ cell' = [cell EXCEPT ![worker[w].cell] = FreeCell]
  /\ worker' = [worker EXCEPT ![w] = Idle]
  /\ UNCHANGED <<table, writer, reply, tasks, user, calls, up, asked, heard, wild>>

Work(w) == WorkerTake(w) \/ WorkerFind(w) \/ WorkerLock(w) \/ WorkerRemove(w)
           \/ WorkerFree(w)

-----------------------------------------------------------------------------
(* users *)

\* arp_probe_cli_hook asks for one address; it waits, and looks it up.
Probe ==
  /\ \E ip \in Ips : user' = [user EXCEPT !.pc = "look", !.todo = {ip}] /\ Request({ip})

\* arp_scan_cli_hook asks for all of a network, one after the other, and fills
\* in each address in the one buffer that it gave away with the first.
Scan ==
  \E ip \in Ips : user' = [user EXCEPT !.pc = "scan", !.todo = Ips \ {ip}] /\ Request({ip})

ScanNext ==
  /\ user.pc = "scan"
  /\ IF user.todo = {} THEN wild' = wild /\ user' = [user EXCEPT !.pc = "look", !.todo = Ips]
                       ELSE wild' = TRUE /\ user' = user
  /\ UNCHANGED <<table, cell, writer, reply, tasks, worker, calls, up, asked, heard>>

UserCall ==
  /\ user.pc = "idle" /\ up /\ calls < MaxCalls /\ calls' = calls + 1
  /\ Probe \/ Scan
  /\ UNCHANGED <<table, cell, writer, reply, tasks, worker, up, heard, wild>>

\* arp_cache_query: the look-up is under the read lock,
UserLook ==
  /\ user.pc = "look" /\ user.todo # {} /\ writer = None
  /\ \E ip \in user.todo :
       user' = [user EXCEPT !.pc = IF table[ip] = None THEN "look" ELSE "use",
                            !.todo = @ \ {ip}, !.cell = table[ip]]
  /\ wild' = ~up
  /\ UNCHANGED <<table, cell, writer, reply, tasks, worker, calls, up, asked, heard>>

\* the use of what it found is not.
UserUse ==
  /\ user.pc = "use" /\ user' = [user EXCEPT !.pc = "look", !.cell = None]
  /\ wild' = ~cell[user.cell].used
  /\ UNCHANGED <<table, cell, writer, reply, tasks, worker, calls, up, asked, heard>>

UserReturn ==
  /\ user.pc = "look" /\ user.todo = {}
  /\ user' = [user EXCEPT !.pc = "idle", !.cell = None]
  /\ UNCHANGED <<table, cell, writer, reply, tasks, worker, calls, up, asked, heard,
                 wild>>

\* arp_module_exit: the thread is gone, then all entries are freed and the
\* table ends; captors and callbacks are not stopped.
Exit ==
  /\ up /\ writer = None /\ up' = FALSE
  /\ table' = [ip \in Ips |-> None]
  /\ cell' = [c \in Cells |->
                IF \E ip \in Ips : table[ip] = c THEN FreeCell ELSE cell[c]]
  /\ UNCHANGED <<writer, reply, tasks, worker, user, calls, asked, heard, wild>>

Next ==
  /\ ~wild
  /\ \/ CaptorLock \/ CaptorAdd \/ HalfAge \/ Exit
     \/ \E c \in Cells : Age(c) \/ Expire(c)
     \/ \E w \in Workers : Work(w)
     \/ UserCall \/ ScanNext \/ UserLook \/ UserUse \/ UserReturn

Spec == Init /\ [][Next]_vars

-----------------------------------------------------------------------------
\* An entry is in the table under its own address, in memory that is its own,
\* and it is going to leave: a timer is running for it, or the callback of one
\* is on its way, whatever refreshes and removals have been under way.
EntriesAge ==
  ~wild => \A ip \in Ips :
    LET c == table[ip]
    IN  c # None =>
          /\ cell[c].used /\ cell[c].ip = ip
          /\ \/ cell[c].timer # "off"
             \/ \E k \in 1..Len(tasks) : tasks[k] = c
             \/ \E w \in Workers : worker[w].cell = c /\ worker[w].pc # "free"

\* And it does leave: when no more replies come, []<>EntriesGone.
EntriesGone == wild \/ \A ip \in Ips : table[ip] = None
=============================================================================
