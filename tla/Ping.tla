-------------------------------- MODULE Ping --------------------------------
(***************************************************************************)
(* net/nt/ping.c: the command sends echo requests one after the other, and *)
(* waits for each; a callback on threads of the capture takes the replies. *)
(* They share one session, g_icmp_session: the callback that moves it from *)
(* waiting to reply answers the request, and only then looks what reply it *)
(* has.                                                                    *)
(***************************************************************************)
EXTENDS Naturals, FiniteSets

CONSTANTS Threads,      \* analysis threads of the capture
          Requests,     \* bound: requests of a command (ping -c)
          Waits,        \* PING_SESSION_WAIT_TIMES
          ArpTries,     \* PING_ARP_REQUEST_RETRY_TIMES
          MaxPackets    \* bound: packets that come in

VARIABLES
  session,      \* g_icmp_session: seq, state, and the sequence its data is of
  user,         \* ping_cli_hook
  sent, count,  \* packets_transmitted and received
  thread,       \* callbacks under way, each with its packet
  wire,         \* external: requests that are out
  heard,        \* packets that have come in
  took          \* history: those that answered a request

vars == <<session, user, sent, count, thread, wire, heard, took>>

NoSeq == Requests
At(pc) == [pc |-> pc, seq |-> 0, tries |-> 0]
Free == [pc |-> "free", seq |-> NoSeq, n |-> 0]

\* ping_module_init.
Init ==
  /\ session = [seq |-> 0, state |-> "idle", data |-> NoSeq]
  /\ user = At("idle") /\ sent = 0 /\ count = 0
  /\ thread = [t \in Threads |-> Free]
  /\ wire = {} /\ heard = 0 /\ took = {}

-----------------------------------------------------------------------------
(* the command *)

\* The address or the interface is bad, or it looks for the target's address
\* (_ping_get_dst_mac), which is in the ARP cache or not, and asks for it at
\* most once.
Start ==
  /\ user.pc = "idle" /\ sent = 0
  /\ \E pc \in {"arp", "build"} : user' = At(pc)
  /\ UNCHANGED <<session, sent, count, thread, wire, heard, took>>

Arp ==
  /\ user.pc = "arp"
  /\ \/ user.tries < ArpTries /\ user' = [user EXCEPT !.tries = @ + 1]
     \/ user.tries < ArpTries /\ user' = At("build")
     \/ user.tries \in {0, ArpTries} /\ user' = At("idle")
  /\ UNCHANGED <<session, sent, count, thread, wire, heard, took>>

\* _ping_icmp_echo_request_build; without memory the command ends.
Build ==
  /\ user.pc = "build"
  /\ \/ session' = [session EXCEPT !.seq = user.seq]
        /\ user' = [user EXCEPT !.pc = "store"]
     \/ user' = At("idle") /\ UNCHANGED session
  /\ UNCHANGED <<sent, count, thread, wire, heard, took>>

Store_Keep ==                   \* mutant: the state of the last request is kept
  /\ user.pc = "store"
  /\ session' = [session EXCEPT !.state = IF @ = "idle" THEN "waiting" ELSE @]
  /\ user' = [user EXCEPT !.pc = "send"]
  /\ UNCHANGED <<sent, count, thread, wire, heard, took>>

\* The sequence is set first, the state after it.
Store ==
  /\ user.pc = "store"
  /\ session' = [session EXCEPT !.state = "waiting"]
  /\ user' = [user EXCEPT !.pc = "send"]
  /\ UNCHANGED <<sent, count, thread, wire, heard, took>>

\* ftx_send may fail: its result is not looked at.
Send ==
  /\ user.pc = "send" /\ user' = [user EXCEPT !.pc = "wait", !.tries = 0]
  /\ sent' = sent + 1 /\ wire' \in {wire, wire \cup {user.seq}}
  /\ UNCHANGED <<session, count, thread, heard, took>>

NextRequest == IF user.seq + 1 = Requests THEN At("idle")
               ELSE [pc |-> "build", seq |-> user.seq + 1, tries |-> 0]

WaitSleep_Ever ==               \* mutant: the tries are not counted
  /\ user.pc = "wait" /\ user.tries < Waits /\ session.state # "reply"
  /\ UNCHANGED vars

WaitSleep ==
  /\ user.pc = "wait" /\ user.tries < Waits /\ session.state # "reply"
  /\ user' = [user EXCEPT !.tries = @ + 1]
  /\ UNCHANGED <<session, sent, count, thread, wire, heard, took>>

\* "Destination Unreachable": the session stays as it is.
WaitOver ==
  /\ user.pc = "wait" /\ user.tries = Waits /\ user' = NextRequest
  /\ UNCHANGED <<session, sent, count, thread, wire, heard, took>>

\* The data of the session are printed, whether the callback has written them
\* or not.
WaitReply ==
  /\ user.pc = "wait" /\ user.tries < Waits /\ session.state = "reply"
  /\ count' = count + 1 /\ user' = NextRequest
  /\ UNCHANGED <<session, sent, thread, wire, heard, took>>

User == Start \/ Arp \/ Build \/ Store \/ Send \/ WaitSleep \/ WaitOver \/ WaitReply

-----------------------------------------------------------------------------
(* the callback: _ping_icmp_filter_cb *)

\* An answer, as often as the network delivers it, or a reply of another
\* program's; the state is tested.
Reply(t) ==
  /\ thread[t] = Free /\ heard < MaxPackets /\ heard' = heard + 1
  /\ \E seq \in wire \cup {NoSeq} :
       thread' = [thread EXCEPT ![t] =
         IF session.state = "waiting" THEN [pc |-> "take", seq |-> seq, n |-> heard'] ELSE Free]
  /\ UNCHANGED <<session, user, sent, count, wire, took>>

Take_Store(t) ==                \* mutant: the state is stored, not exchanged
  /\ thread[t].pc = "take"
  /\ session' = [session EXCEPT !.state = "reply"] /\ took' = took \cup {thread[t].n}
  /\ thread' = [thread EXCEPT ![t].pc = "compare"]
  /\ UNCHANGED <<user, sent, count, wire, heard>>

\* One of several callbacks moves the state, unless the weak exchange fails;
Take(t) ==
  /\ thread[t].pc = "take"
  /\ \/ /\ session.state = "waiting" /\ session' = [session EXCEPT !.state = "reply"]
        /\ took' = took \cup {thread[t].n}
        /\ thread' = [thread EXCEPT ![t].pc = "compare"]
     \/ thread' = [thread EXCEPT ![t] = Free] /\ UNCHANGED <<session, took>>
  /\ UNCHANGED <<user, sent, count, wire, heard>>

\* then it compares the sequence.
Compare(t) ==
  /\ thread[t].pc = "compare"
  /\ thread' = [thread EXCEPT ![t] =
       IF thread[t].seq = session.seq THEN [@ EXCEPT !.pc = "write"] ELSE Free]
  /\ UNCHANGED <<session, user, sent, count, wire, heard, took>>

Write(t) ==
  /\ thread[t].pc = "write" /\ session' = [session EXCEPT !.data = thread[t].seq]
  /\ thread' = [thread EXCEPT ![t] = Free]
  /\ UNCHANGED <<user, sent, count, wire, heard, took>>

Next == User \/ \E t \in Threads : Reply(t) \/ Take(t) \/ Compare(t) \/ Write(t)

Spec == Init /\ [][Next]_vars

-----------------------------------------------------------------------------
\* A packet is counted for at most one request, and a request once: whatever
\* is lost, late, doubled or somebody else's, the command reports no more
\* answers than packets that took the session, and no more of those than it
\* sent requests.
CountedOnce ==
  /\ count <= Cardinality(took)
  /\ Cardinality(took) <= IF user.pc = "send" THEN sent + 1 ELSE sent

\* The command comes to its end, whether anybody answers or not: []<>Returned.
Returned == user.pc = "idle"
=============================================================================
