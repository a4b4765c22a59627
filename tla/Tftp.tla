-------------------------------- MODULE Tftp --------------------------------
(***************************************************************************)
(* net/nt/tftp.c: the TFTP client.  A thread runs the state machine on the *)
(* events of its message queue; the command line, the captor threads and   *)
(* the callbacks of two retry timers push them.  The captor compares block *)
(* numbers with expect_block_id when a packet comes in; the event that it  *)
(* pushes carries none.                                                    *)
(***************************************************************************)
EXTENDS Naturals, Sequences

CONSTANTS FileLens,     \* of the file that is transferred, in blocks
          IdMod,        \* block numbers are below it (2^16 in the code)
          Retries,      \* TFTP_RETRY_COUNT
          QueueCap,     \* TFTP_FSM_MSGQ_CAPACITY
          MaxCommands,  \* bound: commands given
          MaxPackets,   \* bound: packets that arrive
          MaxFails      \* bound: blocks that could not be read or sent

\* Assumed of the constants.
TftpAssumption ==
  FileLens \subseteq Nat \ {0} /\ IdMod \in Nat \ {0, 1} /\ QueueCap \in Nat \ {0}

Timers == {"download", "upload"}

VARIABLES
  state, expect, retry, \* g_tftp_fsm
  fp,                   \* "none", "open", or "bad" after an error
  last,                 \* the block that was read last, to which send_data_size
                        \* belongs: 0 is none, and the last of the file is short
  server,               \* server_ip: the command whose session it is, or 0
  mq,                   \* tftp_fsm_mq
  timer, cb,            \* the retry timers, and their callbacks under way
  fsm, running,         \* where the thread is, and the flag that keeps it on
  len,                  \* the length of the file
  cli, asked, done,     \* the command line, its commands, and sem_done
  captor,               \* the event a captor thread is about to push
  sent, packets,        \* external: what the server got, data as its number and
                        \* the block that it is; packets that came
  kept, passed,         \* history: blocks stored or taken for acknowledged, and
                        \* packets the captor let through
  doubled, lost,        \* history: it let one through again or too late; an
                        \* event found the queue full
  fails                 \* history: blocks not read or sent

session == <<state, fp, expect, retry, last, server, kept, fails>>
others == <<cb, running, len, cli, asked, captor, packets, passed, doubled>>
vars == <<session, mq, timer, fsm, done, sent, lost, others>>

NoEvent == [ev |-> "none", block |-> 0]
Event(e) == [ev |-> e, block |-> 0]

\* tftp_module_init.
Init ==
  /\ state = "IDLE" /\ fp = "none" /\ expect = 0 /\ retry = 0 /\ last = 0
  /\ server = 0 /\ kept = <<>> /\ fails = 0 /\ len \in FileLens
  /\ mq = <<>> /\ timer = [t \in Timers |-> FALSE] /\ cb = [t \in Timers |-> "none"]
  /\ fsm = "start" /\ running = FALSE
  /\ cli = "ready" /\ asked = 0 /\ done = 0 /\ captor = NoEvent
  /\ sent = {} /\ packets = 0 /\ passed = {} /\ doubled = FALSE /\ lost = FALSE

\* msg_q_push, whose result nobody looks at.
Push(q, m) ==
  /\ mq' = IF Len(q) < QueueCap THEN Append(q, m) ELSE q
  /\ lost' = (lost \/ Len(q) = QueueCap)

NoPush(q) == mq' = q /\ lost' = lost

\* A block of the file under a number, and the other messages.
Data(number, block) == <<"DATA", number, block>>
Other(kind, number) == <<kind, number, 0>>

-----------------------------------------------------------------------------
(* the command line, the captor threads and the timers *)

\* tftp_download_cli_hook and tftp_upload_cli_hook: the request,
CliRequest ==
  /\ cli = "ready" /\ asked < MaxCommands
  /\ asked' = asked + 1
  /\ \E e \in {"READ_REQ", "WRITE_REQ"} : Push(mq, [ev |-> e, block |-> asked'])
  /\ cli' = "wait"
  /\ UNCHANGED <<session, timer, fsm, done, sent, cb, running, len, captor, packets,
                 passed, doubled>>

\* and the wait on sem_done.
CliDone ==
  /\ cli = "wait" /\ done > 0
  /\ cli' = "ready" /\ done' = done - 1
  /\ UNCHANGED <<session, mq, timer, fsm, sent, lost, cb, running, len, asked, captor,
                 packets, passed, doubled>>

\* A packet of the server: data for a request or an acknowledgement, an
\* acknowledgement of a request or of data, in any order and any number of times.
Answers ==
  {<<s[1], "DATA", s[3] + 1>> : s \in {s \in sent : s[2] \in {"RRQ", "ACK"} /\ s[3] < len}}
    \cup {<<s[1], "ACK", s[3]>> : s \in {s \in sent : s[2] \in {"WRQ", "DATA"}}}

\* _tftp_packet_filter_cb as far as its tests.
CaptorTest ==
  /\ captor = NoEvent /\ packets < MaxPackets /\ packets' = packets + 1
  /\ server # 0
  /\ \/ captor' = Event("ERROR_PKT") /\ UNCHANGED <<passed, doubled>>
     \/ \E p \in Answers :
          /\ expect = p[3] % IdMod
          /\ captor' = [ev |-> IF p[2] = "DATA"
                               THEN IF p[3] % IdMod = 1 THEN "DATA1" ELSE "DATA"
                               ELSE IF p[3] % IdMod = 0 THEN "ACK0" ELSE "ACK",
                        block |-> p[3]]
          /\ passed' = passed \cup {p}
          /\ doubled' = (doubled \/ p \in passed \/ p[1] # server)
  /\ UNCHANGED <<session, mq, timer, fsm, done, sent, lost, cb, running, len, cli, asked>>

\* Its msg_q_push.
CaptorPush ==
  /\ captor # NoEvent /\ captor' = NoEvent
  /\ Push(mq, captor)
  /\ UNCHANGED <<session, timer, fsm, done, sent, cb, running, len, cli, asked, packets,
                 passed, doubled>>

\* A timer expires and a thread of the timers' pool calls its callback.
Expire(t) ==
  /\ timer[t] /\ cb[t] = "none"
  /\ timer' = [timer EXCEPT ![t] = FALSE] /\ cb' = [cb EXCEPT ![t] = "called"]
  /\ UNCHANGED <<session, mq, fsm, done, sent, lost, running, len, cli, asked, captor,
                 packets, passed, doubled>>

\* The callback reads expect_block_id, from which it makes the event,
RetryLoad(t) ==
  /\ cb[t] = "called"
  /\ cb' = [cb EXCEPT ![t] =
              CASE t = "download" -> IF expect = 1 THEN "READ_REQ" ELSE "DATA_TIMEOUT"
                [] t = "upload"   -> IF expect = 0 THEN "WRITE_REQ" ELSE "ACK_TIMEOUT"]
  /\ UNCHANGED <<session, mq, timer, fsm, done, sent, lost, running, len, cli, asked,
                 captor, packets, passed, doubled>>

\* pushes it,
RetryPush(t) ==
  /\ cb[t] \notin {"none", "called", "restart"}
  /\ Push(mq, Event(cb[t]))
  /\ cb' = [cb EXCEPT ![t] = "restart"]
  /\ UNCHANGED <<session, timer, fsm, done, sent, running, len, cli, asked, captor,
                 packets, passed, doubled>>

RetryRestart_Not(t) ==          \* mutant: the timer fires once
  /\ cb[t] = "restart" /\ cb' = [cb EXCEPT ![t] = "none"]
  /\ UNCHANGED <<session, mq, timer, fsm, done, sent, lost, running, len, cli, asked,
                 captor, packets, passed, doubled>>

\* and starts the timer again, whatever the state machine did in the meantime.
RetryRestart(t) ==
  /\ cb[t] = "restart" /\ cb' = [cb EXCEPT ![t] = "none"]
  /\ timer' = [timer EXCEPT ![t] = TRUE]
  /\ UNCHANGED <<session, mq, fsm, done, sent, lost, running, len, cli, asked, captor,
                 packets, passed, doubled>>

-----------------------------------------------------------------------------
(* The states.  A step is the poll hook and, if the state changes, the exit *)
(* hook of the old state and the enter hook of the new one.                 *)

\* _tftp_fsm up to its loop.  It clears the state, the semaphore included.
Start ==
  /\ fsm = "start" /\ fsm' = "pop" /\ running' = TRUE
  /\ done' = 0 /\ cli' = IF cli = "wait" THEN "forgotten" ELSE cli
  /\ UNCHANGED <<session, mq, timer, sent, lost, cb, len, asked, captor, packets,
                 passed, doubled>>

On(s, e) ==
  /\ fsm = "pop" /\ state = s /\ mq # <<>> /\ Head(mq).ev = e
  /\ UNCHANGED others

\* The loop's test of running comes after each event.
GoOn == fsm' = IF running THEN "pop" ELSE "exited"
Stay == GoOn /\ UNCHANGED sent

\* A frame that finds no memory is like one that the network loses;
\* ftx_send_udp aborts without a server.
Send(m) ==
  \/ server' # 0 /\ sent' = sent \cup {<<server'>> \o m} /\ GoOn /\ UNCHANGED fails
  \/ server' = 0 /\ fsm' = "aborted" /\ UNCHANGED <<sent, fails>>

Quiet(t) == timer' = [timer EXCEPT ![t] = FALSE]
Again(t) == timer' = [timer EXCEPT ![t] = TRUE]

\* The enter hooks of SUCCESS and ERROR, and of IDLE.
EnterEnd(s) == state' = s /\ Push(Tail(mq), Event("RE_IDLE"))

EnterIdle ==
  /\ state' = "IDLE" /\ server' = 0 /\ expect' = 0 /\ retry' = 0 /\ last' = 0
  /\ done' = IF done < MaxCommands THEN done + 1 ELSE done

\* A retry callback that comes late posts a request for the server 0.
IdleRead ==
  /\ On("IDLE", "READ_REQ")
  /\ state' = "WAIT_DATA1" /\ server' = Head(mq).block /\ kept' = <<>>
  /\ expect' = 1 /\ Send(Other("RRQ", 0)) /\ Again("download")
  /\ NoPush(Tail(mq))
  /\ UNCHANGED <<fp, retry, last, done>>

\* The file may be missing: then the session ends with an event of its own.
IdleWrite ==
  /\ On("IDLE", "WRITE_REQ")
  /\ state' = "WAIT_ACK0" /\ server' = Head(mq).block /\ kept' = <<>>
  /\ \/ /\ fp' = "open"
        /\ expect' = 0 /\ retry' = 0 /\ Send(Other("WRQ", 0)) /\ Again("upload")
        /\ NoPush(Tail(mq))
     \/ /\ fp' = "none"
        /\ Push(Tail(mq), Event("ERROR_PKT")) /\ Stay
        /\ UNCHANGED <<expect, retry, timer, fails>>
  /\ UNCHANGED <<last, done>>

\* The request again, at most Retries times.
RequestAgain(s, e, t, kind) ==
  /\ On(s, e) /\ UNCHANGED server
  /\ \/ /\ retry < Retries
        /\ retry' = retry + 1 /\ Send(Other(kind, 0))
        /\ NoPush(Tail(mq)) /\ UNCHANGED <<state, timer>>
     \/ /\ retry >= Retries
        /\ retry' = 0 /\ Quiet(t) /\ EnterEnd("ERROR") /\ Stay /\ UNCHANGED fails
  /\ UNCHANGED <<fp, expect, last, kept, done>>

WaitData1Timeout == RequestAgain("WAIT_DATA1", "READ_REQ", "download", "RRQ")
WaitAck0Timeout == RequestAgain("WAIT_ACK0", "WRITE_REQ", "upload", "WRQ")

\* The block is written and acknowledged; a full one is not the last.
Store(k) ==
  /\ kept' = Append(kept, k) /\ expect' = (expect + 1) % IdMod
  /\ Send(Other("ACK", Len(kept')))

Stores_Full(q) ==               \* mutant: a full block ends the file as well
  IF Head(mq).block + 1 < len
  THEN state' = "DOWNLOAD" /\ Again("download") /\ NoPush(q)
  ELSE EnterEnd("SUCCESS") /\ Quiet("download")

Stores(q) ==
  IF Head(mq).block < len
  THEN state' = "DOWNLOAD" /\ Again("download") /\ NoPush(q)
  ELSE EnterEnd("SUCCESS") /\ Quiet("download")

WaitData1Data ==
  /\ On("WAIT_DATA1", "DATA1")
  /\ retry' = 0 /\ UNCHANGED server
  /\ \/ fp' = "open" /\ Store(Head(mq).block) /\ Stores(Tail(mq))
     \/ /\ fp' \in {"none", "open"} /\ EnterEnd("ERROR") /\ Quiet("download") /\ Stay
        /\ UNCHANGED <<expect, kept, fails>>
  /\ UNCHANGED <<last, done>>

DownloadData ==
  /\ On("DOWNLOAD", "DATA")
  /\ retry' = 0 /\ UNCHANGED server
  /\ \/ Store(Head(mq).block) /\ Stores(Tail(mq))
     \/ /\ EnterEnd("ERROR") /\ Quiet("download") /\ Stay
        /\ UNCHANGED <<expect, kept, fails>>
  /\ UNCHANGED <<fp, last, done>>

\* The last acknowledgement again.  The timer goes on when the retries are
\* used up: DOWNLOAD has no exit hook.
DownloadTimeout ==
  /\ On("DOWNLOAD", "DATA_TIMEOUT") /\ UNCHANGED server
  /\ \/ /\ retry < Retries /\ retry' = retry + 1
        /\ Send(Other("ACK", Len(kept)))
        /\ NoPush(Tail(mq)) /\ UNCHANGED state
     \/ retry >= Retries /\ EnterEnd("ERROR") /\ Stay /\ UNCHANGED <<retry, fails>>
  /\ UNCHANGED <<fp, expect, last, kept, timer, done>>

\* An error packet ends every transfer, and stops its timer.
Refused ==
  /\ \E s \in {"WAIT_DATA1", "DOWNLOAD", "WAIT_ACK0", "UPLOAD"} :
       /\ On(s, "ERROR_PKT")
       /\ Quiet(IF s \in {"WAIT_DATA1", "DOWNLOAD"} THEN "download" ELSE "upload")
  /\ retry' = 0 /\ EnterEnd("ERROR") /\ Stay
  /\ UNCHANGED <<fp, expect, last, server, kept, done, fails>>

SendData_NoSeek(k) ==           \* mutant: a retry reads on from where the file is
  LET block == IF last < len THEN last + 1 ELSE len
  IN  /\ UNCHANGED server
      /\ \/ fp = "open" /\ Send(Data(k, block)) /\ last' = block /\ UNCHANGED fp
         \/ /\ fp # "open" /\ Stay /\ UNCHANGED <<fp, last, fails>>
         \/ /\ fp = "open" /\ fails < MaxFails /\ fails' = fails + 1
            /\ fp' \in {"open", "bad"} /\ Stay /\ UNCHANGED last

\* _tftp_send_data: the next block of the file, which a retry sets back by what
\* was read last, under the number k.  Without memory nothing is read; an error
\* of the file remains.
SendData(k) ==
  LET block == IF retry' > 0 /\ last > 0 THEN last
               ELSE IF last < len THEN last + 1 ELSE len
  IN  /\ UNCHANGED server
      /\ \/ fp = "open" /\ Send(Data(k, block)) /\ last' = block /\ UNCHANGED fp
         \/ /\ fp # "open" /\ Stay /\ UNCHANGED <<fp, last, fails>>
         \/ /\ fp = "open" /\ fails < MaxFails /\ fails' = fails + 1
            /\ fp' \in {"open", "bad"} /\ Stay /\ UNCHANGED last

WaitAck0Ack ==
  /\ On("WAIT_ACK0", "ACK0")
  /\ state' = "UPLOAD" /\ retry' = 0
  /\ expect' = 1 /\ SendData(1) /\ Again("upload")
  /\ NoPush(Tail(mq))
  /\ UNCHANGED <<kept, done>>

\* What was read last is shorter than TFTP_DATA_BLOCK_SIZE, or nothing was.
Short == last \in {0, len}

UploadAck ==
  /\ On("UPLOAD", "ACK")
  /\ retry' = 0 /\ kept' = Append(kept, Head(mq).block)
  /\ IF Short
     THEN /\ EnterEnd("SUCCESS") /\ Quiet("upload") /\ Stay
          /\ UNCHANGED <<fp, expect, last, server, fails>>
     ELSE /\ expect' = (expect + 1) % IdMod /\ SendData(Len(kept') + 1)
          /\ Again("upload") /\ NoPush(Tail(mq)) /\ UNCHANGED state
  /\ UNCHANGED done

\* The block again.
UploadTimeout ==
  /\ On("UPLOAD", "ACK_TIMEOUT")
  /\ \/ /\ retry < Retries
        /\ retry' = retry + 1 /\ SendData(Len(kept) + 1)
        /\ Again("upload") /\ NoPush(Tail(mq)) /\ UNCHANGED state
     \/ /\ retry >= Retries
        /\ retry' = 0 /\ Quiet("upload") /\ EnterEnd("ERROR") /\ Stay
        /\ UNCHANGED <<fp, last, server, fails>>
  /\ UNCHANGED <<expect, kept, done>>

\* SUCCESS closes the file when it is left; ERROR has an exit hook that would,
\* but it is not in the table.
BackToIdle ==
  /\ \/ On("SUCCESS", "RE_IDLE") /\ fp' = "none"
     \/ On("ERROR", "RE_IDLE") /\ fp' = fp
  /\ EnterIdle /\ NoPush(Tail(mq)) /\ Stay
  /\ UNCHANGED <<timer, kept, fails>>

\* Every other event is dropped.
Used ==
  [ IDLE       |-> {"READ_REQ", "WRITE_REQ"},
    WAIT_DATA1 |-> {"READ_REQ", "DATA1", "ERROR_PKT"},
    DOWNLOAD   |-> {"DATA", "DATA_TIMEOUT", "ERROR_PKT"},
    WAIT_ACK0  |-> {"WRITE_REQ", "ACK0", "ERROR_PKT"},
    UPLOAD     |-> {"ACK", "ACK_TIMEOUT", "ERROR_PKT"},
    SUCCESS    |-> {"RE_IDLE"},
    ERROR      |-> {"RE_IDLE"} ]

Ignore ==
  /\ mq # <<>> /\ Head(mq).ev \notin Used[state] /\ On(state, Head(mq).ev)
  /\ NoPush(Tail(mq)) /\ Stay
  /\ UNCHANGED <<session, timer, done>>

\* For a minute there is no event.
Timeout ==
  /\ fsm = "pop" /\ mq = <<>> /\ GoOn
  /\ UNCHANGED <<session, mq, timer, done, sent, lost, others>>

Fsm ==
  \/ Start \/ Timeout \/ IdleRead \/ IdleWrite \/ WaitData1Timeout \/ WaitAck0Timeout
  \/ WaitData1Data \/ DownloadData \/ DownloadTimeout \/ Refused
  \/ WaitAck0Ack \/ UploadAck \/ UploadTimeout \/ BackToIdle \/ Ignore

\* tftp_module_exit, when no command is under way: the flag, then an event
\* that wakes the thread.
ExitFlag ==
  /\ cli = "ready" /\ cli' = "flag" /\ running' = FALSE
  /\ UNCHANGED <<session, mq, timer, fsm, done, sent, lost, cb, len, asked, captor,
                 packets, passed, doubled>>

ExitPush ==
  /\ cli = "flag" /\ cli' = "exit"
  /\ Push(mq, Event("FSM_EXIT"))
  /\ UNCHANGED <<session, timer, fsm, done, sent, cb, running, len, asked, captor,
                 packets, passed, doubled>>

Callback(t) == RetryLoad(t) \/ RetryPush(t) \/ RetryRestart(t)

\* Nothing goes on after an abort.
Next ==
  /\ fsm # "aborted"
  /\ \/ CliRequest \/ CliDone \/ CaptorTest \/ CaptorPush
     \/ \E t \in Timers : Expire(t) \/ Callback(t)
     \/ Fsm \/ ExitFlag \/ ExitPush

Spec == Init /\ [][Next]_vars

\* The thread runs, timers expire and their callbacks come to an end.
Running(A) == fsm # "aborted" /\ A
Fairness ==
  /\ WF_vars(Running(Fsm)) /\ WF_vars(Running(CliDone))
  /\ WF_vars(Running(CaptorPush)) /\ WF_vars(Running(ExitPush))
  /\ \A t \in Timers : WF_vars(Running(Expire(t))) /\ WF_vars(Running(Callback(t)))

FairSpec == Spec /\ Fairness

-----------------------------------------------------------------------------
TypeOK ==
  /\ state \in DOMAIN Used /\ fp \in {"none", "open", "bad"} /\ expect \in 0..(IdMod - 1)
  /\ retry \in 0..Retries /\ server \in 0..MaxCommands /\ Len(mq) <= QueueCap

\* The data that the server got in this session.
Uploaded == {s \in sent : s[1] = server /\ s[2] = "DATA"}

\* A transfer is in order and complete, although the events carry no block
\* numbers: as long as the captor lets no packet through twice and none that
\* comes too late, the blocks that were stored, or taken for acknowledged, are
\* 1, 2, 3... and all of them when the session succeeds, which has a file to
\* close.  What is sent under a number is the block of that number, unless a
\* block could not be read or sent before: then some come twice, in order and
\* with none left out.
TransferInOrder ==
  /\ ~doubled => \A k \in 1..Len(kept) : kept[k] = k
  /\ ~doubled /\ state = "SUCCESS" =>
       IF Uploaded = {} THEN Len(kept) = len
       ELSE {s[3] : s \in Uploaded} = 1..Len(kept) /\ {s[4] : s \in Uploaded} = 1..len
  /\ ~doubled => \A s, u \in Uploaded : s[3] <= u[3] => s[4] <= u[4]
  /\ ~doubled /\ fails = 0 => \A s \in Uploaded : s[4] = s[3]
  /\ state = "SUCCESS" => fp # "none"

\* The block number has come round to 0, or again to 1: the acknowledgement, the
\* data and the retries of that number are events that the state drops.
Wrapped == (state = "UPLOAD" /\ expect = 0) \/ (state = "DOWNLOAD" /\ expect = 1)

\* A command comes back, whatever is lost on the network, unless an event found
\* the queue full, the file has as many blocks as there are numbers, or a send
\* without a server ended the process: the retries end.  And so does the thread
\* when it is told to.  A command that the thread's start finds waiting, and an
\* exit whose flag it sets again, may wait for ever.
\* []<>Returned.
Returned ==
  \/ lost \/ Wrapped \/ fsm = "aborted" \/ cli = "forgotten" \/ (cli = "exit" /\ running)
  \/ cli # "wait" /\ (cli = "exit" => fsm = "exited")
=============================================================================
