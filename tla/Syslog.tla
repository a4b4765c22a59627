------------------------------- MODULE Syslog -------------------------------
(***************************************************************************)
(* lib/syslog/syslog.c: entries go through a message queue (MsgQ, taken    *)
(* here at what it promises) to a consumer thread, which keeps the last    *)
(* ones in a ring and gathers warnings in a buffer for the log file.  The  *)
(* buffer is flushed by the consumer when it is half full, by a thread     *)
(* every 10 seconds and at the end: copied under the lock into one static  *)
(* buffer, and written from there after the lock is left.  A line is one   *)
(* unit of the buffers, at its full length.                                *)
(***************************************************************************)
EXTENDS Integers, Sequences

CONSTANTS Ring,         \* SYSLOG_RING_SIZE
          QueueCap,     \* SYSYLOG_MSGQ_SIZE
          MaxEntries    \* bound: entries that modules log

\* The ring has room, and it is known how many entries its queue takes.
SyslogAssumption == Ring \in Nat \ {0, 1} /\ QueueCap \in Nat /\ MaxEntries \in Nat

Threshold == Ring \div 2        \* SYSLOG_FLUSH_OFFSET_THRESHOLD

VARIABLES
  made, queue,          \* entries so far, those in the queue
  entries, head, tail,  \* g_syslog_ring
  flushCtx,             \* g_syslog_ring.flush_ctx, up to offset
  static,               \* s_flush_ctx of _syslog_flush_file
  fd, file,             \* the log file and what is in it; 0 is not yet open
  flash,                \* the direction "flash"
  running,              \* g_syslog_consumer_running
  pc, has,              \* of each thread that flushes: where it is, its offset
  exit,                 \* syslog_module_exit
  accepted, shown,      \* history: entries the queue took, those analysed,
  meant, astray,        \* those for the file, the lines that went to fd 0
  raced                 \* history: the static buffer was written to while a
                        \* write from it was due

ringVars == <<entries, head, tail>>
vars == <<made, queue, ringVars, flushCtx, static, fd, file, flash, running, pc, has,
          exit, accepted, shown, meant, astray, raced>>

Flushers == {"consumer", "flusher"}

\* syslog_module_init starts the consumer before it opens the file: fd is 0,
\* the standard input, in between.
Init ==
  /\ made = 0 /\ queue = <<>> /\ head = 0 /\ tail = 0
  /\ entries = [i \in 0..Ring - 1 |-> 0] /\ flushCtx = <<>> /\ static = <<>>
  /\ fd = 0 /\ file = <<>> /\ flash = TRUE /\ running = FALSE
  /\ pc = [f \in Flushers |-> "start"] /\ has = [f \in Flushers |-> 0]
  /\ exit = "none" /\ accepted = <<>> /\ shown = <<>> /\ meant = <<>>
  /\ astray = <<>> /\ raced = FALSE

\* Entries are numbered; every third is not a warning, which go to the file.
Warning(e) == e % 3 # 0

Logging == <<ringVars, flushCtx, static, file, has, shown, meant, astray, raced>>

-----------------------------------------------------------------------------
\* _syslog_entry_push: a full queue refuses the entry.
Push ==
  /\ made < MaxEntries /\ made' = made + 1
  /\ IF Len(queue) < QueueCap
     THEN queue' = Append(queue, made + 1) /\ accepted' = Append(accepted, made + 1)
     ELSE UNCHANGED <<queue, accepted>>
  /\ UNCHANGED <<Logging, fd, flash, running, pc, exit>>

\* syslog_direction_cli_hook.
Direction ==
  /\ flash' = ~flash
  /\ UNCHANGED <<Logging, made, queue, fd, running, pc, exit, accepted>>

\* The rest of syslog_module_init.
Open ==
  /\ fd = 0 /\ pc["flusher"] = "start"
  /\ fd' \in {3, -1} /\ pc' = [pc EXCEPT !["flusher"] = "wait"]
  /\ UNCHANGED <<Logging, made, queue, flash, running, exit, accepted>>

-----------------------------------------------------------------------------
(* _syslog_flush_file *)

Copy_Keep(f, pending) ==        \* mutant: the offset is not set back
  /\ static' = pending \o SubSeq(static, Len(pending) + 1, Len(static))
  /\ has' = [has EXCEPT ![f] = Len(pending)] /\ flushCtx' = pending
  /\ raced' = (raced \/ (pending # <<>> /\ \E g \in Flushers \ {f} : has[g] > 0))

\* Under the lock: the lines that are pending go over the static buffer, whose
\* other lines remain.
Copy(f, pending) ==
  IF fd >= 0 /\ pending # <<>>
  THEN /\ static' = pending \o SubSeq(static, Len(pending) + 1, Len(static))
       /\ has' = [has EXCEPT ![f] = Len(pending)] /\ flushCtx' = <<>>
       /\ raced' = (raced \/ \E g \in Flushers \ {f} : has[g] > 0)
  ELSE flushCtx' = pending /\ UNCHANGED <<static, has, raced>>

\* After it.
Write(f) ==
  /\ file' = IF fd = 3 THEN file \o SubSeq(static, 1, has[f]) ELSE file
  /\ astray' = IF fd = 0 THEN astray \o SubSeq(static, 1, has[f]) ELSE astray
  /\ has' = [has EXCEPT ![f] = 0]
  /\ UNCHANGED <<made, queue, ringVars, flushCtx, static, fd, flash, running, exit,
                 accepted, shown, meant, raced>>

\* The lock of the ring is held while the consumer flushes from inside it.
Locked == pc["consumer"] = "write"

-----------------------------------------------------------------------------
(* _syslog_consumer *)

Consumer(from, to) == pc["consumer"] = from /\ pc' = [pc EXCEPT !["consumer"] = to]

Begin ==
  /\ Consumer("start", "test") /\ running' = TRUE
  /\ UNCHANGED <<Logging, made, queue, fd, flash, exit, accepted>>

Test ==
  /\ Consumer("test", IF running THEN "pop" ELSE "last")
  /\ UNCHANGED <<Logging, made, queue, fd, flash, running, exit, accepted>>

\* The queue is empty for a second.
Timeout ==
  /\ Consumer("pop", "test") /\ queue = <<>>
  /\ UNCHANGED <<Logging, made, queue, fd, flash, running, exit, accepted>>

Analyze_NoTail(e) ==            \* mutant: a full ring is not moved on
  /\ entries' = [entries EXCEPT ![head % Ring] = e]
  /\ head' = head + 1 /\ UNCHANGED tail

\* _syslog_analyze: into the ring, from which a full ring drops the oldest;
Analyze(e) ==
  /\ tail' = IF head - tail = Ring THEN tail + 1 ELSE tail
  /\ entries' = [entries EXCEPT ![head % Ring] = e]
  /\ head' = head + 1

\* and into the buffer for the file, if the line fits, with a byte to spare,
\* which is flushed when half full.
Fits == Len(flushCtx) + 1 < Ring

Pop ==
  /\ pc["consumer"] = "pop" /\ queue # <<>> /\ queue' = Tail(queue)
  /\ LET e == queue[1]
         pending == IF flash /\ Warning(e) /\ Fits THEN Append(flushCtx, e) ELSE flushCtx
     IN  /\ Analyze(e) /\ shown' = Append(shown, e)
         /\ meant' = IF flash /\ Warning(e) THEN Append(meant, e) ELSE meant
         /\ IF flash /\ Warning(e) /\ Len(pending) >= Threshold
            THEN Copy("consumer", pending) /\ pc' = [pc EXCEPT !["consumer"] = "write"]
            ELSE /\ flushCtx' = pending /\ UNCHANGED <<static, has, raced>>
                 /\ pc' = [pc EXCEPT !["consumer"] = "test"]
  /\ UNCHANGED <<made, fd, file, flash, running, exit, accepted, astray>>

WriteFull == Consumer("write", "test") /\ Write("consumer")

Last ==
  /\ Consumer("last", "writeLast") /\ Copy("consumer", flushCtx)
  /\ UNCHANGED <<made, queue, ringVars, fd, file, flash, running, exit, accepted, shown, meant,
                 astray>>

WriteLast == Consumer("writeLast", "done") /\ Write("consumer")

Consume == Begin \/ Test \/ Timeout \/ Pop \/ WriteFull \/ Last \/ WriteLast

-----------------------------------------------------------------------------
(* _syslog_flush_thd_wf, until it is cancelled *)

Flush ==
  /\ pc["flusher"] = "wait" /\ exit # "cancel" /\ ~Locked /\ Copy("flusher", flushCtx)
  /\ pc' = [pc EXCEPT !["flusher"] = "write"]
  /\ UNCHANGED <<made, queue, ringVars, fd, file, flash, running, exit, accepted, shown, meant,
                 astray>>

WriteFlush ==
  /\ pc["flusher"] = "write" /\ pc' = [pc EXCEPT !["flusher"] = "wait"]
  /\ Write("flusher")

-----------------------------------------------------------------------------
(* syslog_module_exit: the consumer is joined, the flusher cancelled, the *)
(* file closed                                                            *)

ExitFlag ==
  /\ exit = "none" /\ fd # 0 /\ exit' = "join" /\ running' = FALSE
  /\ UNCHANGED <<Logging, made, queue, fd, flash, pc, accepted>>

ExitJoin ==
  /\ exit = "join" /\ pc["consumer"] = "done" /\ exit' = "cancel"
  /\ UNCHANGED <<Logging, made, queue, fd, flash, running, pc, accepted>>

ExitCancel ==
  /\ exit = "cancel" /\ pc["flusher"] = "wait" /\ exit' = "done"
  /\ pc' = [pc EXCEPT !["flusher"] = "done"]
  /\ UNCHANGED <<Logging, made, queue, fd, flash, running, accepted>>

Exit == ExitFlag \/ ExitJoin \/ ExitCancel

Next == Push \/ Direction \/ Open \/ Consume \/ Flush \/ WriteFlush \/ Exit

Spec == Init /\ [][Next]_vars

-----------------------------------------------------------------------------
\* The ring holds the last entries that were analysed, in order.
RingIsLast ==
  /\ head - tail = IF Len(shown) < Ring THEN Len(shown) ELSE Ring
  /\ \A i \in tail..head - 1 : entries[i % Ring] = shown[Len(shown) - (head - 1 - i)]

\* The lines of the file, those that went to fd 0 before the file was open, and
\* those that are on their way, together.
Due(f) == SubSeq(static, 1, has[f])
Lines == astray \o file \o Due("consumer") \o Due("flusher") \o flushCtx

\* What the queue takes is analysed once and in order, or still in the queue,
\* also after the exit, which does not wait for it.  With a file, each warning
\* that is analysed is one line, and the lines are the warnings in their order,
\* unless two threads used the static buffer at a time: then there are as many
\* lines, whatever they say.  After the exit no line is on its way.
LoggedOnce ==
  /\ accepted = shown \o queue
  /\ fd # -1 => /\ Len(Lines) = Len(meant)
                /\ ~raced => Lines = meant
                /\ exit = "done" => Lines = astray \o file

\* The exit comes to an end, unless the consumer sets its flag after the exit
\* has cleared it.
Ended == exit = "done" \/ (exit = "join" /\ running)
=============================================================================
