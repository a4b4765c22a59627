-------------------------------- MODULE Core --------------------------------
(***************************************************************************)
(* procs/core/core.c with mgnt/cli/cli.c and lib/ipc/shm/shm.c: core       *)
(* initialises the platform, forks the other processes, runs until SIGINT, *)
(* tells the others to end through a flag in shared memory and waits for   *)
(* its command line thread.  Walking one table of modules is one step; the *)
(* threads of the modules are in the modules' own specifications.          *)
(***************************************************************************)
EXTENDS Integers, Sequences

CONSTANTS Procs,        \* process_entry_table and process_running_table
          Unlinking,    \* those whose entry closes its shared memory: rpc
          None

VARIABLES
  core,                 \* where main is: <<stage, processes still to do>>
  core_running,
  interrupted,          \* history: main was interrupted while it slept
  early,                \* history: the command line looked at core_running
                        \*   before main had set it
  missed,               \* history: processes that core's 0 did not reach
  posted,               \* g_platform_init_ok
  shm,                  \* the flag of each process, or None: no such object, or
                        \*   NoSize: one without contents
  child,                \* where each process is
  cli,                  \* where the command line thread is
  cli_mode,
  input                 \* what readline returned

vars == <<core, core_running, interrupted, early, missed, posted, shm, child,
          cli, cli_mode, input>>
main == <<core, posted>>
line == <<cli, cli_mode, input, early>>

NoSize == -1
Inputs == {"null", "config", "shell", "other"}
Stage == core[1]
Left  == core[2]
At(s) == Stage = s

\* A process that does not close its memory leaves it for the next start: core
\* wrote 0 in it.
Init ==
  /\ core = <<"th", {}>> /\ core_running = 0 /\ interrupted = FALSE
  /\ early = FALSE /\ missed = {} /\ posted = FALSE
  /\ shm \in {f \in [Procs -> {None, 0}] : \A p \in Unlinking : f[p] = None}
  /\ child = [p \in Procs |-> "none"]
  /\ cli = "none" /\ cli_mode = "config" /\ input = None

-----------------------------------------------------------------------------
(* main, platform_init, platform_exit *)

Go(from, to) == At(from) /\ core' = to

\* The half of the initialisation that comes before the fork.
InitTh ==
  /\ Go("th", <<"fork", Procs>>)
  /\ UNCHANGED <<core_running, interrupted, missed, posted, shm, child, line>>

Fork(p) ==
  /\ At("fork") /\ p \in Left
  /\ core' = <<IF Left = {p} THEN "bh" ELSE "fork", Left \ {p}>>
  /\ child' = [child EXCEPT ![p] = "forked"]
  /\ UNCHANGED <<core_running, interrupted, missed, posted, shm, line>>

InitBh ==
  /\ Go("bh", <<"modules", {}>>)
  /\ UNCHANGED <<core_running, interrupted, missed, posted, shm, child, line>>

\* The tables of core's own modules: the last one is the command line's, which
\* starts its thread.
InitModules ==
  /\ Go("modules", <<"post", {}>>) /\ cli' = "wait"
  /\ UNCHANGED <<core_running, interrupted, early, missed, posted, shm, child,
                 cli_mode, input>>

Post ==
  /\ Go("post", <<"set", {}>>) /\ posted' = TRUE
  /\ UNCHANGED <<core_running, interrupted, missed, shm, child, line>>

\* The store comes after the post, and overwrites what the handler stored.
SetRunning ==
  /\ Go("set", <<"sleep", {}>>) /\ core_running' = 1
  /\ UNCHANGED <<interrupted, missed, posted, shm, child, line>>

Sleep ==
  /\ core_running = 0 /\ Go("sleep", <<"tell", Procs>>)
  /\ UNCHANGED <<core_running, interrupted, missed, posted, shm, child, line>>

Tell_Skip(p) ==                 \* mutant: core does not write the flag
  /\ At("tell") /\ p \in Left
  /\ core' = <<IF Left = {p} THEN "exit_th" ELSE "tell", Left \ {p}>>
  /\ UNCHANGED <<core_running, interrupted, missed, posted, shm, child, line>>

\* _proc_exit: nothing is written if the process has not made its memory yet,
\* and core dies of a bus error if the memory has no size yet.
TellDies(p) ==
  /\ At("tell") /\ p \in Left /\ shm[p] = NoSize /\ core' = <<"crash", Left>>
  /\ UNCHANGED <<core_running, interrupted, missed, posted, shm, child, line>>

Tell(p) ==
  /\ At("tell") /\ p \in Left /\ shm[p] # NoSize
  /\ core' = <<IF Left = {p} THEN "exit_th" ELSE "tell", Left \ {p}>>
  /\ shm' = [shm EXCEPT ![p] = IF @ = None THEN None ELSE 0]
  /\ missed' = IF child[p] = "loop" THEN missed ELSE missed \cup {p}
  /\ UNCHANGED <<core_running, interrupted, posted, child, line>>

ExitTh ==
  /\ Go("exit_th", <<"join", {}>>)
  /\ UNCHANGED <<core_running, interrupted, missed, posted, shm, child, line>>

\* cli_module_exit_th is the first of core's exits.
Join ==
  /\ cli = "done" /\ Go("join", <<"exit", {}>>)
  /\ UNCHANGED <<core_running, interrupted, missed, posted, shm, child, line>>

ExitModules ==
  /\ Go("exit", <<"done", {}>>)
  /\ UNCHANGED <<core_running, interrupted, missed, posted, shm, child, line>>

\* signal_handler, in any thread of core.  The processes it forks ignore it.
Interrupt ==
  /\ ~interrupted /\ ~At("done") /\ core_running' = 0
  /\ interrupted' = At("sleep")
  /\ UNCHANGED <<main, missed, shm, child, line>>

Main ==
  \/ InitTh \/ InitBh \/ InitModules \/ Post \/ SetRunning \/ Sleep
  \/ ExitTh \/ Join \/ ExitModules
  \/ \E p \in Procs : Fork(p) \/ Tell(p) \/ TellDies(p)

-----------------------------------------------------------------------------
(* test_proc_entry, and what rpc_proc_entry does with its flag *)

\* shm_mgnt_open of the creator keeps what there is, or makes an object,
Create(p) ==
  /\ child[p] = "forked" /\ child' = [child EXCEPT ![p] = "created"]
  /\ shm' = [shm EXCEPT ![p] = IF @ = None THEN NoSize ELSE @]
  /\ UNCHANGED <<main, core_running, interrupted, missed, line>>

\* and gives it its size: zeros, which are a free lock until it is initialised.
Open(p) ==
  /\ child[p] = "created" /\ child' = [child EXCEPT ![p] = "opened"]
  /\ shm' = [shm EXCEPT ![p] = IF @ = NoSize THEN 0 ELSE @]
  /\ UNCHANGED <<main, core_running, interrupted, missed, line>>

Raise_Not(p) ==                 \* mutant: the flag is left as it was found
  /\ child[p] = "opened" /\ child' = [child EXCEPT ![p] = "loop"]
  /\ UNCHANGED <<main, core_running, interrupted, missed, shm, line>>

Raise(p) ==                     \* over core's 0, if core was faster
  /\ child[p] = "opened" /\ child' = [child EXCEPT ![p] = "loop"]
  /\ shm' = [shm EXCEPT ![p] = 1]
  /\ UNCHANGED <<main, core_running, interrupted, missed, line>>

Look(p) ==
  /\ child[p] = "loop" /\ shm[p] = 0
  /\ child' = [child EXCEPT ![p] = "done"]
  /\ shm' = [shm EXCEPT ![p] = IF p \in Unlinking THEN None ELSE @]
  /\ UNCHANGED <<main, core_running, interrupted, missed, line>>

Child(p) == Create(p) \/ Open(p) \/ Raise(p) \/ Look(p)

-----------------------------------------------------------------------------
(* _cli_routine *)

CliWake ==
  /\ cli = "wait" /\ posted /\ cli' = "read"
  /\ UNCHANGED <<main, core_running, interrupted, missed, shm, child, cli_mode,
                 input, early>>

\* readline returns with a line of the user, or because the event hook saw that
\* core_running is 0.
CliRead(i) ==
  /\ cli = "read" /\ cli' = "read_done" /\ input' = i
  /\ UNCHANGED <<main, core_running, interrupted, missed, shm, child, cli_mode,
                 early>>
CliHook ==
  /\ cli = "read" /\ core_running = 0 /\ cli' = "read_done" /\ input' = "other"
  /\ UNCHANGED <<main, core_running, interrupted, missed, shm, child, cli_mode,
                 early>>

\* cli_task_running is cleared, and the loop ends.
CliStop ==
  /\ cli = "read_done" /\ core_running = 0 /\ cli' = "done"
  /\ early' = At("set") /\ input' = None
  /\ UNCHANGED <<main, core_running, interrupted, missed, shm, child, cli_mode>>

CliObey_End ==                  \* mutant: the end of the input ends the loop
  /\ cli = "read_done" /\ core_running = 1 /\ input' = None
  /\ cli' = IF input = "null" THEN "done" ELSE "read"
  /\ UNCHANGED <<main, core_running, interrupted, missed, shm, child, early, cli_mode>>

\* In configuration mode the end of the input or the command shell changes the
\* mode; in shell mode a line is compared with config first, and the end of the
\* input, a null pointer, ends the program.
CliObey ==
  /\ cli = "read_done" /\ core_running = 1 /\ input' = None
  /\ cli' = IF cli_mode = "shell" /\ input = "null" THEN "crash" ELSE "read"
  /\ cli_mode' = CASE cli_mode = "config" /\ input \in {"null", "shell"} -> "shell"
                   [] cli_mode = "shell" /\ input = "config" -> "config"
                   [] OTHER -> cli_mode
  /\ UNCHANGED <<main, core_running, interrupted, missed, shm, child, early>>

Cli == CliWake \/ CliHook \/ CliStop \/ CliObey \/ \E i \in Inputs : CliRead(i)

\* A crash ends the process of core, and nothing else is done for it.
Alive == cli # "crash" /\ ~At("crash")
Next == \/ Alive /\ (Main \/ Interrupt \/ Cli)
        \/ \E p \in Procs : Child(p)

Spec == Init /\ [][Next]_vars

-----------------------------------------------------------------------------
\* A process ends only after core told it to, whatever an earlier run of the
\* program left in its shared memory.
EndsWhenTold ==
  \A p \in Procs : child[p] = "done" =>
    \/ Stage \in {"exit_th", "join", "exit", "done"}
    \/ Stage \in {"tell", "crash"} /\ p \notin Left

\* The command line is there while core runs, unless it looked at core_running
\* between the post and the store that follows it.
CommandLineStays == At("sleep") /\ core_running = 1 /\ posted => cli # "done" \/ early

\* Interrupted while it sleeps, core ends, and every process that its flag
\* reached.
Stopped ==
  Alive /\ interrupted => At("done") /\ \A p \in Procs : child[p] = "done" \/ p \in missed
=============================================================================
