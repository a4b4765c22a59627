------------------------------ MODULE MCTypes ------------------------------
(* The shared queues: two producers over two nodes besides the dummy, so    *)
(* that freed nodes come back while stale pointers are about.  And, one at  *)
(* a time, the containers of lib/type and the command line's tree, under    *)
(* every sequence of calls, and the rpc broker with two clients and sockets *)
(* that hold one message: which says whose behaviour it is, and the others  *)
(* stay as they begin.                                                      *)
EXTENDS MsQueues, TLC

CONSTANTS None, i1, i2, i3, i4
CONSTANTS Clients, Callers, Called, Tries, SocketCap, MaxCalls     \* of Rpc

\* Not the consumers: an MPSC queue has one of its own.
QueueSymmetry == Permutations(Nodes) \cup Permutations(Producers)

\* Two items have the same key, and several the same lower bits of their hash.
Keys == [i \in 1..7 |-> IF i = 7 THEN 3 ELSE i]
Hashes == <<0, 1, 6, 7, 9, 14, 6>>

\* Commands that begin alike, that go on after another's end, and that take
\* each kind of parameter.
Param(name, type, required) == [name |-> name, type |-> type, required |-> required]
Commands == <<
  [words |-> <<<<"a", "b">>>>, params |-> <<>>],
  [words |-> <<<<"a", "b">>, <<"b">>, <<"a">>>>, params |-> <<Param("b", "bool", FALSE)>>],
  [words |-> <<<<"a", "a">>>>, params |-> <<Param("0", "pos", TRUE), Param("a", "value", FALSE)>>],
  [words |-> <<<<"b">>>>, params |-> <<Param("a", "value", TRUE), Param("b", "bool", FALSE)>>],
  [words |-> <<<<"b", "a">>>>, params |-> <<>>]>>

\* Every line of up to four characters, and longer ones: three words, words
\* after a command's end, a value after its flag, and more characters than the
\* length can count.
Lines ==
  UNION {[1..n -> {"a", "b", "-", " "}] : n \in 0..4} \cup
  {<<"a", "b", " ", "b", " ", "a">>, <<"a", "b", " ", "b", " ", "b">>,
   <<"b", " ", "-", "a", " ", "a">>, <<"a", "a", " ", "b", " ", "b">>,
   <<"b", " ", "-", "b", "-", "a", "a">>, <<"a", "a", " ", "-", "a", " ", "b">>,
   <<"b", " ", "-", "a", " ", "a", " ", "-", "b">>,
   <<"a", "b", " ", "b", " ", "a", " ", "-", "b">>}

VARIABLE which

VARIABLES a_entries, a_tab_shift, a_count, a_added
a_vars == <<a_entries, a_tab_shift, a_count, a_added>>
Hashed == INSTANCE Hash WITH Items <- 1..7, None <- None, Key <- Keys,
    HashOf <- Hashes, Bits <- 4, MinShift <- 1, MaxShift <- 3,
    entries <- a_entries, tab_shift <- a_tab_shift, count <- a_count,
    added <- a_added

VARIABLES s_next, s_count, s_added
s_vars == <<s_next, s_count, s_added>>
Skip == INSTANCE SkipList WITH Items <- 1..4, None <- None,
    Key <- <<2, 1, 2, 3>>, Levels <- 2, IntRange <- 8, next <- s_next, count <- s_count,
    added <- s_added

VARIABLES h_array, h_count, h_size, h_index, h_cut, h_refused
h_vars == <<h_array, h_count, h_size, h_index, h_cut, h_refused>>
Heaped == INSTANCE Heap WITH Items <- 1..6, None <- None,
    Rank <- <<1, 2, 3, 4, 5, 5>>, MinSize <- 2, MaxSize <- 6, Slack <- 1,
    array <- h_array, count <- h_count, size <- h_size, index <- h_index,
    cut <- h_cut, refused <- h_refused

VARIABLES l_next, l_lastNext, l_count, l_order
l_vars == <<l_next, l_lastNext, l_count, l_order>>
Cells == INSTANCE List WITH Items <- {i1, i2, i3, i4}, None <- None,
    next <- l_next, lastNext <- l_lastNext, count <- l_count, order <- l_order

VARIABLES t_next, t_nodes, t_ends, t_typed, t_called, t_offered, t_freed
t_vars == <<t_next, t_nodes, t_ends, t_typed, t_called, t_offered, t_freed>>
Trie == INSTANCE CliTrie WITH Table <- Commands, Lines <- Lines, None <- None,
    LineWidth <- 8, MaxWords <- 64, next <- t_next, nodes <- t_nodes,
    ends <- t_ends, typed <- t_typed, called <- t_called, offered <- t_offered,
    freed <- t_freed

VARIABLES r_conn, r_tries, r_accepted, r_up, r_down, r_sending, r_events, r_pc,
          r_at, r_msg, r_fifo, r_dirty, r_running, r_run, r_main, r_reader,
          r_stop, r_sent, r_got
r_vars == <<r_conn, r_tries, r_accepted, r_up, r_down, r_sending, r_events,
            r_pc, r_at, r_msg, r_fifo, r_dirty, r_running, r_run, r_main,
            r_reader, r_stop, r_sent, r_got>>
R == INSTANCE Rpc WITH Procs <- Clients,
    conn <- r_conn, tries <- r_tries, accepted <- r_accepted, up <- r_up,
    down <- r_down, sending <- r_sending, events <- r_events, pc <- r_pc,
    at <- r_at, msg <- r_msg, fifo <- r_fifo, dirty <- r_dirty,
    running <- r_running, run <- r_run, main <- r_main, reader <- r_reader,
    stop <- r_stop, sent <- r_sent, got <- r_got

ASSUME TypesAssumptions == Skip!NearAssumption

-----------------------------------------------------------------------------
TypesInit ==
  /\ which \in {"queue", "hash", "skip_list", "heap", "list", "cli", "rpc"}
  /\ QueueInit
  /\ which # "queue" => kind = "mpsc" /\ ~reuse
  /\ Hashed!Init /\ Skip!Init /\ Heaped!Init /\ Cells!Init /\ Trie!Init /\ R!Init

TypesNext ==
  /\ which' = which
  /\ \/ which = "queue" /\ (MpscNext \/ MpmcNext) /\ UNCHANGED <<a_vars, s_vars, h_vars, l_vars, t_vars, r_vars>>
     \/ which = "hash" /\ Hashed!Next
        /\ UNCHANGED <<allVars, s_vars, h_vars, l_vars, t_vars, r_vars>>
     \/ which = "skip_list" /\ Skip!Next
        /\ UNCHANGED <<allVars, a_vars, h_vars, l_vars, t_vars, r_vars>>
     \/ which = "heap" /\ Heaped!Next
        /\ UNCHANGED <<allVars, a_vars, s_vars, l_vars, t_vars, r_vars>>
     \/ which = "list" /\ Cells!Next
        /\ UNCHANGED <<allVars, a_vars, s_vars, h_vars, t_vars, r_vars>>
     \/ which = "cli" /\ Trie!Next
        /\ UNCHANGED <<allVars, a_vars, s_vars, h_vars, l_vars, r_vars>>
     \/ which = "rpc" /\ R!Next
        /\ UNCHANGED <<allVars, a_vars, s_vars, h_vars, l_vars, t_vars>>

TypesSpec == TypesInit /\ [][TypesNext]_<<which, allVars, a_vars, s_vars, h_vars, l_vars, t_vars, r_vars>>

-----------------------------------------------------------------------------

\* CliTrie: the command called is the longest that the line names, and what is
\* offered goes on to one.
CommandMeant == Trie!CommandMeant

\* Rpc: a function is called once for each call that arrives, in order, whatever
\* is lost or garbled on the way.
CalledInOrder == R!CalledInOrder
=============================================================================
