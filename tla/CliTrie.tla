------------------------------- MODULE CliTrie -------------------------------
(***************************************************************************)
(* mgnt/cli/cli_trie.c: the commands are registered in a tree of words; a  *)
(* line is split into words, which name a command as far as they can, each *)
(* in full or by a beginning that no other word of the tree shares there,  *)
(* and the words that are left are its arguments.  Words are sequences of  *)
(* characters.                                                             *)
(***************************************************************************)
EXTENDS Naturals, FiniteSets, SequencesExt

CONSTANTS Table,        \* g_cli_register_table: [words, params] of each command
          Lines,        \* what the user types
          None,
          LineWidth,    \* the range of unsigned char
          MaxWords      \* CLI_ITEM_COUNT_MAX

VARIABLES
  next,                 \* the entry of the table that is registered next
  nodes,                \* the tree: the path of each node
  ends,                 \* the entry of the table at each node with is_end
  typed,                \* the words of the line just entered
  called,               \* what was done for it: the hook's entry and arguments
  offered,              \* or the words that it was completed with, and what
                        \* they had to begin with
  freed                 \* cli_trie_destory ran

vars == <<next, nodes, ends, typed, called, offered, freed>>

Nothing == [entry |-> 0, argc |-> 0, argv |-> <<>>]
NoOffer == [text |-> None, words |-> {}]

Init ==
  /\ next = 1 /\ nodes = {<<>>} /\ ends = [p \in {} |-> 0]
  /\ typed = <<>> /\ called = Nothing /\ offered = NoOffer /\ freed = FALSE

-----------------------------------------------------------------------------
\* _cmd_split: the length is an unsigned char, and a longer line loses all but
\* the remainder.
Split(line) ==
  LET len == Len(line) % LineWidth
      Letter(i) == i \in 1..len /\ line[i] # " "
      starts == {i \in 1..len : Letter(i) /\ ~Letter(i - 1)}
      Word(i) == SubSeq(line, i, CHOOSE j \in i..len : ~Letter(j + 1) /\ \A k \in i..j : Letter(k))
      at == SetToSortSeq(starts, <)
  IN  [k \in 1..Len(at) |-> Word(at[k])]

Kids(p) == {q \in nodes : Len(q) = Len(p) + 1 /\ IsPrefix(p, q)}

Step_First(p, word) ==          \* mutant: of several that begin so, any is taken
  LET like == {q \in Kids(p) : IsPrefix(word, Last(q))}
  IN  IF Append(p, word) \in nodes THEN Append(p, word)
      ELSE IF like # {} THEN CHOOSE q \in like : TRUE ELSE None

\* The child a word stands for, by its name or as the only one that begins so.
Step(p, word) ==
  LET like == {q \in Kids(p) : IsPrefix(word, Last(q))}
  IN  IF Append(p, word) \in nodes THEN Append(p, word)
      ELSE IF Cardinality(like) = 1 THEN CHOOSE q \in like : TRUE ELSE None

\* _cli_trie_match: the nodes the words lead to, the root first.
RECURSIVE Walk(_, _)
Walk(p, items) ==
  LET to == IF items = <<>> THEN None ELSE Step(p, items[1])
  IN  IF to = None THEN <<p>> ELSE <<p>> \o Walk(to, Tail(items))

\* The last of them that ends a command, and the words no node was found for:
\* words that led past that end are not among them.
Match(items) ==
  LET way == Walk(<<>>, items)
      at == {i \in 1..Len(way) : way[i] \in DOMAIN ends}
  IN  [entry |-> IF at = {} THEN 0 ELSE ends[way[CHOOSE i \in at : \A j \in at : j <= i]],
       remain |-> SubSeq(items, Len(way), Len(items))]

-----------------------------------------------------------------------------
(* _cli_trie_parse_execute *)

LeastOf(S) == IF S = {} THEN 0 ELSE CHOOSE j \in S : \A k \in S : j <= k

Flag(arg) == Len(arg) = 2 /\ arg[1] = "-"

\* The arguments, put in the places of their parameters, or None.  A word that
\* is no flag goes to the first place that is free, whatever that place's type,
\* if the first parameter of all is one by position.
RECURSIVE Fill(_, _, _)
Fill(params, args, argv) ==
  LET arg == args[1]
      free == {j \in 1..Len(params) : argv[j] = None}
      j == LeastOf(IF Flag(arg) THEN {i \in free : params[i].name = arg[2]}
                     ELSE {i \in free : params[1].type = "pos"})
  IN  IF args = <<>> THEN argv
      ELSE IF j = 0 THEN None
      ELSE IF ~Flag(arg) THEN Fill(params, Tail(args), [argv EXCEPT ![j] = arg])
      ELSE IF params[j].type # "value" THEN Fill(params, Tail(args), [argv EXCEPT ![j] = <<"1">>])
      ELSE IF Len(args) = 1 THEN None
      ELSE Fill(params, Tail(Tail(args)), [argv EXCEPT ![j] = args[2]])

\* The hook is told how many parameters are filled, and gets them in their
\* places.
Outcome(items) ==
  LET m == Match(items)
      params == Table[m.entry].params
      argv == Fill(params, m.remain, [j \in 1..Len(params) |-> None])
      Lacks(j) == params[j].required /\ argv[j] = None
  IN  IF m.entry = 0 THEN Nothing
      ELSE IF argv = None THEN Nothing
      ELSE IF \E j \in 1..Len(params) : Lacks(j) THEN Nothing
      ELSE [entry |-> m.entry, argv |-> argv,
            argc |-> Cardinality({j \in 1..Len(params) : argv[j] # None})]

-----------------------------------------------------------------------------
\* _cli_trie_insert, for each entry of the table in turn.
Insert ==
  /\ next <= Len(Table) /\ next' = next + 1
  /\ LET words == Table[next].words
     IN  /\ nodes' = nodes \cup {SubSeq(words, 1, n) : n \in 0..Len(words)}
         /\ ends' = [p \in DOMAIN ends \cup {words} |-> IF p = words THEN next ELSE ends[p]]
  /\ UNCHANGED <<typed, called, offered, freed>>

\* _cli_trie_excute, with all commands registered.  More words than the array
\* holds are written past it, and are not typed here.
Execute(line) ==
  /\ next > Len(Table) /\ ~freed /\ Len(Split(line)) <= MaxWords
  /\ typed' = Split(line) /\ called' = Outcome(Split(line)) /\ offered' = NoOffer
  /\ UNCHANGED <<next, nodes, ends, freed>>

\* cli_trie_completion of the line's last word, text, after the other words.
Complete(line, text) ==
  /\ next > Len(Table) /\ ~freed /\ Len(Split(line)) <= MaxWords
  /\ typed' = Split(line) /\ called' = Nothing
  /\ LET way == Walk(<<>>, Split(line))
         kids == IF Len(way) > Len(Split(line)) THEN {Last(q) : q \in Kids(Last(way))} ELSE {}
     IN  offered' = [text |-> text, words |-> {w \in kids : IsPrefix(text, w)}]
  /\ UNCHANGED <<next, nodes, ends, freed>>

\* cli_trie_destory, after the command line's thread has ended: the root still
\* points to what is freed, and nobody uses the tree any more.
Destroy ==
  /\ next > Len(Table) /\ ~freed /\ freed' = TRUE
  /\ UNCHANGED <<next, nodes, ends, typed, called, offered>>

Next ==
  \/ Insert \/ Destroy
  \/ \E line \in Lines : \/ Execute(line)
                         \/ \E text \in {<<>>} \cup ToSet(Split(line)) : Complete(line, text)

-----------------------------------------------------------------------------
Commands == {Table[e].words : e \in 1..Len(Table)}
Siblings(c, i) == {d \in Commands : Len(d) >= i /\ SubSeq(d, 1, i - 1) = SubSeq(c, 1, i - 1)}

\* A word means the i-th word of a command if it is that word, or begins it and
\* no other command's that is the same up to there.
Means(word, c, i) ==
  \/ word = c[i]
  \/ /\ IsPrefix(word, c[i])
     /\ \A d \in Siblings(c, i) : IsPrefix(word, d[i]) => d[i] = c[i]
Names(c) ==
  Len(c) <= Len(typed) /\ \A i \in 1..Len(c) : Means(typed[i], c, i)

\* What is called is the longest command that the words name; every parameter
\* that it requires is given, and every word that follows is an argument, unless
\* it goes on as a longer command would.  What is offered is every word that a
\* command goes on with after the words, of those that begin with the text.
CommandMeant ==
  /\ called.entry # 0 =>
    LET c == Table[called.entry].words
        params == Table[called.entry].params
        Longer(n) == \E d \in Commands : Len(d) >= n /\ \A i \in 1..n : Means(typed[i], d, i)
        args == {typed[n] : n \in {m \in Len(c) + 1..Len(typed) : ~Longer(m)}}
    IN  /\ Names(c) /\ \A d \in Commands : Names(d) => Len(d) <= Len(c)
        /\ \A j \in 1..Len(params) : params[j].required => called.argv[j] # None
        /\ \A w \in args : Flag(w) \/ w \in ToSet(called.argv)
  /\ offered # NoOffer =>
    LET n == Len(typed)
        on == {c \in Commands : Len(c) > n /\ \A i \in 1..n : Means(typed[i], c, i)}
    IN  offered.words = {w \in {c[n + 1] : c \in on} : IsPrefix(offered.text, w)}
=============================================================================
