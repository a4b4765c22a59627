----------------------------- MODULE MpscQueue -----------------------------
(***************************************************************************)
(* mpsc_atom_queue of lib/type/type_atom_queue.c: many producers, and one  *)
(* consumer that moves head with a plain store and frees the old dummy.    *)
(***************************************************************************)
EXTENDS MsQueue

\* The one consumer.
C == CHOOSE c \in Consumers : TRUE

PopGoto(from, to) == cpc[C] = from /\ cpc' = [cpc EXCEPT ![C] = to]

\* Loads head, which only this thread writes; an idle consumer calls first.
PopLoadHead ==
  /\ cpc[C] \in {"idle", "head"} /\ cpc' = [cpc EXCEPT ![C] = "tail"]
  /\ chead' = [chead EXCEPT ![C] = head]
  /\ UNCHANGED <<queueVars, pushVars, ctail, cnext, cdata, received>>

PopLoadTail ==
  /\ PopGoto("tail", "next")
  /\ ctail' = [ctail EXCEPT ![C] = tail]
  /\ UNCHANGED <<queueVars, pushVars, chead, cnext, cdata, received>>

PopLoadNext_TailFirst ==        \* mutant: head and tail compared alone
  /\ PopGoto("next", IF chead[C][1] # ctail[C][1] THEN "data" ELSE "idle")
  /\ cnext' = [cnext EXCEPT ![C] = next[chead[C][1]]]
  /\ UNCHANGED <<queueVars, pushVars, chead, ctail, cdata, received>>

\* head_tag.ptr->next, and the choice it leads to: an empty queue (return
\* NULL), a push that has linked and not yet moved tail (help), or a message.
PopLoadNext ==
  /\ PopGoto("next", IF chead[C][1] # ctail[C][1] THEN "data"
                     ELSE IF next[chead[C][1]] = Null THEN "idle" ELSE "help")
  /\ cnext' = [cnext EXCEPT ![C] = next[chead[C][1]]]
  /\ UNCHANGED <<queueVars, pushVars, chead, ctail, cdata, received>>

PopHelp ==
  /\ PopGoto("help", "head")
  /\ SwingTail(ctail[C], cnext[C])
  /\ UNCHANGED <<reuse, head, next, data, free, pushVars, chead, ctail, cnext, cdata,
                 received>>

PopData ==
  /\ PopGoto("data", "store")
  /\ cdata' = [cdata EXCEPT ![C] = data[cnext[C]]]
  /\ UNCHANGED <<queueVars, pushVars, chead, ctail, cnext, received>>

\* The new dummy is head_next.
PopStoreHead ==
  /\ PopGoto("store", "free")
  /\ head' = <<cnext[C], chead[C][2] + 1>>
  /\ received' = Append(received, cdata[C])
  /\ UNCHANGED <<reuse, tail, next, data, free, pushVars, chead, ctail, cnext, cdata>>

PopFree_New ==                  \* mutant: the new dummy is freed
  /\ PopGoto("free", "idle")
  /\ Release(cnext[C])
  /\ UNCHANGED <<reuse, head, tail, pushVars, chead, ctail, cnext, cdata, received>>

\* free(head_tag.ptr); the call returns the data.
PopFree ==
  /\ PopGoto("free", "idle")
  /\ Release(chead[C][1])
  /\ UNCHANGED <<reuse, head, tail, pushVars, chead, ctail, cnext, cdata, received>>

Popping ==
  \/ PopLoadHead \/ PopLoadTail \/ PopLoadNext \/ PopHelp
  \/ PopData \/ PopStoreHead \/ PopFree

MpscPush(p) == PushAlloc(p) \/ Pushing(p)

Next == (\E p \in Producers : MpscPush(p)) \/ Popping

Spec == Init /\ [][Next]_vars

-----------------------------------------------------------------------------
TypeOK ==
  /\ MsQueueTypeOK
  /\ cpc[C] \in {"idle", "head", "tail", "next", "help", "data", "store", "free"}
  /\ received \in Seq(Messages)

\* The consumer, which takes no care at all, only ever follows pointers into
\* allocated memory: its head_tag, and the head_next whose data it reads.
ConsumerSafe ==
  /\ cpc[C] = "next" => chead[C][1] \notin free
  /\ cpc[C] = "data" => cnext[C] \in Nodes \ free

\* The step in which a pop finds the queue empty and returns NULL.
ReturnsNull == PopLoadNext /\ cpc'[C] = "idle"
=============================================================================
