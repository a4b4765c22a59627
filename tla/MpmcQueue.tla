----------------------------- MODULE MpmcQueue -----------------------------
(***************************************************************************)
(* mpmc_atom_queue of lib/type/type_atom_queue.c: the push of MpscQueue,   *)
(* and pops that compete for head with a compare-and-swap of the tagged    *)
(* pointer.  Nothing keeps a node from being freed while another pop or    *)
(* push still holds a pointer to it.                                       *)
(***************************************************************************)
EXTENDS MsQueue

PopGoto(c, from, to) == cpc[c] = from /\ cpc' = [cpc EXCEPT ![c] = to]

PopLoadHead(c) ==
  /\ cpc[c] \in {"idle", "head"} /\ cpc' = [cpc EXCEPT ![c] = "tail"]
  /\ chead' = [chead EXCEPT ![c] = head]
  /\ UNCHANGED <<queueVars, pushVars, ctail, cnext, cdata, received>>

PopLoadTail(c) ==
  /\ PopGoto(c, "tail", "check")
  /\ ctail' = [ctail EXCEPT ![c] = tail]
  /\ UNCHANGED <<queueVars, pushVars, chead, cnext, cdata, received>>

\* Is head what it was?  If not, start over.
PopCheck(c) ==
  /\ PopGoto(c, "check", IF head = chead[c] THEN "next" ELSE "head")
  /\ UNCHANGED <<queueVars, pushVars, chead, ctail, cnext, cdata, received>>

\* head_tag.ptr->next, read after the check, and the choice it leads to: an
\* empty queue (return NULL), a tail that lags behind (help), or a message.
PopLoadNext(c) ==
  /\ PopGoto(c, "next", IF chead[c][1] # ctail[c][1] THEN "data"
                        ELSE IF next[chead[c][1]] = Null THEN "idle" ELSE "help")
  /\ cnext' = [cnext EXCEPT ![c] = next[chead[c][1]]]
  /\ UNCHANGED <<queueVars, pushVars, chead, ctail, cdata, received>>

PopHelp(c) ==
  /\ PopGoto(c, "help", "head")
  /\ SwingTail(ctail[c], cnext[c])
  /\ UNCHANGED <<reuse, head, next, data, free, pushVars, chead, ctail, cnext, cdata,
                 received>>

\* head_next->data.  A head_next that was read from a freed node may be no
\* node at all, and the process ends there; or a node that is no longer the
\* next one, whose data the compare-and-swap below discards.
PopData(c) ==
  IF cnext[c] \in Nodes
  THEN /\ PopGoto(c, "data", "cas")
       /\ cdata' = [cdata EXCEPT ![c] = data[cnext[c]]]
       /\ UNCHANGED <<queueVars, pushVars, chead, ctail, cnext, received>>
  ELSE /\ PopGoto(c, "data", "crashed")
       /\ UNCHANGED <<queueVars, pushVars, chead, ctail, cnext, cdata, received>>

PopCas_Untagged(c) ==           \* mutant: the version is not compared
  \/ /\ head[1] = chead[c][1]
     /\ PopGoto(c, "cas", "free")
     /\ head' = <<cnext[c], head[2] + 1>>
     /\ received' = Append(received, cdata[c])
     /\ UNCHANGED <<reuse, tail, next, data, free, pushVars, chead, ctail, cnext, cdata>>
  \/ /\ PopGoto(c, "cas", "head")
     /\ UNCHANGED <<queueVars, pushVars, chead, ctail, cnext, cdata, received>>

\* The new dummy is head_next, if head is what it was; if not, start over.
PopCas(c) ==
  \/ /\ head = chead[c]
     /\ PopGoto(c, "cas", "free")
     /\ head' = <<cnext[c], chead[c][2] + 1>>
     /\ received' = Append(received, cdata[c])
     /\ UNCHANGED <<reuse, tail, next, data, free, pushVars, chead, ctail, cnext, cdata>>
  \/ /\ PopGoto(c, "cas", "head")
     /\ UNCHANGED <<queueVars, pushVars, chead, ctail, cnext, cdata, received>>

\* mp_free(head_tag.ptr); the call returns the data.
PopFree(c) ==
  /\ PopGoto(c, "free", "idle")
  /\ Release(chead[c][1])
  /\ UNCHANGED <<reuse, head, tail, pushVars, chead, ctail, cnext, cdata, received>>

Popping(c) ==
  \/ PopLoadHead(c) \/ PopLoadTail(c) \/ PopCheck(c) \/ PopLoadNext(c)
  \/ PopHelp(c) \/ PopData(c) \/ PopCas(c) \/ PopFree(c)

MpmcPush(p) == PushAlloc(p) \/ Pushing(p)

Crashed == \E c \in Consumers : cpc[c] = "crashed"

Next ==
  /\ ~Crashed
  /\ \/ \E p \in Producers : MpmcPush(p)
     \/ \E c \in Consumers : Popping(c)

Spec == Init /\ [][Next]_vars

-----------------------------------------------------------------------------
TypeOK ==
  /\ MsQueueTypeOK
  /\ cpc \in [Consumers -> {"idle", "head", "tail", "check", "next", "help",
                            "data", "cas", "free", "crashed"}]
  /\ received \in Seq(Messages)

\* A pop that reads what is no longer there is one that a faster pop has
\* overtaken: while its head_tag is still head, the head_next it is about to
\* read is an allocated node.
CurrentPopSafe ==
  \A c \in Consumers :
    cpc[c] = "data" /\ chead[c] = head => cnext[c] \in Nodes \ free

\* The step in which a pop finds the queue empty and returns NULL.
ReturnsNull == \E c \in Consumers : PopLoadNext(c) /\ cpc'[c] = "idle"
=============================================================================
