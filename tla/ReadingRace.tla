------------------------------ MODULE ReadingRace ------------------------------
(***************************************************************************)
(* The list of ReadingHeap with both threads that call get_reading: the    *)
(* handler, and the shell through the command coap_post.  reading_list has *)
(* no lock, so reading_add and reading_remove are taken apart at their     *)
(* reads and writes of shared memory.                                      *)
(*                                                                         *)
(* Threads are preemptive with fixed priorities: the shell runs on the     *)
(* main thread, which has a higher priority than the handler.  So a        *)
(* handler step needs the shell to be blocked (at its prompt, asleep in    *)
(* get_temp, or waiting for an answer), and the shell may cut in before    *)
(* any step of the handler, also inside the two routines.                  *)
(*                                                                         *)
(* NULL is address 0, where flash begins, and a node's next would lie in   *)
(* the vector table: reading it gives an odd address, FLASH, and using     *)
(* that one stops the node with a fault.  The allocator is not interrupted *)
(* and refuses a node that is free already.  length is counted in one      *)
(* step; a count lost would only move the next eviction.                   *)
(***************************************************************************)
EXTENDS ReadingHeap

CONSTANTS Handler, Shell, FLASH

RaceAssumption ==
  /\ Threads \subseteq {Handler, Shell}
  /\ Handler # Shell
  /\ FLASH \notin Cells \cup {NULL}

VARIABLE call  \* per thread: the parameter and locals of reading_remove

raceVars == <<vars, call>>

\* why: the answer, or "evicted" when reading_add makes the call.
NoCall == [node |-> NULL, head |-> NULL, temp |-> NULL, why |-> "none"]

RaceInit == Init /\ call = [t \in Threads |-> NoCall]

-----------------------------------------------------------------------------
Blocked == {"idle", "wait"}
Runs(t) == t = Handler /\ Shell \in Threads => pc[Shell] \in Blocked

Goto(t, label) == pc' = [pc EXCEPT ![t] = label]

NextOf(a) == IF a = NULL THEN FLASH ELSE mem[a].next

Remember(t, record) == call' = [call EXCEPT ![t] = record]

-----------------------------------------------------------------------------
(***************************************************************************)
(* reading_add.  A name is used for one reading only.                      *)
(***************************************************************************)
StartAdd(t, a) ==
  /\ pc[t] = "idle"
  /\ a \in free
  /\ last' = [last EXCEPT ![t] = head]
  /\ new' = [new EXCEPT ![t] = a]
  /\ free' = free \ {a}
  /\ Goto(t, "fill")
  /\ UNCHANGED <<mem, head, length, temp, i, sent, stored, fate, call>>

Fill(t, r) ==
  /\ pc[t] = "fill"
  /\ fate[r] = "none"
  /\ \A a \in Cells : mem[a].reading # r
  /\ mem' = [mem EXCEPT ![new[t]] = [reading |-> r, next |-> NULL]]
  /\ Goto(t, "test")
  /\ UNCHANGED <<free, head, length, temp, i, last, new, sent, stored, fate, call>>

\* The head is read again after malloc, or not.
TestHead(t) ==
  /\ pc[t] = "test"
  /\ \E h \in {head, last[t]} : Goto(t, IF h = NULL THEN "first" ELSE "walk")
  /\ UNCHANGED <<mem, free, head, length, temp, i, last, new, sent, stored, fate, call>>

BecomeHead(t) ==
  /\ pc[t] = "first"
  /\ LinkFirst(t)
  /\ Goto(t, "begin")
  /\ UNCHANGED <<temp, i, last, new, sent, stored, call>>

Walk(t) ==
  /\ pc[t] = "walk"
  /\ last[t] # FLASH
  /\ IF NextOf(last[t]) = NULL
     THEN Goto(t, "link") /\ UNCHANGED last
     ELSE last' = [last EXCEPT ![t] = NextOf(last[t])] /\ UNCHANGED pc
  /\ UNCHANGED <<mem, free, head, length, temp, i, new, sent, stored, fate, call>>

LinkBehind(t) ==
  /\ pc[t] = "link"
  /\ mem' = [mem EXCEPT ![last[t]].next = new[t]]
  /\ fate' = [fate EXCEPT ![mem[new[t]].reading] = "queued"]
  /\ Goto(t, "count")
  /\ UNCHANGED <<free, head, length, temp, i, last, new, sent, stored, call>>

Count(t) ==
  /\ pc[t] = "count"
  /\ length' = Increment(length)
  /\ IF length' > MAX_READING_LIST_SIZE
     THEN /\ Remember(t, [NoCall EXCEPT !.node = head, !.why = "evicted"])
          /\ Goto(t, "remove")
     ELSE Goto(t, "begin") /\ UNCHANGED call
  /\ UNCHANGED <<mem, free, head, temp, i, last, new, sent, stored, fate>>

-----------------------------------------------------------------------------
(* get_reading and send_reading. *)

BeginLoop(t) ==
  /\ pc[t] = "begin"
  /\ temp' = [temp EXCEPT ![t] = head]
  /\ new' = [new EXCEPT ![t] = NULL]
  /\ last' = [last EXCEPT ![t] = NULL]
  /\ Goto(t, "loop")
  /\ UNCHANGED <<mem, free, head, length, i, sent, stored, fate, call>>

PostNode(t) == temp[t] # FLASH /\ Post(t) /\ UNCHANGED call

HearAnswer(t, answer) ==
  /\ pc[t] = "wait"
  /\ sent' = [sent EXCEPT ![t] = NULL]
  /\ IF answer \in {"created", "duplicate"}
     THEN /\ sent[t] \in stored
          /\ Remember(t, [NoCall EXCEPT !.node = temp[t], !.why = answer])
          /\ Goto(t, "remove")
     ELSE Goto(t, "advance") /\ UNCHANGED call
  /\ UNCHANGED <<mem, free, head, length, temp, i, last, new, stored, fate>>

-----------------------------------------------------------------------------
(* reading_remove. *)

Return(t) ==
  /\ Goto(t, IF call[t].why = "evicted" THEN "begin" ELSE "advance")
  /\ Remember(t, NoCall)

EnterRemove(t) ==
  /\ pc[t] = "remove"
  /\ IF head = NULL
     THEN Return(t)
     ELSE /\ Remember(t, [call[t] EXCEPT !.head = head])
          /\ Goto(t, IF head = call[t].node THEN "unlink" ELSE "search")
  /\ UNCHANGED <<mem, free, head, length, temp, i, last, new, sent, stored, fate>>

\* The node removed is the head.
ReadBehindHead(t) ==
  /\ pc[t] = "unlink"
  /\ call[t].head # FLASH
  /\ Remember(t, [call[t] EXCEPT !.temp = NextOf(call[t].head)])
  /\ Goto(t, "behead")
  /\ UNCHANGED <<mem, free, head, length, temp, i, last, new, sent, stored, fate>>

MoveHead(t) ==
  /\ pc[t] = "behead"
  /\ head' = call[t].temp
  /\ Goto(t, "release")
  /\ UNCHANGED <<mem, free, length, temp, i, last, new, sent, stored, fate, call>>

Frees(t, a) ==
  IF a \in Cells \ free
  THEN /\ free' = FreeWith(a)
       /\ fate' = [fate EXCEPT ![mem[a].reading] = call[t].why]
  ELSE UNCHANGED <<free, fate>>

FreeHead(t) ==
  /\ pc[t] = "release"
  /\ Frees(t, call[t].head)
  /\ Return(t)
  /\ UNCHANGED <<mem, head, length, temp, i, last, new, sent, stored>>

\* One turn of the loop.  It looks at next before it looks for NULL.
Search(t) ==
  /\ pc[t] = "search"
  /\ call[t].head # FLASH
  /\ IF NextOf(call[t].head) = call[t].node
     THEN Goto(t, "fetch") /\ UNCHANGED call
     ELSE Remember(t, [call[t] EXCEPT !.head = NextOf(@)]) /\ UNCHANGED pc
  /\ UNCHANGED <<mem, free, head, length, temp, i, last, new, sent, stored, fate>>

\* A compiler may leave the look for NULL out: head was used before it.
NotInList(t) ==
  /\ pc[t] = "search"
  /\ call[t].head = NULL
  /\ Return(t)
  /\ UNCHANGED <<mem, free, head, length, temp, i, last, new, sent, stored, fate>>

\* head->next, read again or as it was read before.
SecondRead(t) == {call[t].node, NextOf(call[t].head)}

FetchBehind(t) ==
  /\ pc[t] = "fetch"
  /\ \E a \in SecondRead(t) \ {FLASH} :
       Remember(t, [call[t] EXCEPT !.node = a, !.temp = NextOf(a)])
  /\ Goto(t, "free")
  /\ UNCHANGED <<mem, free, head, length, temp, i, last, new, sent, stored, fate>>

FreeNode(t) ==
  /\ pc[t] = "free"
  /\ \E a \in SecondRead(t) \ {FLASH} : Frees(t, a)
  /\ Goto(t, "relink")
  /\ UNCHANGED <<mem, head, length, temp, i, last, new, sent, stored, call>>

Relink(t) ==
  /\ pc[t] = "relink"
  /\ mem' = [mem EXCEPT ![call[t].head].next = call[t].temp]
  /\ length' = Decrement(length)
  /\ Return(t)
  /\ UNCHANGED <<free, head, temp, i, last, new, sent, stored, fate>>

-----------------------------------------------------------------------------
\* The addresses a thread's next step may use.
Uses(t) ==
  CASE pc[t] = "walk" -> {last[t]}
    [] pc[t] = "loop" -> IF i[t] < MAX_SENDS_PER_PERIOD THEN {temp[t]} ELSE {}
    [] pc[t] = "advance" -> {temp[t]}
    [] pc[t] \in {"unlink", "search"} -> {call[t].head}
    [] pc[t] \in {"fetch", "free"} -> SecondRead(t)
    [] OTHER -> {}

Fault(t) ==
  /\ FLASH \in Uses(t)
  /\ pc' = [u \in Threads |-> "halted"]
  /\ UNCHANGED <<mem, free, head, length, temp, i, last, new, sent, stored, fate, call>>

ThreadStep(t) ==
  \/ \E a \in Cells : StartAdd(t, a)
  \/ \E r \in Readings : Fill(t, r)
  \/ TestHead(t) \/ BecomeHead(t) \/ Walk(t) \/ LinkBehind(t) \/ Count(t)
  \/ BeginLoop(t) \/ PostNode(t)
  \/ (AllocationFails(t) \/ Leave(t) \/ Advance(t)) /\ UNCHANGED call
  \/ \E answer \in Answers : HearAnswer(t, answer)
  \/ EnterRemove(t)
  \/ ReadBehindHead(t) \/ MoveHead(t) \/ FreeHead(t)
  \/ Search(t) \/ NotInList(t) \/ FetchBehind(t) \/ FreeNode(t) \/ Relink(t)
  \/ Fault(t)

RaceNext ==
  \/ \E t \in Threads : Runs(t) /\ ThreadStep(t)
  \/ \E t \in Threads : Store(t) /\ UNCHANGED call
  \/ Reset /\ call' = [t \in Threads |-> NoCall]

RaceSpec == RaceInit /\ [][RaceNext]_raceVars

-----------------------------------------------------------------------------
(***************************************************************************)
(* However the threads cut into each other, as long as the node has not    *)
(* faulted: util.h:90 and util.h:56 write into a node that a reading_add   *)
(* has filled (it may have been freed since, but it is no other memory),   *)
(* and a request is made of such a node.                                   *)
(***************************************************************************)
Filled == {a \in Cells : mem[a].reading # NULL}

NoWildPointer ==
  \A t \in Threads :
    /\ pc[t] = "link" => last[t] \in Filled
    /\ pc[t] = "relink" => call[t].head \in Filled
    /\ pc[t] \in {"wait", "advance"} => temp[t] \in Filled
    /\ pc[t] = "wait" => sent[t] \in Readings

=============================================================================
