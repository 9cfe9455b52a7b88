------------------------------- MODULE Outbox -------------------------------
(***************************************************************************)
(* What a sensor node promises about the readings it has taken, whatever   *)
(* list, counter and loop it does it with: a reading waits in a queue,     *)
(* behind every older one that still waits; it leaves because the server   *)
(* said it is created or a duplicate, because it is the oldest of a queue  *)
(* that a newer reading enters, or because the node lost its memory.       *)
(***************************************************************************)
EXTENDS Sequences, SequencesExt, Functions, Integers

CONSTANT Readings

VARIABLES queue, fate
ovars == <<queue, fate>>

Fates == {"none", "queued", "created", "duplicate", "evicted", "lost"}

Init ==
  /\ queue = <<>>
  /\ fate = [r \in Readings |-> "none"]

Take(r) ==
  /\ fate[r] # "queued"
  /\ queue' = Append(queue, r)
  /\ fate' = [fate EXCEPT ![r] = "queued"]

TakeAndEvict(r) ==
  /\ fate[r] # "queued"
  /\ queue # <<>>
  /\ queue' = Append(Tail(queue), r)
  /\ fate' = [fate EXCEPT ![r] = "queued", ![Head(queue)] = "evicted"]

Settle(k) ==
  /\ queue' = RemoveAt(queue, k)
  /\ \E answer \in {"created", "duplicate"} :
       fate' = [fate EXCEPT ![queue[k]] = answer]

LoseMemory ==
  /\ queue' = <<>>
  /\ fate' = [r \in Readings |-> IF fate[r] = "queued" THEN "lost" ELSE fate[r]]

Next ==
  \/ \E r \in Readings : Take(r) \/ TakeAndEvict(r)
  \/ \E k \in DOMAIN queue : Settle(k)
  \/ LoseMemory

Spec == Init /\ [][Next]_ovars

=============================================================================
