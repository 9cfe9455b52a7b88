----------------------------- MODULE EpochClock -----------------------------
(***************************************************************************)
(* How a node stamps its readings: it asks the server for the time, keeps  *)
(* the difference to its own millisecond counter in seconds, and adds the  *)
(* counter's seconds when it takes a reading.  The database knows a row by *)
(* node and stamp: two readings with one stamp are one row, and the node   *)
(* deletes the second when it is refused.                                  *)
(*                                                                         *)
(* elapsed is true time in milliseconds.  The counter starts with the node *)
(* and wraps at COUNTER_MOD (2^32).  Between the answer's arrival and the  *)
(* new offset there is only computation, so update_epoch is one step, of   *)
(* whichever thread.                                                       *)
(***************************************************************************)
EXTENDS Integers

CONSTANTS MS_PER_SEC,
          COUNTER_MOD,   \* the counter's range
          MAX_AGE,       \* an answer's age when it is heard, at most
          SERVER_START,  \* the server's time, in seconds, when elapsed is 0
          Horizon,       \* true time is followed up to here
          None

ASSUME ClockAssumption ==
  /\ MS_PER_SEC \in Nat \ {0}
  /\ COUNTER_MOD \in Nat \ {0}
  /\ MAX_AGE \in Nat
  /\ SERVER_START \in Nat
  /\ Horizon \in Nat
  /\ None \notin Int

VARIABLES
  elapsed,       \* true time
  bootedAt,      \* true time of the last boot
  epoch_offset,
  errno,         \* one for all threads; nothing sets it back
  (* History variables, read by no step of the node. *)
  setAt,         \* true time of the last update since boot, or None
  earlier        \* a reading taken earlier with a good stamp, or None

vars == <<elapsed, bootedAt, epoch_offset, errno, setAt, earlier>>

Init ==
  /\ elapsed = 0
  /\ bootedAt = 0
  /\ epoch_offset = 0
  /\ errno = "OK"
  /\ setAt = None
  /\ earlier = None

-----------------------------------------------------------------------------
\* TimeResource: int() of the time.
ServerTime(t) == SERVER_START + t \div MS_PER_SEC

ztimer_now == (elapsed - bootedAt) % COUNTER_MOD

AddsTwice(epoch) == epoch

OffsetOf(epoch) == epoch - ztimer_now \div MS_PER_SEC

Stamp == epoch_offset + ztimer_now \div MS_PER_SEC

Wraps(t) == (t - bootedAt) \div COUNTER_MOD

\* The offset was set since boot, and the counter has not wrapped since.
Good == setAt # None /\ Wraps(setAt) = Wraps(elapsed)

Tick ==
  /\ elapsed < Horizon
  /\ elapsed' = elapsed + 1
  /\ UNCHANGED <<bootedAt, epoch_offset, errno, setAt, earlier>>

(***************************************************************************)
(* update_epoch heard an answer: 205 with a time the server read a while   *)
(* ago, or with something that is not a number, which strtoul makes 0.     *)
(* A request that fails changes nothing.                                   *)
(***************************************************************************)
TakesAnyPayload(isNumber) == errno # "ERANGE"

OnlyOnce(isNumber) == isNumber /\ setAt = None

Accepts(isNumber) == isNumber /\ errno # "ERANGE"

UpdateEpoch(epoch, isNumber) ==
  /\ IF Accepts(isNumber)
     THEN epoch_offset' = OffsetOf(epoch) /\ setAt' = elapsed
     ELSE UNCHANGED <<epoch_offset, setAt>>
  /\ UNCHANGED <<elapsed, bootedAt, errno, earlier>>

HearTime(age) ==
  /\ age <= elapsed
  /\ UpdateEpoch(ServerTime(elapsed - age), TRUE)

HearGarbage == UpdateEpoch(0, FALSE)

\* strtoul or strtol of a number out of range: /period, /led, /txpower.
ParseOutOfRange ==
  /\ errno' = "ERANGE"
  /\ UNCHANGED <<elapsed, bootedAt, epoch_offset, setAt, earlier>>

\* get_reading; any one reading with a good stamp may be remembered.
TakeReading ==
  /\ Good
  /\ earlier' = [at |-> elapsed, stamp |-> Stamp]
  /\ UNCHANGED <<elapsed, bootedAt, epoch_offset, errno, setAt>>

KeepsClock ==
  /\ bootedAt' = elapsed
  /\ UNCHANGED <<elapsed, epoch_offset, errno, setAt, earlier>>

Reboot ==
  /\ bootedAt' = elapsed
  /\ epoch_offset' = 0
  /\ errno' = "OK"
  /\ setAt' = None
  /\ UNCHANGED <<elapsed, earlier>>

Next ==
  \/ Tick
  \/ \E age \in 0 .. MAX_AGE : HearTime(age)
  \/ HearGarbage
  \/ ParseOutOfRange
  \/ TakeReading
  \/ Reboot

Spec == Init /\ [][Next]_vars

(***************************************************************************)
(* The server is asked again and again and answers (environment).          *)
(***************************************************************************)
FairSpec == Spec /\ WF_vars(\E age \in 0 .. MAX_AGE : HearTime(age))

-----------------------------------------------------------------------------
TypeOK ==
  /\ elapsed \in 0 .. Horizon
  /\ bootedAt \in 0 .. elapsed
  /\ epoch_offset \in Int
  /\ errno \in {"OK", "ERANGE"}
  /\ setAt = None \/ setAt \in bootedAt .. elapsed
  /\ earlier = None \/ earlier \in [at : 0 .. elapsed, stamp : Int]

(***************************************************************************)
(* "timestamping readings to give a 1 second accuracy" (README.md of the   *)
(* node): a good stamp is at most one second ahead of the server's clock,  *)
(* and behind by no more than one second and the age of the answer.        *)
(***************************************************************************)
SecondsOf(ms) == (ms + MS_PER_SEC - 1) \div MS_PER_SEC

StampIsAccurate ==
  Good => /\ Stamp <= ServerTime(elapsed) + 1
          /\ Stamp >= ServerTime(elapsed) - 1 - SecondsOf(MAX_AGE)

(***************************************************************************)
(* "Data already exists for this node with this timestamp" (temp.py:49) is *)
(* true of the reading that is refused: over updates that move the clock   *)
(* back, wraps and reboots, a good stamp is later than that of any earlier *)
(* reading, unless that was taken a moment ago.                            *)
(***************************************************************************)
MOMENT == MAX_AGE + 3 * MS_PER_SEC

StampsKeepOrder ==
  Good /\ earlier # None /\ elapsed - earlier.at >= MOMENT =>
    Stamp > earlier.stamp

(***************************************************************************)
(* After a boot or a wrap the clock comes right again, as long as answers  *)
(* come and no thread ever parsed a number out of range: that sets errno   *)
(* for good, and every later answer is taken for "not number" (util.c:176). *)
(***************************************************************************)
ClockRecovers == <>[](errno = "OK") => []<>Good

=============================================================================
