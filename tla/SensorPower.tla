----------------------------- MODULE SensorPower -----------------------------
(***************************************************************************)
(* The power switch of the temperature sensor and those who sample it: the *)
(* handler thread and the shell's coap_post through get_temp, the resource *)
(* /temp through _temp_handler, which does the same.  A user switches the  *)
(* sensor on, sleeps a quarter of a second, reads, and switches it off,    *)
(* but not after a read that failed.  The shell can toggle the switch.     *)
(* The switch counts no users, and any user can be preempted or asleep     *)
(* between its steps.                                                      *)
(***************************************************************************)
CONSTANT Users

VARIABLES
  powered,   \* the switch
  sampling,  \* per user: "no"; "settling" after ON; "read" before OFF
  (* History variables, read by no guard. *)
  steady,    \* per user: the switch stayed on since the user's ON
  shared     \* per user: another sampled, or toggled, since its ON

powerVars == <<powered, sampling, steady, shared>>

\* board_init switches the sensor on.
PowerInit ==
  /\ powered = TRUE
  /\ sampling = [u \in Users |-> "no"]
  /\ steady = [u \in Users |-> FALSE]
  /\ shared = [u \in Users |-> FALSE]

Active == {u \in Users : sampling[u] # "no"}

TakesItIsOn(u) ==
  /\ sampling[u] = "no"
  /\ sampling' = [sampling EXCEPT ![u] = "settling"]
  /\ steady' = [steady EXCEPT ![u] = TRUE]
  /\ shared' = [v \in Users |-> IF v = u THEN Active # {}
                                ELSE shared[v] \/ v \in Active]
  /\ UNCHANGED powered

SwitchOn(u) ==
  /\ sampling[u] = "no"
  /\ powered' = TRUE
  /\ sampling' = [sampling EXCEPT ![u] = "settling"]
  /\ steady' = [steady EXCEPT ![u] = TRUE]
  /\ shared' = [v \in Users |-> IF v = u THEN Active # {}
                                ELSE shared[v] \/ v \in Active]

\* The sensor answers only while it has power.
ReadSensor(u) ==
  /\ sampling[u] = "settling"
  /\ powered
  /\ sampling' = [sampling EXCEPT ![u] = "read"]
  /\ UNCHANGED <<powered, steady, shared>>

ReadFails(u) ==
  /\ sampling[u] = "settling"
  /\ sampling' = [sampling EXCEPT ![u] = "no"]
  /\ UNCHANGED <<powered, steady, shared>>

LeavesOn(u) ==
  /\ sampling[u] = "read"
  /\ sampling' = [sampling EXCEPT ![u] = "no"]
  /\ UNCHANGED <<powered, steady, shared>>

SwitchOff(u) ==
  /\ sampling[u] = "read"
  /\ powered' = FALSE
  /\ sampling' = [sampling EXCEPT ![u] = "no"]
  /\ steady' = [v \in Users |-> FALSE]
  /\ UNCHANGED shared

toggle_sensor ==
  /\ powered' = ~powered
  /\ steady' = [u \in Users |-> FALSE]
  /\ shared' = [u \in Users |-> shared[u] \/ u \in Active]
  /\ UNCHANGED sampling

PowerReset ==
  /\ powered' = TRUE
  /\ sampling' = [u \in Users |-> "no"]
  /\ steady' = [u \in Users |-> FALSE]
  /\ shared' = [u \in Users |-> FALSE]

PowerTypeOK ==
  /\ powered \in BOOLEAN
  /\ sampling \in [Users -> {"no", "settling", "read"}]
  /\ steady \in [Users -> BOOLEAN]
  /\ shared \in [Users -> BOOLEAN]

(***************************************************************************)
(* A user that samples alone has power from its ON to its OFF, whatever    *)
(* was done, left on or left off before it came; only a user or a toggle   *)
(* in between can take the power away (util.c:44-61).                      *)
(***************************************************************************)
AloneIsSteady ==
  \A u \in Active : ~shared[u] => powered /\ steady[u]

=============================================================================
