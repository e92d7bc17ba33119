--------------------------- MODULE DeliveryContract --------------------------
(***************************************************************************)
(* What notification dispatch promises for each (signal, recipient),       *)
(* without queues, workers or retries: at-least-once delivery with an      *)
(* honest record.  A row starts PENDING; calls to the channel are made     *)
(* only for rows that exist, and each may deliver, fail, or deliver and    *)
(* look failed; the record says SENT only of a row one call delivered, and *)
(* FAILED only of one whose failed calls used up the budget.  No record    *)
(* goes back to PENDING.  A record may change between SENT and FAILED:     *)
(* that part of the idempotence guard's promise needs more than this       *)
(* (NotificationDelivery!SentIsFinal).                                     *)
(***************************************************************************)
EXTENDS Naturals

CONSTANTS
  Deliveries, \* the (signal, recipient) pairs
  Budget      \* failed calls before a delivery may be given up

VARIABLES
  status,     \* the record
  received,   \* copies the recipient got
  errors      \* calls that looked failed to the caller

vars == <<status, received, errors>>

Init ==
  /\ status = [d \in Deliveries |-> "absent"]
  /\ received = [d \in Deliveries |-> 0]
  /\ errors = [d \in Deliveries |-> 0]

\* A dispatch creates the rows that are missing, of some recipients at once.
Create(D) ==
  /\ status' = [d \in Deliveries |->
                  IF d \in D /\ status[d] = "absent"
                  THEN "pending" ELSE status[d]]
  /\ UNCHANGED <<received, errors>>

Delivered(d) ==
  /\ status[d] # "absent"
  /\ received' = [received EXCEPT ![d] = @ + 1]
  /\ UNCHANGED <<status, errors>>

Refused(d) ==
  /\ status[d] # "absent"
  /\ errors' = [errors EXCEPT ![d] = @ + 1]
  /\ UNCHANGED <<status, received>>

DeliveredUnconfirmed(d) ==
  /\ status[d] # "absent"
  /\ received' = [received EXCEPT ![d] = @ + 1]
  /\ errors' = [errors EXCEPT ![d] = @ + 1]
  /\ UNCHANGED status

RecordSent(d) ==
  /\ received[d] >= 1
  /\ status' = [status EXCEPT ![d] = "sent"]
  /\ UNCHANGED <<received, errors>>

RecordFailed(d) ==
  /\ errors[d] >= Budget
  /\ status' = [status EXCEPT ![d] = "failed"]
  /\ UNCHANGED <<received, errors>>

Next ==
  \/ \E D \in SUBSET Deliveries : Create(D)
  \/ \E d \in Deliveries :
       \/ Delivered(d)
       \/ Refused(d)
       \/ DeliveredUnconfirmed(d)
       \/ RecordSent(d)
       \/ RecordFailed(d)

Spec == Init /\ [][Next]_vars
==============================================================================
