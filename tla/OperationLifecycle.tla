------------------------- MODULE OperationLifecycle -------------------------
(***************************************************************************)
(* What the operations journal promises to a client that polls             *)
(* GET /operations/{id}, and nothing of how it is kept: every operation    *)
(* moves once through absent, queued, running and one terminal status; the *)
(* host is touched only while the operation is recorded as running (or was *)
(* interrupted while it was); success is only ever reported for host work  *)
(* that was carried out completely; an outcome nobody recorded becomes     *)
(* NeedsReview.                                                            *)
(***************************************************************************)
CONSTANT Ops                    \* the ids of the operations

VARIABLES status,               \* what the journal says of each operation
          effect                \* what the operation has really done to the host

lvars == <<status, effect>>

Effects  == {"none", "partial", "applied"}
Settled  == {"Succeeded", "Failed", "NeedsReview"}
Statuses == {"Absent", "Queued", "Running"} \cup Settled

LInit == /\ status = [o \in Ops |-> "Absent"]
         /\ effect = [o \in Ops |-> "none"]

Submit(o, s) == /\ status[o] = "Absent"
                /\ status' = [status EXCEPT ![o] = s]
                /\ UNCHANGED effect

Start(o) == /\ status[o] = "Queued"
            /\ status' = [status EXCEPT ![o] = "Running"]
            /\ UNCHANGED effect

Touch(o, e) == /\ status[o] = "Running"
               /\ effect' = [effect EXCEPT ![o] = e]
               /\ UNCHANGED status

Conclude(o, s) == /\ status[o] = "Running"
                  /\ s = "Succeeded" => effect[o] = "applied"
                  /\ status' = [status EXCEPT ![o] = s]
                  /\ UNCHANGED effect

Interrupt(o) == /\ status[o] \in {"Queued", "Running"}
                /\ status' = [status EXCEPT ![o] = "NeedsReview"]
                /\ UNCHANGED effect

LNext == \E o \in Ops : \/ \E s \in {"Queued", "Running"} : Submit(o, s)
                        \/ Start(o)
                        \/ \E e \in Effects : Touch(o, e)
                        \/ \E s \in {"Succeeded", "Failed"} : Conclude(o, s)
                        \/ Interrupt(o)

LSpec == LInit /\ [][LNext]_lvars
=============================================================================
