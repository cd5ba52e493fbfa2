---------------------------- MODULE StageContract ----------------------------
(***************************************************************************)
(* What one hop of the pipeline promises to the rest of it: one inbound    *)
(* event becomes the stage's rows and a published verdict, and it is given *)
(* up only after a verdict was published.  Claims, deliveries, retries and *)
(* the dead-letter queue are not visible here; StageRun implements this.   *)
(***************************************************************************)

VARIABLES
    open,       \* the inbound event may still be worked on
    rows,       \* the stage's rows are stored
    published   \* verdicts on the bus

vars == <<open, rows, published>>

Init ==
    /\ open = TRUE
    /\ rows = FALSE
    /\ published = {}

(* The stage's transaction commits; its rows are never taken back.         *)
Store ==
    /\ open
    /\ rows' = TRUE
    /\ UNCHANGED <<open, published>>

(* A completion is announced with the rows in place, a failure whenever.   *)
Announce(verdict) ==
    /\ open
    /\ verdict = "completed" => rows
    /\ published' = published \cup {verdict}
    /\ UNCHANGED <<open, rows>>

(* The event is given up for good.                                         *)
Close ==
    /\ open
    /\ published # {}
    /\ open' = FALSE
    /\ UNCHANGED <<rows, published>>

Next == Store \/ Close \/ \E verdict \in {"completed", "failed"} : Announce(verdict)

Spec == Init /\ [][Next]_vars
=============================================================================
