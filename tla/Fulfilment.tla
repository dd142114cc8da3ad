----------------------------- MODULE Fulfilment -----------------------------
(***************************************************************************)
(* What the checkout promises about one order, with no database, request  *)
(* or payment channel in sight (src/backend/internal/service/sponsor.go). *)
(* An order is inserted, may be paid, and a paid order is settled exactly *)
(* once: either what was bought is delivered, or the settlement is lost   *)
(* for good and the order is stranded.  The code has no step that leaves  *)
(* "stranded", and none that delivers twice.                              *)
(***************************************************************************)
CONSTANT Orders

VARIABLE stage      \* the life of each order, as a customer would see it

Stages == {"absent", "pending", "settling", "delivered", "stranded"}

StageTypeOK == stage \in [Orders -> Stages]

Init == stage = [o \in Orders |-> "absent"]

Become(o, from, to) ==
    /\ stage[o] = from
    /\ stage' = [stage EXCEPT ![o] = to]

Place(o)   == Become(o, "absent", "pending")
Pay(o)     == Become(o, "pending", "settling")
Deliver(o) == Become(o, "settling", "delivered")

\* The requests that are settling some orders end at once without having
\* delivered: one request that fails, or the whole process stopping.
Strand == \E S \in SUBSET {o \in Orders : stage[o] = "settling"} :
            stage' = [o \in Orders |-> IF o \in S THEN "stranded" ELSE stage[o]]

\* The paid mark is committed but its acknowledgement is lost.
PayAndStrand(o) == Become(o, "pending", "stranded")

Next == \/ \E o \in Orders : Place(o) \/ Pay(o) \/ Deliver(o) \/ PayAndStrand(o)
        \/ Strand

Spec == Init /\ [][Next]_stage

\* What a server that keeps running owes every paid order: it does not stay
\* half settled.
Settles == \A o \in Orders :
             stage[o] = "settling" ~> stage[o] \in {"delivered", "stranded"}
=============================================================================
