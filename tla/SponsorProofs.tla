---------------------------- MODULE SponsorProofs ----------------------------
(***************************************************************************)
(* Proofs about Sponsor, for any number of orders, requests, callbacks,    *)
(* failing calls and restarts.  Inv is inductive: MarkOrderPaid elects one *)
(* request per order, so what has been issued and credited for the order   *)
(* can be read off where that request stands (Election, Ledger); a copy of *)
(* a row is what the table holds until the row is raced (Copies).          *)
(***************************************************************************)
EXTENDS Sponsor, TLAPS

-----------------------------------------------------------------------------
(* One lemma per action: it preserves Inv. *)

\* A request that stops without touching the tables: what it had won stays as it is.
LEMMA EndInv ==
    ASSUME NEW r \in Requests, pc[r] # "idle", Inv, End(r),
           UNCHANGED <<dbVars, behaviour, now, rowVars, raced>>,
           cut' \in SUBSET Orders, cut \subseteq cut',
           Elected(r) => cur[r] \in cut' \/ Settled(cur[r])
    PROVE  Inv'
<1> USE DEF Inv
<1>1. TypeOK'
  BY SponsorAssumption DEF End, dbVars, rowVars, TypeOK, Bookkeeping, NoRow,
     Nobody, TrackRows, SubRows
<1>2. Bookkeeping'
  BY SponsorAssumption DEF End, dbVars, rowVars, TypeOK, Bookkeeping, NoRow,
     TrackRows, SubRows
<1>3. Election'
  BY SponsorAssumption DEF End, dbVars, rowVars, TypeOK, Bookkeeping,
     Election, Elected, GrantedAtMostOnce, IssuedOnlyWhenPaid
<1>4. Ledger'
  BY SponsorAssumption DEF End, dbVars, rowVars, TypeOK, Bookkeeping,
     Election, Elected, GrantedAtMostOnce, IssuedOnlyWhenPaid, Ledger,
     NeverOverstated, NoRow, TrackRows, SubRows
<1>5. Subscriptions'
  BY SponsorAssumption DEF End, dbVars, rowVars, TypeOK, Bookkeeping,
     Election, Elected, IssuedOnlyWhenPaid, GrantedAtMostOnce, Subscriptions,
     SubscriptionPaidFor, NoRow, SubRows, TrackRows
<1>6. Copies'
  BY SponsorAssumption DEF End, dbVars, rowVars, TypeOK, Bookkeeping,
     Election, Elected, Copies, NoRow, TrackRows, SubRows
<1>7. SettledUnlessCutOrRaced'
  BY SponsorAssumption DEF End, dbVars, rowVars, TypeOK, Bookkeeping,
     Election, Elected, GrantedAtMostOnce, IssuedOnlyWhenPaid,
     SettledUnlessCutOrRaced, Settled, NoRow, TrackRows, SubRows
<1> QED
  BY <1>1, <1>2, <1>3, <1>4, <1>5, <1>6, <1>7

\* A new order is absent from every count and every track row.
LEMMA CreateTrackSponsorInv ==
    ASSUME NEW r \in Requests, NEW o \in Orders, NEW u \in Users,
           NEW t \in Tracks, NEW amount \in Amounts, Inv, CreateTrackSponsor(r, o, u, t, amount)
    PROVE  Inv'
<1> USE DEF Inv
<1>1. TypeOK'
  BY SponsorAssumption DEF CreateTrackSponsor, InsertOrder, Effective,
     TrackRows, rowVars, TypeOK, Bookkeeping, NoRow, Nobody, SubRows
<1>2. Bookkeeping'
  BY SponsorAssumption DEF CreateTrackSponsor, InsertOrder, Effective,
     TrackRows, rowVars, TypeOK, Bookkeeping, NoRow, SubRows
<1>3. Election'
  BY SponsorAssumption DEF CreateTrackSponsor, InsertOrder, Effective,
     TrackRows, rowVars, TypeOK, Bookkeeping, Election, Elected,
     GrantedAtMostOnce, IssuedOnlyWhenPaid
<1>4. Ledger'
  BY SponsorAssumption DEF CreateTrackSponsor, InsertOrder, Effective,
     TrackRows, rowVars, TypeOK, Bookkeeping, Election, Elected,
     GrantedAtMostOnce, IssuedOnlyWhenPaid, Ledger, NeverOverstated, NoRow,
     SubRows
<1>5. Subscriptions'
  BY SponsorAssumption DEF CreateTrackSponsor, InsertOrder, Effective,
     TrackRows, rowVars, TypeOK, Bookkeeping, Election, Elected,
     IssuedOnlyWhenPaid, GrantedAtMostOnce, Subscriptions,
     SubscriptionPaidFor, NoRow, SubRows
<1>6. Copies'
  BY SponsorAssumption DEF CreateTrackSponsor, InsertOrder, Effective,
     TrackRows, rowVars, TypeOK, Bookkeeping, Election, Elected, Copies,
     NoRow, SubRows
<1>7. SettledUnlessCutOrRaced'
  BY SponsorAssumption DEF CreateTrackSponsor, InsertOrder, Effective,
     TrackRows, rowVars, TypeOK, Bookkeeping, Election, Elected,
     GrantedAtMostOnce, IssuedOnlyWhenPaid, SettledUnlessCutOrRaced, Settled,
     NoRow, SubRows
<1> QED
  BY <1>1, <1>2, <1>3, <1>4, <1>5, <1>6, <1>7

\* As for a sponsorship: nothing is known of the order yet.
LEMMA CreateFanSubInv ==
    ASSUME NEW r \in Requests, NEW o \in Orders, NEW u \in Users,
           NEW c \in Creators, Inv, CreateFanSub(r, o, u, c)
    PROVE  Inv'
<1> USE DEF Inv
<1>1. TypeOK'
  BY SponsorAssumption DEF CreateFanSub, InsertOrder, SubRows, rowVars,
     TypeOK, Bookkeeping, NoRow, Nobody, TrackRows
<1>2. Bookkeeping'
  BY SponsorAssumption DEF CreateFanSub, InsertOrder, SubRows, rowVars,
     TypeOK, Bookkeeping, NoRow, TrackRows
<1>3. Election'
  BY SponsorAssumption DEF CreateFanSub, InsertOrder, SubRows, rowVars,
     TypeOK, Bookkeeping, Election, Elected, GrantedAtMostOnce,
     IssuedOnlyWhenPaid
<1>4. Ledger'
  BY SponsorAssumption DEF CreateFanSub, InsertOrder, SubRows, rowVars,
     TypeOK, Bookkeeping, Election, Elected, GrantedAtMostOnce,
     IssuedOnlyWhenPaid, Ledger, NeverOverstated, NoRow, TrackRows
<1>5. Subscriptions'
  BY SponsorAssumption DEF CreateFanSub, InsertOrder, SubRows, rowVars,
     TypeOK, Bookkeeping, Election, Elected, IssuedOnlyWhenPaid,
     GrantedAtMostOnce, Subscriptions, SubscriptionPaidFor, NoRow, TrackRows
<1>6. Copies'
  BY SponsorAssumption DEF CreateFanSub, InsertOrder, SubRows, rowVars,
     TypeOK, Bookkeeping, Election, Elected, Copies, NoRow, TrackRows
<1>7. SettledUnlessCutOrRaced'
  BY SponsorAssumption DEF CreateFanSub, InsertOrder, SubRows, rowVars,
     TypeOK, Bookkeeping, Election, Elected, GrantedAtMostOnce,
     IssuedOnlyWhenPaid, SettledUnlessCutOrRaced, Settled, NoRow, TrackRows
<1> QED
  BY <1>1, <1>2, <1>3, <1>4, <1>5, <1>6, <1>7

\* A paid charge sends the request to MarkOrderPaid, any other ends it.
LEMMA ChargeInv ==
    ASSUME NEW r \in Requests, Inv, Charge(r)
    PROVE  Inv'
<1> USE DEF Inv
<1>1. CASE ChargeStatus = "paid"
  <2>1. TypeOK'
    BY <1>1, SponsorAssumption DEF Charge, Goto, dbVars, rowVars, TypeOK,
       Bookkeeping, NoRow, Nobody, TrackRows, SubRows
  <2>2. Bookkeeping'
    BY <1>1, SponsorAssumption DEF Charge, Goto, dbVars, rowVars, TypeOK,
       Bookkeeping, NoRow, TrackRows, SubRows
  <2>3. Election'
    BY <1>1, SponsorAssumption DEF Charge, Goto, dbVars, rowVars, TypeOK,
       Bookkeeping, Election, Elected, GrantedAtMostOnce, IssuedOnlyWhenPaid
  <2>4. Ledger'
    BY <1>1, SponsorAssumption DEF Charge, Goto, dbVars, rowVars, TypeOK,
       Bookkeeping, Election, Elected, GrantedAtMostOnce, IssuedOnlyWhenPaid,
       Ledger, NeverOverstated, NoRow, TrackRows, SubRows
  <2>5. Subscriptions'
    BY <1>1, SponsorAssumption DEF Charge, Goto, dbVars, rowVars, TypeOK,
       Bookkeeping, Election, Elected, IssuedOnlyWhenPaid, GrantedAtMostOnce,
       Subscriptions, SubscriptionPaidFor, NoRow, SubRows, TrackRows
  <2>6. Copies'
    BY <1>1, SponsorAssumption DEF Charge, Goto, dbVars, rowVars, TypeOK,
       Bookkeeping, Election, Elected, Copies, NoRow, TrackRows, SubRows
  <2>7. SettledUnlessCutOrRaced'
    BY <1>1, SponsorAssumption DEF Charge, Goto, dbVars, rowVars, TypeOK,
       Bookkeeping, Election, Elected, GrantedAtMostOnce, IssuedOnlyWhenPaid,
       SettledUnlessCutOrRaced, Settled, NoRow, TrackRows, SubRows
  <2> QED
    BY <2>1, <2>2, <2>3, <2>4, <2>5, <2>6, <2>7
<1>2. CASE ChargeStatus # "paid"
  <2>1. /\ pc[r] # "idle" /\ ~Elected(r) /\ End(r)
        /\ UNCHANGED <<dbVars, behaviour, now, rowVars, raced, cut>>
    BY <1>2 DEF Charge, Elected
  <2> QED
    BY <2>1, EndInv DEF TypeOK
<1> QED
  BY <1>1, <1>2

\* A callback only starts a request.
LEMMA CallbackInv ==
    ASSUME NEW r \in Requests, NEW o \in Orders, Inv, Callback(r, o)
    PROVE  Inv'
<1> USE DEF Inv
<1>1. TypeOK'
  BY SponsorAssumption DEF Callback, dbVars, rowVars, TypeOK, Bookkeeping,
     NoRow, Nobody, TrackRows, SubRows
<1>2. Bookkeeping'
  BY SponsorAssumption DEF Callback, dbVars, rowVars, TypeOK, Bookkeeping,
     NoRow, TrackRows, SubRows
<1>3. Election'
  BY SponsorAssumption DEF Callback, dbVars, rowVars, TypeOK, Bookkeeping,
     Election, Elected, GrantedAtMostOnce, IssuedOnlyWhenPaid
<1>4. Ledger'
  BY SponsorAssumption DEF Callback, dbVars, rowVars, TypeOK, Bookkeeping,
     Election, Elected, GrantedAtMostOnce, IssuedOnlyWhenPaid, Ledger,
     NeverOverstated, NoRow, TrackRows, SubRows
<1>5. Subscriptions'
  BY SponsorAssumption DEF Callback, dbVars, rowVars, TypeOK, Bookkeeping,
     Election, Elected, IssuedOnlyWhenPaid, GrantedAtMostOnce, Subscriptions,
     SubscriptionPaidFor, NoRow, SubRows, TrackRows
<1>6. Copies'
  BY SponsorAssumption DEF Callback, dbVars, rowVars, TypeOK, Bookkeeping,
     Election, Elected, Copies, NoRow, TrackRows, SubRows
<1>7. SettledUnlessCutOrRaced'
  BY SponsorAssumption DEF Callback, dbVars, rowVars, TypeOK, Bookkeeping,
     Election, Elected, GrantedAtMostOnce, IssuedOnlyWhenPaid,
     SettledUnlessCutOrRaced, Settled, NoRow, TrackRows, SubRows
<1> QED
  BY <1>1, <1>2, <1>3, <1>4, <1>5, <1>6, <1>7

\* The first request to mark the order is elected, the others end.
LEMMA MarkOrderPaidInv ==
    ASSUME NEW r \in Requests, Inv, MarkOrderPaid(r)
    PROVE  Inv'
<1> USE DEF Inv
<1>1. CASE status[cur[r]] = "paid" /\ End(r)
  <2>1. cur[r] \in Orders
    BY <1>1 DEF MarkOrderPaid, TypeOK, Bookkeeping
  <2>2. status' = status
    BY <1>1, <2>1 DEF MarkOrderPaid, TypeOK
  <2>3. ~Elected(r) /\ cut' = cut
    BY <1>1 DEF MarkOrderPaid, Elected
  <2> QED
    BY <1>1, <2>2, <2>3, EndInv DEF MarkOrderPaid, dbVars, TypeOK
<1>2. CASE status[cur[r]] # "paid" /\ End(r) /\ cut' = cut \cup {cur[r]}
  <2>1. TypeOK'
    BY <1>2, SponsorAssumption DEF MarkOrderPaid, End, rowVars, TypeOK,
       Bookkeeping, NoRow, Nobody, TrackRows, SubRows
  <2>2. Bookkeeping'
    BY <1>2, SponsorAssumption DEF MarkOrderPaid, End, rowVars, TypeOK,
       Bookkeeping, NoRow, TrackRows, SubRows
  <2>3. Election'
    BY <1>2, SponsorAssumption DEF MarkOrderPaid, End, rowVars, TypeOK,
       Bookkeeping, Election, Elected, GrantedAtMostOnce, IssuedOnlyWhenPaid
  <2>4. Ledger'
    BY <1>2, SponsorAssumption DEF MarkOrderPaid, End, rowVars, TypeOK,
       Bookkeeping, Election, Elected, GrantedAtMostOnce, IssuedOnlyWhenPaid,
       Ledger, NeverOverstated, NoRow, TrackRows, SubRows
  <2>5. Subscriptions'
    BY <1>2, SponsorAssumption DEF MarkOrderPaid, End, rowVars, TypeOK,
       Bookkeeping, Election, Elected, IssuedOnlyWhenPaid, GrantedAtMostOnce,
       Subscriptions, SubscriptionPaidFor, NoRow, SubRows, TrackRows
  <2>6. Copies'
    BY <1>2, SponsorAssumption DEF MarkOrderPaid, End, rowVars, TypeOK,
       Bookkeeping, Election, Elected, Copies, NoRow, TrackRows, SubRows
  <2>7. SettledUnlessCutOrRaced'
    BY <1>2, SponsorAssumption DEF MarkOrderPaid, End, rowVars, TypeOK,
       Bookkeeping, Election, Elected, GrantedAtMostOnce, IssuedOnlyWhenPaid,
       SettledUnlessCutOrRaced, Settled, NoRow, TrackRows, SubRows
  <2> QED
    BY <2>1, <2>2, <2>3, <2>4, <2>5, <2>6, <2>7
<1>3. CASE /\ status[cur[r]] # "paid" /\ UNCHANGED cut
           /\ Goto(r, IF row[cur[r]].kind = "FAN_SUB" THEN "expiry" ELSE "grant")
  <2>1. TypeOK'
    BY <1>3, SponsorAssumption DEF MarkOrderPaid, Goto, rowVars, TypeOK,
       Bookkeeping, NoRow, Nobody, TrackRows, SubRows
  <2>2. Bookkeeping'
    BY <1>3, SponsorAssumption DEF MarkOrderPaid, Goto, rowVars, TypeOK,
       Bookkeeping, NoRow, TrackRows, SubRows
  <2>3. Election'
    BY <1>3, SponsorAssumption DEF MarkOrderPaid, Goto, rowVars, TypeOK,
       Bookkeeping, Election, Elected, GrantedAtMostOnce, IssuedOnlyWhenPaid
  <2>4. Ledger'
    BY <1>3, SponsorAssumption DEF MarkOrderPaid, Goto, rowVars, TypeOK,
       Bookkeeping, Election, Elected, GrantedAtMostOnce, IssuedOnlyWhenPaid,
       Ledger, NeverOverstated, NoRow, TrackRows, SubRows
  <2>5. Subscriptions'
    BY <1>3, SponsorAssumption DEF MarkOrderPaid, Goto, rowVars, TypeOK,
       Bookkeeping, Election, Elected, IssuedOnlyWhenPaid, GrantedAtMostOnce,
       Subscriptions, SubscriptionPaidFor, NoRow, SubRows, TrackRows
  <2>6. Copies'
    BY <1>3, SponsorAssumption DEF MarkOrderPaid, Goto, rowVars, TypeOK,
       Bookkeeping, Election, Elected, Copies, NoRow, TrackRows, SubRows
  <2>7. SettledUnlessCutOrRaced'
    BY <1>3, SponsorAssumption DEF MarkOrderPaid, Goto, rowVars, TypeOK,
       Bookkeeping, Election, Elected, GrantedAtMostOnce, IssuedOnlyWhenPaid,
       SettledUnlessCutOrRaced, Settled, NoRow, TrackRows, SubRows
  <2> QED
    BY <2>1, <2>2, <2>3, <2>4, <2>5, <2>6, <2>7
<1> QED
  BY <1>1, <1>2, <1>3 DEF MarkOrderPaid, Answered

\* The elected request alone counts the grant.
LEMMA CreateGrantInv ==
    ASSUME NEW r \in Requests, Inv, CreateGrant(r)
    PROVE  Inv'
<1> USE DEF Inv
<1>1. CASE Goto(r, "read") /\ UNCHANGED cut
  <2>1. TypeOK'
    BY <1>1, SponsorAssumption DEF CreateGrant, Goto, rowVars, TypeOK,
       Bookkeeping, NoRow, Nobody, TrackRows, SubRows
  <2>2. Bookkeeping'
    BY <1>1, SponsorAssumption DEF CreateGrant, Goto, rowVars, TypeOK,
       Bookkeeping, NoRow, TrackRows, SubRows
  <2>3. Election'
    BY <1>1, SponsorAssumption DEF CreateGrant, Goto, rowVars, TypeOK,
       Bookkeeping, Election, Elected, GrantedAtMostOnce, IssuedOnlyWhenPaid
  <2>4. Ledger'
    BY <1>1, SponsorAssumption DEF CreateGrant, Goto, rowVars, TypeOK,
       Bookkeeping, Election, Elected, GrantedAtMostOnce, IssuedOnlyWhenPaid,
       Ledger, NeverOverstated, NoRow, TrackRows, SubRows
  <2>5. Subscriptions'
    BY <1>1, SponsorAssumption DEF CreateGrant, Goto, rowVars, TypeOK,
       Bookkeeping, Election, Elected, IssuedOnlyWhenPaid, GrantedAtMostOnce,
       Subscriptions, SubscriptionPaidFor, NoRow, SubRows, TrackRows
  <2>6. Copies'
    BY <1>1, SponsorAssumption DEF CreateGrant, Goto, rowVars, TypeOK,
       Bookkeeping, Election, Elected, Copies, NoRow, TrackRows, SubRows
  <2>7. SettledUnlessCutOrRaced'
    BY <1>1, SponsorAssumption DEF CreateGrant, Goto, rowVars, TypeOK,
       Bookkeeping, Election, Elected, GrantedAtMostOnce, IssuedOnlyWhenPaid,
       SettledUnlessCutOrRaced, Settled, NoRow, TrackRows, SubRows
  <2> QED
    BY <2>1, <2>2, <2>3, <2>4, <2>5, <2>6, <2>7
<1>2. CASE End(r) /\ cut' = cut \cup {cur[r]}
  <2>1. TypeOK'
    BY <1>2, SponsorAssumption DEF CreateGrant, End, rowVars, TypeOK,
       Bookkeeping, NoRow, Nobody, TrackRows, SubRows
  <2>2. Bookkeeping'
    BY <1>2, SponsorAssumption DEF CreateGrant, End, rowVars, TypeOK,
       Bookkeeping, NoRow, TrackRows, SubRows
  <2>3. Election'
    BY <1>2, SponsorAssumption DEF CreateGrant, End, rowVars, TypeOK,
       Bookkeeping, Election, Elected, GrantedAtMostOnce, IssuedOnlyWhenPaid
  <2>4. Ledger'
    BY <1>2, SponsorAssumption DEF CreateGrant, End, rowVars, TypeOK,
       Bookkeeping, Election, Elected, GrantedAtMostOnce, IssuedOnlyWhenPaid,
       Ledger, NeverOverstated, NoRow, TrackRows, SubRows
  <2>5. Subscriptions'
    BY <1>2, SponsorAssumption DEF CreateGrant, End, rowVars, TypeOK,
       Bookkeeping, Election, Elected, IssuedOnlyWhenPaid, GrantedAtMostOnce,
       Subscriptions, SubscriptionPaidFor, NoRow, SubRows, TrackRows
  <2>6. Copies'
    BY <1>2, SponsorAssumption DEF CreateGrant, End, rowVars, TypeOK,
       Bookkeeping, Election, Elected, Copies, NoRow, TrackRows, SubRows
  <2>7. SettledUnlessCutOrRaced'
    BY <1>2, SponsorAssumption DEF CreateGrant, End, rowVars, TypeOK,
       Bookkeeping, Election, Elected, GrantedAtMostOnce, IssuedOnlyWhenPaid,
       SettledUnlessCutOrRaced, Settled, NoRow, TrackRows, SubRows
  <2> QED
    BY <2>1, <2>2, <2>3, <2>4, <2>5, <2>6, <2>7
<1> QED
  BY <1>1, <1>2 DEF CreateGrant, Answered

\* A sound row is copied into memory.
LEMMA ReadTrackInv ==
    ASSUME NEW r \in Requests, Inv, ReadTrack(r)
    PROVE  Inv'
<1> USE DEF Inv
<1>1. TypeOK'
  BY SponsorAssumption DEF ReadTrack, dbVars, rowVars, TypeOK, Bookkeeping,
     NoRow, Nobody, TrackRows, SubRows
<1>2. Bookkeeping'
  BY SponsorAssumption DEF ReadTrack, dbVars, rowVars, TypeOK, Bookkeeping,
     NoRow, TrackRows, SubRows
<1>3. Election'
  BY SponsorAssumption DEF ReadTrack, dbVars, rowVars, TypeOK, Bookkeeping,
     Election, Elected, GrantedAtMostOnce, IssuedOnlyWhenPaid
<1>4. Ledger'
  BY SponsorAssumption DEF ReadTrack, dbVars, rowVars, TypeOK, Bookkeeping,
     Election, Elected, GrantedAtMostOnce, IssuedOnlyWhenPaid, Ledger,
     NeverOverstated, NoRow, TrackRows, SubRows
<1>5. Subscriptions'
  BY SponsorAssumption DEF ReadTrack, dbVars, rowVars, TypeOK, Bookkeeping,
     Election, Elected, IssuedOnlyWhenPaid, GrantedAtMostOnce, Subscriptions,
     SubscriptionPaidFor, NoRow, SubRows, TrackRows
<1>6. Copies'
  BY SponsorAssumption DEF ReadTrack, dbVars, rowVars, TypeOK, Bookkeeping,
     Election, Elected, Copies, NoRow, TrackRows, SubRows
<1>7. SettledUnlessCutOrRaced'
  BY SponsorAssumption DEF ReadTrack, dbVars, rowVars, TypeOK, Bookkeeping,
     Election, Elected, GrantedAtMostOnce, IssuedOnlyWhenPaid,
     SettledUnlessCutOrRaced, Settled, NoRow, TrackRows, SubRows
<1> QED
  BY <1>1, <1>2, <1>3, <1>4, <1>5, <1>6, <1>7

\* The row written back is sound and holds the amount once.
LEMMA UpdateTrackInv ==
    ASSUME NEW r \in Requests, Inv, UpdateTrack(r)
    PROVE  Inv'
<1> USE DEF Inv
<1>1. TypeOK'
  BY SponsorAssumption DEF UpdateTrack, Write, End, rowVars, TypeOK,
     Bookkeeping, NoRow, Nobody, TrackRows, SubRows
<1>2. Bookkeeping'
  BY SponsorAssumption DEF UpdateTrack, Write, End, rowVars, TypeOK,
     Bookkeeping, NoRow, TrackRows, SubRows
<1>3. Election'
  BY SponsorAssumption DEF UpdateTrack, Write, End, rowVars, TypeOK,
     Bookkeeping, Election, Elected, GrantedAtMostOnce, IssuedOnlyWhenPaid
<1>4. Ledger'
  BY SponsorAssumption DEF UpdateTrack, Write, End, rowVars, TypeOK,
     Bookkeeping, Election, Elected, GrantedAtMostOnce, IssuedOnlyWhenPaid,
     Ledger, NeverOverstated, NoRow, TrackRows, SubRows
<1>5. Subscriptions'
  BY SponsorAssumption DEF UpdateTrack, Write, End, rowVars, TypeOK,
     Bookkeeping, Election, Elected, IssuedOnlyWhenPaid, GrantedAtMostOnce,
     Subscriptions, SubscriptionPaidFor, NoRow, SubRows, TrackRows
<1>8. PICK q \in Orders, w \in Tracks : q = cur[r] /\ w = row[q].track
  BY SponsorAssumption DEF UpdateTrack, TypeOK, Bookkeeping, NoRow, TrackRows, SubRows
<1>9. /\ credited' = [credited EXCEPT ![w] = [seen[r] EXCEPT ![q] = 1]]
      /\ row[q].kind = "TRACK_SPONSOR" /\ issued[q] = 1 /\ status[q] = "paid"
      /\ raced' = IF Readers(w) \subseteq {r} THEN raced ELSE raced \cup {w}
  <2>1. /\ pc[r] = "write" /\ seen[r] \in [Orders -> Nat] /\ seen[r][q] = 0
        /\ row[q].kind = "TRACK_SPONSOR" /\ issued[q] = 1 /\ status[q] = "paid"
    BY <1>8 DEF UpdateTrack, TypeOK, Bookkeeping, Election, Elected, Ledger
  <2>2. [seen[r] EXCEPT ![q] = @ + 1] = [seen[r] EXCEPT ![q] = 1]
    BY <2>1
  <2> QED
    BY <1>8, <2>1, <2>2 DEF UpdateTrack, Write
<1>6. Copies'
  BY <1>8, <1>9, SponsorAssumption DEF UpdateTrack, End, rowVars, TypeOK, Copies, Readers
<1>7. SettledUnlessCutOrRaced'
  <2> SUFFICES ASSUME NEW o \in Orders, status[o] = "paid", o \notin cut,
                      ~\E s \in Requests : Elected(s)' /\ cur'[s] = o
               PROVE  Settled(o)'
    BY DEF UpdateTrack, SettledUnlessCutOrRaced
  <2>1. CASE o = q
    BY <1>8, <1>9, <2>1 DEF UpdateTrack, Settled, TypeOK
  <2>2. CASE o # q
    <3>1. ~\E s \in Requests : Elected(s) /\ cur[s] = o
      BY <1>8, <2>2 DEF UpdateTrack, End, Elected, TypeOK
    <3>2. Settled(o)
      BY <3>1 DEF SettledUnlessCutOrRaced
    <3>3. row[o].kind = "TRACK_SPONSOR" /\ row[o].track = w =>
            credited'[w][o] = credited[w][o] \/ w \in raced'
      BY <1>8, <1>9, <2>2 DEF UpdateTrack, Copies, TypeOK
    <3> QED
      BY <1>8, <1>9, <3>2, <3>3 DEF UpdateTrack, Settled, TypeOK, Bookkeeping, NoRow, TrackRows,
         SubRows
  <2> QED
    BY <2>1, <2>2
<1> QED
  BY <1>1, <1>2, <1>3, <1>4, <1>5, <1>6, <1>7

\* The term ends SubDays from the day it is computed.
LEMMA ComputeExpiryInv ==
    ASSUME NEW r \in Requests, Inv, ComputeExpiry(r)
    PROVE  Inv'
<1> USE DEF Inv
<1>1. TypeOK'
  BY SponsorAssumption DEF ComputeExpiry, dbVars, rowVars, TypeOK,
     Bookkeeping, NoRow, Nobody, TrackRows, SubRows
<1>2. Bookkeeping'
  BY SponsorAssumption DEF ComputeExpiry, dbVars, rowVars, TypeOK,
     Bookkeeping, NoRow, TrackRows, SubRows
<1>3. Election'
  BY SponsorAssumption DEF ComputeExpiry, dbVars, rowVars, TypeOK,
     Bookkeeping, Election, Elected, GrantedAtMostOnce, IssuedOnlyWhenPaid
<1>4. Ledger'
  BY SponsorAssumption DEF ComputeExpiry, dbVars, rowVars, TypeOK,
     Bookkeeping, Election, Elected, GrantedAtMostOnce, IssuedOnlyWhenPaid,
     Ledger, NeverOverstated, NoRow, TrackRows, SubRows
<1>5. Subscriptions'
  BY SponsorAssumption DEF ComputeExpiry, dbVars, rowVars, TypeOK,
     Bookkeeping, Election, Elected, IssuedOnlyWhenPaid, GrantedAtMostOnce,
     Subscriptions, SubscriptionPaidFor, NoRow, SubRows, TrackRows
<1>6. Copies'
  BY SponsorAssumption DEF ComputeExpiry, dbVars, rowVars, TypeOK,
     Bookkeeping, Election, Elected, Copies, NoRow, TrackRows, SubRows
<1>7. SettledUnlessCutOrRaced'
  BY SponsorAssumption DEF ComputeExpiry, dbVars, rowVars, TypeOK,
     Bookkeeping, Election, Elected, GrantedAtMostOnce, IssuedOnlyWhenPaid,
     SettledUnlessCutOrRaced, Settled, NoRow, TrackRows, SubRows
<1> QED
  BY <1>1, <1>2, <1>3, <1>4, <1>5, <1>6, <1>7

\* The subscription is backed by the order being settled.
LEMMA UpsertSubInv ==
    ASSUME NEW r \in Requests, Inv, UpsertSub(r)
    PROVE  Inv'
<1> USE DEF Inv
<1>1. CASE row[cur[r]].creator \in Users
  <2> DEFINE o == cur[r]
             p == <<row[o].user, row[o].creator>>
  <2>0. /\ o \in Orders
        /\ status[o] = "paid" /\ issued[o] = 0
        /\ row[o].kind = "FAN_SUB" /\ row[o] \in SubRows
        /\ p \in Users \X Creators
        /\ row[o] = [kind |-> "FAN_SUB", user |-> p[1], creator |-> p[2]]
    BY DEF UpsertSub, TypeOK, Bookkeeping, Election, Elected, NoRow, TrackRows, SubRows
  <2>00. /\ subs' = [subs EXCEPT ![p] = expiry[r]]
         /\ issued' = [issued EXCEPT ![o] = 1]
    BY <1>1, <2>0 DEF UpsertSub
  <2>1. TypeOK'
    BY <1>1, <2>0, <2>00, SponsorAssumption DEF UpsertSub, End, rowVars,
       TypeOK, Bookkeeping, NoRow, Nobody, TrackRows, SubRows
  <2>2. Bookkeeping'
    BY <1>1, <2>0, <2>00, SponsorAssumption DEF UpsertSub, End, rowVars,
       TypeOK, Bookkeeping, NoRow, TrackRows, SubRows
  <2>3. Election'
    BY <1>1, <2>0, <2>00, SponsorAssumption DEF UpsertSub, End, rowVars,
       TypeOK, Bookkeeping, Election, Elected, GrantedAtMostOnce,
       IssuedOnlyWhenPaid
  <2>4. Ledger'
    BY <1>1, <2>0, <2>00, SponsorAssumption DEF UpsertSub, End, rowVars,
       TypeOK, Bookkeeping, Election, Elected, GrantedAtMostOnce,
       IssuedOnlyWhenPaid, Ledger, NeverOverstated, NoRow, TrackRows, SubRows
  <2>5. Subscriptions'
    BY <1>1, <2>0, <2>00, SponsorAssumption DEF UpsertSub, End, rowVars,
       TypeOK, Bookkeeping, Election, Elected, IssuedOnlyWhenPaid,
       GrantedAtMostOnce, Subscriptions, SubscriptionPaidFor, NoRow, SubRows,
       TrackRows
  <2>6. Copies'
    BY <1>1, <2>0, <2>00, SponsorAssumption DEF UpsertSub, End, rowVars,
       TypeOK, Bookkeeping, Election, Elected, Copies, NoRow, TrackRows,
       SubRows
  <2>7. SettledUnlessCutOrRaced'
    BY <1>1, <2>0, <2>00, SponsorAssumption DEF UpsertSub, End, rowVars,
       TypeOK, Bookkeeping, Election, Elected, GrantedAtMostOnce,
       IssuedOnlyWhenPaid, SettledUnlessCutOrRaced, Settled, NoRow, TrackRows,
       SubRows
  <2> QED
    BY <2>1, <2>2, <2>3, <2>4, <2>5, <2>6, <2>7
<1>2. CASE row[cur[r]].creator \notin Users
  <2>1. /\ pc[r] # "idle" /\ End(r) /\ cur[r] \in Orders
        /\ UNCHANGED <<dbVars, behaviour, now, rowVars, raced, cut>>
    BY <1>2 DEF UpsertSub, dbVars, TypeOK, Bookkeeping
  <2>2. Settled(cur[r])
    BY <1>2, <2>1 DEF UpsertSub, Settled, Bookkeeping, Election, Elected
  <2> QED
    BY <2>1, <2>2, EndInv DEF TypeOK
<1> QED
  BY <1>1, <1>2

\* A writer that takes or drops a copy disturbs nobody else's.
LEMMA HoldRowInv ==
    ASSUME NEW w \in Writers, NEW t \in Tracks, Inv, HoldRow(w, t)
    PROVE  Inv'
<1> USE DEF Inv
<1>1. TypeOK'
  BY SponsorAssumption DEF HoldRow, dbVars, reqVars, rowVars, TypeOK,
     Bookkeeping, NoRow, Nobody, TrackRows, SubRows
<1>2. Bookkeeping'
  BY SponsorAssumption DEF HoldRow, dbVars, reqVars, rowVars, TypeOK,
     Bookkeeping, NoRow, TrackRows, SubRows
<1>3. Election'
  BY SponsorAssumption DEF HoldRow, dbVars, reqVars, rowVars, TypeOK,
     Bookkeeping, Election, Elected, GrantedAtMostOnce, IssuedOnlyWhenPaid
<1>4. Ledger'
  BY SponsorAssumption DEF HoldRow, dbVars, reqVars, rowVars, TypeOK,
     Bookkeeping, Election, Elected, GrantedAtMostOnce, IssuedOnlyWhenPaid,
     Ledger, NeverOverstated, NoRow, Nobody, TrackRows, SubRows
<1>5. Subscriptions'
  BY SponsorAssumption DEF HoldRow, dbVars, reqVars, rowVars, TypeOK,
     Bookkeeping, Election, Elected, Subscriptions, SubscriptionPaidFor,
     NoRow, SubRows, TrackRows
<1>6. Copies'
  BY SponsorAssumption DEF HoldRow, dbVars, reqVars, rowVars, TypeOK,
     Bookkeeping, Copies, Readers, NoRow, SubRows, TrackRows
<1>7. SettledUnlessCutOrRaced'
  BY SponsorAssumption DEF HoldRow, dbVars, reqVars, rowVars, TypeOK,
     Bookkeeping, Elected, Copies, SettledUnlessCutOrRaced, Settled, Readers,
     NoRow, SubRows, TrackRows
<1> QED
  BY <1>1, <1>2, <1>3, <1>4, <1>5, <1>6, <1>7

\* As for a row taken.
LEMMA DropRowInv ==
    ASSUME NEW w \in Writers, Inv, DropRow(w)
    PROVE  Inv'
<1> USE DEF Inv
<1>1. TypeOK'
  BY SponsorAssumption DEF DropRow, Release, dbVars, reqVars, rowVars, TypeOK,
     Bookkeeping, NoRow, Nobody, TrackRows, SubRows
<1>2. Bookkeeping'
  BY SponsorAssumption DEF DropRow, Release, dbVars, reqVars, rowVars, TypeOK,
     Bookkeeping, NoRow, TrackRows, SubRows
<1>3. Election'
  BY SponsorAssumption DEF DropRow, Release, dbVars, reqVars, rowVars, TypeOK,
     Bookkeeping, Election, Elected, GrantedAtMostOnce, IssuedOnlyWhenPaid
<1>4. Ledger'
  BY SponsorAssumption DEF DropRow, Release, dbVars, reqVars, rowVars, TypeOK,
     Bookkeeping, Election, Elected, GrantedAtMostOnce, IssuedOnlyWhenPaid,
     Ledger, NeverOverstated, NoRow, Nobody, TrackRows, SubRows
<1>5. Subscriptions'
  BY SponsorAssumption DEF DropRow, Release, dbVars, reqVars, rowVars, TypeOK,
     Bookkeeping, Election, Elected, Subscriptions, SubscriptionPaidFor,
     NoRow, SubRows, TrackRows
<1>6. Copies'
  BY SponsorAssumption DEF DropRow, Release, dbVars, reqVars, rowVars, TypeOK,
     Bookkeeping, Copies, Readers, NoRow, SubRows, TrackRows
<1>7. SettledUnlessCutOrRaced'
  BY SponsorAssumption DEF DropRow, Release, dbVars, reqVars, rowVars, TypeOK,
     Bookkeeping, Elected, Copies, SettledUnlessCutOrRaced, Settled, Readers,
     NoRow, SubRows, TrackRows
<1> QED
  BY <1>1, <1>2, <1>3, <1>4, <1>5, <1>6, <1>7

\* The row written back is as sound as the one in the table; an amount is only lost
\* where two copies overlapped.
LEMMA WriteRowInv ==
    ASSUME NEW w \in Writers, Inv, WriteRow(w)
    PROVE  Inv'
<1> USE DEF Inv
<1>1. TypeOK'
  BY SponsorAssumption DEF WriteRow, Write, Release, reqVars, rowVars, TypeOK,
     Bookkeeping, NoRow, Nobody, TrackRows, SubRows
<1>2. Bookkeeping'
  BY SponsorAssumption DEF WriteRow, Write, Release, reqVars, rowVars, TypeOK,
     Bookkeeping, NoRow, TrackRows, SubRows
<1>3. Election'
  BY SponsorAssumption DEF WriteRow, Write, Release, reqVars, rowVars, TypeOK,
     Bookkeeping, Election, Elected, GrantedAtMostOnce, IssuedOnlyWhenPaid
<1>4. Ledger'
  BY SponsorAssumption DEF WriteRow, Write, Release, reqVars, rowVars, TypeOK,
     Bookkeeping, Election, Elected, GrantedAtMostOnce, IssuedOnlyWhenPaid,
     Ledger, NeverOverstated, NoRow, Nobody, TrackRows, SubRows
<1>5. Subscriptions'
  BY SponsorAssumption DEF WriteRow, Write, Release, reqVars, rowVars, TypeOK,
     Bookkeeping, Election, Elected, Subscriptions, SubscriptionPaidFor,
     NoRow, SubRows, TrackRows
<1>6. Copies'
  BY SponsorAssumption DEF WriteRow, Write, Release, reqVars, rowVars, TypeOK,
     Bookkeeping, Copies, Readers, NoRow, SubRows, TrackRows
<1>7. SettledUnlessCutOrRaced'
  BY SponsorAssumption DEF WriteRow, Write, Release, reqVars, rowVars, TypeOK,
     Bookkeeping, Elected, Copies, SettledUnlessCutOrRaced, Settled, Readers,
     NoRow, SubRows, TrackRows
<1> QED
  BY <1>1, <1>2, <1>3, <1>4, <1>5, <1>6, <1>7

\* The requests are gone, the tables stay.
LEMMA RestartInv ==
    ASSUME Inv, Restart
    PROVE  Inv'
<1> USE DEF Inv
<1>0. cut' \in SUBSET Orders
  BY SponsorAssumption DEF Restart, TypeOK, Bookkeeping, Elected
<1>1. TypeOK'
  BY <1>0, SponsorAssumption DEF Restart, dbVars, rowVars, TypeOK, Bookkeeping,
     NoRow, Nobody, TrackRows, SubRows
<1>2. Bookkeeping'
  BY SponsorAssumption DEF Restart, dbVars, rowVars, TypeOK, Bookkeeping,
     NoRow, TrackRows, SubRows
<1>3. Election'
  BY SponsorAssumption DEF Restart, dbVars, rowVars, TypeOK, Bookkeeping,
     Election, Elected, GrantedAtMostOnce, IssuedOnlyWhenPaid
<1>4. Ledger'
  <2>1. \A w \in Writers, o \in Orders : copy'[w][o] = 0
    BY DEF Restart, Nobody
  <2>2. \A s \in Requests : pc'[s] = "idle"
    BY DEF Restart
  <2>3. NeverOverstated'
    BY DEF Restart, dbVars, Ledger, NeverOverstated
  <2> QED
    BY <2>1, <2>2, <2>3 DEF Ledger
<1>5. Subscriptions'
  BY SponsorAssumption DEF Restart, dbVars, rowVars, TypeOK, Bookkeeping,
     Election, Elected, IssuedOnlyWhenPaid, GrantedAtMostOnce, Subscriptions,
     SubscriptionPaidFor, NoRow, SubRows, TrackRows
<1>6. Copies'
  BY SponsorAssumption DEF Restart, dbVars, rowVars, TypeOK, Bookkeeping,
     Election, Elected, Copies, NoRow, TrackRows, SubRows
<1>7. SettledUnlessCutOrRaced'
  BY SponsorAssumption DEF Restart, dbVars, rowVars, TypeOK, Bookkeeping,
     Election, Elected, GrantedAtMostOnce, IssuedOnlyWhenPaid,
     SettledUnlessCutOrRaced, Settled, NoRow, TrackRows, SubRows
<1> QED
  BY <1>1, <1>2, <1>3, <1>4, <1>5, <1>6, <1>7

\* Time moves away from every expiry.
LEMMA TickInv ==
    ASSUME Inv, Tick
    PROVE  Inv'
<1> USE DEF Inv
<1>1. TypeOK'
  BY SponsorAssumption DEF Tick, dbVars, reqVars, rowVars, TypeOK,
     Bookkeeping, NoRow, Nobody, TrackRows, SubRows
<1>2. Bookkeeping'
  BY SponsorAssumption DEF Tick, dbVars, reqVars, rowVars, TypeOK,
     Bookkeeping, NoRow, TrackRows, SubRows
<1>3. Election'
  BY SponsorAssumption DEF Tick, dbVars, reqVars, rowVars, TypeOK,
     Bookkeeping, Election, Elected, GrantedAtMostOnce, IssuedOnlyWhenPaid
<1>4. Ledger'
  BY SponsorAssumption DEF Tick, dbVars, reqVars, rowVars, TypeOK,
     Bookkeeping, Election, Elected, GrantedAtMostOnce, IssuedOnlyWhenPaid,
     Ledger, NeverOverstated, NoRow, TrackRows, SubRows
<1>5. Subscriptions'
  BY SponsorAssumption DEF Tick, dbVars, reqVars, rowVars, TypeOK,
     Bookkeeping, Election, Elected, IssuedOnlyWhenPaid, GrantedAtMostOnce,
     Subscriptions, SubscriptionPaidFor, NoRow, SubRows, TrackRows
<1>6. Copies'
  BY SponsorAssumption DEF Tick, dbVars, reqVars, rowVars, TypeOK,
     Bookkeeping, Election, Elected, Copies, NoRow, TrackRows, SubRows
<1>7. SettledUnlessCutOrRaced'
  BY SponsorAssumption DEF Tick, dbVars, reqVars, rowVars, TypeOK,
     Bookkeeping, Election, Elected, GrantedAtMostOnce, IssuedOnlyWhenPaid,
     SettledUnlessCutOrRaced, Settled, NoRow, TrackRows, SubRows
<1> QED
  BY <1>1, <1>2, <1>3, <1>4, <1>5, <1>6, <1>7

-----------------------------------------------------------------------------

\* No request, no order, no count.
LEMMA InitInv == Init => Inv
  BY SponsorAssumption DEF Init, Inv, TypeOK, Bookkeeping, Election, Elected, Ledger,
     Subscriptions, GrantedAtMostOnce, IssuedOnlyWhenPaid, NeverOverstated,
     SubscriptionPaidFor, Copies, SettledUnlessCutOrRaced, Nobody, NoRow

\* Every step preserves the invariant: the lemmas above, action by action.
LEMMA NextInv == Inv /\ [Next]_vars => Inv'
<1> SUFFICES ASSUME Inv, [Next]_vars PROVE Inv'
  OBVIOUS
<1>1. ASSUME NEW r \in Requests, Checkout(r) PROVE Inv'
  BY <1>1, CreateTrackSponsorInv, CreateFanSubInv DEF Checkout
<1>2. ASSUME NEW r \in Requests, NEW o \in Orders, Callback(r, o) PROVE Inv'
  BY <1>2, CallbackInv
<1>3. ASSUME NEW r \in Requests, Step(r) PROVE Inv'
  BY <1>3, ChargeInv, MarkOrderPaidInv, CreateGrantInv, ReadTrackInv, UpdateTrackInv,
     ComputeExpiryInv, UpsertSubInv DEF Step
<1>4. ASSUME NEW r \in Requests, CallFails(r) PROVE Inv'
  <2>1. pc[r] # "idle" /\ cur[r] \in Orders
    BY <1>4, SponsorAssumption DEF CallFails, Inv, TypeOK, Bookkeeping
  <2>2. cut' = IF Elected(r) THEN cut \cup {cur[r]} ELSE cut
    BY <1>4 DEF CallFails
  <2>3. /\ cut' \in SUBSET Orders /\ cut \subseteq cut'
        /\ Elected(r) => cur[r] \in cut'
    BY <2>1, <2>2 DEF Inv, TypeOK
  <2> QED
    BY <1>4, <2>1, <2>3, EndInv DEF CallFails
<1>5. CASE Restart
  BY <1>5, RestartInv
<1>8. ASSUME NEW w \in Writers, WriteRow(w) \/ DropRow(w) \/ \E t \in Tracks : HoldRow(w, t)
      PROVE  Inv'
  BY <1>8, HoldRowInv, WriteRowInv, DropRowInv
<1>6. CASE Tick
  BY <1>6, TickInv
<1>7. CASE UNCHANGED vars
  BY <1>7 DEF Inv, TypeOK, Bookkeeping, Election, Elected, Ledger, Subscriptions,
     GrantedAtMostOnce, IssuedOnlyWhenPaid, NeverOverstated, SubscriptionPaidFor,
     Copies, SettledUnlessCutOrRaced, Settled, vars, dbVars, reqVars, rowVars
<1> QED
  BY <1>1, <1>2, <1>3, <1>4, <1>5, <1>6, <1>7, <1>8 DEF Next

\* The election of one request per order is an invariant of the server, whatever
\* callbacks arrive, whatever calls fail and whenever the process stops.
THEOREM Invariance == Spec => []Inv
<1> QED
  BY InitInv, NextInv, PTL DEF Spec

\* Every variable of the checkout keeps its type.
THEOREM TypeCorrect == Spec => []TypeOK
<1>1. Inv => TypeOK
  BY DEF Inv
<1> QED
  BY <1>1, Invariance, PTL

\* "same orderNo only grants once" (sponsor.go:107), for any number of orders,
\* requests and callbacks.
THEOREM AtMostOneGrant == Spec => []GrantedAtMostOnce
<1>1. Inv => GrantedAtMostOnce
  BY DEF Inv, Election
<1> QED
  BY <1>1, Invariance, PTL

\* Nothing is delivered before MarkOrderPaid is committed.
THEOREM NothingBeforePayment == Spec => []IssuedOnlyWhenPaid
<1>1. Inv => IssuedOnlyWhenPaid
  BY DEF Inv, Election
<1> QED
  BY <1>1, Invariance, PTL

\* However the read-modify-writes of a track row interleave, sponsor_cents holds
\* no amount twice and none that was not paid.
THEOREM TotalsNeverOverstated == Spec => []NeverOverstated
<1>1. Inv => NeverOverstated
  BY DEF Inv, Ledger
<1> QED
  BY <1>1, Invariance, PTL

\* Every subscription row stems from a paid order and ends within one term.
THEOREM SubscriptionsArePaidFor == Spec => []SubscriptionPaidFor
<1>1. Inv => SubscriptionPaidFor
  BY DEF Inv, Subscriptions
<1> QED
  BY <1>1, Invariance, PTL

\* For any number of orders, requests, callbacks and writers of the row, with failing
\* calls and restarts: a paid order is delivered and counted in its work's total unless
\* its own request was cut off, or two copies of the work's row overlapped.
THEOREM AmountsAreKept == Spec => []SettledUnlessCutOrRaced
<1>1. Inv => SettledUnlessCutOrRaced
  BY DEF Inv
<1> QED
  BY <1>1, Invariance, PTL

-----------------------------------------------------------------------------
(* Every step of the server is a step of Fulfilment: the lemmas say what each  *)
(* kind of step does to the stage of every order.                              *)

\* The stage of an order, case by case.
LEMMA StageCases ==
    ASSUME NEW o \in Orders
    PROVE  /\ status[o] # "paid" => Stage(o) = status[o]
           /\ status[o] = "paid" /\ issued[o] > 0 => Stage(o) = "delivered"
           /\ status[o] = "paid" /\ ~(issued[o] > 0) /\ BeingDelivered(o) => Stage(o) = "settling"
           /\ status[o] = "paid" /\ ~(issued[o] > 0) /\ ~BeingDelivered(o) => Stage(o) = "stranded"
  BY DEF Stage

\* The same in the next state.
LEMMA StageCasesNext ==
    ASSUME NEW o \in Orders
    PROVE  /\ status'[o] # "paid" => Stage(o)' = status'[o]
           /\ status'[o] = "paid" /\ issued'[o] > 0 => Stage(o)' = "delivered"
           /\ status'[o] = "paid" /\ ~(issued'[o] > 0) /\ BeingDelivered(o)' => Stage(o)' = "settling"
           /\ status'[o] = "paid" /\ ~(issued'[o] > 0) /\ ~BeingDelivered(o)' => Stage(o)' = "stranded"
  BY DEF Stage

\* An order keeps its stage when its row, its count and the requests delivering
\* it stay as they are.
LEMMA StageKept ==
    ASSUME NEW o \in Orders, status'[o] = status[o], issued'[o] = issued[o],
           BeingDelivered(o)' <=> BeingDelivered(o)
    PROVE  Stage(o)' = Stage(o)
  BY DEF Stage

\* Stages that do not move make the mapped state stutter.
LEMMA SameStages ==
    ASSUME \A o \in Orders : Stage(o)' = Stage(o)
    PROVE  [o \in Orders |-> Stage(o)]' = [o \in Orders |-> Stage(o)]
  OBVIOUS

\* One order that moves along an edge of the life cycle is a step of it.
LEMMA OneStageMoves ==
    ASSUME NEW q \in Orders, NEW from, NEW to,
           Stage(q) = from, Stage(q)' = to,
           \A o \in Orders \ {q} : Stage(o)' = Stage(o),
           \/ from = "absent" /\ to = "pending"
           \/ from = "pending" /\ to \in {"settling", "stranded"}
           \/ from = "settling" /\ to = "delivered"
    PROVE  Promise!Next
<1> DEFINE stg == [o \in Orders |-> Stage(o)]
<1>1. stg[q] = from /\ stg' = [stg EXCEPT ![q] = to]
  OBVIOUS
<1>2. CASE from = "absent" /\ to = "pending"
  <2>1. Promise!Place(q)
    BY <1>1, <1>2 DEF Promise!Place, Promise!Become
  <2> QED
    BY <2>1 DEF Promise!Next
<1>3. CASE from = "pending" /\ to = "settling"
  <2>1. Promise!Pay(q)
    BY <1>1, <1>3 DEF Promise!Pay, Promise!Become
  <2> QED
    BY <2>1 DEF Promise!Next
<1>4. CASE from = "pending" /\ to = "stranded"
  <2>1. Promise!PayAndStrand(q)
    BY <1>1, <1>4 DEF Promise!PayAndStrand, Promise!Become
  <2> QED
    BY <2>1 DEF Promise!Next
<1>5. CASE from = "settling" /\ to = "delivered"
  <2>1. Promise!Deliver(q)
    BY <1>1, <1>5 DEF Promise!Deliver, Promise!Become
  <2> QED
    BY <2>1 DEF Promise!Next
<1> QED
  BY <1>2, <1>3, <1>4, <1>5

\* Settling orders that lose their request all at once are a step of it too.
LEMMA StagesStrand ==
    ASSUME NEW S \in SUBSET Orders,
           \A o \in S : Stage(o) = "settling" /\ Stage(o)' = "stranded",
           \A o \in Orders \ S : Stage(o)' = Stage(o)
    PROVE  Promise!Next
<1> DEFINE stg == [o \in Orders |-> Stage(o)]
<1>1. S \in SUBSET {o \in Orders : stg[o] = "settling"}
  OBVIOUS
<1>2. stg' = [o \in Orders |-> IF o \in S THEN "stranded" ELSE stg[o]]
  OBVIOUS
<1>3. Promise!Strand
  BY <1>1, <1>2 DEF Promise!Strand
<1> QED
  BY <1>3 DEF Promise!Next

\* A step of one request leaves the orders it is not delivering, before or after, to the
\* others.
LEMMA OthersDeliver ==
    ASSUME NEW r \in Requests, NEW o \in Orders,
           \A s \in Requests \ {r} : pc'[s] = pc[s] /\ cur'[s] = cur[s],
           o # cur[r] \/ pc[r] \notin Delivering,
           o # cur'[r] \/ pc'[r] \notin Delivering
    PROVE  BeingDelivered(o)' <=> BeingDelivered(o)
<1>1. BeingDelivered(o)' <=> \E s \in Requests \ {r} : cur'[s] = o /\ pc'[s] \in Delivering
  BY DEF BeingDelivered, Delivering
<1>2. BeingDelivered(o) <=> \E s \in Requests \ {r} : cur[s] = o /\ pc[s] \in Delivering
  BY DEF BeingDelivered
<1> QED
  BY <1>1, <1>2

\* Both kinds of checkout insert one order.
LEMMA CheckoutInserts ==
    ASSUME NEW r \in Requests, Checkout(r)
    PROVE  \E o \in Orders : \E columns : InsertOrder(r, o, columns)
<1>1. PICK o \in Orders, u \in Users :
        \/ \E t \in Tracks, amount \in Amounts : CreateTrackSponsor(r, o, u, t, amount)
        \/ \E c \in Creators : CreateFanSub(r, o, u, c)
  BY DEF Checkout
<1> QED
  BY <1>1 DEF CreateTrackSponsor, CreateFanSub

\* With no orders, every stage is "absent".
LEMMA InitRefines == Init => Promise!Init
  BY DEF Init, Promise!Init, Stage

\* Each action moves one order along an edge, strands some, or moves none.
LEMMA StepRefines ==
    ASSUME Inv, [Next]_vars
    PROVE  [Promise!Next]_([o \in Orders |-> Stage(o)])
<1> USE DEF Inv, TypeOK, Bookkeeping, Election, Elected, IssuedOnlyWhenPaid
<1> DEFINE Same == \A o \in Orders : Stage(o)' = Stage(o)
<1>1. ASSUME NEW r \in Requests, NEW o \in Orders, NEW columns,
             InsertOrder(r, o, columns) PROVE Promise!Next
  <2>1. Stage(o) = "absent" /\ Stage(o)' = "pending"
    BY <1>1, StageCases, StageCasesNext DEF InsertOrder
  <2>2. \A q \in Orders \ {o} : Stage(q)' = Stage(q)
    BY <1>1, StageKept DEF InsertOrder, BeingDelivered, Delivering
  <2> QED
    BY <2>1, <2>2, OneStageMoves
<1>2. ASSUME NEW r \in Requests, Checkout(r) PROVE Promise!Next
  <2>1. PICK o \in Orders : \E columns : InsertOrder(r, o, columns)
    BY <1>2, CheckoutInserts
  <2>2. PICK columns : InsertOrder(r, o, columns)
    BY <2>1
  <2> QED
    BY <1>1, <2>2
<1>3. ASSUME NEW r \in Requests, pc[r] \notin Delivering, pc'[r] \notin Delivering,
             \A s \in Requests \ {r} : pc'[s] = pc[s] /\ cur'[s] = cur[s],
             status' = status, issued' = issued
      PROVE  Same
  <2> SUFFICES ASSUME NEW o \in Orders PROVE BeingDelivered(o)' <=> BeingDelivered(o)
    BY <1>3, StageKept
  <2> QED
    BY <1>3 DEF BeingDelivered
<1>4. ASSUME NEW r \in Requests,
             \/ Charge(r) \/ ReadTrack(r) \/ UpdateTrack(r)
             \/ \E o \in Orders : Callback(r, o)
      PROVE  Same
  <2>1. CASE Charge(r)
    <3>1. /\ pc[r] \notin Delivering /\ pc'[r] \notin Delivering
          /\ \A s \in Requests \ {r} : pc'[s] = pc[s] /\ cur'[s] = cur[s]
          /\ status' = status /\ issued' = issued
      BY <2>1 DEF Charge, Goto, End, dbVars, Delivering
    <3> QED
      BY <1>3, <3>1
  <2>2. CASE ReadTrack(r)
    BY <1>3, <2>2 DEF ReadTrack, dbVars, Delivering
  <2>4. CASE UpdateTrack(r)
    BY <1>3, <2>4 DEF UpdateTrack, End, Delivering
  <2>3. CASE \E o \in Orders : Callback(r, o)
    <3>1. /\ pc[r] \notin Delivering /\ pc'[r] \notin Delivering
          /\ \A s \in Requests \ {r} : pc'[s] = pc[s] /\ cur'[s] = cur[s]
          /\ status' = status /\ issued' = issued
      BY <2>3 DEF Callback, dbVars, Delivering
    <3> QED
      BY <1>3, <3>1
  <2> QED
    BY <1>4, <2>1, <2>2, <2>3, <2>4
<1>5. ASSUME NEW r \in Requests, ComputeExpiry(r) PROVE Same
  <2> SUFFICES ASSUME NEW o \in Orders PROVE BeingDelivered(o)' <=> BeingDelivered(o)
    BY <1>5, StageKept DEF ComputeExpiry, dbVars
  <2> QED
    BY <1>5 DEF ComputeExpiry, BeingDelivered, Delivering
<1>6. ASSUME NEW r \in Requests, MarkOrderPaid(r) PROVE Same \/ Promise!Next
  <2> PICK q \in Orders : q = cur[r]
    BY <1>6 DEF MarkOrderPaid
  <2>1. CASE status[q] = "paid"
    <3>1. status' = status /\ End(r)
      BY <1>6, <2>1 DEF MarkOrderPaid
    <3> QED
      BY <1>3, <1>6, <3>1 DEF MarkOrderPaid, End, Delivering
  <2>2. CASE status[q] # "paid"
    <3>1. Stage(q) = "pending"
      BY <1>6, <2>2, StageCases DEF MarkOrderPaid
    <3>2. /\ pc[r] \notin Delivering
          /\ \A s \in Requests \ {r} : pc'[s] = pc[s] /\ cur'[s] = cur[s]
          /\ cur'[r] \in {q, NoOrder}
      BY <1>6, <2>2 DEF MarkOrderPaid, Answered, Goto, End, Delivering
    <3>3. ASSUME NEW o \in Orders \ {q} PROVE BeingDelivered(o)' <=> BeingDelivered(o)
      <4>1. o # q /\ o # cur[r] /\ o # cur'[r]
        BY <3>2, SponsorAssumption
      <4> QED
        BY <3>2, <4>1, OthersDeliver
    <3>4. \A o \in Orders \ {q} : Stage(o)' = Stage(o)
      BY <1>6, <3>3, StageKept DEF MarkOrderPaid
    <3>5. status'[q] = "paid" /\ ~(issued'[q] > 0)
      BY <1>6, <2>2 DEF MarkOrderPaid
    <3>6. Stage(q)' = "settling" \/ Stage(q)' = "stranded"
      BY <3>5, StageCasesNext
    <3> QED
      BY <3>1, <3>4, <3>6, OneStageMoves
  <2> QED
    BY <2>1, <2>2
<1>7. ASSUME NEW r \in Requests, NEW q \in Orders, q = cur[r], pc[r] \in Delivering,
             pc' = [pc EXCEPT ![r] = pc'[r]], pc'[r] \notin Delivering,
             cur' = [cur EXCEPT ![r] = cur'[r]], status' = status
      PROVE  /\ Stage(q) = "settling"
             /\ \A o \in Orders \ {q} : issued'[o] = issued[o] => Stage(o)' = Stage(o)
             /\ ~BeingDelivered(q)'
  <2>1. Stage(q) = "settling"
    BY <1>7, StageCases DEF BeingDelivered, Delivering
  <2>2. ASSUME NEW o \in Orders \ {q} PROVE BeingDelivered(o)' <=> BeingDelivered(o)
    <3>1. \A s \in Requests \ {r} : pc'[s] = pc[s] /\ cur'[s] = cur[s]
      BY <1>7
    <3>2. o # cur[r] /\ pc'[r] \notin Delivering
      BY <1>7
    <3> QED
      BY <3>1, <3>2, OthersDeliver
  <2>3. ~BeingDelivered(q)'
    <3> SUFFICES ASSUME NEW s \in Requests, cur'[s] = q, pc'[s] \in Delivering PROVE FALSE
      BY DEF BeingDelivered
    <3>1. s # r
      BY <1>7
    <3>2. cur[s] = q /\ pc[s] \in Delivering
      BY <1>7, <3>1
    <3>3. Elected(s) /\ Elected(r) /\ cur[s] = cur[r]
      BY <1>7, <3>2 DEF Delivering
    <3> QED
      BY <3>1, <3>3
  <2> QED
    BY <1>7, <2>1, <2>2, <2>3, StageKept
<1>8. ASSUME NEW r \in Requests, CreateGrant(r) PROVE Promise!Next
  <2> PICK q \in Orders : q = cur[r]
    BY <1>8 DEF CreateGrant
  <2>1. /\ pc' = [pc EXCEPT ![r] = pc'[r]] /\ pc'[r] \notin Delivering
        /\ cur' = [cur EXCEPT ![r] = cur'[r]] /\ status' = status
        /\ pc[r] \in Delivering
        /\ issued' = [issued EXCEPT ![q] = @ + 1]
    BY <1>8 DEF CreateGrant, Answered, Goto, End, Delivering
  <2>2. Stage(q) = "settling" /\ \A o \in Orders \ {q} : Stage(o)' = Stage(o)
    BY <1>7, <2>1
  <2>3. Stage(q)' = "delivered"
    BY <1>8, <2>1, StageCasesNext DEF CreateGrant
  <2> QED
    BY <2>2, <2>3, OneStageMoves
<1>9. ASSUME NEW r \in Requests, End(r), status' = status, issued' = issued
      PROVE  Same \/ Promise!Next
  <2>1. CASE pc[r] \notin Delivering
    BY <1>3, <1>9, <2>1 DEF End, Delivering
  <2>2. CASE pc[r] \in Delivering
    <3> PICK q \in Orders : q = cur[r]
      BY <2>2 DEF Delivering
    <3>1. /\ pc' = [pc EXCEPT ![r] = pc'[r]] /\ pc'[r] \notin Delivering
          /\ cur' = [cur EXCEPT ![r] = cur'[r]]
      BY <1>9 DEF End, Delivering
    <3>2. /\ Stage(q) = "settling" /\ ~BeingDelivered(q)'
          /\ \A o \in Orders \ {q} : Stage(o)' = Stage(o)
      BY <1>7, <1>9, <2>2, <3>1
    <3>3. Stage(q)' = "stranded"
      BY <1>9, <2>2, <3>2, StageCasesNext DEF Delivering
    <3>4. \A o \in {q} : Stage(o) = "settling" /\ Stage(o)' = "stranded"
      BY <3>2, <3>3
    <3>5. {q} \in SUBSET Orders /\ \A o \in Orders \ {q} : Stage(o)' = Stage(o)
      BY <3>2
    <3> QED
      BY <3>4, <3>5, StagesStrand
  <2> QED
    BY <2>1, <2>2
<1>10. ASSUME NEW r \in Requests, UpsertSub(r) PROVE Same \/ Promise!Next
  <2> PICK q \in Orders : q = cur[r]
    BY <1>10 DEF UpsertSub
  <2>1. CASE row[q].creator \in Users
    <3>1. /\ pc' = [pc EXCEPT ![r] = pc'[r]] /\ pc'[r] \notin Delivering
          /\ cur' = [cur EXCEPT ![r] = cur'[r]] /\ status' = status
          /\ pc[r] \in Delivering
          /\ issued' = [issued EXCEPT ![q] = @ + 1]
      BY <1>10, <2>1 DEF UpsertSub, End, Delivering
    <3>2. Stage(q) = "settling" /\ \A o \in Orders \ {q} : Stage(o)' = Stage(o)
      BY <1>7, <3>1
    <3>3. Stage(q)' = "delivered"
      BY <1>10, <3>1, StageCasesNext DEF UpsertSub
    <3> QED
      BY <3>2, <3>3, OneStageMoves
  <2>2. CASE row[q].creator \notin Users
    BY <1>9, <1>10, <2>2 DEF UpsertSub
  <2> QED
    BY <2>1, <2>2
<1>11. CASE Restart
  <2>0. PICK S \in SUBSET Orders : S = {o \in Orders : Stage(o) = "settling"}
    OBVIOUS
  <2>1. \A o \in Orders : ~BeingDelivered(o)'
    BY <1>11 DEF Restart, BeingDelivered, Delivering
  <2>2. ASSUME NEW o \in S PROVE status[o] = "paid" /\ ~(issued[o] > 0)
    <3>1. status[o] # "settling" /\ Stage(o) = "settling"
      BY <2>0
    <3> QED
      BY <3>1, StageCases
  <2>3. \A o \in S : Stage(o)' = "stranded"
    BY <1>11, <2>1, <2>2, StageCasesNext DEF Restart, dbVars
  <2>4. ASSUME NEW o \in Orders \ S PROVE Stage(o)' = Stage(o)
    <3>1. Stage(o) # "settling" /\ ~BeingDelivered(o)'
      BY <2>0, <2>1
    <3>2. status' = status /\ issued' = issued
      BY <1>11 DEF Restart, dbVars
    <3> QED
      BY <3>1, <3>2 DEF Stage
  <2> QED
    BY <2>0, <2>3, <2>4, StagesStrand
<1>12. CASE Tick \/ UNCHANGED vars
            \/ \E w \in Writers : WriteRow(w) \/ DropRow(w) \/ \E t \in Tracks : HoldRow(w, t)
  <2>1. \A o \in Orders : BeingDelivered(o)' <=> BeingDelivered(o)
    BY <1>12 DEF Tick, HoldRow, WriteRow, DropRow, vars, dbVars, reqVars, BeingDelivered
  <2> QED
    BY <1>12, <2>1, StageKept, SameStages
       DEF Tick, HoldRow, WriteRow, DropRow, vars, dbVars, reqVars
<1> QED
  <2>1. Same => [o \in Orders |-> Stage(o)]' = [o \in Orders |-> Stage(o)]
    BY SameStages
  <2>2. ASSUME NEW r \in Requests, CallFails(r) PROVE Same \/ Promise!Next
    BY <1>9, <2>2 DEF CallFails, dbVars
  <2>3. ASSUME NEW r \in Requests, Step(r) PROVE Same \/ Promise!Next
    BY <1>4, <1>5, <1>6, <1>8, <1>10, <2>3 DEF Step
  <2> QED
    BY <1>2, <1>4, <1>11, <1>12, <2>1, <2>2, <2>3 DEF Next

\* Fulfilment is implemented: an order is paid once, settled once, and never
\* comes back from "delivered" or "stranded".
THEOREM Refinement == Spec => ImplementsPromise
<1>1. Inv /\ [Next]_vars => [Promise!Next]_([o \in Orders |-> Stage(o)])
  BY StepRefines
<1> QED
  BY <1>1, InitRefines, Invariance, PTL DEF Spec, ImplementsPromise, Promise!Spec
=============================================================================
