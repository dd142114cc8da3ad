---------------------------- MODULE TicketsProofs ----------------------------
(***************************************************************************)
(* Proofs about Tickets, for any number of tickets and requests, any file, *)
(* any limits and any faults.  Inv is inductive: the copy of the row that  *)
(* Download keeps during the transfer only ever lags behind the row, and   *)
(* not even that while the ticket is not shared; and the requests past the *)
(* daily check are bounded by the slots.                                   *)
(***************************************************************************)
EXTENDS Tickets, FiniteSetTheorems, TLAPS

-----------------------------------------------------------------------------
(* Arithmetic and counting *)

\* The threshold of a completed download is a byte count.
LEMMA ThresholdType == Threshold \in Nat
  BY TicketsAssumption DEF Threshold

\* A set of requests is finite, and a request joining or leaving it moves its
\* cardinality by one.
LEMMA Counting ==
    ASSUME NEW S \in SUBSET Requests, NEW r \in Requests
    PROVE  /\ Cardinality(S) \in Nat
           /\ r \notin S => Cardinality(S \cup {r}) = Cardinality(S) + 1
           /\ r \in S => Cardinality(S \ {r}) = Cardinality(S) - 1
<1>1. IsFiniteSet(S)
  BY TicketsAssumption, FS_Subset
<1> QED
  BY <1>1, FS_CardinalityType, FS_AddElement, FS_RemoveElement

\* A smaller set of requests has the smaller cardinality.
LEMMA CountingSubset ==
    ASSUME NEW S \in SUBSET Requests, NEW T \in SUBSET S
    PROVE  /\ Cardinality(T) \in Nat /\ Cardinality(S) \in Nat
           /\ Cardinality(T) <= Cardinality(S)
<1>1. IsFiniteSet(S) /\ IsFiniteSet(T)
  BY TicketsAssumption, FS_Subset
<1> QED
  BY <1>1, FS_Subset, FS_CardinalityType

\* The bounds on slots and on the daily counter survive any step after which
\* fewer requests, or the same ones, hold a slot and the counter is no higher.
LEMMA BoundsShrink ==
    ASSUME Inv, day' \in Nat, day' <= day,
           Holding' \subseteq Holding, Admitted' \subseteq Admitted
    PROVE  SlotsHold' /\ InFlight'
<1>1. Holding \in SUBSET Requests /\ Admitted \in SUBSET Requests
  BY DEF Holding, Admitted
<1>2. /\ Cardinality(Holding') \in Nat /\ Cardinality(Holding) \in Nat
      /\ Cardinality(Holding') <= Cardinality(Holding)
  BY <1>1, CountingSubset
<1>3. /\ Cardinality(Admitted') \in Nat /\ Cardinality(Admitted) \in Nat
      /\ Cardinality(Admitted') <= Cardinality(Admitted)
  BY <1>1, CountingSubset
<1>4. day \in Nat /\ DailyLimit \in Nat /\ MaxConc \in Nat
  BY TicketsAssumption DEF Inv, TypeOK
<1> QED
  BY <1>2, <1>3, <1>4 DEF Inv, SlotsHold, InFlight

-----------------------------------------------------------------------------
(* Ranges *)

\* The positions in the file that a header asks for.
Asked(h) ==
    {i \in 0 .. (Size - 1) :
        IF h.first = Missing THEN h.last # Missing /\ i >= Size - h.last
        ELSE i >= h.first /\ (h.last = Missing \/ i <= h.last)}

\* Both numbers of a header are missing or natural.
LEMMA HeaderType ==
    ASSUME NEW h \in Headers
    PROVE  h.first \in Nat \cup {Missing} /\ h.last \in Nat \cup {Missing}
  BY TicketsAssumption

\* A request that moved nothing accounts for at least one byte and for no more
\* than the file.
LEMMA RangeLength ==
    ASSUME NEW h \in Headers
    PROVE  BytesOfRange(h) \in Nat /\ 1 <= BytesOfRange(h) /\ BytesOfRange(h) <= Size
<1>1. h.first \in Nat \cup {-1} /\ h.last \in Nat \cup {-1} /\ Size \in Nat /\ Size >= 1
  BY HeaderType, TicketsAssumption DEF Missing
<1> QED
  BY <1>1 DEF BytesOfRange, RangeOk, RangeStart, RangeEnd, Missing

-----------------------------------------------------------------------------
(* One lemma per action: it preserves Inv. *)

\* Nothing is recorded for any ticket in the initial state.
LEMMA InitInv == Init => Inv
<1> SUFFICES ASSUME Init PROVE Inv
  OBVIOUS
<1>1. TypeOK
  BY TicketsAssumption DEF Init, TypeOK
<1>2. CopiesLag /\ UsesMeanBytes /\ CopiesStand /\ UnsizedIsDone
  BY TicketsAssumption DEF Init, CopiesLag, UsesMeanBytes, CopiesStand, UnsizedIsDone
<1>3. Holding = {} /\ Admitted = {}
  BY DEF Init, Holding, Admitted
<1>4. SlotsHold /\ InFlight
  BY <1>3, FS_EmptySet, TicketsAssumption DEF Init, SlotsHold, InFlight
<1>5. ChargedOnce
  BY DEF Init, ChargedOnce
<1> QED
  BY <1>1, <1>2, <1>4, <1>5 DEF Inv

\* A request that begins copies the row as it stands and holds no slot yet.
LEMMA BeginInv ==
    ASSUME NEW r \in Requests, NEW k \in Nonces, Inv, Begin(r, k)
    PROVE  Inv'
<1>1. TypeOK'
  BY DEF Begin, Inv, TypeOK, rows
<1>2. CopiesLag'
  BY DEF Begin, Inv, TypeOK, CopiesLag, rows
<1>3. UsesMeanBytes'
  BY DEF Begin, Inv, UsesMeanBytes, Completed, rows
<1>4. Holding' \subseteq Holding /\ Admitted' \subseteq Admitted
  BY DEF Begin, Inv, TypeOK, Holding, Admitted
<1>5. SlotsHold' /\ InFlight'
  BY <1>4, BoundsShrink DEF Begin, Inv, TypeOK
<1>6. CopiesStand'
  BY TicketsAssumption DEF Begin, Inv, TypeOK, CopiesStand, rows
<1>7. ChargedOnce'
  BY DEF Begin, Inv, ChargedOnce, Completed, rows
<1>8. UnsizedIsDone'
  <2>1. unsized' \subseteq unsized \cup {r}
        /\ (r \in unsized' \ unsized => uses[k] >= MaxUses)
    BY DEF Begin, SizeKnown
  <2>2. uses[k] >= MaxUses => Completed(bytes[k])
    BY TicketsAssumption DEF Inv, TypeOK, UsesMeanBytes
  <2> QED
    BY <2>1, <2>2 DEF Begin, Inv, TypeOK, UnsizedIsDone, Completed
<1> QED
  BY <1>1, <1>2, <1>3, <1>5, <1>6, <1>7, <1>8 DEF Inv

\* A slot is taken below the limit.
LEMMA AcquireInv ==
    ASSUME NEW r \in Requests, Inv, Acquire(r)
    PROVE  Inv'
<1>1. TypeOK'
  BY DEF Acquire, Goto, Inv, TypeOK, rows
<1>2. CopiesLag'
  BY DEF Acquire, Goto, Inv, TypeOK, CopiesLag, rows
<1>3. UsesMeanBytes'
  BY DEF Acquire, Inv, UsesMeanBytes, Completed, rows
<1>4. /\ Holding \in SUBSET Requests /\ r \notin Holding
      /\ Holding' = Holding \cup {r} /\ Admitted' = Admitted
  BY DEF Acquire, Goto, Inv, TypeOK, Holding, Admitted
<1>5. SlotsHold'
  BY <1>4, Counting, TicketsAssumption DEF Acquire, SlotsHold
<1>6. InFlight'
  BY <1>4 DEF Acquire, Inv, InFlight
<1>7. CopiesStand'
  BY TicketsAssumption DEF Acquire, Goto, Inv, TypeOK, CopiesStand, rows
<1>8. ChargedOnce'
  BY DEF Acquire, Goto, Inv, ChargedOnce, Completed, rows
<1>9. UnsizedIsDone'
  BY DEF Acquire, Goto, Inv, TypeOK, UnsizedIsDone, Completed
<1> QED
  BY <1>1, <1>2, <1>3, <1>5, <1>6, <1>7, <1>8, <1>9 DEF Inv

\* A request ends: its copy and its slot go away.
LEMMA EndInv ==
    ASSUME NEW r \in Requests, Inv, End(r), UNCHANGED <<rows, day, shared>>
    PROVE  Inv'
<1>1. TypeOK'
  BY TicketsAssumption DEF End, Inv, TypeOK, rows
<1>2. CopiesLag'
  BY DEF End, Inv, TypeOK, CopiesLag, rows
<1>3. UsesMeanBytes'
  BY DEF Inv, UsesMeanBytes, Completed, rows
<1>4. Holding' \subseteq Holding /\ Admitted' \subseteq Admitted
  BY DEF End, Inv, TypeOK, Holding, Admitted
<1>5. SlotsHold' /\ InFlight'
  BY <1>4, BoundsShrink DEF Inv, TypeOK
<1>6. CopiesStand'
  BY TicketsAssumption DEF End, Inv, TypeOK, CopiesStand, rows
<1>7. ChargedOnce'
  BY DEF End, Inv, ChargedOnce, Completed, rows
<1>8. UnsizedIsDone'
  BY DEF End, Inv, TypeOK, UnsizedIsDone, Completed
<1> QED
  BY <1>1, <1>2, <1>3, <1>5, <1>6, <1>7, <1>8 DEF Inv

\* A download passes the daily check while the counter is below the limit; the
\* others that have passed it hold slots.
LEMMA CheckDailyInv ==
    ASSUME NEW r \in Requests, Inv, CheckDaily(r)
    PROVE  Inv'
<1>1. CASE day < DailyLimit
  <2>1. TypeOK'
    BY <1>1 DEF CheckDaily, Goto, Inv, TypeOK, rows
  <2>2. CopiesLag'
    BY <1>1 DEF CheckDaily, Goto, Inv, TypeOK, CopiesLag, rows
  <2>3. UsesMeanBytes'
    BY <1>1 DEF CheckDaily, Inv, UsesMeanBytes, Completed, rows
  <2>4. Holding' = Holding /\ Holding \in SUBSET Requests
    BY <1>1 DEF CheckDaily, Goto, Inv, TypeOK, Holding
  <2>5. Admitted' \in SUBSET Holding
    BY <1>1 DEF CheckDaily, Goto, Inv, TypeOK, Holding, Admitted
  <2>6. Cardinality(Admitted') \in Nat /\ Cardinality(Admitted') <= MaxConc
    BY <2>4, <2>5, CountingSubset, TicketsAssumption DEF Inv, SlotsHold
  <2>7. SlotsHold' /\ InFlight'
    BY <1>1, <2>4, <2>6, TicketsAssumption
    DEF CheckDaily, Inv, TypeOK, SlotsHold, InFlight
  <2>8. CopiesStand'
    BY <1>1 DEF CheckDaily, Goto, Inv, TypeOK, CopiesStand, rows
  <2>9. ChargedOnce'
    BY <1>1 DEF CheckDaily, Inv, ChargedOnce, Completed, rows
  <2>10. UnsizedIsDone'
    BY <1>1 DEF CheckDaily, Goto, Inv, TypeOK, UnsizedIsDone, Completed
  <2> QED
    BY <2>1, <2>2, <2>3, <2>7, <2>8, <2>9, <2>10 DEF Inv
<1>2. CASE ~(day < DailyLimit)
  BY <1>2, EndInv DEF CheckDaily
<1> QED
  BY <1>1, <1>2

\* The transfer itself accounts for nothing.
LEMMA ServeInv ==
    ASSUME NEW r \in Requests, Inv, Serve(r)
    PROVE  Inv'
<1>1. PICK h \in Headers, n \in Sent :
          moved' = [moved EXCEPT ![r] = IF n = 0 THEN BytesOfRange(h) ELSE n]
  BY DEF Serve
<1>2. BytesOfRange(h) \in Nat /\ n \in Nat /\ moved \in [Requests -> Nat]
  BY RangeLength, TicketsAssumption DEF Inv, TypeOK
<1>3. TypeOK'
  BY <1>1, <1>2 DEF Serve, Goto, Inv, TypeOK, rows
<1>4. CopiesLag'
  BY DEF Serve, Goto, Inv, TypeOK, CopiesLag, rows
<1>5. UsesMeanBytes'
  BY DEF Serve, Inv, UsesMeanBytes, Completed, rows
<1>6. Holding' \subseteq Holding /\ Admitted' \subseteq Admitted
  BY DEF Serve, Goto, Inv, TypeOK, Holding, Admitted
<1>7. SlotsHold' /\ InFlight'
  BY <1>6, BoundsShrink DEF Serve, Inv, TypeOK
<1>8. CopiesStand'
  BY TicketsAssumption DEF Serve, Goto, Inv, TypeOK, CopiesStand, rows
<1>9. ChargedOnce'
  BY DEF Serve, Goto, Inv, ChargedOnce, Completed, rows
<1>10. UnsizedIsDone'
  BY DEF Serve, Goto, Inv, TypeOK, UnsizedIsDone, Completed
<1> QED
  BY <1>3, <1>4, <1>5, <1>7, <1>8, <1>9, <1>10 DEF Inv

\* The row has at least the bytes of the copy, so a completion decided on the
\* copy is one of the row.
LEMMA AddTicketBytesInv ==
    ASSUME NEW r \in Requests, Inv, AddTicketBytes(r)
    PROVE  Inv'
<1> DEFINE k == ticket[r]
           complete == Completed(seen[r] + moved[r]) /\ ~Completed(seen[r])
<1>1. CASE UNCHANGED <<uses, bytes>> /\ End(r)
  BY <1>1, EndInv DEF AddTicketBytes, rows
<1>2. CASE /\ bytes' = [bytes EXCEPT ![k] = @ + moved[r]]
           /\ uses'  = [uses EXCEPT ![k] = IF complete THEN @ + 1 ELSE @]
           /\ IF complete THEN Goto(r, "mark") /\ moved' = moved ELSE End(r)
  <2>1. k \in Nonces /\ seen[r] <= bytes[k] /\ pc[r] = "add"
    BY DEF AddTicketBytes, Inv, CopiesLag
  <2>2. /\ moved[r] \in Nat /\ seen[r] \in Nat
        /\ bytes \in [Nonces -> Nat] /\ uses \in [Nonces -> Nat]
    BY TicketsAssumption DEF Inv, TypeOK
  <2>3. bytes' \in [Nonces -> Nat] /\ uses' \in [Nonces -> Nat]
    BY <1>2, <2>1, <2>2
  <2>4. \A j \in Nonces : bytes'[j] >= bytes[j]
    BY <1>2, <2>1, <2>2
  <2>5. UNCHANGED <<closed, day, shared>>
    BY DEF AddTicketBytes
  <2>6. TypeOK'
    BY <1>2, <2>3, <2>5, TicketsAssumption DEF Goto, End, Inv, TypeOK
  <2>7. CopiesLag'
    <3>1. ASSUME NEW q \in Requests, pc'[q] # "idle"
          PROVE  pc[q] # "idle" /\ ticket'[q] = ticket[q] /\ seen'[q] = seen[q]
      BY <1>2, <2>1, <3>1 DEF Goto, End, Inv, TypeOK
    <3>2. ASSUME NEW q \in Requests, pc'[q] # "idle"
          PROVE  ticket'[q] \in Nonces /\ seen'[q] <= bytes'[ticket'[q]]
      <4>1. ticket[q] \in Nonces /\ seen[q] <= bytes[ticket[q]]
        BY <3>1, <3>2 DEF Inv, CopiesLag
      <4>2. /\ seen[q] \in Nat /\ bytes[ticket[q]] \in Nat
            /\ bytes'[ticket[q]] \in Nat /\ bytes'[ticket[q]] >= bytes[ticket[q]]
        BY <4>1, <2>2, <2>3, <2>4 DEF Inv, TypeOK
      <4> QED
        BY <3>1, <3>2, <4>1, <4>2
    <3> QED
      BY <3>2 DEF CopiesLag
  <2>8. UsesMeanBytes'
    <3>1. SUFFICES ASSUME NEW j \in Nonces, uses'[j] > 0
                   PROVE  bytes'[j] >= Threshold
      BY DEF UsesMeanBytes, Completed
    <3>2. CASE uses[j] > 0
      <4>1. bytes[j] >= Threshold
        BY <3>2 DEF Inv, UsesMeanBytes, Completed
      <4> QED
        BY <4>1, <2>2, <2>3, <2>4, ThresholdType
    <3>3. CASE ~(uses[j] > 0)
      <4>1. j = k /\ complete
        BY <1>2, <2>1, <2>2, <3>1, <3>3
      <4>2. seen[r] + moved[r] >= Threshold
        BY <4>1 DEF Completed
      <4>3. bytes'[k] = bytes[k] + moved[r] /\ bytes[k] \in Nat
        BY <1>2, <2>1, <2>2
      <4> QED
        BY <4>1, <4>2, <4>3, <2>1, <2>2, ThresholdType
    <3> QED
      BY <3>2, <3>3
  <2>9. Holding' \subseteq Holding /\ Admitted' \subseteq Admitted
    BY <1>2, <2>1 DEF Goto, End, Inv, TypeOK, Holding, Admitted
  <2>10. SlotsHold' /\ InFlight'
    BY <2>5, <2>9, BoundsShrink DEF Inv, TypeOK
  <2>11. CopiesStand'
    <3> SUFFICES ASSUME NEW q \in Requests
                 PROVE  /\ pc'[q] = "idle" => ticket'[q] = NoNonce
                        /\ ticket'[q] \in Nonces \ shared =>
                            /\ \A p \in Requests \ {q} : ticket'[p] # ticket'[q]
                            /\ pc'[q] # "mark" => seen'[q] = bytes'[ticket'[q]]
      BY <2>5 DEF CopiesStand
    <3>1. /\ \A p \in Requests \ {r} :
                pc'[p] = pc[p] /\ ticket'[p] = ticket[p] /\ seen'[p] = seen[p]
          /\ \/ pc'[r] = "mark" /\ ticket'[r] = ticket[r]
             \/ pc'[r] = "idle" /\ ticket'[r] = NoNonce
      BY <1>2, <2>1 DEF Goto, End, Inv, TypeOK
    <3>2. CASE q = r
      BY <2>1, <3>1, <3>2, TicketsAssumption DEF Inv, CopiesStand
    <3>3. CASE q # r
      <4>1. \A p \in Requests : ticket'[p] \in {ticket[p], NoNonce}
        BY <3>1
      <4>2. ASSUME ticket[q] \in Nonces \ shared
            PROVE  ticket[q] # k /\ bytes'[ticket[q]] = bytes[ticket[q]]
        BY <1>2, <2>1, <2>2, <3>3, <4>2 DEF Inv, CopiesStand
      <4> QED
        BY <3>1, <3>3, <4>1, <4>2, TicketsAssumption DEF Inv, CopiesStand
    <3> QED
      BY <3>2, <3>3
  <2>13. UnsizedIsDone'
    <3>1. r \in unsized => ~complete
      BY DEF Inv, UnsizedIsDone
    <3>2. r \notin unsized'
      BY <1>2, <3>1, <2>1 DEF Goto, End, Inv, TypeOK, UnsizedIsDone
    <3> QED
      BY <1>2, <3>2 DEF Goto, End, Inv, TypeOK, UnsizedIsDone, Completed
  <2>12. ChargedOnce'
    <3> SUFFICES ASSUME NEW j \in Nonces \ shared
                 PROVE  uses'[j] = IF Completed(bytes'[j]) /\ ~Completed(0) THEN 1 ELSE 0
      BY <2>5 DEF ChargedOnce, Completed, Threshold
    <3>1. uses[j] = IF Completed(bytes[j]) /\ ~Completed(0) THEN 1 ELSE 0
      BY DEF Inv, ChargedOnce
    <3>2. CASE j = k
      <4>1. seen[r] = bytes[k] /\ bytes'[k] = bytes[k] + moved[r]
        BY <1>2, <2>1, <2>2, <3>2 DEF Inv, CopiesStand
      <4>2. uses'[k] = IF complete THEN uses[k] + 1 ELSE uses[k]
        BY <1>2, <2>1, <2>2
      <4> QED
        BY <2>1, <2>2, <3>1, <3>2, <4>1, <4>2, ThresholdType DEF Completed
    <3>3. CASE j # k
      BY <1>2, <2>1, <2>2, <3>1, <3>3
    <3> QED
      BY <3>2, <3>3
  <2> QED
    BY <2>6, <2>7, <2>8, <2>10, <2>11, <2>12, <2>13 DEF Inv
<1> QED
  BY <1>1, <1>2 DEF AddTicketBytes

\* The daily counter goes up by one as the download leaves its slot.
LEMMA MarkCompleteInv ==
    ASSUME NEW r \in Requests, Inv, MarkComplete(r)
    PROVE  Inv'
<1>1. TypeOK'
  BY TicketsAssumption DEF MarkComplete, End, Inv, TypeOK, rows
<1>2. CopiesLag'
  BY DEF MarkComplete, End, Inv, TypeOK, CopiesLag, rows
<1>3. UsesMeanBytes'
  BY DEF MarkComplete, Inv, UsesMeanBytes, Completed, rows
<1>4. /\ Admitted \in SUBSET Requests /\ r \in Admitted
      /\ Admitted' = Admitted \ {r}
  BY DEF MarkComplete, End, Inv, TypeOK, Admitted
<1>5. /\ Holding \in SUBSET Requests /\ r \in Holding
      /\ Holding' = Holding \ {r}
  BY DEF MarkComplete, End, Inv, TypeOK, Holding
<1>6. SlotsHold'
  BY <1>5, Counting, TicketsAssumption DEF Inv, SlotsHold
<1>7. InFlight'
  BY <1>4, Counting, TicketsAssumption DEF MarkComplete, Inv, TypeOK, InFlight
<1>8. CopiesStand'
  BY TicketsAssumption DEF MarkComplete, End, Inv, TypeOK, CopiesStand, rows
<1>9. ChargedOnce'
  BY DEF MarkComplete, End, Inv, ChargedOnce, Completed, rows
<1>10. UnsizedIsDone'
  BY DEF MarkComplete, End, Inv, TypeOK, UnsizedIsDone, Completed
<1> QED
  BY <1>1, <1>2, <1>3, <1>6, <1>7, <1>8, <1>9, <1>10 DEF Inv

\* A ticket is revoked or expires.
LEMMA CloseInv ==
    ASSUME NEW k \in Nonces, Inv, Close(k)
    PROVE  Inv'
  BY DEF Close, requests, Inv, TypeOK, CopiesLag, CopiesStand,
     UsesMeanBytes, UnsizedIsDone, ChargedOnce, Completed,
     SlotsHold, Holding, InFlight, Admitted

\* The counter of a new day is empty.
LEMMA NewDayInv ==
    ASSUME Inv, NewDay
    PROVE  Inv'
<1>1. /\ TypeOK' /\ CopiesLag' /\ CopiesStand'
      /\ UsesMeanBytes' /\ ChargedOnce' /\ UnsizedIsDone'
  BY DEF NewDay, rows, requests, Inv, TypeOK, CopiesLag, CopiesStand, UsesMeanBytes,
     ChargedOnce, UnsizedIsDone, Completed
<1>2. Holding' \subseteq Holding /\ Admitted' \subseteq Admitted
  BY DEF NewDay, requests, Holding, Admitted
<1>3. SlotsHold' /\ InFlight'
  BY <1>2, BoundsShrink DEF NewDay, Inv, TypeOK
<1> QED
  BY <1>1, <1>3 DEF Inv

\* A restart forgets the requests and keeps the rows.
LEMMA RestartInv ==
    ASSUME Inv, Restart
    PROVE  Inv'
<1>1. /\ TypeOK' /\ CopiesLag' /\ CopiesStand'
      /\ UsesMeanBytes' /\ ChargedOnce' /\ UnsizedIsDone'
  BY TicketsAssumption
  DEF Restart, rows, Inv, TypeOK, CopiesLag, CopiesStand, UsesMeanBytes,
     ChargedOnce, UnsizedIsDone, Completed
<1>2. Holding' \subseteq Holding /\ Admitted' \subseteq Admitted
  BY DEF Restart, Holding, Admitted
<1>3. SlotsHold' /\ InFlight'
  BY <1>2, BoundsShrink DEF Restart, Inv, TypeOK
<1> QED
  BY <1>1, <1>3 DEF Inv

\* Inv is inductive.
LEMMA Consecution == Inv /\ [Next]_vars => Inv'
<1> SUFFICES ASSUME Inv, [Next]_vars PROVE Inv'
  OBVIOUS
<1>1. ASSUME NEW r \in Requests, NEW k \in Nonces, Begin(r, k) PROVE Inv'
  BY <1>1, BeginInv
<1>2. ASSUME NEW r \in Requests, Acquire(r) PROVE Inv'
  BY <1>2, AcquireInv
<1>3. ASSUME NEW r \in Requests, CheckDaily(r) PROVE Inv'
  BY <1>3, CheckDailyInv
<1>4. ASSUME NEW r \in Requests, GiveUp(r) PROVE Inv'
  BY <1>4, EndInv DEF GiveUp
<1>5. ASSUME NEW r \in Requests, Serve(r) PROVE Inv'
  BY <1>5, ServeInv
<1>6. ASSUME NEW r \in Requests, AddTicketBytes(r) PROVE Inv'
  BY <1>6, AddTicketBytesInv
<1>7. ASSUME NEW r \in Requests, MarkComplete(r) PROVE Inv'
  BY <1>7, MarkCompleteInv
<1>8. ASSUME NEW k \in Nonces, Close(k) PROVE Inv'
  BY <1>8, CloseInv
<1>9. CASE NewDay
  BY <1>9, NewDayInv
<1>10. CASE Restart
  BY <1>10, RestartInv
<1>11. CASE UNCHANGED vars
  BY <1>11 DEF vars, rows, requests, Inv, TypeOK, CopiesLag, CopiesStand,
     UsesMeanBytes, UnsizedIsDone, ChargedOnce, Completed, SlotsHold, Holding, InFlight,
     Admitted
<1> QED
  BY <1>1, <1>2, <1>3, <1>4, <1>5, <1>6, <1>7, <1>8, <1>9, <1>10, <1>11 DEF Next

-----------------------------------------------------------------------------
(* Theorems *)

\* The inductive invariant of Download's accounting.
THEOREM Invariance == Spec => []Inv
  BY InitInv, Consecution, PTL DEF Spec

\* Type correctness: no byte count of a ticket or a request is ever negative.
THEOREM TypeCorrect == Spec => []TypeOK
<1>1. Inv => TypeOK
  BY DEF Inv
<1> QED
  BY <1>1, Invariance, PTL

\* ParseSingleRange takes a header exactly when it asks for some byte of the file, and
\* then returns the first and the last of the bytes it asks for.
THEOREM RangeIsExact ==
    ASSUME NEW h \in Headers
    PROVE  /\ RangeOk(h) <=> Asked(h) # {}
           /\ RangeOk(h) => Asked(h) = RangeStart(h) .. RangeEnd(h)
<1>1. /\ h.first \in Nat \cup {-1} /\ h.last \in Nat \cup {-1}
      /\ Size \in Nat /\ Size >= 1
  BY HeaderType, TicketsAssumption DEF Missing
<1>2. ASSUME RangeOk(h)
      PROVE  Asked(h) = RangeStart(h) .. RangeEnd(h)
  BY <1>1, <1>2 DEF RangeOk, RangeStart, RangeEnd, Asked, Missing
<1>3. ASSUME RangeOk(h)
      PROVE  RangeStart(h) \in RangeStart(h) .. RangeEnd(h)
  BY <1>1, <1>3 DEF RangeOk, RangeStart, RangeEnd, Missing
<1>4. ASSUME NEW i \in Asked(h)
      PROVE  RangeOk(h)
  BY <1>1 DEF RangeOk, Asked, Missing
<1> QED
  BY <1>2, <1>3, <1>4

\* AddTicketBytes spends a use only on a ticket whose row has 95% of the file.
THEOREM UsesAreDownloads == Spec => []UsesMeanBytes
<1>1. Inv => UsesMeanBytes
  BY DEF Inv
<1> QED
  BY <1>1, Invariance, PTL

\* The daily counter stands for uses: what is inductive is that they are finitely many
\* as well.
Counted == IsFiniteSet(Spent) /\ DailyNeverOverstated

\* Nothing is spent or counted at first.
LEMMA InitCounted == Init => Counted
<1> SUFFICES ASSUME Init PROVE Counted
  OBVIOUS
<1>1. \A k \in Nonces : 1 .. uses[k] = {}
  BY DEF Init
<1>2. Spent = {}
  BY <1>1 DEF Spent
<1>3. Marking = {} /\ day = 0
  BY DEF Init, Marking
<1> QED
  BY <1>2, <1>3, FS_EmptySet DEF Counted, DailyNeverOverstated

\* A step that spends nothing, marks nothing more and counts nothing.
LEMMA CountedShrinks ==
    ASSUME Inv, Counted, uses' = uses, day' \in Nat, day' <= day, Marking' \subseteq Marking
    PROVE  Counted'
<1>1. Marking \in SUBSET Requests /\ Spent' = Spent
  BY DEF Marking, Spent
<1>2. /\ Cardinality(Marking') \in Nat /\ Cardinality(Marking) \in Nat
      /\ Cardinality(Marking') <= Cardinality(Marking)
  BY <1>1, CountingSubset
<1>3. Cardinality(Spent) \in Nat /\ day \in Nat
  BY FS_CardinalityType DEF Counted, Inv, TypeOK
<1> QED
  BY <1>1, <1>2, <1>3 DEF Counted, DailyNeverOverstated

\* AddTicketBytes spends one use before it marks one completion.
LEMMA AddTicketBytesCounted ==
    ASSUME NEW r \in Requests, Inv, Counted, AddTicketBytes(r)
    PROVE  Counted'
<1> DEFINE k == ticket[r]
<1>1. k \in Nonces /\ pc[r] = "add" /\ day' = day
  BY DEF AddTicketBytes, Inv, CopiesLag
<1>2. CASE uses' = uses /\ End(r)
  <2>1. Marking' \subseteq Marking
    BY <1>2 DEF End, Marking, Inv, TypeOK
  <2> QED
    BY <1>1, <1>2, <2>1, CountedShrinks DEF Inv, TypeOK
<1>3. CASE uses' = [uses EXCEPT ![k] = @ + 1] /\ Goto(r, "mark")
  <2>1. uses \in [Nonces -> Nat] /\ day \in Nat /\ <<k, uses[k] + 1>> \notin Spent
    BY <1>1 DEF Spent, Inv, TypeOK
  <2>2. ASSUME NEW j \in Nonces
        PROVE  {j} \X (1 .. uses'[j]) = {j} \X (1 .. uses[j])
                   \cup (IF j = k THEN {<<k, uses[k] + 1>>} ELSE {})
    <3>1. CASE j = k
      <4>1. uses'[j] = uses[j] + 1 /\ uses[j] \in Nat
        BY <1>1, <1>3, <2>1, <3>1
      <4>2. 1 .. uses'[j] = (1 .. uses[j]) \cup {uses[j] + 1}
        BY <4>1
      <4> QED
        BY <3>1, <4>2
    <3>2. CASE j # k
      BY <1>3, <2>1, <3>2
    <3> QED
      BY <3>1, <3>2
  <2>3. Spent' = Spent \cup {<<k, uses[k] + 1>>}
    BY <1>1, <2>2 DEF Spent
  <2>4. /\ IsFiniteSet(Spent') /\ Cardinality(Spent) \in Nat
        /\ Cardinality(Spent') = Cardinality(Spent) + 1
    BY <2>1, <2>3, FS_AddElement, FS_CardinalityType DEF Counted
  <2>5. /\ Marking \in SUBSET Requests /\ r \notin Marking
        /\ Marking' = Marking \cup {r}
    BY <1>1, <1>3 DEF Goto, Marking, Inv, TypeOK
  <2>6. Cardinality(Marking) \in Nat /\ Cardinality(Marking') = Cardinality(Marking) + 1
    BY <2>5, Counting
  <2> QED
    BY <1>1, <2>1, <2>4, <2>6 DEF Counted, DailyNeverOverstated
<1>4. \/ uses' = uses /\ End(r)
      \/ uses' = [uses EXCEPT ![k] = @ + 1] /\ Goto(r, "mark")
  BY <1>1 DEF AddTicketBytes, Inv, TypeOK
<1> QED
  BY <1>2, <1>3, <1>4

\* MarkComplete counts the completion it was marked for, or forgets it.
LEMMA MarkCompleteCounted ==
    ASSUME NEW r \in Requests, Inv, Counted, MarkComplete(r)
    PROVE  Counted'
<1>1. /\ Marking \in SUBSET Requests /\ r \in Marking
      /\ Marking' = Marking \ {r}
  BY DEF MarkComplete, End, Marking, Inv, TypeOK
<1>2. Cardinality(Marking) \in Nat /\ Cardinality(Marking') = Cardinality(Marking) - 1
  BY <1>1, Counting
<1>3. Spent' = Spent /\ day \in Nat /\ day' \in {day, day + 1}
  BY DEF MarkComplete, rows, Spent, Inv, TypeOK
<1>4. Cardinality(Spent) \in Nat
  BY FS_CardinalityType DEF Counted
<1> QED
  BY <1>2, <1>3, <1>4 DEF Counted, DailyNeverOverstated

\* MarkComplete counts no download for which AddTicketBytes spent no use.
THEOREM DailyIsPaidFor == Spec => []DailyNeverOverstated
<1>1. Inv /\ Counted /\ [Next]_vars => Counted'
  <2> SUFFICES ASSUME Inv, Counted, [Next]_vars PROVE Counted'
    OBVIOUS
  <2>1. ASSUME NEW r \in Requests, AddTicketBytes(r) PROVE Counted'
    BY <2>1, AddTicketBytesCounted
  <2>2. ASSUME NEW r \in Requests, MarkComplete(r) PROVE Counted'
    BY <2>2, MarkCompleteCounted
  <2>3. ASSUME NEW r \in Requests,
               \/ \E k \in Nonces : Begin(r, k)
               \/ Acquire(r) \/ CheckDaily(r) \/ GiveUp(r) \/ Serve(r)
        PROVE  Counted'
    <3>1. uses' = uses /\ day' = day
      BY <2>3 DEF Begin, Acquire, CheckDaily, GiveUp, Serve, rows
    <3>2. Marking' \subseteq Marking
      BY <2>3 DEF Begin, Acquire, CheckDaily, GiveUp, Serve, Goto, End, Marking, Inv, TypeOK
    <3> QED
      BY <3>1, <3>2, CountedShrinks DEF Inv, TypeOK
  <2>4. ASSUME (\E k \in Nonces : Close(k)) \/ NewDay \/ Restart \/ UNCHANGED vars
        PROVE  Counted'
    <3>1. uses' = uses /\ day' \in {0, day}
      BY <2>4 DEF Close, NewDay, Restart, vars, rows
    <3>2. Marking' \subseteq Marking
      BY <2>4 DEF Close, NewDay, Restart, vars, requests, Marking
    <3> QED
      BY <3>1, <3>2, CountedShrinks DEF Inv, TypeOK
  <2> QED
    BY <2>1, <2>2, <2>3, <2>4 DEF Next
<1>2. Counted => DailyNeverOverstated
  BY DEF Counted
<1> QED
  BY <1>1, <1>2, InitCounted, Invariance, PTL DEF Spec

\* A ticket nobody shares is charged once, when 95% of its file have been recorded.
THEOREM ChargedOnceOnly == Spec => []ChargedOnce
<1>1. Inv => ChargedOnce
  BY DEF Inv
<1> QED
  BY <1>1, Invariance, PTL

\* The race between the daily check and MarkComplete overruns the daily limit by
\* at most the other slots.
THEOREM DailyOverrunBounded == Spec => []DailyOverrun
<1>1. Inv => DailyOverrun
  <2> SUFFICES ASSUME Inv PROVE DailyOverrun
    OBVIOUS
  <2>1. Admitted \in SUBSET Requests
    BY DEF Admitted
  <2>2. Cardinality(Admitted) \in Nat
    BY <2>1, CountingSubset
  <2> QED
    BY <2>2, TicketsAssumption DEF Inv, TypeOK, InFlight, DailyOverrun
<1> QED
  BY <1>1, Invariance, PTL

\* An exhausted ticket lets in nobody but who could not learn the size of the file, and
\* nothing such a request moves is charged.
THEOREM ExhaustionIsFinal == Spec => ExhaustedIsFinal
<1> DEFINE LetIn(r, k) == /\ uses[k] >= MaxUses /\ pc[r] = "idle"
                          /\ pc'[r] # "idle" /\ ticket'[r] = k
           Step == \A r \in Requests, k \in Nonces :
             /\ uses[k] >= MaxUses /\ pc[r] = "idle" /\ pc'[r] # "idle" /\ ticket'[r] = k =>
                  r \in unsized'
             /\ r \in unsized => pc'[r] # "mark"
<1>1. ASSUME Inv, Next, NEW r \in Requests, NEW k \in Nonces, LetIn(r, k)
      PROVE  r \in unsized'
  <2>1. \E j \in Nonces : Begin(r, j)
    <3>1. ASSUME NEW q \in Requests, pc[q] # "idle",
                 \/ \E where : Goto(q, where)
                 \/ End(q)
          PROVE  FALSE
      BY <1>1, <3>1 DEF Goto, End, Inv, TypeOK
    <3>2. ASSUME NEW q \in Requests,
                 \/ Acquire(q) \/ CheckDaily(q) \/ GiveUp(q) \/ Serve(q)
                 \/ AddTicketBytes(q) \/ MarkComplete(q)
          PROVE  FALSE
      <4>1. pc[q] # "idle"
        BY <3>2 DEF Acquire, CheckDaily, GiveUp, Serve, AddTicketBytes, MarkComplete
      <4>2. (\E where : Goto(q, where)) \/ End(q)
        BY <3>2 DEF Acquire, CheckDaily, GiveUp, Serve, AddTicketBytes, MarkComplete
      <4> QED
        BY <3>1, <4>1, <4>2
    <3>3. ASSUME (\E l \in Nonces : Close(l)) \/ NewDay \/ Restart
          PROVE  FALSE
      BY <1>1, <3>3 DEF Close, NewDay, Restart, requests
    <3>4. PICK q \in Requests : \E l \in Nonces : Begin(q, l)
      BY <1>1, <3>2, <3>3 DEF Next
    <3> QED
      BY <1>1, <3>4 DEF Begin, Inv, TypeOK
  <2>2. PICK j \in Nonces : Begin(r, j)
    BY <2>1
  <2>3. j = k
    BY <1>1, <2>2 DEF Begin, Inv, TypeOK
  <2>4. Completed(bytes[k])
    BY <1>1, TicketsAssumption DEF Inv, TypeOK, UsesMeanBytes
  <2> QED
    BY <1>1, <2>2, <2>3, <2>4, TicketsAssumption
    DEF Begin, AllowAnotherHit, SizeKnown, Inv, TypeOK
<1>2. ASSUME Inv, Next, NEW r \in Requests, r \in unsized
      PROVE  pc'[r] # "mark"
  <2>1. pc[r] \notin {"idle", "mark"} /\ Completed(seen[r])
    BY <1>2 DEF Inv, UnsizedIsDone
  <2>2. ASSUME NEW q \in Requests, AddTicketBytes(q), q = r
        PROVE  pc'[r] # "mark"
    BY <1>2, <2>1, <2>2 DEF AddTicketBytes, End, Inv, TypeOK
  <2>3. ASSUME NEW q \in Requests, AddTicketBytes(q), q # r
        PROVE  pc'[r] = pc[r]
    BY <1>2, <2>3 DEF AddTicketBytes, Goto, End, Inv, TypeOK
  <2>4. ASSUME NEW q \in Requests,
               \/ \E k \in Nonces : Begin(q, k)
               \/ Acquire(q) \/ CheckDaily(q) \/ GiveUp(q) \/ Serve(q) \/ MarkComplete(q)
        PROVE  pc'[r] # "mark"
    BY <1>2, <2>1, <2>4
    DEF Begin, Acquire, CheckDaily, GiveUp, Serve, MarkComplete, Goto, End, Inv, TypeOK
  <2>5. ASSUME (\E k \in Nonces : Close(k)) \/ NewDay \/ Restart
        PROVE  pc'[r] # "mark"
    BY <2>1, <2>5 DEF Close, NewDay, Restart, requests
  <2> QED
    BY <1>2, <2>1, <2>2, <2>3, <2>4, <2>5 DEF Next
<1>3. Inv /\ [Next]_vars => [Step]_vars
  BY <1>1, <1>2
<1> QED
  BY <1>3, Invariance, PTL DEF Spec, ExhaustedIsFinal

-----------------------------------------------------------------------------
(* Tickets uses a slot as Semaphore says. *)

\* Semaphore counts as this module does.
LEMMA SameCount ==
    ASSUME NEW A
    PROVE  Promise!Cardinality(A) = Cardinality(A)
  BY DEF Promise!Cardinality, Cardinality

\* A request that moves takes a slot, keeps it or gives it back.
LEMMA SlotMoves ==
    ASSUME TypeOK, NEW r \in Requests, NEW where, pc' = [pc EXCEPT ![r] = where]
    PROVE  Holding' = IF where \in {"daily", "serve", "add", "mark"}
                      THEN Holding \cup {r} ELSE Holding \ {r}
  BY DEF TypeOK, Holding

\* A request that does not wait for its slot keeps what it has or gives it back.
LEMMA SlotKept ==
    ASSUME TypeOK, NEW r \in Requests, NEW where, pc' = [pc EXCEPT ![r] = where],
           where \in {"daily", "serve", "add", "mark"} => r \in Holding
    PROVE  [Promise!Next]_Holding
<1>1. CASE where \in {"daily", "serve", "add", "mark"}
  <2>1. Holding' = Holding \cup {r} /\ Holding \cup {r} = Holding
    BY <1>1, SlotMoves
  <2> QED
    BY <2>1
<1>2. CASE where \notin {"daily", "serve", "add", "mark"}
  <2>1. Holding' = Holding \ {r}
    BY <1>2, SlotMoves
  <2>2. CASE r \in Holding
    BY <2>1, <2>2 DEF Promise!Next, Promise!Release
  <2>3. CASE r \notin Holding
    BY <2>1, <2>3
  <2> QED
    BY <2>2, <2>3
<1> QED
  BY <1>1, <1>2

\* Every step of Tickets takes a slot, gives one back, gives all back or leaves them.
LEMMA SlotStep ==
    ASSUME TypeOK, [Next]_vars
    PROVE  [Promise!Next]_Holding
<1>1. ASSUME NEW r \in Requests, NEW k \in Nonces, Begin(r, k) PROVE [Promise!Next]_Holding
  BY <1>1, SlotKept DEF Begin
<1>2. ASSUME NEW r \in Requests, Acquire(r) PROVE [Promise!Next]_Holding
  <2>1. r \notin Holding /\ Cardinality(Holding) < MaxConc
    BY <1>2 DEF Acquire, Holding
  <2>2. Holding' = Holding \cup {r}
    BY <1>2, SlotMoves DEF Acquire, Goto
  <2> QED
    BY <2>1, <2>2, SameCount DEF Promise!Next, Promise!Acquire
<1>3. ASSUME NEW r \in Requests,
             CheckDaily(r) \/ Serve(r) \/ AddTicketBytes(r) \/ MarkComplete(r)
      PROVE  [Promise!Next]_Holding
  <2>1. r \in Holding /\ \E where : pc' = [pc EXCEPT ![r] = where]
    BY <1>3 DEF CheckDaily, Serve, AddTicketBytes, MarkComplete, Goto, End, Holding
  <2> QED
    BY <2>1, SlotKept
<1>4. ASSUME NEW r \in Requests, GiveUp(r) PROVE [Promise!Next]_Holding
  BY <1>4, SlotKept DEF GiveUp, End
<1>5. CASE (\E k \in Nonces : Close(k)) \/ NewDay \/ UNCHANGED vars
  BY <1>5 DEF Close, NewDay, vars, requests, Holding
<1>6. CASE Restart
  <2>1. Holding' = {}
    BY <1>6 DEF Restart, Holding
  <2> QED
    BY <2>1 DEF Promise!Next, Promise!Restart
<1> QED
  BY <1>1, <1>2, <1>3, <1>4, <1>5, <1>6 DEF Next

\* What Tickets needs of the limiter's slots is what Semaphore promises.
THEOREM SlotsAreASemaphore == Spec => Promise!Spec
<1>1. Init => Promise!Init
  BY DEF Init, Promise!Init, Holding
<1>2. TypeOK /\ [Next]_vars => [Promise!Next]_Holding
  BY SlotStep
<1> QED
  BY <1>1, <1>2, TypeCorrect, PTL DEF Spec, Promise!Spec
=============================================================================
