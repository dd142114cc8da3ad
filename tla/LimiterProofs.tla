----------------------------- MODULE LimiterProofs -----------------------------
(***************************************************************************)
(* Proofs about the two halves of download/limiter.go.                     *)
(*                                                                         *)
(* Slots, for any number of requests, any limit and every fault.  Inv      *)
(* bounds the requests whose number is within the limit, not only those    *)
(* that are served: INCR hands out a number above the count of those       *)
(* before it, since the counter is never short of them.  KeyLasts then     *)
(* shows that the one way past the limit, a key that lapses under a        *)
(* counted request, needs an EXPIRE that is late or lost; without one the  *)
(* commands implement Semaphore.                                           *)
(*                                                                         *)
(* Buckets, for any number of downloads and listeners, any rates and any   *)
(* size of chunks.  The balance of a bucket is what may have passed it     *)
(* since the server began.  Time and every chunk taken only raise it, and  *)
(* a chunk taken without a race raises it by its own size: so neither a    *)
(* download nor all of them together get ahead of it.                      *)
(***************************************************************************)
EXTENDS Slots, Buckets, FiniteSetTheorems, TLAPS

-----------------------------------------------------------------------------
(* Slots: counting *)

\* Subsets of the requests are finite, and a request moves their cardinality by one.
LEMMA Counting ==
    ASSUME NEW S \in SUBSET Requests, NEW r \in Requests
    PROVE  /\ Cardinality(S) \in Nat
           /\ r \notin S => Cardinality(S \cup {r}) = Cardinality(S) + 1
           /\ r \in S => Cardinality(S \ {r}) = Cardinality(S) - 1
<1>1. IsFiniteSet(S)
  BY SlotsAssumption, FS_Subset
<1> QED
  BY <1>1, FS_CardinalityType, FS_AddElement, FS_RemoveElement

\* A smaller set of requests has the smaller cardinality.
LEMMA CountingSubset ==
    ASSUME NEW S \in SUBSET Requests, NEW T \in SUBSET S
    PROVE  /\ Cardinality(T) \in Nat /\ Cardinality(S) \in Nat
           /\ Cardinality(T) <= Cardinality(S)
<1>1. IsFiniteSet(S) /\ IsFiniteSet(T)
  BY SlotsAssumption, FS_Subset
<1> QED
  BY <1>1, FS_Subset, FS_CardinalityType

\* The number of counted requests is a natural number.
LEMMA CountType == CountedSet \in SUBSET Requests /\ Cardinality(CountedSet) \in Nat
<1>1. CountedSet \in SUBSET Requests
  BY DEF CountedSet
<1> QED
  BY <1>1, CountingSubset

\* The ranks survive a step that leaves lapsed alone and after which no request is
\* newly counted and those still counted keep their number.
LEMMA RanksShrink ==
    ASSUME Ranks, lapsed' = lapsed,
           \A q \in Requests : pc'[q] # "idle" => pc[q] # "idle" /\ n'[q] = n[q]
    PROVE  Ranks'
<1> SUFFICES ASSUME ~lapsed PROVE Cardinality(InLimit') <= MaxConc
  BY DEF Ranks
<1>1. InLimit \in SUBSET Requests /\ InLimit' \in SUBSET InLimit
  BY DEF InLimit, Counted
<1>2. /\ Cardinality(InLimit) \in Nat /\ Cardinality(InLimit') \in Nat
      /\ Cardinality(InLimit') <= Cardinality(InLimit)
  BY <1>1, CountingSubset
<1> QED
  BY <1>2, SlotsAssumption DEF Ranks

-----------------------------------------------------------------------------
(* Slots: one lemma per action, which preserves Inv. *)

\* Nobody is counted in the initial state.
LEMMA InitInv == Init => Inv
<1> SUFFICES ASSUME Init PROVE Inv
  OBVIOUS
<1>1. TypeOK /\ InRank
  <2>1. lapsed \in BOOLEAN
    BY DEF Init
  <2> QED
    BY <2>1, SlotsAssumption DEF Init, TypeOK, InRank, Absent
<1>2. CountedSet = {} /\ InLimit = {}
  BY DEF Init, CountedSet, InLimit, Counted
<1>3. NeverShort /\ Ranks /\ CountIsExact
  BY <1>2, FS_EmptySet, SlotsAssumption DEF Init, NeverShort, Ranks, CountIsExact
<1> QED
  BY <1>1, <1>3 DEF Inv

\* INCR hands out a number above the count of those before it.
LEMMA IncrInv ==
    ASSUME NEW r \in Requests, Inv, Incr(r)
    PROVE  Inv'
<1>1. /\ ttl' \in {Absent, NoTTL} \cup 1 .. KeyTTL
      /\ conc' = conc + 1 /\ lapsed' = lapsed
  BY DEF Incr, Add, Inv, TypeOK
<1>2. TypeOK'
  BY <1>1, SlotsAssumption DEF Incr, Inv, TypeOK
<1>3. InRank'
  BY DEF Incr, Inv, TypeOK, InRank
<1>4. r \notin CountedSet
  BY DEF Incr, CountedSet, Counted
<1>5. /\ Cardinality(CountedSet \cup {r}) = Cardinality(CountedSet) + 1
      /\ CountedSet \cup {r} \in SUBSET Requests
  BY <1>4, CountType, Counting
<1>6. CASE /\ drift' = drift + 1
           /\ UNCHANGED <<pc, n>>
  <2>1. CountedSet' = CountedSet /\ InLimit' = InLimit
    BY <1>6 DEF InLimit, CountedSet, Counted
  <2>2. NeverShort' /\ Ranks' /\ CountIsExact'
    BY <1>1, <1>6, <2>1, CountType
    DEF Inv, TypeOK, NeverShort, Ranks, CountIsExact
  <2> QED
    BY <1>2, <1>3, <2>2 DEF Inv
<1>7. CASE /\ pc' = [pc EXCEPT ![r] = "expire"]
           /\ n'  = [n EXCEPT ![r] = conc + 1]
           /\ drift' = drift
  <2>1. CountedSet' = CountedSet \cup {r}
    BY <1>7 DEF Inv, TypeOK, CountedSet, Counted
  <2>2. NeverShort' /\ CountIsExact'
    BY <1>1, <1>5, <1>7, <2>1, CountType DEF Inv, TypeOK, NeverShort, CountIsExact
  <2>3. Ranks'
    <3> SUFFICES ASSUME ~lapsed PROVE Cardinality(InLimit') <= MaxConc
      BY <1>1 DEF Ranks
    <3>1. CASE MaxConc < conc + 1
      <4>1. InLimit' = InLimit
        <5>1. /\ pc[r] = "idle" /\ n'[r] = conc + 1 /\ ~(n'[r] <= MaxConc)
              /\ \A q \in Requests : q # r => pc'[q] = pc[q] /\ n'[q] = n[q]
          BY <1>7, <3>1, SlotsAssumption DEF Incr, Inv, TypeOK
        <5> QED
          BY <5>1 DEF InLimit, Counted
      <4> QED
        BY <4>1 DEF Inv, Ranks
    <3>2. CASE MaxConc >= conc + 1
      <4>1. InLimit' \in SUBSET (CountedSet \cup {r})
        BY <2>1 DEF InLimit, CountedSet
      <4>2. /\ Cardinality(InLimit') \in Nat
            /\ Cardinality(InLimit') <= Cardinality(CountedSet) + 1
        BY <4>1, <1>5, CountingSubset
      <4> QED
        BY <3>2, <4>2, CountType, SlotsAssumption DEF Inv, TypeOK, NeverShort
    <3> QED
      BY <3>1, <3>2, SlotsAssumption DEF Inv, TypeOK
  <2> QED
    BY <1>2, <1>3, <2>2, <2>3 DEF Inv
<1> QED
  BY <1>6, <1>7 DEF Incr

\* A step of Acquire that moves a request along and leaves the counter alone; it
\* is let through only with a number within the limit.
LEMMA MoveInv ==
    ASSUME NEW r \in Requests, NEW where \in {"admit", "daily", "refuse", "serve"},
           Inv, Counted(r), Goto(r, where), UNCHANGED <<conc, history>>,
           ttl' \in {Absent, NoTTL} \cup 1 .. KeyTTL,
           where \in {"daily", "serve"} => n[r] <= MaxConc
    PROVE  Inv'
<1>1. TypeOK'
  BY DEF Goto, Inv, TypeOK, history
<1>2. InRank'
  BY DEF Goto, Inv, TypeOK, InRank
<1>3. \A q \in Requests : pc'[q] # "idle" <=> pc[q] # "idle"
  BY DEF Goto, Inv, TypeOK, Counted
<1>4. CountedSet' = CountedSet
  BY <1>3 DEF CountedSet, Counted
<1>5. Ranks'
  BY <1>3, RanksShrink DEF Goto, Inv, history
<1>6. NeverShort' /\ CountIsExact'
  BY <1>4 DEF Inv, NeverShort, CountIsExact, history
<1> QED
  BY <1>1, <1>2, <1>5, <1>6 DEF Inv

\* EXPIRE gives a key that is there its full time again.
LEMMA ExpireInv ==
    ASSUME NEW r \in Requests, Inv, Expire(r)
    PROVE  Inv'
<1>1. ttl' \in {Absent, NoTTL} \cup 1 .. KeyTTL
  BY SlotsAssumption DEF Expire, Inv, TypeOK
<1> QED
  BY <1>1, MoveInv DEF Expire, Counted

\* A number above the limit is refused.
LEMMA AdmitInv ==
    ASSUME NEW r \in Requests, Inv, Admit(r)
    PROVE  Inv'
<1>1. Counted(r) /\ n[r] \in Int /\ ttl' \in {Absent, NoTTL} \cup 1 .. KeyTTL
  BY DEF Admit, Inv, TypeOK, Counted
<1> QED
  BY <1>1, MoveInv, SlotsAssumption DEF Admit

\* The daily limit lets through or refuses.
LEMMA DailyInv ==
    ASSUME NEW r \in Requests, Inv, Daily(r)
    PROVE  Inv'
<1>1. Counted(r) /\ n[r] <= MaxConc /\ ttl' \in {Absent, NoTTL} \cup 1 .. KeyTTL
  BY DEF Daily, Inv, TypeOK, InRank, Counted
<1> QED
  BY <1>1, MoveInv DEF Daily

\* DECR gives the count back as the request stops being counted: the counter is at
\* least what the others hold, even when the DECR fails.
LEMMA TakeBackInv ==
    ASSUME NEW r \in Requests, Inv, Counted(r), TakeBack(r)
    PROVE  Inv'
<1>1. /\ ttl' \in {Absent, NoTTL} \cup 1 .. KeyTTL
      /\ lapsed' = lapsed
      /\ \/ conc' = conc - 1 /\ drift' = drift
         \/ conc' = conc /\ drift' = drift + 1
  BY DEF TakeBack, Add, Inv, TypeOK
<1>2. TypeOK'
  BY <1>1, SlotsAssumption DEF TakeBack, End, Inv, TypeOK
<1>3. InRank'
  BY DEF TakeBack, End, Inv, TypeOK, InRank
<1>4. Ranks'
  <2>1. \A q \in Requests : pc'[q] # "idle" => pc[q] # "idle" /\ n'[q] = n[q]
    BY DEF TakeBack, End, Inv, TypeOK
  <2> QED
    BY <1>1, <2>1, RanksShrink DEF Inv
<1>5. r \in CountedSet /\ CountedSet' = CountedSet \ {r}
  BY DEF TakeBack, End, Inv, TypeOK, CountedSet, Counted
<1>6. Cardinality(CountedSet') = Cardinality(CountedSet) - 1
  BY <1>5, CountType, Counting
<1>7. NeverShort' /\ CountIsExact'
  BY <1>1, <1>6, CountType DEF Inv, TypeOK, NeverShort, CountIsExact
<1> QED
  BY <1>2, <1>3, <1>4, <1>7 DEF Inv

\* A key that expires under a counted request marks the lapse; one that expires
\* with nobody counted ends it.
LEMMA TickInv ==
    ASSUME Inv, Tick
    PROVE  Inv'
<1>1. CountedSet' = CountedSet /\ InLimit' = InLimit
  BY DEF Tick, CountedSet, InLimit, Counted
<1>2. age' \in [Requests -> 0 .. RequestTime]
  BY SlotsAssumption DEF Tick, Inv, TypeOK
<1>3. InRank'
  BY DEF Tick, Inv, InRank
<1>4. CASE ttl = 1
  <2>1. TypeOK'
    BY <1>2, <1>4, CountType DEF Tick, Inv, TypeOK, Absent
  <2>2. CountIsExact'
    BY <1>1, <1>4, CountType DEF Tick, CountIsExact
  <2>3. ~lapsed' => CountedSet = {} /\ InLimit \in SUBSET CountedSet
    BY <1>4 DEF Tick, InLimit, CountedSet
  <2>4. NeverShort' /\ Ranks'
    BY <1>1, <1>4, <2>3, FS_EmptySet, SlotsAssumption DEF Tick, NeverShort, Ranks
  <2> QED
    BY <2>1, <2>2, <2>4, <1>3 DEF Inv
<1>5. CASE ttl # 1
  <2>1. TypeOK'
    BY <1>2, <1>5, SlotsAssumption DEF Tick, Inv, TypeOK, Absent, NoTTL, history
  <2>2. CountIsExact' /\ NeverShort' /\ Ranks'
    BY <1>1, <1>5 DEF Tick, Inv, CountIsExact, NeverShort, Ranks, history
  <2> QED
    BY <2>1, <2>2, <1>3 DEF Inv
<1> QED
  BY <1>4, <1>5

\* A restart leaves the counter too high, never too low.
LEMMA RestartInv ==
    ASSUME Inv, Restart
    PROVE  Inv'
<1>1. TypeOK' /\ InRank'
  BY SlotsAssumption, CountType DEF Restart, Inv, TypeOK, InRank
<1>2. CountedSet' = {} /\ Cardinality(CountedSet') = 0
  BY FS_EmptySet DEF Restart, CountedSet, Counted
<1>3. Ranks'
  BY RanksShrink DEF Restart, Inv
<1>4. NeverShort' /\ CountIsExact'
  BY <1>2, CountType DEF Restart, Inv, TypeOK, NeverShort, CountIsExact
<1> QED
  BY <1>1, <1>3, <1>4 DEF Inv

\* Inv is inductive.
LEMMA Consecution == Inv /\ [Next]_vars => Inv'
<1> SUFFICES ASSUME Inv, [Next]_vars PROVE Inv'
  OBVIOUS
<1>1. ASSUME NEW r \in Requests, Incr(r) PROVE Inv'
  BY <1>1, IncrInv
<1>2. ASSUME NEW r \in Requests, Expire(r) PROVE Inv'
  BY <1>2, ExpireInv
<1>3. ASSUME NEW r \in Requests, Admit(r) PROVE Inv'
  BY <1>3, AdmitInv
<1>4. ASSUME NEW r \in Requests, Daily(r) PROVE Inv'
  BY <1>4, DailyInv
<1>5. ASSUME NEW r \in Requests, Refuse(r) \/ Release(r) PROVE Inv'
  BY <1>5, TakeBackInv DEF Refuse, Release, Counted
<1>6. CASE Tick
  BY <1>6, TickInv
<1>7. CASE Restart
  BY <1>7, RestartInv
<1>8. CASE UNCHANGED vars
  BY <1>8 DEF vars, history, Inv, TypeOK, NeverShort, Ranks, InRank, CountIsExact,
     CountedSet, InLimit, Counted
<1> QED
  BY <1>1, <1>2, <1>3, <1>4, <1>5, <1>6, <1>7, <1>8 DEF Next, Step

-----------------------------------------------------------------------------
(* Slots: without the "gap" fault a counted request keeps its key. *)

\* KeyLasts is kept by every step: a request younger than RequestTime has a key of
\* more than one tick, and only a key of one tick expires.
LEMMA KeyLastsStep ==
    ASSUME "gap" \notin Faults, TypeOK, KeyLasts, [Next]_vars
    PROVE  KeyLasts'
<1>1. ASSUME NEW r \in Requests, Incr(r) PROVE KeyLasts'
  <2>1. ttl' # Absent /\ (ttl # Absent => ttl' = ttl) /\ (ttl = Absent => ttl' = NoTTL)
    BY <1>1 DEF Incr, Add, Absent, NoTTL
  <2> QED
    BY <1>1, <2>1, SlotsAssumption
    DEF Incr, TypeOK, KeyLasts, Counted, Absent, NoTTL
<1>2. ASSUME NEW r \in Requests, Expire(r) PROVE KeyLasts'
  <2>1. ttl # Absent /\ ttl' = KeyTTL
    BY <1>2 DEF Expire, KeyLasts, Counted
  <2> QED
    BY <1>2, <2>1, SlotsAssumption
    DEF Expire, Goto, history, TypeOK, KeyLasts, Counted, Absent
<1>3. ASSUME NEW r \in Requests, Admit(r) \/ Daily(r) PROVE KeyLasts'
  BY <1>3 DEF Admit, Daily, Goto, history, TypeOK, KeyLasts, Counted
<1>4. ASSUME NEW r \in Requests, Refuse(r) \/ Release(r) PROVE KeyLasts'
  <2>1. ttl' = ttl /\ lapsed' = lapsed
    BY <1>4 DEF Refuse, Release, TakeBack, Add, KeyLasts, Counted
  <2> QED
    BY <1>4, <2>1
    DEF Refuse, Release, TakeBack, End, TypeOK, KeyLasts, Counted
<1>5. CASE Tick
  <2>1. ASSUME NEW r \in Requests, Counted(r)
        PROVE  /\ age[r] \in Nat /\ age[r] < RequestTime /\ ttl \in Int /\ ttl # 1
               /\ ttl = NoTTL \/ ttl >= KeyTTL - age[r]
    BY <1>5, <2>1, SlotsAssumption DEF Tick, TypeOK, KeyLasts, NoTTL, Absent
  <2>2. lapsed' = FALSE
    BY <1>5, <2>1 DEF Tick, KeyLasts, CountedSet, history
  <2>3. ASSUME NEW r \in Requests, Counted(r)'
        PROVE  ttl' # Absent /\ (ttl' = NoTTL \/ ttl' >= KeyTTL - age'[r])
    <3>1. Counted(r) /\ age'[r] = age[r] + 1
      BY <1>5, <2>3 DEF Tick, Counted
    <3>2. ttl # Absent /\ ttl # 1 /\ ttl' = IF ttl > 1 THEN ttl - 1 ELSE ttl
      BY <1>5, <2>1, <3>1 DEF Tick, KeyLasts
    <3> QED
      BY <2>1, <3>1, <3>2, SlotsAssumption DEF Absent, NoTTL
  <2> QED
    BY <2>2, <2>3 DEF KeyLasts
<1>6. CASE Restart
  BY <1>6 DEF Restart, KeyLasts, Counted
<1>7. CASE UNCHANGED vars
  BY <1>7 DEF vars, history, KeyLasts, Counted
<1> QED
  BY <1>1, <1>2, <1>3, <1>4, <1>5, <1>6, <1>7 DEF Next, Step

-----------------------------------------------------------------------------
(* Slots implements Semaphore *)

\* Semaphore counts as this module does.
LEMMA SameCount ==
    ASSUME NEW A
    PROVE  Promise!Cardinality(A) = Cardinality(A)
  BY DEF Promise!Cardinality, Cardinality

\* As long as the key lasts, every command takes a slot, gives one back, gives all
\* back or leaves them: a request is let in below the limit, since it is itself
\* within it and everybody who is let in is.
LEMMA PromiseStep ==
    ASSUME Inv, ~lapsed, [Next]_vars
    PROVE  [Promise!Next]_LetIn
<1>1. ASSUME NEW r \in Requests, NEW where, pc' = [pc EXCEPT ![r] = where]
      PROVE  LetIn' = IF where \in {"daily", "serve"} THEN LetIn \cup {r} ELSE LetIn \ {r}
  BY <1>1 DEF Inv, TypeOK, LetIn
<1>2. ASSUME NEW r \in Requests, NEW where, pc' = [pc EXCEPT ![r] = where],
             where \in {"daily", "serve"} => r \in LetIn
      PROVE  [Promise!Next]_LetIn
  <2>1. CASE where \in {"daily", "serve"}
    <3>1. LetIn' = LetIn \cup {r} /\ r \in LetIn
      BY <1>1, <1>2, <2>1
    <3> QED
      BY <3>1
  <2>2. CASE where \notin {"daily", "serve"}
    <3>1. LetIn' = LetIn \ {r}
      BY <1>1, <1>2, <2>2
    <3>2. CASE r \in LetIn
      BY <3>1, <3>2 DEF Promise!Next, Promise!Release
    <3>3. CASE r \notin LetIn
      BY <3>1, <3>3
    <3> QED
      BY <3>2, <3>3
  <2> QED
    BY <2>1, <2>2
<1>3. ASSUME NEW r \in Requests, Incr(r) \/ Expire(r) \/ Daily(r) \/ Refuse(r) \/ Release(r)
      PROVE  [Promise!Next]_LetIn
  <2>1. \/ UNCHANGED pc
        \/ \E where : /\ pc' = [pc EXCEPT ![r] = where]
                      /\ where \in {"daily", "serve"} => r \in LetIn
    BY <1>3 DEF Incr, Expire, Daily, Refuse, Release, TakeBack, Goto, End, LetIn
  <2>2. CASE UNCHANGED pc
    BY <2>2 DEF LetIn
  <2> QED
    BY <2>1, <2>2, <1>2
<1>4. ASSUME NEW r \in Requests, Admit(r) PROVE [Promise!Next]_LetIn
  <2>1. CASE n[r] > MaxConc
    BY <1>2, <1>4, <2>1 DEF Admit, Goto
  <2>2. CASE ~(n[r] > MaxConc)
    <3>1. /\ pc[r] = "admit" /\ pc' = [pc EXCEPT ![r] = "daily"]
          /\ n[r] \in Int /\ n[r] <= MaxConc
      BY <1>4, <2>2, SlotsAssumption DEF Admit, Goto, Inv, TypeOK
    <3>2. r \notin LetIn /\ LetIn \cup {r} \in SUBSET InLimit /\ InLimit \in SUBSET Requests
      BY <3>1 DEF Inv, InRank, LetIn, InLimit, Counted
    <3>3. /\ Cardinality(LetIn \cup {r}) <= Cardinality(InLimit)
          /\ Cardinality(InLimit) \in Nat /\ Cardinality(InLimit) <= MaxConc
      BY <3>2, CountingSubset DEF Inv, Ranks
    <3>4. /\ Cardinality(LetIn \cup {r}) = Cardinality(LetIn) + 1
          /\ Cardinality(LetIn) \in Nat
      BY <3>2, Counting
    <3>5. Cardinality(LetIn) < MaxConc
      BY <3>3, <3>4, SlotsAssumption
    <3>6. LetIn' = LetIn \cup {r}
      BY <1>1, <3>1
    <3> QED
      BY <3>2, <3>5, <3>6, SameCount DEF Promise!Next, Promise!Acquire
  <2> QED
    BY <2>1, <2>2
<1>5. CASE Tick \/ UNCHANGED vars
  BY <1>5 DEF Tick, vars, LetIn
<1>6. CASE Restart
  <2>1. LetIn' = {}
    BY <1>6 DEF Restart, LetIn
  <2> QED
    BY <2>1 DEF Promise!Next, Promise!Restart
<1> QED
  BY <1>3, <1>4, <1>5, <1>6 DEF Next, Step

-----------------------------------------------------------------------------
(* Slots: theorems *)

\* The inductive invariant, under every fault.
THEOREM Invariance == Spec => []Inv
  BY InitInv, Consecution, PTL DEF Spec

\* Whatever restarts, lost answers and failing commands do to the counter, more
\* than MaxConc downloads run only after the key lapsed under a request.
THEOREM LimitUnlessLapsed == Spec => []LimitedUnlessLapsed
<1>1. Inv => LimitedUnlessLapsed
  <2> SUFFICES ASSUME Inv, ~lapsed PROVE AtMostMaxConc
    BY DEF LimitedUnlessLapsed
  <2>1. InLimit \in SUBSET Requests /\ Holders \in SUBSET InLimit
    BY DEF InLimit, Holders, Counted, Inv, InRank
  <2> QED
    BY <2>1, CountingSubset, SlotsAssumption DEF Inv, Ranks, AtMostMaxConc
<1> QED
  BY <1>1, Invariance, PTL

\* Every path through Acquire and the deferred release gives its count back exactly
\* once: the counter is off by what the faults did and by nothing else.
THEOREM CountsAreGivenBack == Spec => []CountIsExact
<1>1. Inv => CountIsExact
  BY DEF Inv
<1> QED
  BY <1>1, Invariance, PTL

\* "Limiter enforces concurrency" (limiter.go:14), as long as the EXPIRE of every
\* Acquire follows its INCR in time: 30 minutes outlast a request of ten.
THEOREM LimitHolds ==
    ASSUME "gap" \notin Faults
    PROVE  Spec => []AtMostMaxConc
<1>1. Init => KeyLasts
  BY DEF Init, KeyLasts, Counted
<1>2. TypeOK /\ KeyLasts /\ [Next]_vars => KeyLasts'
  BY KeyLastsStep
<1>3. Inv => TypeOK
  BY DEF Inv
<1>4. KeyLasts /\ LimitedUnlessLapsed => AtMostMaxConc
  BY DEF KeyLasts, LimitedUnlessLapsed
<1> QED
  BY <1>1, <1>2, <1>3, <1>4, Invariance, LimitUnlessLapsed, PTL DEF Spec

\* Then the commands of Acquire and of the release, whatever else fails or stops,
\* implement a semaphore: what Tickets takes them for.
THEOREM SlotsAreASemaphore ==
    ASSUME "gap" \notin Faults
    PROVE  Spec => Promise!Spec
<1>1. Init => KeyLasts /\ Promise!Init
  BY DEF Init, KeyLasts, Counted, LetIn, Promise!Init
<1>2. TypeOK /\ KeyLasts /\ [Next]_vars => KeyLasts'
  BY KeyLastsStep
<1>3. Inv => TypeOK
  BY DEF Inv
<1>4. Inv /\ KeyLasts /\ [Next]_vars => [Promise!Next]_LetIn
  BY PromiseStep DEF KeyLasts
<1> QED
  BY <1>1, <1>2, <1>3, <1>4, Invariance, PTL DEF Spec, Promise!Spec

-----------------------------------------------------------------------------
(* Buckets: the invariant *)

Balance(b)  == rate[b] * now + Burst(b) - Refilled(b)
Began(b, d) == rate[b] * start[d]

BucketsSound == \A b \in Buckets : tokens[b] <= Burst(b) /\ last[b] <= now

Places ==
    \A d \in Downloads :
        /\ start[d] <= now
        /\ phase[d] = "idle" => sent[d] = 0
        /\ at[d] \in Path(d)
        /\ phase[d] = "sleep" => rate[at[d]] > 0

\* What a download got through, and what it will have when its sleep is over.
PaidBy(b, d) == rate[b] > 0 => Began(b, d) + Passed(b, d) <= Balance(b)
Paid         == \A d \in Downloads : \A b \in Path(d) : PaidBy(b, d)

SleptFor(b, d) ==
    Began(b, d) + Passed(b, d) + need[d] <= rate[b] * wake[d] + Burst(b)
Slept == \A d \in Downloads : phase[d] = "sleep" => SleptFor(at[d], d)

\* The same of all downloads together.
PaidTogether  == \A b \in Buckets \ raced : rate[b] > 0 => total[b] <= Balance(b)
SleptTogether ==
    \A d \in Downloads :
        phase[d] = "sleep" /\ at[d] \notin raced =>
            total[at[d]] + need[d] <= rate[at[d]] * wake[d] + Burst(at[d])

BucketsInv ==
    /\ BucketsTypeOK
    /\ BucketsSound
    /\ Places
    /\ Paid
    /\ Slept
    /\ PaidTogether
    /\ SleptTogether
    /\ OwnCostOnly

-----------------------------------------------------------------------------
(* Arithmetic *)

\* Multiplication distributes.
LEMMA Distributes ==
    ASSUME NEW r \in Nat, NEW x \in Int, NEW y \in Int
    PROVE  /\ r * x \in Int /\ r * y \in Int
           /\ r * (x + y) = r * x + r * y
           /\ r * (x - y) = r * x - r * y
  OBVIOUS

\* A product with a natural number is natural, and grows with its factor.
LEMMA Positive ==
    ASSUME NEW r \in Nat, NEW x \in Nat
    PROVE  r * x \in Nat
  OBVIOUS

LEMMA Monotone ==
    ASSUME NEW r \in Nat, NEW x \in Int, NEW y \in Int, x <= y
    PROVE  r * x \in Int /\ r * y \in Int /\ r * x <= r * y
<1>1. r * (y - x) = r * y - r * x /\ y - x \in Nat
  BY Distributes
<1>2. r * (y - x) \in Nat
  BY <1>1, Positive
<1> QED
  BY <1>1, <1>2, Distributes

\* A quotient and one more is enough, and grows with what is divided.
LEMMA Divided ==
    ASSUME NEW r \in Nat \ {0}, NEW a \in Nat, NEW b \in Nat, a <= b
    PROVE  /\ a \div r \in Nat /\ b \div r \in Nat
           /\ a <= r * (a \div r + 1)
           /\ a \div r <= b \div r
  OBVIOUS

\* A sleep is long enough for what is short, and no longer for less.
LEMMA SleepTimes ==
    ASSUME NEW b \in Buckets, rate[b] \in Nat \ {0},
           NEW x \in Nat, NEW y \in Nat, x <= y
    PROVE  /\ SleepTime(b, x) \in Nat /\ SleepTime(b, y) \in Nat
           /\ x <= rate[b] * SleepTime(b, x)
           /\ SleepTime(b, x) <= SleepTime(b, y)
<1>1. SleepTime(b, x) = x \div rate[b] + 1 /\ SleepTime(b, y) = y \div rate[b] + 1
  BY DEF SleepTime
<1> QED
  BY <1>1, Divided

-----------------------------------------------------------------------------
(* Buckets: what a step does to the balance *)

\* A path leads through two buckets.
LEMMA PathType ==
    ASSUME NEW d \in Downloads
    PROVE  /\ Path(d) \subseteq Buckets /\ Global \in Path(d) /\ UserOf[d] \in Path(d)
           /\ UserOf[d] # Global
  BY BucketsAssumption DEF Path, Buckets

\* A refilled bucket holds between nothing and its burst.
LEMMA RefilledType ==
    ASSUME BucketsTypeOK, BucketsSound, NEW b \in Buckets
    PROVE  /\ Refilled(b) \in Nat /\ Refilled(b) <= Burst(b)
           /\ Burst(b) \in Nat /\ rate[b] \in Nat /\ now \in Nat
           /\ rate[b] * now \in Nat /\ Balance(b) \in Nat
           /\ rate[b] * now <= Balance(b)
<1>1. /\ rate[b] \in Nat /\ tokens[b] \in Nat /\ now \in Nat /\ Second \in Nat
      /\ now - last[b] \in Nat /\ tokens[b] <= Burst(b)
  BY BucketsAssumption DEF BucketsTypeOK, BucketsSound
<1>2. /\ Burst(b) \in Nat /\ rate[b] * now \in Nat
      /\ rate[b] * (now - last[b]) \in Nat
  BY <1>1, Positive DEF Burst
<1>3. Refilled(b) \in Nat /\ Refilled(b) <= Burst(b)
  BY <1>1, <1>2 DEF Refilled
<1> QED
  BY <1>1, <1>2, <1>3 DEF Balance

\* What a chunk leaves behind is no more than what was there.
LEMMA LeftType ==
    ASSUME BucketsTypeOK, BucketsSound, NEW b \in Buckets, NEW m \in Nat
    PROVE  Left(b, m) \in Nat /\ Left(b, m) <= Refilled(b)
  BY RefilledType DEF Left

\* The balance of a bucket nobody touches stands.
LEMMA Untouched ==
    ASSUME NEW b \in Buckets,
           rate' = rate, now' = now, tokens'[b] = tokens[b], last'[b] = last[b]
    PROVE  /\ Burst(b)' = Burst(b) /\ Refilled(b)' = Refilled(b)
           /\ Balance(b)' = Balance(b)
  BY DEF Burst, Refilled, Balance

\* A bucket that is refilled now holds what is stored in it.
LEMMA Stored ==
    ASSUME BucketsTypeOK, BucketsSound, NEW b \in Buckets, NEW x \in Nat, x <= Burst(b),
           rate' = rate, now' = now, tokens'[b] = x, last'[b] = now, rate[b] > 0
    PROVE  /\ Burst(b)' = Burst(b) /\ Refilled(b)' = x
           /\ Balance(b)' = rate[b] * now + Burst(b) - x
<1>1. Burst(b)' = Burst(b)
  BY DEF Burst
<1>2. rate[b] \in Nat /\ now \in Nat /\ Burst(b) \in Nat
  BY RefilledType
<1>3. now - now = 0 /\ rate[b] * 0 = 0
  BY <1>2
<1>4. Refilled(b)' = x
  BY <1>1, <1>2, <1>3 DEF Refilled
<1> QED
  BY <1>1, <1>4 DEF Balance

\* A tick brings a bucket no more than its rate.
LEMMA Ticked ==
    ASSUME BucketsTypeOK, BucketsSound, NEW b \in Buckets,
           now' = now + 1, UNCHANGED bucketVars
    PROVE  Burst(b)' = Burst(b) /\ Balance(b)' \in Int /\ Balance(b) <= Balance(b)'
<1>1. /\ rate[b] \in Nat /\ tokens[b] \in Nat /\ now \in Nat /\ last[b] \in Nat
      /\ Burst(b) \in Nat /\ tokens[b] <= Burst(b) /\ Balance(b) \in Nat
  BY RefilledType DEF BucketsTypeOK, BucketsSound
<1>2. /\ rate' = rate /\ tokens' = tokens /\ last' = last /\ Burst(b)' = Burst(b)
  BY DEF bucketVars, Burst
<1>3. rate[b] * (now + 1) = rate[b] * now + rate[b] /\ rate[b] * now \in Int
  BY <1>1
<1>4. /\ now + 1 - last[b] = (now - last[b]) + 1
      /\ rate[b] * (now - last[b] + 1) = rate[b] * (now - last[b]) + rate[b]
      /\ rate[b] * (now - last[b]) \in Int
  BY <1>1
<1>5. Refilled(b)' \in Int /\ Refilled(b)' <= Refilled(b) + rate[b]
  <2> DEFINE more == tokens[b] + rate[b] * (now - last[b])
  <2>1. more \in Int
    BY <1>1, <1>4
  <2>2. Refilled(b) = IF rate[b] = 0 THEN tokens[b]
                      ELSE IF more > Burst(b) THEN Burst(b) ELSE more
    BY DEF Refilled
  <2>3. tokens[b] + rate[b] * (now + 1 - last[b]) = more + rate[b]
    BY <1>1, <1>4
  <2>4. Refilled(b)' = IF rate[b] = 0 THEN tokens[b]
                       ELSE IF more + rate[b] > Burst(b) THEN Burst(b) ELSE more + rate[b]
    <3>1. Refilled(b)' =
              IF rate'[b] = 0 THEN tokens'[b]
              ELSE IF tokens'[b] + rate'[b] * (now' - last'[b]) > Burst(b)' THEN Burst(b)'
              ELSE tokens'[b] + rate'[b] * (now' - last'[b])
      BY DEF Refilled
    <3>2. tokens'[b] + rate'[b] * (now' - last'[b]) = more + rate[b]
      BY <1>1, <1>2, <2>3
    <3> QED
      BY <1>2, <3>1, <3>2
  <2> HIDE DEF more
  <2> QED
    BY <1>1, <2>1, <2>2, <2>4
<1>6. Balance(b)' = rate[b] * (now + 1) + Burst(b) - Refilled(b)'
  BY <1>2 DEF Balance
<1>7. Refilled(b) \in Nat
  BY RefilledType
<1> QED
  BY <1>1, <1>2, <1>3, <1>5, <1>6, <1>7 DEF Balance

\* What has passed is an integer.
LEMMA PassedType ==
    ASSUME BucketsTypeOK, NEW d \in Downloads, NEW b \in Buckets
    PROVE  /\ Passed(b, d) \in Int /\ Began(b, d) \in Nat /\ need[d] \in Nat
           /\ wake[d] \in Nat /\ rate[b] * wake[d] \in Nat /\ total[b] \in Nat
<1>1. /\ sent[d] \in Nat /\ need[d] \in Nat /\ rate[b] \in Nat /\ start[d] \in Nat
      /\ wake[d] \in Nat /\ total[b] \in Nat
  BY DEF BucketsTypeOK
<1> QED
  BY <1>1, Positive DEF Passed, Ahead, Began

\* A download that makes no step keeps within balances that do not shrink.
LEMMA Carried ==
    ASSUME BucketsInv, rate' = rate, NEW d \in Downloads,
           \A b \in Buckets : rate[b] > 0 => Balance(b)' \in Int /\ Balance(b) <= Balance(b)',
           phase'[d] = phase[d], at'[d] = at[d], need'[d] = need[d], wake'[d] = wake[d],
           sent'[d] = sent[d], start'[d] = start[d]
    PROVE  /\ \A b \in Path(d) : PaidBy(b, d)'
           /\ phase'[d] = "sleep" => SleptFor(at[d], d)'
<1>1. ASSUME NEW b \in Path(d)
      PROVE  PaidBy(b, d)'
  <2>1. b \in Buckets
    BY PathType
  <2>2. /\ Passed(b, d)' = Passed(b, d) /\ Began(b, d)' = Began(b, d)
        /\ Passed(b, d) \in Int /\ Began(b, d) \in Nat /\ Balance(b) \in Nat
    BY <2>1, PassedType, RefilledType DEF BucketsInv, Passed, Ahead, Began
  <2>3. PaidBy(b, d)
    BY DEF BucketsInv, Paid
  <2> QED
    BY <2>1, <2>2, <2>3 DEF PaidBy
<1>2. ASSUME phase'[d] = "sleep"
      PROVE  SleptFor(at[d], d)'
  <2>1. SleptFor(at[d], d)
    BY <1>2 DEF BucketsInv, Slept
  <2> QED
    BY <2>1 DEF SleptFor, Passed, Ahead, Began, Burst
<1> QED
  BY <1>1, <1>2

-----------------------------------------------------------------------------
(* Buckets: one lemma per action, which preserves BucketsInv. *)

\* Full buckets, and nothing sent.
LEMMA BucketsInitInv == BucketsInit => BucketsInv
<1> SUFFICES ASSUME BucketsInit PROVE BucketsInv
  OBVIOUS
<1>1. rate \in [Buckets -> Nat] /\ Second \in Nat \ {0}
  BY BucketsAssumption DEF BucketsInit
<1>2. ASSUME NEW b \in Buckets
      PROVE  Burst(b) \in Nat
  BY <1>1, Positive DEF Burst
<1>3. Global \in Buckets
  BY DEF Buckets
<1>4. BucketsTypeOK
  BY <1>1, <1>2, <1>3 DEF BucketsInit, BucketsTypeOK
<1>5. BucketsSound
  BY <1>2 DEF BucketsInit, BucketsSound
<1>6. Places
  <2> SUFFICES ASSUME NEW d \in Downloads
               PROVE  /\ start[d] <= now
                      /\ phase[d] = "idle" => sent[d] = 0
                      /\ at[d] \in Path(d)
                      /\ phase[d] # "sleep"
    BY DEF Places
  <2>1. start[d] = 0 /\ now = 0 /\ phase[d] = "idle" /\ sent[d] = 0 /\ at[d] = Global
    BY DEF BucketsInit
  <2> QED
    BY <2>1, PathType
<1>7. Paid
  <2> SUFFICES ASSUME NEW d \in Downloads, NEW b \in Path(d) PROVE PaidBy(b, d)
    BY DEF Paid
  <2>1. b \in Buckets
    BY PathType
  <2>2. Began(b, d) = 0 /\ Passed(b, d) = 0
    BY <1>1, <2>1 DEF BucketsInit, Began, Passed, Ahead
  <2>3. Balance(b) \in Nat
    BY <1>4, <1>5, <2>1, RefilledType
  <2> QED
    BY <2>2, <2>3 DEF PaidBy
<1>8. PaidTogether
  <2>1. \A b \in Buckets : Balance(b) \in Nat
    BY <1>4, <1>5, RefilledType
  <2> QED
    BY <2>1 DEF BucketsInit, PaidTogether
<1>9. Slept /\ SleptTogether /\ OwnCostOnly
  BY DEF BucketsInit, Slept, SleptTogether, OwnCostOnly
<1> QED
  BY <1>4, <1>5, <1>6, <1>7, <1>8, <1>9 DEF BucketsInv

\* A step that leaves the buckets and the clock alone changes no balance.
LEMMA BucketsStand ==
    ASSUME BucketsInv, UNCHANGED <<bucketVars, now>>
    PROVE  /\ \A b \in Buckets : /\ Balance(b)' = Balance(b) /\ Balance(b) \in Nat
                                 /\ Burst(b)' = Burst(b)
           /\ rate' = rate /\ BucketsSound' /\ PaidTogether'
<1>1. ASSUME NEW b \in Buckets
      PROVE  Balance(b)' = Balance(b) /\ Balance(b) \in Nat /\ Burst(b)' = Burst(b)
  BY Untouched, RefilledType DEF BucketsInv, bucketVars
<1>2. BucketsSound'
  BY <1>1 DEF BucketsInv, BucketsSound, bucketVars
<1>3. PaidTogether'
  BY <1>1 DEF BucketsInv, PaidTogether, bucketVars
<1> QED
  BY <1>1, <1>2, <1>3 DEF bucketVars

\* What is left to show of such a step is that the download that makes it, which
\* does not sleep, has not got ahead.
LEMMA OneSteps ==
    ASSUME BucketsInv, UNCHANGED <<bucketVars, now>>, NEW d \in Downloads,
           BucketsTypeOK', Places', phase'[d] # "sleep",
           \A b \in Path(d) : PaidBy(b, d)',
           \A e \in Downloads \ {d} :
               /\ phase'[e] = phase[e] /\ at'[e] = at[e] /\ need'[e] = need[e]
               /\ wake'[e] = wake[e] /\ sent'[e] = sent[e] /\ start'[e] = start[e]
    PROVE  BucketsInv'
<1>1. BucketsSound' /\ PaidTogether' /\ rate' = rate
  BY BucketsStand
<1>2. \A b \in Buckets : Balance(b)' \in Int /\ Balance(b) <= Balance(b)'
  BY BucketsStand
<1>3. ASSUME NEW e \in Downloads \ {d}
      PROVE  /\ \A b \in Path(e) : PaidBy(b, e)'
             /\ phase'[e] = "sleep" => SleptFor(at[e], e)'
  BY <1>1, <1>2, Carried
<1>4. Paid'
  BY <1>3 DEF Paid, Path
<1>5. Slept'
  BY <1>3 DEF Slept
<1>6. SleptTogether'
  BY DEF BucketsInv, SleptTogether, bucketVars, Burst
<1>7. OwnCostOnly'
  BY DEF BucketsInv, OwnCostOnly, bucketVars, SleepTime
<1> QED
  BY <1>1, <1>4, <1>5, <1>6, <1>7 DEF BucketsInv

\* A download begins with nothing sent.
LEMMA BeginInv ==
    ASSUME NEW d \in Downloads, BucketsInv, Begin(d)
    PROVE  BucketsInv'
<1>1. BucketsTypeOK'
  BY DEF Begin, bucketVars, BucketsInv, BucketsTypeOK
<1>2. Places'
  BY DEF Begin, bucketVars, BucketsInv, BucketsTypeOK, Places, Path
<1>3. ASSUME NEW b \in Path(d)
      PROVE  PaidBy(b, d)'
  <2>1. b \in Buckets
    BY PathType
  <2>2. sent'[d] = 0 /\ phase'[d] = "write" /\ start'[d] = now
    BY DEF Begin, BucketsInv, BucketsTypeOK, Places
  <2>3. Passed(b, d)' = 0 /\ Began(b, d)' = rate[b] * now
    BY <2>2 DEF Passed, Ahead, Began, Begin, bucketVars
  <2>4. Balance(b)' = Balance(b) /\ rate[b] * now <= Balance(b) /\ rate[b] * now \in Nat
    BY <2>1, BucketsStand, RefilledType DEF Begin, BucketsInv
  <2> QED
    BY <2>3, <2>4 DEF PaidBy
<1> QED
  BY <1>1, <1>2, <1>3, OneSteps DEF Begin, BucketsInv, BucketsTypeOK

\* A chunk that is written has not passed a bucket yet.
LEMMA WriteInv ==
    ASSUME NEW d \in Downloads, BucketsInv, Write(d)
    PROVE  BucketsInv'
<1>1. PICK m \in 1 .. Chunk :
          /\ sent' = [sent EXCEPT ![d] = @ + m]
          /\ need' = [need EXCEPT ![d] = m]
  BY DEF Write
<1>2. m \in Nat
  BY BucketsAssumption
<1>3. BucketsTypeOK'
  BY <1>1, <1>2, PathType DEF Write, bucketVars, BucketsInv, BucketsTypeOK
<1>4. Places'
  BY <1>1, PathType DEF Write, bucketVars, BucketsInv, BucketsTypeOK, Places, Path
<1>5. ASSUME NEW b \in Path(d)
      PROVE  PaidBy(b, d)'
  <2>1. b \in Buckets
    BY PathType
  <2>2. phase[d] = "write" /\ phase'[d] = "arrive" /\ at'[d] = UserOf[d] /\ start' = start
    BY DEF Write, BucketsInv, BucketsTypeOK
  <2>3. sent[d] \in Nat /\ sent'[d] = sent[d] + m /\ need'[d] = m
    BY <1>1 DEF BucketsInv, BucketsTypeOK
  <2>4. Passed(b, d)' = Passed(b, d)
    BY <1>2, <2>2, <2>3 DEF Passed, Ahead, Path
  <2>5. Balance(b)' = Balance(b) /\ rate' = rate
    BY <2>1, BucketsStand DEF Write
  <2>6. PaidBy(b, d)
    BY DEF BucketsInv, Paid
  <2> QED
    BY <2>2, <2>4, <2>5, <2>6 DEF PaidBy, Began
<1> QED
  BY <1>1, <1>3, <1>4, <1>5, OneSteps DEF Write, BucketsInv, BucketsTypeOK

\* A download that ends has nothing sent.
LEMMA FinishInv ==
    ASSUME NEW d \in Downloads, BucketsInv, Finish(d)
    PROVE  BucketsInv'
<1>1. BucketsTypeOK'
  BY DEF Finish, bucketVars, BucketsInv, BucketsTypeOK
<1>2. Places'
  BY DEF Finish, bucketVars, BucketsInv, BucketsTypeOK, Places, Path
<1>3. ASSUME NEW b \in Path(d)
      PROVE  PaidBy(b, d)'
  <2>1. b \in Buckets
    BY PathType
  <2>2. sent'[d] = 0 /\ phase'[d] = "idle" /\ start'[d] = 0
    BY DEF Finish, BucketsInv, BucketsTypeOK
  <2>3. rate' = rate /\ rate[b] * 0 = 0
    BY <2>1 DEF Finish, bucketVars, BucketsInv, BucketsTypeOK
  <2>4. Passed(b, d)' = 0 /\ Began(b, d)' = 0
    BY <2>2, <2>3 DEF Passed, Ahead, Began
  <2>5. Balance(b)' \in Nat
    BY <2>1, BucketsStand DEF Finish
  <2> QED
    BY <2>4, <2>5 DEF PaidBy
<1> QED
  BY <1>1, <1>2, <1>3, OneSteps DEF Finish, BucketsInv, BucketsTypeOK

\* Time only adds to a balance.
LEMMA MillisecondInv ==
    ASSUME BucketsInv, Millisecond
    PROVE  BucketsInv'
<1>1. UNCHANGED bucketVars /\ now' = now + 1 /\ now \in Nat
  BY DEF Millisecond, BucketsInv, BucketsTypeOK
<1>2. /\ rate' = rate /\ tokens' = tokens /\ last' = last /\ total' = total /\ raced' = raced
  BY <1>1 DEF bucketVars
<1>3. \A b \in Buckets : Burst(b)' = Burst(b) /\ Balance(b)' \in Int /\ Balance(b) <= Balance(b)'
  BY <1>1, Ticked DEF BucketsInv
<1>4. BucketsTypeOK'
  BY <1>1, <1>2 DEF Millisecond, BucketsInv, BucketsTypeOK
<1>5. BucketsSound'
  BY <1>1, <1>2, <1>3 DEF BucketsInv, BucketsTypeOK, BucketsSound
<1>6. Places'
  BY <1>1, <1>2 DEF Millisecond, BucketsInv, BucketsTypeOK, Places, Path
<1>7. ASSUME NEW d \in Downloads
      PROVE  /\ \A b \in Path(d) : PaidBy(b, d)'
             /\ phase'[d] = "sleep" => SleptFor(at[d], d)'
  BY <1>2, <1>3, Carried DEF Millisecond
<1>8. Paid' /\ Slept'
  BY <1>7 DEF Paid, Slept, Path, Millisecond
<1>9. PaidTogether'
  <2> SUFFICES ASSUME NEW b \in Buckets \ raced, rate[b] > 0
               PROVE  total[b] <= Balance(b)'
    BY <1>2 DEF PaidTogether
  <2>1. total[b] \in Nat /\ Balance(b) \in Nat /\ total[b] <= Balance(b)
    BY PassedType, RefilledType DEF BucketsInv, PaidTogether, BucketsTypeOK
  <2> QED
    BY <2>1, <1>3
<1>10. SleptTogether'
  BY <1>2 DEF Millisecond, BucketsInv, SleptTogether, Burst
<1>11. OwnCostOnly'
  <2> SUFFICES ASSUME NEW d \in Downloads, phase[d] = "sleep"
               PROVE  wake[d] <= now + 1 + SleepTime(at[d], need[d])
    BY <1>1, <1>2 DEF Millisecond, OwnCostOnly, SleepTime
  <2>1. /\ rate[at[d]] \in Nat \ {0} /\ need[d] \in Nat /\ wake[d] \in Nat
        /\ at[d] \in Buckets
    BY DEF BucketsInv, BucketsTypeOK, Places
  <2>2. SleepTime(at[d], need[d]) \in Nat
    BY <2>1, SleepTimes
  <2>3. wake[d] <= now + SleepTime(at[d], need[d])
    BY DEF BucketsInv, OwnCostOnly
  <2> QED
    BY <1>1, <2>1, <2>2, <2>3
<1> QED
  BY <1>4, <1>5, <1>6, <1>8, <1>9, <1>10, <1>11 DEF BucketsInv

\* Take: a bucket is drawn on by a download that found enough in it, or that has
\* slept for what was missing.
LEMMA TakeInv ==
    ASSUME NEW d \in Downloads, NEW b \in Buckets, at[d] = b,
           BucketsInv, Take(d), phase[d] \in {"arrive", "sleep"},
           \/ rate[b] = 0 \/ Refilled(b) >= need[d]
           \/ phase[d] = "sleep" /\ now >= wake[d]
    PROVE  BucketsInv'
<1>1. /\ b \in Path(d) /\ need[d] \in Nat /\ rate[b] \in Nat
      /\ now \in Nat /\ total[b] \in Nat
  BY PathType DEF BucketsInv, BucketsTypeOK, Places
<1>2. Left(b, need[d]) \in Nat /\ Left(b, need[d]) <= Refilled(b)
  BY <1>1, LeftType DEF BucketsInv
<1>3. /\ rate' = rate /\ now' = now /\ sent' = sent /\ start' = start
      /\ tokens' = [tokens EXCEPT ![b] = Left(b, need[d])]
      /\ last' = [last EXCEPT ![b] = IF rate[b] = 0 THEN @ ELSE now]
      /\ raced' = raced \cup
             {a \in {b} : \E e \in Downloads \ {d} : phase[e] = "sleep" /\ at[e] = a}
      /\ total' = [total EXCEPT ![b] =
                      IF rate[b] = 0 \/ b \in raced' THEN 0 ELSE @ + need[d]]
      /\ at' = [at EXCEPT ![d] = Global]
      /\ wake' = [wake EXCEPT ![d] = 0]
  BY DEF Take
<1>4. /\ phase'[d] = IF b = Global THEN "write" ELSE "arrive"
      /\ need'[d] = IF b = Global THEN 0 ELSE need[d]
      /\ at'[d] = Global
      /\ phase' \in [Downloads -> {"idle", "write", "arrive", "sleep"}]
      /\ need' \in [Downloads -> Nat]
  BY <1>1 DEF Take, BucketsInv, BucketsTypeOK
<1>5. \A e \in Downloads \ {d} :
          /\ phase'[e] = phase[e] /\ at'[e] = at[e] /\ need'[e] = need[e]
          /\ wake'[e] = wake[e] /\ sent'[e] = sent[e] /\ start'[e] = start[e]
  BY DEF Take, BucketsInv, BucketsTypeOK
<1>6. BucketsTypeOK'
  <2>1. at' \in [Downloads -> Buckets] /\ wake' \in [Downloads -> Nat]
    BY <1>3, PathType DEF BucketsInv, BucketsTypeOK
  <2>2. tokens' \in [Buckets -> Nat] /\ last' \in [Buckets -> Nat]
    BY <1>1, <1>2, <1>3 DEF BucketsInv, BucketsTypeOK
  <2>3. total' \in [Buckets -> Nat]
    BY <1>1, <1>3 DEF BucketsInv, BucketsTypeOK
  <2>4. raced' \subseteq Buckets
    BY <1>1, <1>3 DEF BucketsInv, BucketsTypeOK
  <2> QED
    BY <1>3, <1>4, <2>1, <2>2, <2>3, <2>4 DEF BucketsInv, BucketsTypeOK
<1>7. BucketsSound'
  <2> SUFFICES ASSUME NEW c \in Buckets
               PROVE  tokens'[c] <= Burst(c) /\ last'[c] <= now
    BY <1>3 DEF BucketsSound, Burst
  <2>1. tokens[c] <= Burst(c) /\ last[c] <= now /\ now <= now
    BY <1>1 DEF BucketsInv, BucketsSound
  <2>2. Refilled(b) \in Nat /\ Refilled(b) <= Burst(b) /\ Burst(b) \in Nat
    BY <1>1, RefilledType DEF BucketsInv
  <2>3. tokens' \in [Buckets -> Nat] /\ last' \in [Buckets -> Nat]
    BY <1>6 DEF BucketsTypeOK
  <2>4. CASE c = b
    BY <1>1, <1>2, <1>3, <2>1, <2>2, <2>3, <2>4 DEF BucketsInv, BucketsTypeOK
  <2>5. CASE c # b
    BY <1>3, <2>1, <2>5 DEF BucketsInv, BucketsTypeOK
  <2> QED
    BY <2>4, <2>5
<1>8. Places'
  BY <1>3, <1>4, <1>5 DEF BucketsInv, Places, Path
<1>9. \A c \in Buckets \ {b} : Balance(c)' = Balance(c) /\ Balance(c) \in Nat
  BY <1>3, Untouched, RefilledType DEF BucketsInv, BucketsTypeOK
<1>10. ASSUME rate[b] > 0
       PROVE  /\ Burst(b)' = Burst(b)
              /\ Balance(b)' = rate[b] * now + Burst(b) - Left(b, need[d])
              /\ Balance(b)' \in Nat /\ Balance(b) \in Nat /\ Balance(b) <= Balance(b)'
  <2>1. /\ Refilled(b) \in Nat /\ Refilled(b) <= Burst(b) /\ Burst(b) \in Nat
        /\ rate[b] * now \in Nat
        /\ Balance(b) \in Nat
    BY <1>1, RefilledType DEF BucketsInv
  <2>2. tokens'[b] = Left(b, need[d]) /\ last'[b] = now
    BY <1>1, <1>3, <1>10 DEF BucketsInv, BucketsTypeOK
  <2>3. Left(b, need[d]) <= Burst(b)
    BY <1>2, <2>1
  <2>4. /\ Burst(b)' = Burst(b)
        /\ Balance(b)' = rate[b] * now + Burst(b) - Left(b, need[d])
    BY <1>1, <1>2, <1>3, <1>10, <2>2, <2>3, Stored DEF BucketsInv
  <2> QED
    BY <1>2, <2>1, <2>3, <2>4 DEF Balance
<1>11. \A c \in Buckets : rate[c] > 0 => Balance(c)' \in Int /\ Balance(c) <= Balance(c)'
  BY <1>9, <1>10
<1>12. ASSUME rate[b] > 0, NEW p \in Int, p <= Balance(b),
              phase[d] = "sleep" => p + need[d] <= rate[b] * wake[d] + Burst(b)
       PROVE  p + need[d] <= Balance(b)'
  <2>1. /\ Refilled(b) \in Nat /\ Burst(b) \in Nat /\ rate[b] * now \in Nat
        /\ Balance(b) = rate[b] * now + Burst(b) - Refilled(b)
        /\ wake[d] \in Nat
    BY <1>1, RefilledType DEF BucketsInv, BucketsTypeOK, Balance
  <2>2. CASE Refilled(b) >= need[d]
    <3>1. Left(b, need[d]) = Refilled(b) - need[d]
      BY <1>1, <2>1, <2>2 DEF Left
    <3> QED
      BY <1>1, <1>10, <1>12, <2>1, <3>1
  <2>3. CASE ~(Refilled(b) >= need[d])
    <3>1. Left(b, need[d]) = 0
      BY <1>1, <2>1, <2>3 DEF Left
    <3>2. phase[d] = "sleep" /\ wake[d] <= now
      BY <1>1, <1>12, <2>1, <2>3
    <3>3. rate[b] * wake[d] <= rate[b] * now /\ rate[b] * wake[d] \in Int
      BY <1>1, <2>1, <3>2, Monotone
    <3> QED
      BY <1>1, <1>10, <1>12, <2>1, <3>1, <3>2, <3>3
  <2> QED
    BY <2>2, <2>3
<1>13. ASSUME NEW e \in Downloads \ {d}
       PROVE  /\ \A c \in Path(e) : PaidBy(c, e)'
              /\ phase'[e] = "sleep" => SleptFor(at[e], e)'
  BY <1>3, <1>5, <1>11, Carried
<1>14. ASSUME NEW c \in Path(d), rate[c] > 0
       PROVE  Began(c, d)' + Passed(c, d)' <= Balance(c)'
  <2>1. c \in Buckets
    BY PathType
  <2>2. /\ Began(c, d)' = Began(c, d) /\ Began(c, d) \in Nat /\ Passed(c, d) \in Int
        /\ Began(c, d) + Passed(c, d) <= Balance(c)
    BY <1>3, <1>14, <2>1, PassedType DEF BucketsInv, Paid, PaidBy, Began
  <2>3. sent'[d] = sent[d] /\ sent[d] \in Nat /\ UserOf[d] # Global
    BY <1>3, PathType DEF BucketsInv, BucketsTypeOK
  <2>4. CASE c = b
    <3>1. Passed(c, d)' = Passed(c, d) + need[d]
      BY <1>1, <1>4, <2>3, <2>4, PathType DEF Passed, Ahead, Path
    <3>2. phase[d] = "sleep" => Began(b, d) + Passed(b, d) + need[d] <= rate[b] * wake[d] + Burst(b)
      BY DEF BucketsInv, Slept, SleptFor
    <3>3. Began(b, d) + Passed(b, d) + need[d] <= Balance(b)'
      BY <1>12, <1>14, <2>2, <2>4, <3>2
    <3> QED
      BY <1>1, <2>2, <2>4, <3>1, <3>3
  <2>5. CASE c # b
    <3>1. Passed(c, d)' = Passed(c, d)
      BY <1>1, <1>4, <2>3, <2>5, PathType DEF Passed, Ahead, Path
    <3>2. Balance(c)' = Balance(c)
      BY <1>9, <2>1, <2>5
    <3> QED
      BY <2>2, <3>1, <3>2
  <2> QED
    BY <2>4, <2>5
<1>15. Paid'
  BY <1>3, <1>13, <1>14 DEF Paid, PaidBy, Path
<1>16. Slept'
  BY <1>4, <1>5, <1>13 DEF Slept
<1>17. PaidTogether'
  <2> SUFFICES ASSUME NEW c \in Buckets \ raced', rate[c] > 0
               PROVE  total'[c] <= Balance(c)'
    BY <1>3 DEF PaidTogether
  <2>1. total[c] \in Nat /\ total[c] <= Balance(c)
    BY <1>3 DEF BucketsInv, BucketsTypeOK, PaidTogether
  <2>2. CASE c = b
    <3>1. total'[b] = total[b] + need[d]
      BY <1>1, <1>3, <2>2 DEF BucketsInv, BucketsTypeOK
    <3>2. b \notin raced
      BY <1>3, <2>2
    <3>3. phase[d] = "sleep" => total[b] + need[d] <= rate[b] * wake[d] + Burst(b)
      BY <3>2 DEF BucketsInv, SleptTogether
    <3> QED
      BY <1>1, <1>12, <2>1, <2>2, <3>1, <3>3
  <2>3. CASE c # b
    BY <1>3, <1>9, <2>1, <2>3 DEF BucketsInv, BucketsTypeOK
  <2> QED
    BY <2>2, <2>3
<1>18. SleptTogether'
  <2> SUFFICES ASSUME NEW e \in Downloads, phase'[e] = "sleep", at'[e] \notin raced'
               PROVE  total'[at'[e]] + need'[e] <= rate[at'[e]] * wake'[e] + Burst(at'[e])
    BY <1>3 DEF SleptTogether, Burst
  <2>1. e # d /\ at'[e] = at[e] /\ need'[e] = need[e] /\ wake'[e] = wake[e] /\ phase[e] = "sleep"
    BY <1>4, <1>5
  <2>2. at[e] \notin raced /\ at[e] # b
    BY <1>3, <2>1
  <2>3. total'[at[e]] = total[at[e]]
    BY <1>3, <2>2 DEF BucketsInv, BucketsTypeOK
  <2> QED
    BY <2>1, <2>2, <2>3 DEF BucketsInv, SleptTogether
<1>19. OwnCostOnly'
  BY <1>3, <1>4, <1>5 DEF BucketsInv, OwnCostOnly, SleepTime
<1> QED
  BY <1>6, <1>7, <1>8, <1>15, <1>16, <1>17, <1>18, <1>19 DEF BucketsInv

\* A download that finds too little sleeps for what is missing.
LEMMA SleepInv ==
    ASSUME NEW d \in Downloads, BucketsInv, Arrive(d),
           rate[at[d]] # 0, ~(Refilled(at[d]) >= need[d])
    PROVE  BucketsInv'
<1> DEFINE b     == at[d]
           short == need[d] - Refilled(b)
<1>1. /\ b \in Path(d) /\ b \in Buckets /\ need[d] \in Nat /\ rate[b] \in Nat \ {0}
      /\ now \in Nat /\ total[b] \in Nat
  BY PathType DEF BucketsInv, BucketsTypeOK, Places
<1>2. /\ Refilled(b) \in Nat /\ Refilled(b) <= Burst(b) /\ Burst(b) \in Nat
      /\ Balance(b) \in Nat /\ rate[b] * now \in Nat
      /\ Balance(b) = rate[b] * now + Burst(b) - Refilled(b)
  BY <1>1, RefilledType DEF BucketsInv, Balance
<1>3. short \in Nat /\ short <= need[d]
  BY <1>1, <1>2
<1>4. /\ SleepTime(b, short) \in Nat
      /\ SleepTime(b, short) <= SleepTime(b, need[d])
      /\ short <= rate[b] * SleepTime(b, short)
  BY <1>1, <1>3, SleepTimes
<1>5. /\ tokens' = [tokens EXCEPT ![b] = Refilled(b)]
      /\ last' = [last EXCEPT ![b] = now]
      /\ wake' = [wake EXCEPT ![d] = now + SleepTime(b, short)]
      /\ phase' = [phase EXCEPT ![d] = "sleep"] /\ phase[d] = "arrive"
      /\ rate' = rate /\ now' = now /\ at' = at /\ need' = need /\ sent' = sent
      /\ start' = start /\ total' = total /\ raced' = raced
  BY DEF Arrive
<1>6. BucketsTypeOK'
  BY <1>1, <1>2, <1>4, <1>5 DEF BucketsInv, BucketsTypeOK
<1>7. BucketsSound'
  BY <1>1, <1>2, <1>5 DEF BucketsInv, BucketsTypeOK, BucketsSound, Burst
<1>8. Places'
  BY <1>1, <1>5 DEF BucketsInv, BucketsTypeOK, Places, Path
<1>9. \A c \in Buckets : Balance(c)' = Balance(c) /\ Balance(c) \in Nat
  <2> SUFFICES ASSUME NEW c \in Buckets PROVE Balance(c)' = Balance(c)
    BY RefilledType DEF BucketsInv
  <2>1. CASE c = b
    BY <1>1, <1>2, <1>5, <2>1, Stored DEF BucketsInv, BucketsTypeOK
  <2>2. CASE c # b
    BY <1>5, <2>2, Untouched DEF BucketsInv, BucketsTypeOK
  <2> QED
    BY <2>1, <2>2
<1>10. ASSUME NEW e \in Downloads \ {d}
       PROVE  /\ \A c \in Path(e) : PaidBy(c, e)'
              /\ phase'[e] = "sleep" => SleptFor(at[e], e)'
  <2>1. /\ phase'[e] = phase[e] /\ at'[e] = at[e] /\ need'[e] = need[e]
        /\ wake'[e] = wake[e] /\ sent'[e] = sent[e] /\ start'[e] = start[e]
    BY <1>5 DEF BucketsInv, BucketsTypeOK
  <2>2. \A c \in Buckets : Balance(c)' \in Int /\ Balance(c) <= Balance(c)'
    BY <1>9
  <2> QED
    BY <1>5, <2>1, <2>2, Carried
<1>11. ASSUME NEW c \in Path(d)
       PROVE  /\ Began(c, d)' = Began(c, d) /\ Passed(c, d)' = Passed(c, d)
              /\ PaidBy(c, d)'
  <2>1. c \in Buckets
    BY PathType
  <2>2. phase'[d] = "sleep"
    BY <1>5 DEF BucketsInv, BucketsTypeOK
  <2>3. Began(c, d)' = Began(c, d) /\ Passed(c, d)' = Passed(c, d)
    BY <1>5, <2>2 DEF Began, Passed, Ahead
  <2> QED
    BY <1>5, <1>9, <2>1, <2>3 DEF BucketsInv, Paid, PaidBy
<1>12. Paid'
  BY <1>10, <1>11 DEF Paid, Path
<1>13. wake'[d] = now + SleepTime(b, short)
  BY <1>5 DEF BucketsInv, BucketsTypeOK
<1>14. ASSUME NEW p \in Int, p <= Balance(b)
       PROVE  p + need[d] <= rate[b] * wake'[d] + Burst(b)
  <2>1. /\ rate[b] * wake'[d] = rate[b] * now + rate[b] * SleepTime(b, short)
        /\ rate[b] * SleepTime(b, short) \in Int
    BY <1>1, <1>4, <1>13, Distributes
  <2> QED
    BY <1>1, <1>2, <1>4, <1>14, <2>1
<1>15. Slept'
  <2>1. Began(b, d) + Passed(b, d) \in Int /\ Began(b, d) + Passed(b, d) <= Balance(b)
    BY <1>1, PassedType DEF BucketsInv, Paid, PaidBy
  <2>2. Began(b, d) + Passed(b, d) + need[d] <= rate[b] * wake'[d] + Burst(b)
    BY <1>14, <2>1
  <2>3. SleptFor(b, d)'
    BY <1>1, <1>5, <1>11, <2>2 DEF SleptFor, Burst
  <2> QED
    BY <1>5, <1>10, <2>3 DEF Slept
<1>16. PaidTogether'
  BY <1>5, <1>9 DEF BucketsInv, PaidTogether
<1>17. SleptTogether'
  <2> SUFFICES ASSUME NEW e \in Downloads, phase'[e] = "sleep", at[e] \notin raced
               PROVE  total[at[e]] + need[e] <= rate[at[e]] * wake'[e] + Burst(at[e])
    BY <1>5 DEF SleptTogether, Burst
  <2>1. CASE e = d
    <3>1. total[b] <= Balance(b)
      BY <1>1, <2>1 DEF BucketsInv, PaidTogether
    <3> QED
      BY <1>1, <1>14, <2>1, <3>1
  <2>2. CASE e # d
    <3>1. phase[e] = "sleep" /\ wake'[e] = wake[e]
      BY <1>5, <2>2 DEF BucketsInv, BucketsTypeOK
    <3> QED
      BY <3>1 DEF BucketsInv, SleptTogether
  <2> QED
    BY <2>1, <2>2
<1>18. OwnCostOnly'
  <2> SUFFICES ASSUME NEW e \in Downloads, phase'[e] = "sleep"
               PROVE  wake'[e] <= now + SleepTime(at[e], need[e])
    BY <1>5 DEF OwnCostOnly, SleepTime
  <2>1. CASE e = d
    <3>1. SleepTime(b, need[d]) \in Nat
      BY <1>1, SleepTimes
    <3> QED
      BY <1>1, <1>4, <1>13, <2>1, <3>1
  <2>2. CASE e # d
    <3>1. phase[e] = "sleep" /\ wake'[e] = wake[e]
      BY <1>5, <2>2 DEF BucketsInv, BucketsTypeOK
    <3> QED
      BY <3>1 DEF BucketsInv, OwnCostOnly
  <2> QED
    BY <2>1, <2>2
<1> QED
  BY <1>6, <1>7, <1>8, <1>12, <1>15, <1>16, <1>17, <1>18 DEF BucketsInv

\* BucketsInv is inductive.
LEMMA BucketsStep == BucketsInv /\ [BucketsNext]_throttle => BucketsInv'
<1> SUFFICES ASSUME BucketsInv, [BucketsNext]_throttle PROVE BucketsInv'
  OBVIOUS
<1>1. ASSUME NEW d \in Downloads, Begin(d) PROVE BucketsInv'
  BY <1>1, BeginInv
<1>2. ASSUME NEW d \in Downloads, Write(d) PROVE BucketsInv'
  BY <1>2, WriteInv
<1>3. ASSUME NEW d \in Downloads, Arrive(d) PROVE BucketsInv'
  <2>1. CASE rate[at[d]] = 0 \/ Refilled(at[d]) >= need[d]
    BY <1>3, <2>1, TakeInv DEF Arrive, BucketsInv, BucketsTypeOK
  <2>2. CASE ~(rate[at[d]] = 0 \/ Refilled(at[d]) >= need[d])
    BY <1>3, <2>2, SleepInv
  <2> QED
    BY <2>1, <2>2
<1>4. ASSUME NEW d \in Downloads, Wake(d) PROVE BucketsInv'
  BY <1>4, TakeInv DEF Wake, BucketsInv, BucketsTypeOK
<1>5. ASSUME NEW d \in Downloads, Finish(d) PROVE BucketsInv'
  BY <1>5, FinishInv
<1>6. CASE Millisecond
  BY <1>6, MillisecondInv
<1>7. CASE UNCHANGED throttle
  BY <1>7 DEF throttle, bucketVars, BucketsInv, BucketsTypeOK, BucketsSound, Places, Paid, PaidBy, Slept,
     SleptFor, PaidTogether, SleptTogether, OwnCostOnly, Began, Passed, Ahead, Path,
     Balance, Refilled, Burst, SleepTime
<1> QED
  BY <1>1, <1>2, <1>3, <1>4, <1>5, <1>6, <1>7 DEF BucketsNext

-----------------------------------------------------------------------------
(* Buckets: theorems *)

\* The inductive invariant of the buckets and of the downloads that sleep at them.
THEOREM BucketsInvariance == BucketsSpec => []BucketsInv
  BY BucketsInitInv, BucketsStep, PTL DEF BucketsSpec

\* Type correctness: a bucket is never in debt, whatever is taken from it.
THEOREM BucketsTypeCorrect == BucketsSpec => []BucketsTypeOK
<1>1. BucketsInv => BucketsTypeOK
  BY DEF BucketsInv
<1> QED
  BY <1>1, BucketsInvariance, PTL

\* No download gets more through a bucket than its rate allows since it began, and
\* one burst, although it takes its tokens without a look at whether they are there.
THEOREM EachWithinRate == BucketsSpec => []RateHolds
<1>1. BucketsInv => RateHolds
  <2> SUFFICES ASSUME BucketsInv, NEW d \in Downloads, NEW b \in Path(d), rate[b] > 0
               PROVE  Passed(b, d) <= rate[b] * (now - start[d]) + Burst(b)
    BY DEF RateHolds
  <2>1. b \in Buckets /\ BucketsTypeOK /\ BucketsSound
    BY PathType DEF BucketsInv
  <2>2. /\ Refilled(b) \in Nat /\ Burst(b) \in Nat /\ rate[b] \in Nat /\ now \in Nat
        /\ rate[b] * now \in Nat
        /\ Passed(b, d) \in Int /\ Began(b, d) \in Nat /\ start[d] \in Nat
    BY <2>1, RefilledType, PassedType DEF BucketsTypeOK
  <2>3. Began(b, d) + Passed(b, d) <= rate[b] * now + Burst(b) - Refilled(b)
    BY DEF BucketsInv, Paid, PaidBy, Balance
  <2>4. rate[b] * (now - start[d]) = rate[b] * now - Began(b, d)
    BY <2>2, Distributes DEF Began
  <2> QED
    BY <2>2, <2>3, <2>4
<1> QED
  BY <1>1, BucketsInvariance, PTL

\* All downloads together keep to the rate of a bucket that none of them drew on while
\* another slept at it.
THEOREM TogetherWithinRate == BucketsSpec => []SharedRateHolds
<1>1. BucketsInv => SharedRateHolds
  <2> SUFFICES ASSUME BucketsInv, NEW b \in Buckets \ raced, rate[b] > 0
               PROVE  total[b] <= rate[b] * now + Burst(b)
    BY DEF SharedRateHolds
  <2>1. BucketsTypeOK /\ BucketsSound
    BY DEF BucketsInv
  <2>2. /\ Refilled(b) \in Nat /\ Burst(b) \in Nat /\ rate[b] * now \in Nat
        /\ total[b] \in Nat
    BY <2>1, RefilledType DEF BucketsTypeOK
  <2>3. total[b] <= rate[b] * now + Burst(b) - Refilled(b)
    BY DEF BucketsInv, PaidTogether, Balance
  <2> QED
    BY <2>2, <2>3
<1> QED
  BY <1>1, BucketsInvariance, PTL

\* No download sleeps for what others have taken: for its own chunk at most, counted
\* from now.
THEOREM SleepsForItself == BucketsSpec => []OwnCostOnly
<1>1. BucketsInv => OwnCostOnly
  BY DEF BucketsInv
<1> QED
  BY <1>1, BucketsInvariance, PTL
=============================================================================
