----------------------------- MODULE ServerProofs -----------------------------
(***************************************************************************)
(* Proofs about Startup and Responses, for any number of servers and       *)
(* starts, of requests and envelopes, and every fault.                     *)
(*                                                                         *)
(* Startup: seeds run under no lock, yet the unique e-mail of the creator  *)
(* and the foreign keys let one of them store a track (OneSeed).  A seed   *)
(* that meets no other finds what it stored (Found) and hashes a whole     *)
(* file, which goes to the store unless it is refused there (Filed).       *)
(*                                                                         *)
(* Responses: who fills an envelope has it to himself, and who encodes one *)
(* finds himself in it or those that began since.                          *)
(***************************************************************************)
EXTENDS Startup, Responses, TLAPS

-----------------------------------------------------------------------------
(* Responses: each step keeps the invariant *)

\* The envelope of Get is held by nobody who fills one, and who encodes it counts
\* the new request among the later ones.
LEMMA GetInv ==
    ASSUME NEW r \in Requests, ResponsesInv, Get(r)
    PROVE  ResponsesInv'
<1> USE DEF Words
<1>1. PICK e \in pool \cup Free :
        /\ pool' = pool \ {e}
        /\ env'  = IF e \in pool THEN env
                   ELSE [env EXCEPT ![e] = [w \in Words |-> NoRequest]]
        /\ held' = [held EXCEPT ![r] = e]
  BY DEF Get
<1>2. e \in Envelopes /\ (e \notin pool => \A q \in Requests : held[q] # e)
  BY <1>1 DEF ResponsesInv, ResponsesTypeOK, Free
<1>3. \A q \in Requests : at[q] = "fill" => held[q] # e
  BY <1>1, <1>2 DEF ResponsesInv, Filled
<1>4. /\ at[r] = "idle" /\ at' = [at EXCEPT ![r] = "fill"]
      /\ todo' = [todo EXCEPT ![r] = Words] /\ out' = out
      /\ later' = [q \in Requests |-> IF at[q] = "encode" THEN later[q] \cup {r}
                                      ELSE later[q]]
  BY DEF Get
<1>5. ResponsesTypeOK'
  <2>1. env' \in [Envelopes -> [Words -> Requests \cup {NoRequest}]]
    BY <1>1, <1>2 DEF ResponsesInv, ResponsesTypeOK
  <2> QED
    BY <1>1, <1>2, <1>4, <2>1 DEF ResponsesInv, ResponsesTypeOK
<1>6. Holds'
  BY <1>1, <1>2, <1>4 DEF ResponsesInv, ResponsesTypeOK, Holds
<1>7. \A q \in Requests : at[q] \in {"fill", "encode"} =>
        q # r /\ env'[held[q]] = env[held[q]]
  BY <1>1, <1>2, <1>4 DEF ResponsesInv, ResponsesTypeOK, Holds
<1>8. Filled'
  <2> SUFFICES ASSUME NEW q \in Requests, at'[q] = "fill"
               PROVE  /\ held'[q] \notin pool'
                      /\ \A p \in Requests :
                          /\ at'[p] = "fill" /\ held'[p] = held'[q] => p = q
                          /\ at'[p] = "encode" /\ held'[p] = held'[q] => q \in later'[p]
                      /\ \A w \in Words \ todo'[q] : env'[held'[q]][w] = q
    BY DEF Filled
  <2>1. CASE q = r
    <3>1. held'[r] = e /\ todo'[r] = Words
      BY <1>1, <1>4 DEF ResponsesInv, ResponsesTypeOK
    <3>2. \A p \in Requests :
            /\ at'[p] = "fill" /\ held'[p] = e => p = r
            /\ at'[p] = "encode" /\ held'[p] = e => r \in later'[p]
      BY <1>1, <1>3, <1>4 DEF ResponsesInv, ResponsesTypeOK
    <3> QED
      BY <1>1, <2>1, <3>1, <3>2
  <2>2. CASE q # r
    <3>1. /\ at[q] = "fill" /\ held'[q] = held[q] /\ held[q] # e /\ todo'[q] = todo[q]
          /\ env'[held[q]] = env[held[q]]
      BY <1>1, <1>3, <1>4, <1>7, <2>2 DEF ResponsesInv, ResponsesTypeOK
    <3>2. \A p \in Requests :
            /\ at'[p] = "fill" /\ held'[p] = held[q] => p = q
            /\ at'[p] = "encode" /\ held'[p] = held[q] => q \in later'[p]
      <4> SUFFICES ASSUME NEW p \in Requests
                   PROVE  /\ at'[p] = "fill" /\ held'[p] = held[q] => p = q
                          /\ at'[p] = "encode" /\ held'[p] = held[q] => q \in later'[p]
        OBVIOUS
      <4>1. CASE p = r
        BY <1>1, <1>4, <3>1, <4>1 DEF ResponsesInv, ResponsesTypeOK
      <4>2. CASE p # r
        BY <1>1, <1>4, <3>1, <4>2 DEF ResponsesInv, ResponsesTypeOK, Filled
      <4> QED
        BY <4>1, <4>2
    <3> QED
      BY <1>1, <3>1, <3>2 DEF ResponsesInv, Filled
  <2> QED
    BY <2>1, <2>2
<1>9. Encoded' /\ OwnOrOverlapping'
  <2> SUFFICES ASSUME NEW q \in Requests
               PROVE  /\ at'[q] = "encode" =>
                         /\ \A w \in Words : env'[held'[q]][w] \in {q} \cup later'[q]
                         /\ \A w \in Words \ todo'[q] :
                              out'[q][w] \in {q} \cup later'[q]
                      /\ at'[q] = "sent" =>
                         \A w \in Words : out'[q][w] \in {q} \cup later'[q]
    BY DEF Encoded, OwnOrOverlapping
  <2>1. CASE q = r
    BY <1>4, <2>1 DEF ResponsesInv, ResponsesTypeOK
  <2>2. CASE q # r
    <3>1. /\ at'[q] = at[q] /\ held'[q] = held[q] /\ todo'[q] = todo[q] /\ out'[q] = out[q]
          /\ later[q] \subseteq later'[q]
      BY <1>1, <1>4, <2>2 DEF ResponsesInv, ResponsesTypeOK
    <3> QED
      BY <1>7, <3>1 DEF ResponsesInv, Encoded, OwnOrOverlapping
  <2> QED
    BY <2>1, <2>2
<1> QED
  BY <1>5, <1>6, <1>8, <1>9 DEF ResponsesInv

\* A word is stored in an envelope that nobody else fills; who encodes it began
\* before.
LEMMA FillInv ==
    ASSUME NEW r \in Requests, NEW w \in Words, ResponsesInv, Fill(r, w)
    PROVE  ResponsesInv'
<1>1. /\ at[r] = "fill" /\ w \in todo[r] /\ held[r] \in Envelopes
      /\ env'  = [env EXCEPT ![held[r]][w] = r]
      /\ todo' = [todo EXCEPT ![r] = @ \ {w}]
      /\ UNCHANGED <<pool, at, held, out, later>>
  BY DEF Fill, ResponsesInv, Holds
<1>2. ResponsesTypeOK'
  BY <1>1 DEF ResponsesInv, ResponsesTypeOK
<1>3. \A f \in Envelopes : \A v \in Words :
        env'[f][v] = IF f = held[r] /\ v = w THEN r ELSE env[f][v]
  BY <1>1 DEF ResponsesInv, ResponsesTypeOK
<1>4. \A q \in Requests : todo'[q] = IF q = r THEN todo[q] \ {w} ELSE todo[q]
  BY <1>1 DEF ResponsesInv, ResponsesTypeOK
<1>5. Holds'
  BY <1>1 DEF ResponsesInv, Holds
<1>6. Filled'
  <2>1. \A q \in Requests : at[q] = "fill" =>
          \A v \in Words \ todo'[q] : env'[held[q]][v] = q
    BY <1>1, <1>3, <1>4 DEF ResponsesInv, Filled, Holds
  <2> QED
    BY <1>1, <2>1 DEF ResponsesInv, Filled
<1>7. Encoded'
  <2>1. \A q \in Requests : at[q] = "encode" =>
          \A v \in Words : env'[held[q]][v] \in {q} \cup later[q]
    BY <1>1, <1>3 DEF ResponsesInv, Filled, Holds, Encoded
  <2>2. \A q \in Requests : at[q] = "encode" => todo'[q] = todo[q]
    BY <1>1, <1>4
  <2> QED
    BY <1>1, <2>1, <2>2 DEF ResponsesInv, Encoded
<1>8. OwnOrOverlapping'
  BY <1>1 DEF ResponsesInv, OwnOrOverlapping
<1> QED
  BY <1>2, <1>5, <1>6, <1>7, <1>8 DEF ResponsesInv

\* Who puts his envelope back has filled all of it.
LEMMA PutInv ==
    ASSUME NEW r \in Requests, ResponsesInv, Put(r)
    PROVE  ResponsesInv'
<1>1. /\ at[r] = "fill" /\ todo[r] = {} /\ held[r] \in Envelopes
      /\ pool' = pool \cup {held[r]}
      /\ at'   = [at EXCEPT ![r] = "encode"]
      /\ todo' = [todo EXCEPT ![r] = Words]
      /\ UNCHANGED <<env, held, out, later>>
  BY DEF Put, ResponsesInv, Holds
<1>2. ResponsesTypeOK'
  BY <1>1 DEF ResponsesInv, ResponsesTypeOK
<1>3. \A q \in Requests :
        /\ q # r => at'[q] = at[q] /\ todo'[q] = todo[q]
        /\ q = r => at'[q] = "encode" /\ todo'[q] = Words
  BY <1>1 DEF ResponsesInv, ResponsesTypeOK
<1>4. \A v \in Words : env[held[r]][v] = r
  BY <1>1 DEF ResponsesInv, Filled
<1>5. \A q \in Requests : q # r /\ at[q] = "fill" =>
        held[q] # held[r] /\ r \notin {q}
  BY <1>1 DEF ResponsesInv, Filled
<1>6. Holds'
  BY <1>1, <1>3 DEF ResponsesInv, Holds
<1>7. Filled'
  BY <1>1, <1>3, <1>5 DEF ResponsesInv, Filled
<1>8. Encoded' /\ OwnOrOverlapping'
  BY <1>1, <1>3, <1>4 DEF ResponsesInv, Encoded, OwnOrOverlapping
<1> QED
  BY <1>2, <1>6, <1>7, <1>8 DEF ResponsesInv

\* What is loaded is the request's own, or of one that began since.
LEMMA EncodeInv ==
    ASSUME NEW r \in Requests, NEW w \in Words, ResponsesInv, Encode(r, w)
    PROVE  ResponsesInv'
<1>1. /\ at[r] = "encode" /\ w \in todo[r] /\ held[r] \in Envelopes
      /\ out'  = [out EXCEPT ![r][w] = env[held[r]][w]]
      /\ todo' = [todo EXCEPT ![r] = @ \ {w}]
      /\ UNCHANGED <<pool, env, at, held, later>>
  BY DEF Encode, ResponsesInv, Holds
<1>2. ResponsesTypeOK'
  BY <1>1 DEF ResponsesInv, ResponsesTypeOK
<1>3. \A q \in Requests : \A v \in Words :
        out'[q][v] = IF q = r /\ v = w THEN env[held[r]][w] ELSE out[q][v]
  BY <1>1 DEF ResponsesInv, ResponsesTypeOK
<1>4. \A q \in Requests : todo'[q] = IF q = r THEN todo[q] \ {w} ELSE todo[q]
  BY <1>1 DEF ResponsesInv, ResponsesTypeOK
<1>5. Holds'
  BY <1>1 DEF ResponsesInv, Holds
<1>6. Filled'
  <2>1. \A q \in Requests : at[q] = "fill" => todo'[q] = todo[q]
    BY <1>1, <1>4
  <2> QED
    BY <1>1, <2>1 DEF ResponsesInv, Filled
<1>7. Encoded' /\ OwnOrOverlapping'
  BY <1>1, <1>3, <1>4 DEF ResponsesInv, Encoded, OwnOrOverlapping
<1> QED
  BY <1>2, <1>5, <1>6, <1>7 DEF ResponsesInv

\* All words are loaded when an answer is sent.
LEMMA DoneInv ==
    ASSUME NEW r \in Requests, ResponsesInv, Done(r)
    PROVE  ResponsesInv'
<1>1. /\ at[r] = "encode" /\ todo[r] = {}
      /\ at'   = [at EXCEPT ![r] = "sent"]
      /\ held' = [held EXCEPT ![r] = NoEnv]
      /\ UNCHANGED <<pool, env, todo, out, later>>
  BY DEF Done
<1>2. ResponsesTypeOK'
  BY <1>1 DEF ResponsesInv, ResponsesTypeOK
<1>3. \A q \in Requests :
        /\ q # r => at'[q] = at[q] /\ held'[q] = held[q]
        /\ q = r => at'[q] = "sent"
  BY <1>1 DEF ResponsesInv, ResponsesTypeOK
<1>4. Holds' /\ Filled' /\ Encoded'
  BY <1>1, <1>3 DEF ResponsesInv, Holds, Filled, Encoded
<1>5. OwnOrOverlapping'
  BY <1>1, <1>3 DEF ResponsesInv, Encoded, OwnOrOverlapping
<1> QED
  BY <1>2, <1>4, <1>5 DEF ResponsesInv

\* An answer that takes no envelope is the request's own.
LEMMA FailInv ==
    ASSUME NEW r \in Requests, ResponsesInv, Fail(r)
    PROVE  ResponsesInv'
<1>1. /\ at[r] = "idle"
      /\ out' = [out EXCEPT ![r] = [w \in Words |-> r]]
      /\ at'  = [at EXCEPT ![r] = "sent"]
      /\ UNCHANGED <<pool, env, held, todo, later>>
  BY DEF Fail
<1>2. ResponsesTypeOK'
  BY <1>1 DEF ResponsesInv, ResponsesTypeOK
<1>3. \A q \in Requests :
        /\ q # r => at'[q] = at[q] /\ out'[q] = out[q]
        /\ q = r => at'[q] = "sent" /\ \A w \in Words : out'[q][w] = r
  BY <1>1 DEF ResponsesInv, ResponsesTypeOK
<1>4. Holds' /\ Filled'
  BY <1>1, <1>3 DEF ResponsesInv, Holds, Filled
<1>5. Encoded' /\ OwnOrOverlapping'
  BY <1>1, <1>3 DEF ResponsesInv, Encoded, OwnOrOverlapping
<1> QED
  BY <1>2, <1>4, <1>5 DEF ResponsesInv

\* The garbage collector takes no envelope from anybody.
LEMMA DropInv ==
    ASSUME NEW e \in Envelopes, ResponsesInv, Drop(e)
    PROVE  ResponsesInv'
  BY DEF Drop, ResponsesInv, ResponsesTypeOK, Holds, Filled, Encoded, OwnOrOverlapping

\* No request has been answered yet.
LEMMA ResponsesInitInv == ResponsesInit => ResponsesInv
  BY DEF ResponsesInit, ResponsesInv, ResponsesTypeOK, Holds, Filled, Encoded, OwnOrOverlapping

\* Every step keeps the invariant.
LEMMA ResponsesStep == ResponsesInv /\ [ResponsesNext]_answers => ResponsesInv'
<1> SUFFICES ASSUME ResponsesInv, [ResponsesNext]_answers PROVE ResponsesInv'
  OBVIOUS
<1>1. ASSUME NEW r \in Requests, Get(r) \/ Put(r) \/ Done(r) \/ Fail(r)
      PROVE  ResponsesInv'
  BY <1>1, GetInv, PutInv, DoneInv, FailInv
<1>2. ASSUME NEW r \in Requests, NEW w \in Words, Fill(r, w) \/ Encode(r, w)
      PROVE  ResponsesInv'
  BY <1>2, FillInv, EncodeInv
<1>3. ASSUME NEW e \in Envelopes, Drop(e) PROVE ResponsesInv'
  BY <1>3, DropInv
<1>4. CASE UNCHANGED answers
  BY <1>4 DEF answers, ResponsesInv, ResponsesTypeOK, Holds, Filled, Encoded, OwnOrOverlapping
<1> QED
  BY <1>1, <1>2, <1>3, <1>4 DEF ResponsesNext

\* The inductive invariant of the answers.
THEOREM AnswersInvariance == ResponsesSpec => []ResponsesInv
  BY ResponsesInitInv, ResponsesStep, PTL DEF ResponsesSpec

\* A client receives its own answer, or words of answers that began while its own
\* was encoded: however many requests there are, and however the words of envelopes
\* are stored and loaded.
THEOREM AnswersAreOwn == ResponsesSpec => []OwnOrOverlapping
<1>1. ResponsesInv => OwnOrOverlapping
  BY DEF ResponsesInv
<1> QED
  BY <1>1, AnswersInvariance, PTL

-----------------------------------------------------------------------------
(* Startup: types *)

\* The calls of a seed in their order.
LEMMA ThenFacts ==
    /\ DOMAIN Then = Emails \cup {"album", "ffmpeg", "wav", "hash", "rename", "track",
                                  "job", "comment"}
    /\ Then["creator"] = "listener" /\ Then["listener"] = "admin"
    /\ Then["admin"] = "album" /\ Then["album"] = "ffmpeg" /\ Then["ffmpeg"] = "wav"
    /\ Then["wav"] = "hash" /\ Then["hash"] = "rename" /\ Then["rename"] = "track"
    /\ Then["track"] = "job" /\ Then["job"] = "comment" /\ Then["comment"] = "serve"
  BY DEF Then, Emails

Places == {"down", "lock", "migrate", "unlock", "lookup", "serve"} \cup DOMAIN Then

\* A server that stops keeps to the types.
LEMMA DownType ==
    ASSUME TypeOK, NEW s \in Servers, Down(s)
    PROVE  /\ pc' \in [Servers -> Places] /\ late' \subseteq Servers
           /\ lock' \in Servers \cup {Nobody}
           /\ me' \in [Servers -> 0 .. starts] /\ wav' \in [Servers -> 0 .. starts]
           /\ sha' \in [Servers -> Contents \cup {NoFile}]
<1>1. 0 \in 0 .. starts
  BY StartupAssumption DEF TypeOK
<1> QED
  BY <1>1 DEF Down, Goto, TypeOK, Places, None

\* So does one that goes on with its seed.
LEMMA MoveType ==
    ASSUME TypeOK, NEW s \in Servers, pc[s] \in DOMAIN Then, Move(s)
    PROVE  pc' \in [Servers -> Places]
<1>1. Then[pc[s]] \in Places
  BY ThenFacts DEF Places, Emails
<1> QED
  BY <1>1 DEF Move, Goto, TypeOK, Places

\* Who is up is one of the starts.
LEMMA NamedId ==
    ASSUME TypeOK, Named
    PROVE  /\ starts \in Nat /\ MaxStarts \in Nat /\ Ids \subseteq Nat /\ None \in 0 .. starts
           /\ 0 .. starts \subseteq Ids \cup {None}
           /\ \A s \in Servers : pc[s] # "down" => me[s] \in Ids /\ me[s] \in 0 .. starts
<1>1. starts \in Nat /\ MaxStarts \in Nat /\ starts <= MaxStarts
  BY StartupAssumption DEF TypeOK
<1>2. \A s \in Servers : pc[s] # "down" => me[s] \in 0 .. starts /\ me[s] # 0
  BY DEF TypeOK, Named, None
<1> QED
  BY <1>1, <1>2 DEF Ids, None

\* Every step keeps the types.
LEMMA Typed ==
    ASSUME TypeOK, Named, [Next]_vars
    PROVE  TypeOK'
<1> USE DEF Places
<1>0. MaxStarts \in Nat /\ starts \in Nat
  BY NamedId
<1>1. ASSUME NEW s \in Servers, Start(s) PROVE TypeOK'
  <2>1. starts' \in 0 .. MaxStarts /\ 0 .. starts \subseteq 0 .. starts'
        /\ starts + 1 \in 0 .. starts'
    BY <1>0, <1>1 DEF Start
  <2>2. /\ me' \in [Servers -> 0 .. starts'] /\ users \in [Emails -> 0 .. starts']
        /\ tmp \in 0 .. starts' /\ wav \in [Servers -> 0 .. starts']
        /\ blob \in [Contents -> 0 .. starts']
    BY <1>1, <2>1 DEF Start, TypeOK
  <2> QED
    BY <1>1, <2>1, <2>2 DEF Start, Goto, TypeOK, rows, files, history
<1>2. ASSUME NEW s \in Servers, Deadline(s) \/ Lock(s) \/ Apply(s) \/ Unlock(s) \/ Reap(s)
      PROVE  TypeOK'
  BY <1>2 DEF Deadline, Lock, Apply, Unlock, Reap, Goto, TypeOK, rows, files, history
<1>3. ASSUME NEW s \in Servers, FailMigration(s) \/ Stop(s) PROVE TypeOK'
  <2>1. Down(s)
    BY <1>3 DEF FailMigration, Stop
  <2>2. /\ UNCHANGED <<starts, rows, tmp, blob, disk, overlapped, misfiled>>
        /\ faulted' \in BOOLEAN
    BY <1>3 DEF FailMigration, Stop, TypeOK, history
  <2> QED
    BY <2>1, <2>2, DownType DEF TypeOK, rows
<1>4. ASSUME NEW s \in Servers, Lookup(s) PROVE TypeOK'
  <2>1. pc' \in [Servers -> Places] /\ faulted' \in BOOLEAN /\ overlapped' \in BOOLEAN
    BY <1>4, ThenFacts DEF Lookup, Enter, Goto, TypeOK, Emails
  <2> QED
    BY <1>4, <2>1 DEF Lookup, TypeOK, rows, files
<1>5. ASSUME NEW s \in Servers, CreateUser(s) PROVE TypeOK'
  <2>1. pc[s] \in Emails /\ pc[s] \in DOMAIN Then /\ pc[s] # "down"
    BY <1>5, ThenFacts DEF CreateUser, Emails
  <2>2. pc' \in [Servers -> Places]
    BY <1>5, <2>1, MoveType DEF CreateUser
  <2>3. users' \in [Emails -> 0 .. starts]
    BY <1>5, <2>1, NamedId DEF CreateUser, StoredUser, TypeOK
  <2> QED
    BY <1>5, <2>2, <2>3 DEF CreateUser, TypeOK, files
<1>6. ASSUME NEW s \in Servers, CreateAlbum(s) \/ Enqueue(s) \/ CreateComment(s)
      PROVE  TypeOK'
  <2>1. pc[s] \in DOMAIN Then /\ pc[s] # "down" /\ Move(s)
    BY <1>6, ThenFacts DEF CreateAlbum, Enqueue, CreateComment
  <2>2. pc' \in [Servers -> Places] /\ me[s] \in Ids
    BY <2>1, MoveType, NamedId
  <2> QED
    BY <1>6, <2>2 DEF CreateAlbum, Enqueue, CreateComment, TypeOK, files
<1>7. ASSUME NEW s \in Servers, Ffmpeg(s) PROVE TypeOK'
  <2>1. pc[s] \in DOMAIN Then /\ pc[s] # "down" /\ Move(s)
    BY <1>7, ThenFacts DEF Ffmpeg
  <2>2. pc' \in [Servers -> Places] /\ me[s] \in 0 .. starts
    BY <2>1, MoveType, NamedId
  <2>3. tmp' \in 0 .. starts
    BY <1>7, <2>2 DEF Ffmpeg, TypeOK
  <2>4. wav' \in [Servers -> 0 .. starts] /\ disk' \in [Ids -> Contents \cup {NoFile}]
    BY <1>7, <2>3 DEF Ffmpeg, TypeOK, Contents
  <2> QED
    BY <1>7, <2>2, <2>3, <2>4 DEF Ffmpeg, TypeOK, rows, history
<1>8. ASSUME NEW s \in Servers, FfmpegEnds(s) PROVE TypeOK'
  <2>1. pc[s] \in DOMAIN Then /\ pc[s] # "down" /\ Move(s)
    BY <1>8, ThenFacts DEF FfmpegEnds
  <2>2. pc' \in [Servers -> Places]
    BY <2>1, MoveType
  <2>3. PICK c \in Contents : disk' = [disk EXCEPT ![wav[s]] = c]
    BY <1>8 DEF FfmpegEnds
  <2>4. disk' \in [Ids -> Contents \cup {NoFile}]
    BY <2>3 DEF TypeOK
  <2> QED
    BY <1>8, <2>2, <2>4, NamedId DEF FfmpegEnds, TypeOK, rows, history
<1>9. ASSUME NEW s \in Servers, FfmpegFails(s) PROVE TypeOK'
  BY <1>9, NamedId DEF FfmpegFails, Return, Goto, TypeOK, rows
<1>10. ASSUME NEW s \in Servers, HashFile(s) PROVE TypeOK'
  <2>1. CASE Return(s) /\ UNCHANGED sha
    <3>1. /\ UNCHANGED <<rows, tmp, wav, blob, disk, overlapped, misfiled>>
          /\ faulted' \in BOOLEAN
      BY <1>10 DEF HashFile, TypeOK
    <3> QED
      BY <2>1, <3>1 DEF Return, Goto, TypeOK, rows
  <2>2. CASE /\ tmp # None /\ Move(s) /\ sha' = [sha EXCEPT ![s] = disk[tmp]]
             /\ UNCHANGED <<late, lock, starts, me, faulted>>
    <3>1. /\ pc[s] \in DOMAIN Then /\ tmp \in Ids
          /\ UNCHANGED <<rows, tmp, wav, blob, disk, overlapped, misfiled>>
      BY <1>10, <2>2, ThenFacts, NamedId DEF HashFile, TypeOK
    <3>2. pc' \in [Servers -> Places]
      BY <2>2, <3>1, MoveType
    <3>3. sha' \in [Servers -> Contents \cup {NoFile}]
      BY <2>2, <3>1 DEF TypeOK
    <3> QED
      BY <2>2, <3>1, <3>2, <3>3 DEF TypeOK, rows
  <2> QED
    BY <1>10, <2>1, <2>2 DEF HashFile
<1>11. ASSUME NEW s \in Servers, Rename(s) PROVE TypeOK'
  <2>1. pc[s] \in DOMAIN Then /\ Move(s)
    BY <1>11, ThenFacts DEF Rename
  <2>2. pc' \in [Servers -> Places]
    BY <2>1, MoveType
  <2>3. /\ tmp' \in 0 .. starts /\ blob' \in [Contents -> 0 .. starts]
        /\ misfiled' \in BOOLEAN
    BY <1>11, NamedId DEF Rename, TypeOK
  <2> QED
    BY <1>11, <2>2, <2>3 DEF Rename, TypeOK, rows
<1>12. ASSUME NEW s \in Servers, CreateTrack(s) PROVE TypeOK'
  <2>1. pc' \in [Servers -> Places]
    <3>1. Move(s) \/ Return(s)
      BY <1>12 DEF CreateTrack
    <3>2. pc[s] \in DOMAIN Then
      BY <1>12, ThenFacts DEF CreateTrack
    <3> QED
      BY <3>1, <3>2, MoveType DEF Return, Goto, TypeOK
  <2>2. track' \in [Ids -> Contents \cup {NoFile}]
    BY <1>12 DEF CreateTrack, TypeOK
  <2> QED
    BY <1>12, <2>1, <2>2 DEF CreateTrack, Return, TypeOK, files
<1>13. CASE UNCHANGED vars
  BY <1>13 DEF vars, rows, files, history, TypeOK
<1> QED
  BY <1>1, <1>2, <1>3, <1>4, <1>5, <1>6, <1>7, <1>8, <1>9, <1>10, <1>11, <1>12, <1>13
     DEF Next, Step

-----------------------------------------------------------------------------
(* Startup: the lock, and what is whose *)

\* A lock is taken when nobody has it, and kept until its holder has unlocked, stops
\* or is cut off by the deadline.
LEMMA Locked ==
    ASSUME TypeOK, LockedWhileMigrating, [Next]_vars
    PROVE  LockedWhileMigrating'
<1>1. ASSUME NEW s \in Servers, Down(s) PROVE LockedWhileMigrating'
  BY <1>1, StartupAssumption DEF Down, Goto, TypeOK, LockedWhileMigrating
<1>2. ASSUME NEW s \in Servers, NEW p, p \notin {"migrate", "unlock"},
             pc[s] \notin {"migrate", "unlock"}, Goto(s, p), UNCHANGED <<late, lock>>
      PROVE  LockedWhileMigrating'
  BY <1>2 DEF Goto, TypeOK, LockedWhileMigrating
<1>3. ASSUME NEW s \in Servers, pc[s] \in DOMAIN Then, Move(s), UNCHANGED <<late, lock>>
      PROVE  LockedWhileMigrating'
  BY <1>2, <1>3, ThenFacts DEF Move, Emails
<1>4. ASSUME NEW s \in Servers, pc[s] \in DOMAIN Then, Return(s)
      PROVE  LockedWhileMigrating'
  BY <1>2, <1>4, ThenFacts DEF Return, Emails
<1>5. ASSUME NEW s \in Servers, Start(s) \/ Lookup(s) PROVE LockedWhileMigrating'
  BY <1>2, <1>5 DEF Start, Lookup, Enter
<1>6. ASSUME NEW s \in Servers, Deadline(s) \/ Lock(s) \/ Apply(s) \/ Unlock(s) \/ Reap(s)
      PROVE  LockedWhileMigrating'
  BY <1>6, StartupAssumption
     DEF Deadline, Lock, Apply, Unlock, Reap, Goto, TypeOK, LockedWhileMigrating
<1>7. ASSUME NEW s \in Servers, FailMigration(s) \/ Stop(s) PROVE LockedWhileMigrating'
  BY <1>1, <1>7 DEF FailMigration, Stop
<1>8. ASSUME NEW s \in Servers,
             \/ CreateUser(s) \/ CreateAlbum(s) \/ Ffmpeg(s) \/ FfmpegEnds(s)
             \/ Rename(s) \/ Enqueue(s) \/ CreateComment(s)
      PROVE  LockedWhileMigrating'
  BY <1>3, <1>8, ThenFacts
     DEF CreateUser, CreateAlbum, Ffmpeg, FfmpegEnds, Rename, Enqueue, CreateComment
<1>9. ASSUME NEW s \in Servers, FfmpegFails(s) \/ HashFile(s) \/ CreateTrack(s)
      PROVE  LockedWhileMigrating'
  <2>1. pc[s] \in DOMAIN Then /\ UNCHANGED <<late, lock>> /\ (Move(s) \/ Return(s))
    BY <1>9, ThenFacts DEF FfmpegFails, HashFile, CreateTrack, Return
  <2> QED
    BY <1>3, <1>4, <2>1
<1>10. CASE UNCHANGED vars
  BY <1>10 DEF vars, LockedWhileMigrating
<1> QED
  BY <1>1, <1>5, <1>6, <1>7, <1>8, <1>9, <1>10 DEF Next, Step

\* A server that goes on, and does not go back before ffmpeg, keeps its name.
LEMMA NamedMove ==
    ASSUME TypeOK, Named, NEW s \in Servers, NEW p, Goto(s, p), UNCHANGED me,
           pc[s] # "down", p \in Early => pc[s] \in Early,
           \A t \in Servers : (t # s \/ p \in Early) =>
               (pc[t] \in Early => tmp' # me[t] /\ blob'["whole"] # me[t])
    PROVE  Named'
  BY DEF Named, Goto, TypeOK

\* One that stops has none, and the others keep theirs.
LEMMA NamedDown ==
    ASSUME TypeOK, Named, NEW s \in Servers, Down(s), UNCHANGED <<tmp, blob>>
    PROVE  Named'
<1>1. pc' = [pc EXCEPT ![s] = "down"] /\ me' = [me EXCEPT ![s] = None]
  BY DEF Down, Goto
<1>2. \A t \in Servers : pc'[t] # "down" => t # s /\ pc'[t] = pc[t] /\ me'[t] = me[t]
  BY <1>1 DEF TypeOK
<1>3. me'[s] = None
  BY <1>1 DEF TypeOK
<1> QED
  BY <1>2, <1>3, <1>1 DEF Named, TypeOK

\* Every start has a number of its own, and its file is its own until ffmpeg runs.
LEMMA NamedStep ==
    ASSUME TypeOK, Named, Written, [Next]_vars
    PROVE  Named'
<1>1. ASSUME NEW s \in Servers, Start(s) PROVE Named'
  <2>1. /\ starts \in Nat /\ me' = [me EXCEPT ![s] = starts + 1] /\ pc[s] = "down"
        /\ pc' = [pc EXCEPT ![s] = "lock"] /\ UNCHANGED <<tmp, blob>>
    BY <1>1, NamedId DEF Start, Goto, files
  <2>2. /\ \A t \in Servers : me[t] # starts + 1
        /\ tmp # starts + 1 /\ blob["whole"] # starts + 1 /\ starts + 1 # None
    BY <2>1 DEF TypeOK, Contents, None
  <2> QED
    BY <2>1, <2>2 DEF TypeOK, Named
<1>2. ASSUME NEW s \in Servers, Lock(s) \/ Apply(s) \/ Unlock(s) \/ Lookup(s) PROVE Named'
  <2>1. /\ pc[s] \in {"lock", "migrate", "unlock", "lookup"} /\ UNCHANGED <<me, tmp, blob>>
        /\ \E p : Goto(s, p)
    BY <1>2 DEF Lock, Apply, Unlock, Lookup, Enter, files
  <2>2. pc[s] \in Early /\ "down" \notin Early
    BY <2>1 DEF Early, Emails
  <2>3. PICK p : Goto(s, p)
    BY <2>1
  <2> QED
    BY <2>1, <2>2, <2>3, NamedMove DEF Named
<1>3. ASSUME NEW s \in Servers, FailMigration(s) \/ Stop(s) PROVE Named'
  BY <1>3, NamedDown DEF FailMigration, Stop
<1>4. ASSUME NEW s \in Servers, CreateUser(s) \/ CreateAlbum(s) PROVE Named'
  <2>1. /\ pc[s] \in Emails \cup {"album"} /\ UNCHANGED <<me, tmp, blob>>
        /\ \E p : Goto(s, p)
    BY <1>4 DEF CreateUser, CreateAlbum, Move, files
  <2>2. pc[s] \in Early /\ "down" \notin Early
    BY <2>1 DEF Early, Emails
  <2>3. PICK p : Goto(s, p)
    BY <2>1
  <2> QED
    BY <2>1, <2>2, <2>3, NamedMove DEF Named
<1>5. ASSUME NEW s \in Servers, Ffmpeg(s) PROVE Named'
  <2>1. /\ pc[s] = "ffmpeg" /\ UNCHANGED <<me, blob>> /\ Goto(s, "wav")
        /\ tmp' \in {tmp, me[s]}
    BY <1>5, ThenFacts DEF Ffmpeg, Move
  <2>2. \A t \in Servers : t # s => me[t] # me[s] \/ pc[t] = "down"
    BY <2>1 DEF Named
  <2> QED
    BY <2>1, <2>2, NamedMove DEF Named, Early, Emails
<1>6. ASSUME NEW s \in Servers, FfmpegEnds(s) \/ FfmpegFails(s) \/ HashFile(s) PROVE Named'
  <2>1. /\ pc[s] \in {"ffmpeg", "wav", "hash"} /\ UNCHANGED <<me, tmp, blob>>
        /\ \E p \in {"hash", "serve", "rename"} : Goto(s, p)
    BY <1>6, ThenFacts DEF FfmpegEnds, FfmpegFails, HashFile, Move, Return
  <2> QED
    BY <2>1, NamedMove DEF Named, Early, Emails
<1>7. ASSUME NEW s \in Servers, Rename(s) PROVE Named'
  <2>1. /\ pc[s] = "rename" /\ UNCHANGED me /\ Goto(s, "track") /\ tmp' \in {None, tmp}
        /\ blob' = blob \/ blob' = [blob EXCEPT ![sha[s]] = tmp]
    BY <1>7, ThenFacts DEF Rename, Move
  <2>2. blob'["whole"] \in {blob["whole"], tmp}
    BY <2>1 DEF TypeOK, Contents
  <2> QED
    BY <2>1, <2>2, NamedMove DEF Named, Early, Emails
<1>8. ASSUME NEW s \in Servers, CreateTrack(s) \/ Enqueue(s) \/ CreateComment(s) PROVE Named'
  <2>1. /\ pc[s] \in {"track", "job", "comment"} /\ UNCHANGED <<me, tmp, blob>>
        /\ \E p \in {"job", "comment", "serve"} : Goto(s, p)
    BY <1>8, ThenFacts DEF CreateTrack, Enqueue, CreateComment, Move, Return, files
  <2> QED
    BY <2>1, NamedMove DEF Named, Early, Emails
<1>9. CASE (\E s \in Servers : Deadline(s) \/ Reap(s)) \/ UNCHANGED vars
  BY <1>9 DEF Deadline, Reap, vars, files, Named
<1> QED
  BY <1>1, <1>2, <1>3, <1>4, <1>5, <1>6, <1>7, <1>8, <1>9 DEF Next, Step

\* A file is written before it is hashed, and put in the store under its name once.
LEMMA WrittenStep ==
    ASSUME TypeOK, Named, Written, [Next]_vars
    PROVE  Written'
<1>1. ASSUME NEW s \in Servers, Down(s), UNCHANGED <<tmp, blob, disk>> PROVE Written'
  BY <1>1 DEF Down, Goto, TypeOK, Written, None
<1>2. ASSUME NEW s \in Servers, NEW p, Goto(s, p), p \notin {"wav", "rename", "track"},
             pc[s] # "wav", UNCHANGED <<tmp, blob, disk, wav, sha>>
      PROVE  Written'
  BY <1>2 DEF Goto, TypeOK, Written
<1>3. ASSUME NEW s \in Servers,
             \/ Start(s) \/ Lock(s) \/ Apply(s) \/ Unlock(s) \/ Lookup(s) \/ CreateTrack(s)
             \/ CreateUser(s) \/ CreateAlbum(s) \/ Enqueue(s) \/ CreateComment(s)
      PROVE  Written'
  <2>1. /\ \E p : Goto(s, p) /\ p \notin {"wav", "rename", "track"}
        /\ pc[s] # "wav" /\ UNCHANGED <<tmp, blob, disk, wav, sha>>
    BY <1>3, ThenFacts
       DEF Start, Lock, Apply, Unlock, Lookup, Enter, CreateUser, CreateAlbum, CreateTrack,
           Enqueue, CreateComment, Move, Return, files, Emails
  <2> QED
    BY <1>2, <2>1
<1>4. ASSUME NEW s \in Servers, FailMigration(s) \/ Stop(s) PROVE Written'
  BY <1>1, <1>4 DEF FailMigration, Stop
<1>5. ASSUME NEW s \in Servers, Ffmpeg(s) PROVE Written'
  <2>1. /\ pc[s] = "ffmpeg" /\ pc' = [pc EXCEPT ![s] = "wav"] /\ UNCHANGED <<blob, sha>>
        /\ tmp' = IF tmp = None THEN me[s] ELSE tmp
        /\ wav' = [wav EXCEPT ![s] = tmp'] /\ disk' = [disk EXCEPT ![tmp'] = "partial"]
    BY <1>5, ThenFacts DEF Ffmpeg, Move, Goto
  <2>2. tmp' \in Ids /\ blob["whole"] # tmp'
    BY <2>1, NamedId DEF Named, Early, Written, TypeOK
  <2>3. disk'[tmp'] # NoFile
    BY <2>1, <2>2 DEF TypeOK, NoFile
  <2> QED
    BY <2>1, <2>2, <2>3 DEF TypeOK, Written
<1>6. ASSUME NEW s \in Servers, FfmpegEnds(s) PROVE Written'
  <2>1. /\ pc[s] = "wav" /\ pc' = [pc EXCEPT ![s] = "hash"] /\ UNCHANGED <<blob, sha, tmp>>
        /\ wav' = [wav EXCEPT ![s] = None]
    BY <1>6, ThenFacts DEF FfmpegEnds, Move, Goto
  <2>2. PICK c \in Contents : disk' = [disk EXCEPT ![wav[s]] = c]
    BY <1>6 DEF FfmpegEnds
  <2>3. c # NoFile
    BY DEF Contents, NoFile
  <2>4. tmp # None => disk'[tmp] # NoFile
    BY <2>2, <2>3, NamedId DEF TypeOK, Written
  <2> QED
    BY <2>1, <2>4 DEF TypeOK, Written
<1>7. ASSUME NEW s \in Servers, FfmpegFails(s) PROVE Written'
  BY <1>7 DEF FfmpegFails, Return, Goto, TypeOK, Written
<1>8. ASSUME NEW s \in Servers, HashFile(s) PROVE Written'
  <2>1. CASE Return(s) /\ UNCHANGED sha
    BY <1>2, <1>8, <2>1 DEF HashFile, Return
  <2>2. CASE tmp # None /\ Move(s) /\ sha' = [sha EXCEPT ![s] = disk[tmp]]
    <3>1. /\ pc[s] = "hash" /\ pc' = [pc EXCEPT ![s] = "rename"]
          /\ UNCHANGED <<tmp, wav, blob, disk>>
      BY <1>8, <2>2, ThenFacts DEF HashFile, Move, Goto
    <3> QED
      BY <2>2, <3>1 DEF TypeOK, Written
  <2> QED
    BY <1>8, <2>1, <2>2 DEF HashFile
<1>9. ASSUME NEW s \in Servers, Rename(s) PROVE Written'
  <2>1. /\ pc[s] = "rename" /\ pc' = [pc EXCEPT ![s] = "track"]
        /\ tmp' = None \/ UNCHANGED <<tmp, blob>>
        /\ UNCHANGED <<wav, disk, sha>>
    BY <1>9, ThenFacts DEF Rename, Move, Goto
  <2> QED
    BY <2>1 DEF TypeOK, Written
<1>10. CASE (\E s \in Servers : Deadline(s) \/ Reap(s)) \/ UNCHANGED vars
  BY <1>10 DEF Deadline, Reap, vars, files, Written
<1> QED
  BY <1>3, <1>4, <1>5, <1>6, <1>7, <1>8, <1>9, <1>10 DEF Next, Step

\* A track is stored for the stored creator only, who is never replaced.
LEMMA OneSeedStep ==
    ASSUME TypeOK, Named, OneSeed, [Next]_vars
    PROVE  OneSeed'
<1>1. CASE UNCHANGED <<users, track>>
  BY <1>1 DEF OneSeed
<1>2. ASSUME NEW s \in Servers, CreateUser(s) PROVE OneSeed'
  <2>1. users["creator"] # None => users'["creator"] = users["creator"]
    BY <1>2 DEF CreateUser, StoredUser, TypeOK, Emails
  <2>2. track' = track /\ None \notin Ids
    BY <1>2 DEF CreateUser, Ids, None
  <2> QED
    BY <2>1, <2>2 DEF OneSeed
<1>3. ASSUME NEW s \in Servers, CreateTrack(s) PROVE OneSeed'
  BY <1>3 DEF CreateTrack, OneSeed, TypeOK
<1>4. ASSUME NEW s \in Servers,
             \/ Start(s) \/ Deadline(s) \/ Lock(s) \/ Apply(s) \/ FailMigration(s)
             \/ Unlock(s) \/ Lookup(s) \/ Reap(s) \/ Stop(s) \/ CreateAlbum(s)
             \/ Ffmpeg(s) \/ FfmpegEnds(s) \/ FfmpegFails(s) \/ HashFile(s) \/ Rename(s)
             \/ Enqueue(s) \/ CreateComment(s)
      PROVE  UNCHANGED <<users, track>>
  BY <1>4 DEF Start, Deadline, Lock, Apply, FailMigration, Unlock, Lookup, Reap, Stop,
              CreateAlbum, Ffmpeg, FfmpegEnds, FfmpegFails, HashFile, Rename, Enqueue,
              CreateComment, rows
<1>5. CASE UNCHANGED vars
  BY <1>1, <1>5 DEF vars, rows
<1> QED
  BY <1>1, <1>2, <1>3, <1>4, <1>5 DEF Next, Step

-----------------------------------------------------------------------------
(* Startup: what a step does to the seeds *)

\* Nothing a seed reads or writes.
Calm ==
    /\ UNCHANGED <<rows, tmp, blob, disk, overlapped, misfiled>>
    /\ faulted => faulted'
    /\ Seeding' \subseteq Seeding
    /\ Seeding' # Seeding => faulted'
    /\ \A s \in Seeding' : UNCHANGED <<pc[s], me[s], wav[s], sha[s]>>
    /\ \A s \in Servers : pc'[s] \in DOMAIN Then => s \in Seeding

\* A seed begins.
Enters(s) == Lookup(s) /\ Enter(s)

\* A seed goes on.
Calls(s) ==
    \/ CreateUser(s) \/ CreateAlbum(s) \/ Ffmpeg(s) \/ FfmpegEnds(s) \/ FfmpegFails(s)
    \/ HashFile(s) \/ Rename(s) \/ CreateTrack(s) \/ Enqueue(s) \/ CreateComment(s)

\* A step begins a seed, goes on with one or leaves all of them alone, except that a
\* seed may end with the server it runs in: a fault.
LEMMA StepKinds ==
    ASSUME TypeOK, [Next]_vars
    PROVE  Calm \/ \E s \in Servers : Enters(s) \/ Calls(s)
<1>1. ASSUME NEW s \in Servers, NEW p, p \notin DOMAIN Then, pc[s] \notin DOMAIN Then,
             Goto(s, p), \A t \in Servers \ {s} : UNCHANGED <<me[t], wav[t], sha[t]>>,
             UNCHANGED <<rows, tmp, blob, disk, overlapped, misfiled>>, faulted => faulted'
      PROVE  Calm
  <2>1. \A t \in Servers : pc'[t] = IF t = s THEN p ELSE pc[t]
    BY <1>1 DEF Goto, TypeOK
  <2>2. Seeding' = Seeding /\ s \notin Seeding
    BY <1>1, <2>1 DEF Seeding
  <2>3. \A t \in Seeding' : t # s /\ t \in Servers
    BY <2>2 DEF Seeding
  <2>4. \A t \in Servers : pc'[t] \in DOMAIN Then => t \in Seeding
    BY <2>2 DEF Seeding
  <2> QED
    BY <1>1, <2>1, <2>2, <2>3, <2>4 DEF Calm
<1>2. ASSUME NEW s \in Servers, Start(s) \/ Lock(s) \/ Apply(s) \/ Unlock(s) PROVE Calm
  <2>1. /\ pc[s] \in {"down", "lock", "migrate", "unlock"}
        /\ \E p \in {"lock", "migrate", "unlock", "lookup"} : Goto(s, p)
        /\ UNCHANGED <<wav, sha, rows, tmp, blob, disk, faulted, overlapped, misfiled>>
        /\ \A t \in Servers \ {s} : me'[t] = me[t]
    BY <1>2 DEF Start, Lock, Apply, Unlock, TypeOK, files, history
  <2> QED
    BY <1>1, <2>1, ThenFacts DEF Emails
<1>3. ASSUME NEW s \in Servers, Lookup(s) PROVE Calm \/ Enters(s)
  <2>1. CASE Enter(s)
    BY <1>3, <2>1 DEF Enters
  <2>2. CASE ~Enter(s)
    <3>1. /\ pc[s] = "lookup" /\ Goto(s, "serve")
          /\ UNCHANGED <<me, wav, sha, rows, tmp, blob, disk, faulted, overlapped, misfiled>>
      BY <1>3, <2>2 DEF Lookup, files
    <3> QED
      BY <1>1, <3>1, ThenFacts DEF Emails
  <2> QED
    BY <2>1, <2>2
<1>4. ASSUME NEW s \in Servers, FailMigration(s) PROVE Calm
  <2>1. /\ pc[s] \in {"lock", "migrate"} /\ Goto(s, "down")
        /\ UNCHANGED <<rows, tmp, blob, disk, faulted, overlapped, misfiled>>
        /\ \A t \in Servers \ {s} : UNCHANGED <<me[t], wav[t], sha[t]>>
    BY <1>4 DEF FailMigration, Down, TypeOK, history
  <2> QED
    BY <1>1, <2>1, ThenFacts DEF Emails
<1>5. ASSUME NEW s \in Servers, Stop(s) PROVE Calm
  <2>1. /\ Goto(s, "down") /\ faulted' = (faulted \/ s \in Seeding)
        /\ UNCHANGED <<rows, tmp, blob, disk, overlapped, misfiled>>
        /\ \A t \in Servers \ {s} : UNCHANGED <<me[t], wav[t], sha[t]>>
    BY <1>5 DEF Stop, Down, TypeOK
  <2>2. \A t \in Servers : pc'[t] = IF t = s THEN "down" ELSE pc[t]
    BY <2>1 DEF Goto, TypeOK
  <2>3. "down" \notin DOMAIN Then
    BY ThenFacts DEF Emails
  <2>4. Seeding' = Seeding \ {s} /\ Seeding' \subseteq Servers \ {s}
    BY <2>2, <2>3 DEF Seeding
  <2>5. Seeding' # Seeding => faulted'
    BY <2>1, <2>4
  <2>6. \A t \in Seeding' : UNCHANGED <<pc[t], me[t], wav[t], sha[t]>>
    BY <2>1, <2>2, <2>4
  <2>7. \A t \in Servers : pc'[t] \in DOMAIN Then => t \in Seeding
    BY <2>2, <2>3 DEF Seeding
  <2> QED
    BY <2>1, <2>4, <2>5, <2>6, <2>7 DEF Calm
<1>6. CASE (\E s \in Servers : Deadline(s) \/ Reap(s)) \/ UNCHANGED vars
  BY <1>6 DEF Deadline, Reap, vars, files, history, Calm, Seeding
<1> QED
  BY <1>2, <1>3, <1>4, <1>5, <1>6 DEF Next, Step, Calls

\* A call is one of a seed's, which goes on or ends.
LEMMA CallFacts ==
    ASSUME TypeOK, NEW s \in Servers, Calls(s)
    PROVE  /\ s \in Seeding /\ UNCHANGED <<me, overlapped>> /\ (faulted => faulted')
           /\ \A t \in Servers : t # s => UNCHANGED <<pc[t], wav[t], sha[t]>>
           /\ pc'[s] \in {Then[pc[s]], "serve"}
           /\ Seeding' \subseteq Seeding
<1>1. pc[s] \in DOMAIN Then /\ (Move(s) \/ Return(s))
  BY ThenFacts
     DEF Calls, CreateUser, CreateAlbum, Ffmpeg, FfmpegEnds, FfmpegFails, HashFile, Rename,
         CreateTrack, Enqueue, CreateComment, Emails
<1>2. s \in Seeding
  BY <1>1 DEF Seeding
<1>3. UNCHANGED <<me, overlapped>> /\ (faulted => faulted')
  BY DEF Calls, CreateUser, CreateAlbum, Ffmpeg, FfmpegEnds, FfmpegFails, HashFile, Rename,
         CreateTrack, Enqueue, CreateComment, Return, history
<1>4. /\ \A t \in Servers : t # s => pc'[t] = pc[t]
      /\ pc'[s] \in {Then[pc[s]], "serve"}
  BY <1>1 DEF Move, Return, Goto, TypeOK
<1>5. \A t \in Servers : t # s => UNCHANGED <<wav[t], sha[t]>>
  BY DEF Calls, CreateUser, CreateAlbum, Ffmpeg, FfmpegEnds, FfmpegFails, HashFile, Rename,
         CreateTrack, Enqueue, CreateComment, files, TypeOK
<1>6. Seeding' \subseteq Seeding
  BY <1>2, <1>4 DEF Seeding
<1> QED
  BY <1>2, <1>3, <1>4, <1>5, <1>6

\* Two seeds meet when one begins beside another.
LEMMA AloneStep ==
    ASSUME TypeOK, Alone, [Next]_vars
    PROVE  Alone'
<1>1. CASE Calm
  BY <1>1 DEF Calm, Alone
<1>2. ASSUME NEW s \in Servers, Enters(s) PROVE Alone'
  <2>1. /\ overlapped' = (overlapped \/ Seeding # {}) /\ pc' = [pc EXCEPT ![s] = "creator"]
    BY <1>2 DEF Enters, Enter, Goto
  <2>2. Seeding' \subseteq Seeding \cup {s}
    BY <2>1 DEF Seeding, TypeOK
  <2> QED
    BY <2>1, <2>2 DEF Alone
<1>3. ASSUME NEW s \in Servers, Calls(s) PROVE Alone'
  <2>1. Seeding' \subseteq Seeding /\ overlapped' = overlapped
    BY <1>3, CallFacts
  <2> QED
    BY <2>1 DEF Alone
<1> QED
  BY <1>1, <1>2, <1>3, StepKinds

\* Without a fault the account after the creator's is about to be created until it is
\* there.
LEMMA AccountsStep ==
    ASSUME TypeOK, Named, Accounts, [Next]_vars
    PROVE  Accounts'
<1>1. CASE Calm
  <2>1. CASE faulted'
    BY <2>1 DEF Accounts
  <2>2. CASE ~faulted'
    <3>1. ~faulted /\ users' = users /\ Seeding' = Seeding
          /\ \A s \in Seeding : pc'[s] = pc[s]
      BY <1>1, <2>2 DEF Calm, rows
    <3>2. \A s \in Servers : pc[s] \in {"listener", "admin"} => s \in Seeding
      BY ThenFacts DEF Seeding, Emails
    <3> QED
      BY <3>1, <3>2 DEF Accounts
  <2> QED
    BY <2>1, <2>2
<1>2. ASSUME NEW s \in Servers, Enters(s) PROVE Accounts'
  <2>1. /\ pc[s] = "lookup" /\ pc' = [pc EXCEPT ![s] = "creator"]
        /\ users' = users /\ (faulted => faulted')
    BY <1>2 DEF Enters, Lookup, Enter, Goto, rows
  <2>2. \A t \in Servers : pc[t] \in {"listener", "admin"} => pc'[t] = pc[t]
    BY <2>1 DEF TypeOK
  <2> QED
    BY <2>1, <2>2 DEF Accounts
<1>3. ASSUME NEW s \in Servers, CreateUser(s) PROVE Accounts'
  <2>1. CASE faulted'
    BY <2>1 DEF Accounts
  <2>2. CASE ~faulted'
    <3>1. /\ ~faulted /\ pc[s] \in Emails /\ pc' = [pc EXCEPT ![s] = Then[pc[s]]]
          /\ users' = IF users[pc[s]] = None THEN [users EXCEPT ![pc[s]] = me[s]] ELSE users
      BY <1>3, <2>2 DEF CreateUser, StoredUser, Move, Goto
    <3>2. me[s] # None
      BY <3>1, NamedId DEF Emails, Ids, None
    <3>3. /\ users'[pc[s]] # None
          /\ \A e \in Emails : e # pc[s] => users'[e] = users[e]
      BY <3>1, <3>2 DEF TypeOK
    <3>4. \A t \in Servers : t # s => pc'[t] = pc[t]
      BY <3>1 DEF TypeOK
    <3>5. pc'[s] = Then[pc[s]]
      BY <3>1 DEF TypeOK
    <3>6. CASE pc[s] = "creator"
      BY <3>5, <3>6, ThenFacts DEF Accounts
    <3>7. CASE pc[s] = "listener"
      BY <3>1, <3>3, <3>5, <3>7, ThenFacts DEF Accounts, Emails
    <3>8. CASE pc[s] = "admin"
      BY <3>1, <3>3, <3>4, <3>8 DEF Accounts, Emails
    <3> QED
      BY <3>1, <3>6, <3>7, <3>8 DEF Emails
  <2> QED
    BY <2>1, <2>2
<1>4. ASSUME NEW s \in Servers, Calls(s), ~CreateUser(s) PROVE Accounts'
  <2>1. UNCHANGED users /\ (faulted => faulted') /\ pc[s] \notin Emails
    BY <1>4, CallFacts
       DEF Calls, CreateAlbum, Ffmpeg, FfmpegEnds, FfmpegFails, HashFile, Rename,
           CreateTrack, Enqueue, CreateComment, rows, Emails
  <2>2. \A t \in Servers : pc[t] \in {"listener", "admin"} => pc'[t] = pc[t]
    BY <1>4, <2>1, CallFacts DEF Emails
  <2> QED
    BY <2>1, <2>2 DEF Accounts
<1> QED
  BY <1>1, <1>2, <1>3, <1>4, StepKinds

-----------------------------------------------------------------------------
(* Startup: a seed that meets no other *)

\* It is the only one.
LEMMA Only ==
    ASSUME Alone, ~overlapped, NEW s \in Seeding
    PROVE  Seeding = {s}
  BY DEF Alone

\* Without a fault each call finds what those before it stored, and after the last
\* one everything is there.
LEMMA CallFinds ==
    ASSUME TypeOK, Named, Written, NEW s \in Servers, Calls(s), Found(s), ~faulted'
    PROVE  \/ pc'[s] # "serve" /\ Found(s)'
           \/ pc'[s] = "serve" /\ Complete'
<1>1. me'[s] = me[s] /\ me[s] \in Ids /\ me[s] # None
  <2>1. pc[s] # "down"
    BY CallFacts, ThenFacts DEF Seeding, Emails
  <2> QED
    BY <2>1, CallFacts, NamedId DEF Named
<1>2. ASSUME Move(s) PROVE pc'[s] = Then[pc[s]]
  BY <1>2 DEF Move, Goto, TypeOK
<1>3. CASE CreateUser(s)
  <2>1. /\ pc[s] \in Emails /\ pc'[s] = Then[pc[s]] /\ UNCHANGED <<albums, track, jobs, tmp>>
        /\ users' = IF users[pc[s]] = None THEN [users EXCEPT ![pc[s]] = me[s]] ELSE users
    BY <1>2, <1>3 DEF CreateUser, StoredUser, files
  <2>2. CASE pc[s] = "creator"
    <3>1. /\ pc'[s] = "listener" /\ users'["creator"] = me[s]
          /\ users'["listener"] = None
      BY <2>1, <2>2, ThenFacts DEF Found, Blank, TypeOK, Emails
    <3> QED
      BY <1>1, <3>1 DEF Found, Emails
  <2>3. CASE pc[s] = "listener"
    <3>1. /\ pc'[s] = "admin" /\ users'["creator"] = me[s]
          /\ users'["listener"] = me[s]
      BY <2>1, <2>3, ThenFacts DEF Found, TypeOK, Emails
    <3> QED
      BY <1>1, <3>1 DEF Found, Emails
  <2>4. CASE pc[s] = "admin"
    <3>1. /\ pc'[s] = "album" /\ users'["creator"] = me[s]
          /\ users'["listener"] = me[s]
      BY <2>1, <2>4, ThenFacts DEF Found, TypeOK, Emails
    <3> QED
      BY <1>1, <3>1 DEF Found, Emails
  <2> QED
    BY <2>1, <2>2, <2>3, <2>4 DEF Emails
<1>4. CASE CreateAlbum(s)
  <2>1. pc[s] = "album" /\ pc'[s] = "ffmpeg" /\ users' = users
    BY <1>2, <1>4, ThenFacts DEF CreateAlbum
  <2>2. me[s] \in albums'
    BY <1>4, <2>1 DEF CreateAlbum, Found
  <2> QED
    BY <1>1, <2>1, <2>2 DEF Found, Emails
<1>5. CASE Ffmpeg(s)
  <2>1. /\ pc[s] = "ffmpeg" /\ pc'[s] = "wav" /\ UNCHANGED <<users, albums, track, jobs>>
        /\ tmp' # None
    BY <1>1, <1>2, <1>5, ThenFacts DEF Ffmpeg, rows
  <2> QED
    BY <1>1, <2>1 DEF Found, Emails
<1>6. CASE FfmpegEnds(s)
  <2>1. pc[s] = "wav" /\ pc'[s] = "hash" /\ UNCHANGED <<users, albums, track, jobs, tmp>>
    BY <1>2, <1>6, ThenFacts DEF FfmpegEnds, rows
  <2> QED
    BY <1>1, <2>1 DEF Found, Emails
<1>7. CASE HashFile(s)
  <2>1. pc[s] = "hash" /\ tmp # None /\ UNCHANGED <<users, albums, track, jobs, tmp>>
    BY <1>7 DEF HashFile, Found, rows
  <2>2. pc'[s] = "rename"
    BY <1>2, <1>7, <2>1, ThenFacts DEF HashFile
  <2> QED
    BY <1>1, <2>1, <2>2 DEF Found, Emails
<1>8. CASE Rename(s)
  <2>1. pc[s] = "rename" /\ pc'[s] = "track" /\ UNCHANGED <<users, albums, track, jobs>>
    BY <1>2, <1>8, ThenFacts DEF Rename, rows
  <2> QED
    BY <1>1, <2>1 DEF Found, Emails
<1>9. CASE CreateTrack(s)
  <2>1. /\ pc[s] = "track" /\ users["creator"] = me[s] /\ me[s] \in albums
    BY <1>9 DEF CreateTrack, Found, Emails
  <2>2. /\ UNCHANGED <<users, albums, jobs, tmp>> /\ Move(s)
        /\ track' = [track EXCEPT ![me[s]] = sha[s]]
    BY <1>9, <2>1 DEF CreateTrack, files
  <2>3. pc'[s] = "job"
    BY <1>2, <2>1, <2>2, ThenFacts
  <2> QED
    BY <1>1, <2>1, <2>2, <2>3 DEF Found, Emails, TypeOK, Written
<1>10. CASE Enqueue(s)
  <2>1. /\ pc[s] = "job" /\ pc'[s] = "comment" /\ UNCHANGED <<users, albums, track, tmp>>
        /\ me[s] \in jobs'
    BY <1>2, <1>10, ThenFacts DEF Enqueue, files
  <2> QED
    BY <1>1, <2>1 DEF Found, Emails
<1>11. CASE CreateComment(s)
  <2>1. /\ pc[s] = "comment" /\ pc'[s] = "serve" /\ UNCHANGED <<albums, track, jobs>>
        /\ me[s] \in comments'
    BY <1>2, <1>11, ThenFacts DEF CreateComment, Found, Emails
  <2> QED
    BY <1>1, <2>1 DEF Found, Complete, Emails
<1> QED
  BY <1>3, <1>4, <1>5, <1>6, <1>7, <1>8, <1>9, <1>10, <1>11 DEF Calls, FfmpegFails

\* A seed without a fault begins when nothing is there, and leaves everything there.
LEMMA UndisturbedStep ==
    ASSUME TypeOK, Named, Written, OneSeed, Alone, Undisturbed, [Next]_vars
    PROVE  Undisturbed'
<1> SUFFICES ASSUME ~faulted', ~overlapped'
             PROVE  /\ Seeding' = {} => Blank' \/ Complete'
                    /\ \A s \in Seeding' : Found(s)'
  BY DEF Undisturbed
<1>1. CASE Calm
  <2>1. /\ ~faulted /\ ~overlapped /\ Seeding' = Seeding
        /\ UNCHANGED <<users, albums, track, jobs, comments, tmp>>
        /\ \A s \in Seeding : pc'[s] = pc[s] /\ me'[s] = me[s]
    BY <1>1 DEF Calm, rows
  <2>2. Blank' = Blank /\ Complete' = Complete
    BY <2>1 DEF Blank, Complete
  <2>3. \A s \in Seeding : Found(s)'
    BY <2>1, <2>2 DEF Undisturbed, Found
  <2> QED
    BY <2>1, <2>2, <2>3 DEF Undisturbed
<1>2. ASSUME NEW s \in Servers, Enters(s)
      PROVE  /\ Seeding' = {} => Blank' \/ Complete'
             /\ \A t \in Seeding' : Found(t)'
  <2>1. /\ ~faulted /\ ~overlapped /\ Seeding = {} /\ users["creator"] = None
        /\ pc' = [pc EXCEPT ![s] = "creator"] /\ users' = users
    <3>1. /\ Lookup(s) /\ pc' = [pc EXCEPT ![s] = "creator"]
          /\ overlapped' = (overlapped \/ Seeding # {})
      BY <1>2 DEF Enters, Enter, Goto
    <3>2. ~overlapped /\ Seeding = {}
      BY <3>1
    <3>3. pc'[s] # "serve"
      BY <3>1 DEF TypeOK
    <3>4. users["creator"] = None /\ ~faulted /\ users' = users
      BY <3>1, <3>3 DEF Lookup, Goto, TypeOK, rows
    <3> QED
      BY <3>1, <3>2, <3>4
  <2>2. ~Complete
    BY <2>1 DEF Complete, OneSeed, Ids, None, TypeOK
  <2>3. Blank'
    BY <2>1, <2>2 DEF Undisturbed, Blank
  <2>4. pc'[s] = "creator" /\ Seeding' \subseteq {s}
    BY <2>1 DEF Seeding, TypeOK
  <2> QED
    BY <2>3, <2>4 DEF Found, Emails
<1>3. ASSUME NEW s \in Servers, Calls(s)
      PROVE  /\ Seeding' = {} => Blank' \/ Complete'
             /\ \A t \in Seeding' : Found(t)'
  <2>1. /\ ~faulted /\ ~overlapped /\ s \in Seeding /\ Seeding' \subseteq {s}
    BY <1>3, CallFacts, Only
  <2>2. Found(s)
    BY <2>1 DEF Undisturbed
  <2>3. CASE pc'[s] # "serve" /\ Found(s)'
    <3>1. s \in Seeding'
      BY <1>3, <2>1, <2>3, CallFacts, ThenFacts DEF Seeding, Emails
    <3> QED
      BY <2>1, <2>3, <3>1
  <2>4. CASE pc'[s] = "serve" /\ Complete'
    <3>1. s \notin Seeding'
      BY <2>4, ThenFacts DEF Seeding, Emails
    <3> QED
      BY <2>1, <2>4, <3>1
  <2> QED
    BY <1>3, <2>2, <2>3, <2>4, CallFinds
<1> QED
  BY <1>1, <1>2, <1>3, StepKinds

-----------------------------------------------------------------------------
(* Startup: the way of the file *)

\* Where the file is while a seed makes it.
FiledAt(s) ==
    /\ pc[s] = "wav" => tmp # None /\ wav[s] = tmp
    /\ pc[s] \in {"hash", "rename"} => tmp # None /\ disk[tmp] = "whole"
    /\ pc[s] \in {"rename", "track"} => sha[s] = "whole"
    /\ pc[s] = "track" => Stored \/ misfiled

\* The only seed writes its file, and no other one of the store.
LEMMA CallFiles ==
    ASSUME TypeOK, Named, Written, ~overlapped, NEW s \in Servers, Calls(s),
           Seeding = {s}, FiledAt(s), blob["whole"] # None => Stored
    PROVE  FiledAt(s)' /\ (blob'["whole"] # None => Stored')
<1>1. me[s] \in Ids /\ pc[s] # "down"
  <2>1. pc[s] # "down"
    BY ThenFacts DEF Seeding, Emails
  <2> QED
    BY <2>1, NamedId
<1>2. ASSUME Move(s) PROVE pc'[s] = Then[pc[s]]
  BY <1>2 DEF Move, Goto, TypeOK
<1>3. CASE Ffmpeg(s)
  <2>1. /\ pc[s] = "ffmpeg" /\ pc'[s] = "wav" /\ blob' = blob
        /\ tmp' = (IF tmp = None THEN me[s] ELSE tmp)
        /\ wav' = [wav EXCEPT ![s] = tmp'] /\ disk' = [disk EXCEPT ![tmp'] = "partial"]
    BY <1>2, <1>3, ThenFacts DEF Ffmpeg
  <2>2. tmp' # None /\ wav'[s] = tmp' /\ blob["whole"] # tmp'
    BY <1>1, <2>1, NamedId DEF TypeOK, Named, Early, Written, Ids, None
  <2>3. blob'["whole"] # None => Stored'
    BY <2>1, <2>2, NamedId DEF Stored, TypeOK, Contents
  <2> QED
    BY <2>1, <2>2, <2>3 DEF FiledAt
<1>4. CASE FfmpegEnds(s)
  <2>1. pc[s] = "wav" /\ pc'[s] = "hash" /\ UNCHANGED <<tmp, blob>>
    BY <1>2, <1>4, ThenFacts DEF FfmpegEnds
  <2>2. tmp # None /\ wav[s] = tmp /\ tmp \in Ids
    BY <2>1, NamedId DEF FiledAt, TypeOK
  <2>3. \A t \in Servers \ {s} : wav[t] # wav[s]
    BY <2>2, ThenFacts DEF Written, Seeding
  <2>4. disk' = [disk EXCEPT ![tmp] = "whole"]
    BY <1>4, <2>2, <2>3 DEF FfmpegEnds
  <2>5. disk'[tmp] = "whole" /\ (blob["whole"] # None => disk'[blob["whole"]] = "whole")
    BY <2>2, <2>4, NamedId DEF Stored, TypeOK, Contents
  <2> QED
    BY <2>1, <2>2, <2>5 DEF FiledAt, Stored
<1>5. CASE HashFile(s)
  <2>1. pc[s] = "hash" /\ tmp # None /\ disk[tmp] = "whole" /\ UNCHANGED <<tmp, blob, disk>>
    BY <1>5 DEF HashFile, FiledAt
  <2>2. CASE Return(s)
    <3>1. pc'[s] = "serve"
      BY <2>2 DEF Return, Goto, TypeOK
    <3> QED
      BY <2>1, <3>1 DEF FiledAt, Stored
  <2>3. CASE Move(s) /\ sha' = [sha EXCEPT ![s] = disk[tmp]]
    <3>1. pc'[s] = "rename" /\ sha'[s] = "whole"
      BY <1>2, <2>1, <2>3, ThenFacts DEF TypeOK
    <3> QED
      BY <2>1, <3>1 DEF FiledAt, Stored
  <2> QED
    BY <1>5, <2>2, <2>3 DEF HashFile
<1>6. CASE Rename(s)
  <2>1. /\ pc[s] = "rename" /\ pc'[s] = "track" /\ UNCHANGED <<disk, sha>>
        /\ tmp # None /\ disk[tmp] = "whole" /\ sha'[s] = "whole"
    BY <1>2, <1>6, ThenFacts DEF Rename, FiledAt
  <2>2. CASE blob' = [blob EXCEPT ![sha[s]] = tmp]
    <3>1. Stored'
      BY <2>1, <2>2 DEF Stored, TypeOK, Contents
    <3> QED
      BY <2>1, <3>1 DEF FiledAt
  <2>3. CASE UNCHANGED blob /\ misfiled' = (blob["whole"] = None)
    BY <2>1, <2>3 DEF FiledAt, Stored
  <2> QED
    BY <1>6, <2>1, <2>2, <2>3 DEF Rename
<1>7. CASE \/ CreateUser(s) \/ CreateAlbum(s) \/ FfmpegFails(s) \/ CreateTrack(s)
           \/ Enqueue(s) \/ CreateComment(s)
  <2>1. /\ UNCHANGED <<blob, disk>>
        /\ pc'[s] \in {"listener", "admin", "album", "ffmpeg", "job", "comment", "serve"}
    <3>1. UNCHANGED <<blob, disk>>
      BY <1>7 DEF CreateUser, CreateAlbum, FfmpegFails, CreateTrack, Enqueue,
                  CreateComment, files
    <3>2. \/ pc[s] \in Emails \cup {"album", "track", "job", "comment"}
          \/ FfmpegFails(s)
      BY <1>7 DEF CreateUser, CreateAlbum, CreateTrack, Enqueue, CreateComment
    <3>3. CASE FfmpegFails(s)
      BY <3>1, <3>3 DEF FfmpegFails, Return, Goto, TypeOK
    <3>4. CASE pc[s] \in Emails \cup {"album", "track", "job", "comment"}
      BY <3>1, <3>4, CallFacts, ThenFacts DEF Emails
    <3> QED
      BY <3>2, <3>3, <3>4
  <2> QED
    BY <2>1 DEF FiledAt, Stored
<1> QED
  BY <1>3, <1>4, <1>5, <1>6, <1>7 DEF Calls

\* Unless two seeds meet, what is in the store is whole, and stays so.
LEMMA FiledStep ==
    ASSUME TypeOK, Named, Written, Alone, Filed, [Next]_vars
    PROVE  Filed'
<1> SUFFICES ASSUME ~overlapped'
             PROVE  /\ blob'["whole"] # None => Stored'
                    /\ \A s \in Servers : FiledAt(s)'
  BY DEF Filed, FiledAt
<1>1. ASSUME NEW t \in Servers, pc'[t] \notin DOMAIN Then PROVE FiledAt(t)'
  BY <1>1, ThenFacts DEF FiledAt
<1>2. CASE Calm
  <2>1. ~overlapped /\ UNCHANGED <<tmp, blob, disk, misfiled>> /\ Stored' = Stored
    BY <1>2 DEF Calm, Stored
  <2>2. ASSUME NEW t \in Servers, pc'[t] \in DOMAIN Then PROVE FiledAt(t)'
    <3>1. t \in Seeding'
      BY <2>2 DEF Seeding
    <3>2. UNCHANGED <<pc[t], wav[t], sha[t]>>
      BY <1>2, <3>1 DEF Calm
    <3> QED
      BY <2>1, <3>2 DEF Filed, FiledAt
  <2> QED
    BY <1>1, <2>1, <2>2 DEF Filed
<1>3. ASSUME NEW s \in Servers, Enters(s)
      PROVE  (blob'["whole"] # None => Stored') /\ \A t \in Servers : FiledAt(t)'
  <2>1. /\ ~overlapped /\ UNCHANGED <<tmp, blob, disk, wav, sha, misfiled>>
        /\ Stored' = Stored
        /\ pc' = [pc EXCEPT ![s] = "creator"]
    BY <1>3 DEF Enters, Lookup, Enter, Goto, Stored, files
  <2> QED
    BY <2>1 DEF Filed, FiledAt, TypeOK
<1>4. ASSUME NEW s \in Servers, Calls(s)
      PROVE  (blob'["whole"] # None => Stored') /\ \A t \in Servers : FiledAt(t)'
  <2>1. ~overlapped /\ Seeding = {s} /\ Seeding' \subseteq {s}
    BY <1>4, CallFacts, Only
  <2>2. FiledAt(s) /\ (blob["whole"] # None => Stored)
    BY <2>1 DEF Filed, FiledAt
  <2>3. FiledAt(s)' /\ (blob'["whole"] # None => Stored')
    BY <1>4, <2>1, <2>2, CallFiles
  <2>4. \A t \in Servers : t # s => pc'[t] \notin DOMAIN Then
    BY <2>1 DEF Seeding
  <2> QED
    BY <1>1, <2>3, <2>4
<1> QED
  BY <1>2, <1>3, <1>4, StepKinds

\* A track is stored with the hash of a whole file that is in the store or was refused.
LEMMA HonestStep ==
    ASSUME TypeOK, Named, Filed, SeedHonest, Filed', [Next]_vars
    PROVE  SeedHonest'
<1> SUFFICES ASSUME ~overlapped' PROVE SeedHonest'
  BY DEF SeedHonest
<1>1. ASSUME ~overlapped, UNCHANGED track, blob["whole"] # None => blob'["whole"] # None,
             misfiled /\ blob'["whole"] = None => misfiled'
      PROVE  SeedHonest'
  BY <1>1 DEF SeedHonest, Filed, Stored
<1>2. CASE Calm
  BY <1>1, <1>2 DEF Calm, rows
<1>3. ASSUME NEW s \in Servers, Enters(s) PROVE SeedHonest'
  BY <1>1, <1>3 DEF Enters, Lookup, Enter, rows, files
<1>4. ASSUME NEW s \in Servers, Rename(s) PROVE SeedHonest'
  <2>1. ~overlapped /\ track' = track /\ pc[s] = "rename"
    BY <1>4 DEF Rename, rows
  <2>2. tmp # None /\ sha[s] = "whole"
    BY <2>1 DEF Filed
  <2>3. CASE blob' = [blob EXCEPT !["whole"] = tmp]
    BY <1>1, <2>1, <2>2, <2>3 DEF TypeOK, Contents
  <2>4. CASE UNCHANGED blob /\ misfiled' = (blob["whole"] = None)
    BY <1>1, <2>1, <2>4
  <2> QED
    BY <1>4, <2>2, <2>3, <2>4 DEF Rename
<1>5. ASSUME NEW s \in Servers, CreateTrack(s) PROVE SeedHonest'
  <2>1. ~overlapped /\ pc[s] = "track" /\ UNCHANGED <<blob, disk, misfiled>>
    BY <1>5 DEF CreateTrack, files
  <2>2. /\ sha[s] = "whole"
        /\ IF blob["whole"] = None THEN misfiled ELSE disk[blob["whole"]] = "whole"
    BY <2>1 DEF Filed, Stored
  <2>3. \A i \in Ids : track'[i] # track[i] => track'[i] = "whole"
    BY <1>5, <2>2 DEF CreateTrack, TypeOK
  <2> QED
    BY <2>1, <2>2, <2>3 DEF SeedHonest, Stored
<1>6. ASSUME NEW s \in Servers, Calls(s), ~Rename(s), ~CreateTrack(s) PROVE SeedHonest'
  <2>1. UNCHANGED <<blob, track, misfiled>>
    BY <1>6 DEF Calls, CreateUser, CreateAlbum, Ffmpeg, FfmpegEnds, FfmpegFails, HashFile,
                Enqueue, CreateComment, rows, files, history
  <2>2. ~overlapped
    BY <1>6, CallFacts
  <2> QED
    BY <1>1, <2>1, <2>2
<1> QED
  BY <1>2, <1>3, <1>4, <1>5, <1>6, StepKinds

-----------------------------------------------------------------------------
(* Startup: theorems *)

\* No server is up, and nothing is stored.
LEMMA InitInv == Init => Inv
<1> SUFFICES ASSUME Init PROVE Inv
  OBVIOUS
<1>1. 0 \in 0 .. starts /\ starts \in 0 .. MaxStarts
  BY StartupAssumption DEF Init
<1>2. faulted \in BOOLEAN /\ overlapped \in BOOLEAN /\ misfiled \in BOOLEAN
  BY DEF Init
<1>3. TypeOK
  BY <1>1, <1>2 DEF Init, TypeOK, None
<1>4. Seeding = {}
  BY ThenFacts DEF Init, Seeding, Emails
<1>5. Blank
  BY DEF Init, Blank
<1>6. LockedWhileMigrating /\ Named /\ Written /\ OneSeed /\ Accounts
  BY StartupAssumption
     DEF Init, LockedWhileMigrating, Named, Written, OneSeed, Accounts, Emails
<1>7. Alone /\ Undisturbed
  BY <1>4, <1>5 DEF Alone, Undisturbed
<1>8. Filed /\ SeedHonest
  BY DEF Init, Filed, SeedHonest, Contents
<1> QED
  BY <1>3, <1>6, <1>7, <1>8 DEF Inv

\* Every step keeps the invariant.
LEMMA Consecution == Inv /\ [Next]_vars => Inv'
<1> SUFFICES ASSUME Inv, [Next]_vars PROVE Inv'
  OBVIOUS
<1>1. /\ TypeOK /\ LockedWhileMigrating /\ Named /\ Written /\ OneSeed /\ Accounts
      /\ Alone /\ Undisturbed /\ Filed /\ SeedHonest
  BY DEF Inv
<1>2. TypeOK' /\ LockedWhileMigrating'
  BY <1>1, Typed, Locked
<1>3. Named' /\ Written' /\ OneSeed' /\ Accounts'
  BY <1>1, NamedStep, WrittenStep, OneSeedStep, AccountsStep
<1>4. Alone' /\ Undisturbed' /\ Filed'
  BY <1>1, AloneStep, UndisturbedStep, FiledStep
<1>5. SeedHonest'
  BY <1>1, <1>4, HonestStep
<1> QED
  BY <1>2, <1>3, <1>4, <1>5 DEF Inv

\* The inductive invariant, for any number of servers and starts and every fault.
THEOREM Invariance == Spec => []Inv
  BY InitInv, Consecution, PTL DEF Spec

\* Every state is one of the types.
THEOREM TypeCorrect == Spec => []TypeOK
<1>1. Inv => TypeOK
  BY DEF Inv
<1> QED
  BY <1>1, Invariance, PTL

\* "Serializes DDL with a session-scoped advisory lock" (migrate.go:15): no two
\* servers migrate at once, whoever stops or is cut off by his deadline.
THEOREM MigrationsAreSerial == Spec => []LockedWhileMigrating
<1>1. Inv => LockedWhileMigrating
  BY DEF Inv
<1> QED
  BY <1>1, Invariance, PTL

\* There is one seed, of the stored creator; without a fault its accounts are there,
\* and unless two seeds met the rest too.
THEOREM SeedIsWhole == Spec => []SeedWhole
<1>1. Inv => SeedWhole
  <2> SUFFICES ASSUME Inv PROVE SeedWhole
    OBVIOUS
  <2>1. \A i \in Ids : track[i] # NoFile => users["creator"] = i
    BY DEF Inv, OneSeed
  <2>2. ASSUME ~faulted, Seeding = {}, users["creator"] # None
        PROVE  \A e \in Emails : users[e] # None
    <3>1. \A s \in Servers : pc[s] \notin {"listener", "admin"}
      BY <2>2, ThenFacts DEF Seeding, Emails
    <3> QED
      BY <2>2, <3>1 DEF Inv, Accounts, Emails
  <2>3. ASSUME ~faulted, Seeding = {}, users["creator"] # None
        PROVE  overlapped \/ Complete
    BY <2>3 DEF Inv, Undisturbed, Blank, Emails
  <2> QED
    BY <2>1, <2>2, <2>3 DEF SeedWhole, Complete
<1> QED
  BY <1>1, Invariance, PTL

\* The stored track has the hash of a whole file, which is in the store whatever stops or
\* fails, the rename into the store excepted, whose error nobody looks at - unless two seeds
\* shared the name of their temporary file.
THEOREM SeedIsHonest == Spec => []SeedHonest
<1>1. Inv => SeedHonest
  BY DEF Inv
<1> QED
  BY <1>1, Invariance, PTL
=============================================================================
