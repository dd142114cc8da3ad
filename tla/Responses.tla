------------------------------ MODULE Responses ------------------------------
(***************************************************************************)
(* How answers are written: httpx/respond.go.  JSON takes an envelope from *)
(* a sync.Pool, fills it, puts it back and only then encodes it, so that   *)
(* another request may fill it in the meantime.  That is a data race: the  *)
(* words of the envelope are stored and loaded one by one, in no order.    *)
(*                                                                         *)
(* Whose answer a word belongs to is all that is kept of it.               *)
(*                                                                         *)
(* The names of the specification are long, since ServerProofs is about    *)
(* this module and Startup.                                                *)
(***************************************************************************)
EXTENDS FiniteSets

CONSTANTS
    Requests,       \* requests to be answered, each once
    Envelopes       \* memory: as many as are in use at a time, or more

ASSUME ResponsesAssumption == Requests # {} /\ Envelopes # {}

VARIABLES
    pool,       \* envelopePool
    env,        \* whose each word of an envelope is
    at,         \* where each request is in JSON
    held,       \* its envelope
    todo,       \* the words it has yet to store, or to load
    out,        \* what its client receives
    later       \* history: the requests that began while it was encoded

answers == <<pool, env, at, held, todo, out, later>>

\* OK, and the two words of the interface Data.
Words  == {"ok", "type", "value"}
NoRequest == "nobody"
NoEnv  == "none"

ResponsesInit ==
    /\ pool  = {}
    /\ env   = [e \in Envelopes |-> [w \in Words |-> NoRequest]]
    /\ at    = [r \in Requests |-> "idle"]
    /\ held  = [r \in Requests |-> NoEnv]
    /\ todo  = [r \in Requests |-> {}]
    /\ out   = [r \in Requests |-> [w \in Words |-> NoRequest]]
    /\ later = [r \in Requests |-> {}]

\* Memory that New may hand out.
Free == {e \in Envelopes \ pool : \A r \in Requests : held[r] # e}

-----------------------------------------------------------------------------
(* Faulty variants, for the mutation runs only *)

\* An answer without data leaves Data as it is.
PutUnset(r) ==
    /\ at[r] = "fill"
    /\ todo[r] \subseteq {"value"}
    /\ pool' = pool \cup {held[r]}
    /\ at'   = [at EXCEPT ![r] = "encode"]
    /\ todo' = [todo EXCEPT ![r] = Words]
    /\ UNCHANGED <<env, held, out, later>>

-----------------------------------------------------------------------------
(* JSON *)

\* Get: one from the pool, or a new one.
Get(r) ==
    /\ at[r] = "idle"
    /\ \E e \in pool \cup Free :
        /\ pool' = pool \ {e}
        /\ env'  = IF e \in pool THEN env
                   ELSE [env EXCEPT ![e] = [w \in Words |-> NoRequest]]
        /\ held' = [held EXCEPT ![r] = e]
    /\ at'    = [at EXCEPT ![r] = "fill"]
    /\ todo'  = [todo EXCEPT ![r] = Words]
    /\ later' = [q \in Requests |-> IF at[q] = "encode" THEN later[q] \cup {r}
                                    ELSE later[q]]
    /\ out'   = out

Fill(r, w) ==
    /\ at[r] = "fill"
    /\ w \in todo[r]
    /\ env'  = [env EXCEPT ![held[r]][w] = r]
    /\ todo' = [todo EXCEPT ![r] = @ \ {w}]
    /\ UNCHANGED <<pool, at, held, out, later>>

Put(r) ==
    /\ at[r] = "fill"
    /\ todo[r] = {}
    /\ pool' = pool \cup {held[r]}
    /\ at'   = [at EXCEPT ![r] = "encode"]
    /\ todo' = [todo EXCEPT ![r] = Words]
    /\ UNCHANGED <<env, held, out, later>>

Encode(r, w) ==
    /\ at[r] = "encode"
    /\ w \in todo[r]
    /\ out'  = [out EXCEPT ![r][w] = env[held[r]][w]]
    /\ todo' = [todo EXCEPT ![r] = @ \ {w}]
    /\ UNCHANGED <<pool, env, at, held, later>>

Done(r) ==
    /\ at[r] = "encode"
    /\ todo[r] = {}
    /\ at'   = [at EXCEPT ![r] = "sent"]
    /\ held' = [held EXCEPT ![r] = NoEnv]
    /\ UNCHANGED <<pool, env, todo, out, later>>

\* Fail and JSONRaw encode a value of their own.
Fail(r) ==
    /\ at[r] = "idle"
    /\ out' = [out EXCEPT ![r] = [w \in Words |-> r]]
    /\ at'  = [at EXCEPT ![r] = "sent"]
    /\ UNCHANGED <<pool, env, held, todo, later>>

\* The garbage collector empties pools as it likes.
Drop(e) ==
    /\ e \in pool
    /\ pool' = pool \ {e}
    /\ UNCHANGED <<env, at, held, todo, out, later>>

ResponsesNext ==
    \/ \E r \in Requests :
         \/ Get(r)
         \/ \E w \in Words : Fill(r, w) \/ Encode(r, w)
         \/ Put(r)
         \/ Done(r)
         \/ Fail(r)
    \/ \E e \in Envelopes : Drop(e)

ResponsesSpec == ResponsesInit /\ [][ResponsesNext]_answers

-----------------------------------------------------------------------------
(* Properties *)

\* A client receives its own answer, or words of answers that began while its own
\* was being encoded; never of one that was over, and never an empty envelope.
OwnOrOverlapping ==
    \A r \in Requests : at[r] = "sent" =>
        \A w \in Words : out[r][w] \in {r} \cup later[r]

\* What makes it inductive: who fills an envelope has it to himself, and finds in it
\* what he stored; who encodes one finds himself, or those that began since.
ResponsesTypeOK ==
    /\ pool \subseteq Envelopes
    /\ env  \in [Envelopes -> [Words -> Requests \cup {NoRequest}]]
    /\ at   \in [Requests -> {"idle", "fill", "encode", "sent"}]
    /\ held \in [Requests -> Envelopes \cup {NoEnv}]
    /\ todo \in [Requests -> SUBSET Words]
    /\ out  \in [Requests -> [Words -> Requests \cup {NoRequest}]]
    /\ later \in [Requests -> SUBSET Requests]

Holds == \A r \in Requests : at[r] \in {"fill", "encode"} => held[r] \in Envelopes

Filled ==
    \A r \in Requests : at[r] = "fill" =>
        /\ held[r] \notin pool
        /\ \A q \in Requests :
            /\ at[q] = "fill" /\ held[q] = held[r] => q = r
            /\ at[q] = "encode" /\ held[q] = held[r] => r \in later[q]
        /\ \A w \in Words \ todo[r] : env[held[r]][w] = r

Encoded ==
    \A r \in Requests : at[r] = "encode" =>
        /\ \A w \in Words : env[held[r]][w] \in {r} \cup later[r]
        /\ \A w \in Words \ todo[r] : out[r][w] \in {r} \cup later[r]

ResponsesInv == ResponsesTypeOK /\ Holds /\ Filled /\ Encoded /\ OwnOrOverlapping
=============================================================================
