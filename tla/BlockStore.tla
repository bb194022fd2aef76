----------------------------- MODULE BlockStore -----------------------------
(***************************************************************************)
(* What the datastore promises its clients, with no staging, packs, leases *)
(* or Walrus: one map from keys to values that only a client's own write   *)
(* call, while it is running, can change.  A call may fail after applying  *)
(* any part of itself; one that reports success has applied all its Puts.  *)
(* (It promises no such thing of Deletes: see DeleteWins in                *)
(* StagedIndexHistory.)                                                    *)
(***************************************************************************)
EXTENDS Blocks

CONSTANT Client

VARIABLES
    store,    \* what a Get of each key returns
    pending,  \* the write call each client is in
    owed,     \* the Puts of that call not known to be applied
    reply     \* what the client's last call returned

vars == <<store, pending, owed, reply>>

Init ==
    /\ store = Nothing
    /\ pending = [c \in Client |-> EmptyBatch]
    /\ owed = [c \in Client |-> {}]
    /\ reply = [c \in Client |-> "none"]

Begin(c) ==
    /\ pending[c] = EmptyBatch
    /\ \E b \in Batches :
         /\ pending' = [pending EXCEPT ![c] = b]
         /\ owed' = [owed EXCEPT ![c] = Present(b.put)]
    /\ reply' = [reply EXCEPT ![c] = "none"]
    /\ UNCHANGED store

\* Some Puts take effect; the call learns of some of those.
Put(c) ==
    /\ \E S \in SUBSET Present(pending[c].put) :
         /\ store' = Upsert(store, Only(pending[c].put, S))
         /\ \E A \in SUBSET S : owed' = [owed EXCEPT ![c] = @ \ A]
    /\ UNCHANGED <<pending, reply>>

Delete(c) ==
    /\ \E S \in SUBSET pending[c].del : store' = Without(store, S)
    /\ UNCHANGED <<pending, owed, reply>>

Return(c) ==
    /\ pending[c] # EmptyBatch
    /\ \E res \in {"ok", "error"} :
         /\ res = "ok" => owed[c] = {}
         /\ reply' = [reply EXCEPT ![c] = res]
    /\ pending' = [pending EXCEPT ![c] = EmptyBatch]
    /\ owed' = [owed EXCEPT ![c] = {}]
    /\ UNCHANGED store

Next == \E c \in Client : Begin(c) \/ Put(c) \/ Delete(c) \/ Return(c)

Spec == Init /\ [][Next]_vars
=============================================================================
