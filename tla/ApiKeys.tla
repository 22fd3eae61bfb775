------------------------------- MODULE ApiKeys -------------------------------
(***************************************************************************)
(* The keys of one provider: server/src/proxy/keys.rs, the routes of       *)
(* server/src/main.rs that add, delete and switch them, and the request    *)
(* that replaces its key (proxy/handler.rs, apply_rotated_api_key).        *)
(*                                                                         *)
(* Every map access is a step of its own.  Encryption, use statistics and  *)
(* the rate limits, which nothing in the server updates, are left out.     *)
(* Keys are numbered in the order of their ids.                            *)
(***************************************************************************)
EXTENDS Naturals, Sequences, FiniteSetsExt, SequencesExt

CONSTANTS
    MaxKeys,    \* bound: keys ever added
    Requests,   \* proxied requests that ask for a key
    Editors,    \* calls that change keys, at a time
    MaxTurns,   \* bound: keys handed out
    MaxChanges  \* bound: changes of the key set

ASSUME KeysAssumption == {MaxKeys, MaxTurns, MaxChanges} \subseteq Nat

KeyIds == 1 .. MaxKeys
Status == {"absent", "active", "inactive"}

VARIABLES
    keys,        \* keys[k]
    keysFile,    \* what api-keys.json holds of it
    counter,     \* provider_counters
    asking,      \* asking[r]: the request's place, and the active keys it listed
    editing,     \* editing[e]: the call's place, and the keys it will write
    turns,       \* history: turns[k] since the last disturbance of the rotation
    changes      \* changes of the key set made

keysVars == <<keys, keysFile, counter, asking, editing, turns, changes>>

NoTurns == [k \in KeyIds |-> 0]
Active == {k \in KeyIds : keys[k] = "active"}

KeysInit ==
    /\ keys = [k \in KeyIds |-> "absent"] /\ keysFile = keys
    /\ counter = 0 /\ turns = NoTurns /\ changes = 0
    /\ asking = [r \in Requests |-> [pc |-> "idle", listed |-> <<>>]]
    /\ editing = [e \in Editors |-> [pc |-> "idle", listed |-> keys]]

-----------------------------------------------------------------------------
(* api_add_key, api_delete_key, api_update_key: change, list, write.        *)
ChangeKey(e) ==
    /\ editing[e].pc = "idle" /\ changes < MaxChanges
    /\ \E k \in KeyIds, s \in Status :
          /\ s # keys[k]
          /\ keys[k] = "absent" => s = "active"
          /\ keys' = [keys EXCEPT ![k] = s]
    /\ changes' = changes + 1 /\ turns' = NoTurns
    /\ editing' = [editing EXCEPT ![e].pc = "changed"]
    /\ UNCHANGED <<keysFile, counter, asking>>

ListKeys(e) ==
    /\ editing[e].pc = "changed"
    /\ editing' = [editing EXCEPT ![e] = [pc |-> "listed", listed |-> keys]]
    /\ UNCHANGED <<keys, keysFile, counter, asking, turns, changes>>

\* A save that fails is logged; the call succeeds.
SaveKeys(e) ==
    /\ editing[e].pc = "listed"
    /\ keysFile' \in {keysFile, editing[e].listed}
    /\ editing' = [editing EXCEPT ![e].pc = "idle"]
    /\ UNCHANGED <<keys, counter, asking, turns, changes>>

-----------------------------------------------------------------------------
(* apply_rotated_api_key: has_active_keys, then select_key.                *)
HasActiveKeys(r) ==
    /\ asking[r].pc = "idle"
    /\ Active # {}
    /\ asking' = [asking EXCEPT ![r].pc = "list"]
    /\ UNCHANGED <<keys, keysFile, counter, editing, turns, changes>>

\* Mutation: the keys are taken in the order in which the map yields them.
Listing_Unsorted(active) == {s \in [1 .. Cardinality(active) -> active] : ToSet(s) = active}

\* Sorted by id, since the map's order is not stable.
Listing(active) ==
    {s \in [1 .. Cardinality(active) -> active] :
        \A i, j \in DOMAIN s : i < j => s[i] < s[j]}

ListActive(r) ==
    /\ asking[r].pc = "list"
    /\ \E order \in Listing(Active) :
          asking' = [asking EXCEPT ![r] = [pc |-> IF order = <<>> THEN "idle" ELSE "pick",
                                           listed |-> order]]
    /\ UNCHANGED <<keys, keysFile, counter, editing, turns, changes>>

\* The request whose list is outdated takes a turn out of the rotation.
PickKey(r) ==
    /\ asking[r].pc = "pick" /\ counter < MaxTurns
    /\ counter' = counter + 1
    /\ LET listed == asking[r].listed
           k == listed[(counter % Len(listed)) + 1]
       IN  turns' = IF ToSet(listed) = Active THEN [turns EXCEPT ![k] = @ + 1] ELSE NoTurns
    /\ asking' = [asking EXCEPT ![r] = [pc |-> "idle", listed |-> <<>>]]
    /\ UNCHANGED <<keys, keysFile, editing, changes>>

\* A restart: the counter begins again, requests are gone.
Restart ==
    /\ counter > 0 /\ \A e \in Editors : editing[e].pc = "idle"
    /\ keys' = keysFile /\ counter' = 0 /\ turns' = NoTurns
    /\ asking' = [r \in Requests |-> [pc |-> "idle", listed |-> <<>>]]
    /\ UNCHANGED <<keysFile, editing, changes>>

KeysNext ==
    \/ \E e \in Editors : ChangeKey(e) \/ ListKeys(e) \/ SaveKeys(e)
    \/ \E r \in Requests : HasActiveKeys(r) \/ ListActive(r) \/ PickKey(r)
    \/ Restart

KeysSpec == KeysInit /\ [][KeysNext]_keysVars
-----------------------------------------------------------------------------
(* Round robin, whatever requests and changes interleave: from any change  *)
(* of the keys on, as long as no request came with an outdated list, no    *)
(* active key is two turns ahead of another.                               *)
RotationIsEven == \A j, k \in Active : turns[j] <= turns[k] + 1
=============================================================================
