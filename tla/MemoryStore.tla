----------------------------- MODULE MemoryStore -----------------------------
(***************************************************************************)
(* The crew memory (engine/memory.rs): a bounded key-value store with      *)
(* per-item TTL and access counts, loaded from and saved to one JSON file. *)
(* Every run of a flow opens a store of its own over the same file; two    *)
(* runs may overlap, and a process may die between any two steps.          *)
(***************************************************************************)
EXTENDS Naturals, FiniteSets, FiniteSetsExt

CONSTANTS Stores, Keys,
          Sizes,            \* token estimates of the values that are written
          TTLs,             \* ttl_ms of set_with_options; 0 stands for none
          MaxItems, MaxTokens,
          MaxClock, MaxWrites   \* bounds on the run of the model

LimitAssumption == MaxItems \in Nat \ {0} /\ MaxTokens \in Nat \ {0}

VARIABLES now,      \* the clock, in milliseconds
          items,    \* items[s]: the open store's items
          pc,       \* pc[s]: "closed", "open", "saving", or "detached": the run is
                    \* gone and the worker of its save is not
          nextRev,  \* nextRev[s]: next_revision
          temp,     \* temp[s]: the snapshot in the temporary file
          file,     \* the items of the memory file
          writes,   \* history: writes so far
          saved,    \* history: keys some run saved and nobody took out since
          unseen    \* history: unseen[s]: keys others saved since s was opened

storeVars == <<items, pc, nextRev, temp>>
historyVars == <<writes, saved, unseen>>
vars == <<now, storeVars, file, historyVars>>

Empty == [k \in {} |-> 0]

\* MemoryItem::new
Item(size, ttl, rev) ==
    [tokens |-> size, created |-> now, updated |-> now,
     acc |-> 0, ttl |-> ttl, rev |-> rev]

is_expired(item) == item.ttl # 0 /\ now > item.created + item.ttl

Active(I) == {k \in DOMAIN I : ~is_expired(I[k])}
Only(I, K) == [k \in K |-> I[k]]
Tokens(I, K) == MapThenSumSet(LAMBDA k : I[k].tokens, K)

\* find_eviction_candidate: least accessed, then least recently touched.
Before(a, b) == \/ a.acc < b.acc
                \/ a.acc = b.acc /\ a.updated < b.updated
                \/ a.acc = b.acc /\ a.updated = b.updated /\ a.rev < b.rev

NotBefore(I, k) == {j \in Active(I) : ~Before(I[j], I[k])}

\* evict_items: expired items go first, then candidates one by one until both
\* limits hold.  What is kept is the largest set closed under "not before".
evict_items(I) ==
    LET Fits(K) == Cardinality(K) <= MaxItems /\ Tokens(I, K) <= MaxTokens
        Kept == {K \in {NotBefore(I, k) : k \in Active(I)} \cup {{}} : Fits(K)}
    IN Only(I, CHOOSE K \in Kept : \A L \in Kept : Cardinality(L) <= Cardinality(K))

Init == /\ now = 0
        /\ items = [s \in Stores |-> Empty]
        /\ pc = [s \in Stores |-> "closed"]
        /\ nextRev = [s \in Stores |-> 1]
        /\ temp = [s \in Stores |-> Empty]
        /\ file = Empty
        /\ writes = 0 /\ saved = {} /\ unseen = [s \in Stores |-> {}]

Tick == /\ now < MaxClock /\ now' = now + 1
        /\ UNCHANGED <<storeVars, file, historyVars>>

\* load_persistent_items: expired items are dropped.
load_persistent_items == Only(file, Active(file))

persistent_with_config(s) ==
    /\ pc[s] = "closed"
    /\ LET loaded == load_persistent_items IN
       /\ items' = [items EXCEPT ![s] = evict_items(loaded)]
       /\ nextRev' = [nextRev EXCEPT ![s] =
                        1 + Max({evict_items(loaded)[k].rev : k \in DOMAIN evict_items(loaded)} \cup {0})]
    /\ pc' = [pc EXCEPT ![s] = "open"]
    /\ saved' = saved \cap DOMAIN items'[s]
    /\ unseen' = [unseen EXCEPT ![s] = {}]
    /\ UNCHANGED <<now, temp, file, writes>>

Put(s, k, item) ==
    /\ items' = [items EXCEPT ![s] =
                    evict_items([j \in DOMAIN @ \cup {k} |-> IF j = k THEN item ELSE @[j]])]
    /\ nextRev' = [nextRev EXCEPT ![s] = @ + 1]
    /\ writes' = writes + 1
    /\ saved' = saved \ (DOMAIN items[s] \ DOMAIN items'[s])
    /\ UNCHANGED <<now, pc, temp, file, unseen>>

\* An existing item keeps its age, its TTL, its tags and its access count.
set(s, k, size) ==
    /\ pc[s] = "open" /\ writes < MaxWrites
    /\ LET rev == nextRev[s] IN
       Put(s, k, IF k \in DOMAIN items[s]
                 THEN [items[s][k] EXCEPT !.tokens = size, !.updated = now, !.rev = rev]
                 ELSE Item(size, 0, rev))

set_with_options(s, k, size, ttl) ==
    /\ pc[s] = "open" /\ writes < MaxWrites
    /\ Put(s, k, Item(size, ttl, nextRev[s]))

\* A read counts an access, or finds the item expired and removes it.
get(s, k) ==
    /\ pc[s] = "open" /\ k \in DOMAIN items[s]
    /\ nextRev' = [nextRev EXCEPT ![s] = @ + 1]
    /\ items' = IF is_expired(items[s][k])
                THEN [items EXCEPT ![s] = Only(@, DOMAIN @ \ {k})]
                ELSE [items EXCEPT ![s][k].acc = @ + 1, ![s][k].rev = nextRev[s]]
    /\ saved' = saved \ (DOMAIN items[s] \ DOMAIN items'[s])
    /\ UNCHANGED <<now, pc, temp, file, writes, unseen>>

\* delete, and clear for every key.
delete(s, K) ==
    /\ pc[s] = "open"
    /\ items' = [items EXCEPT ![s] = Only(@, DOMAIN @ \ K)]
    /\ saved' = saved \ K
    /\ UNCHANGED <<now, pc, nextRev, temp, file, writes, unseen>>

(***************************************************************************)
(* save: a snapshot under the read lock, a temporary file, a rename.       *)
(***************************************************************************)
save(s) ==
    /\ pc[s] = "open"
    /\ temp' = [temp EXCEPT ![s] = Only(items[s], Active(items[s]))]
    /\ pc' = [pc EXCEPT ![s] = "saving"]
    /\ saved' = saved \ (DOMAIN items[s] \ DOMAIN temp'[s])
    /\ UNCHANGED <<now, items, nextRev, file, writes, unseen>>

AfterSave(s) == IF pc[s] = "saving" THEN "open" ELSE "closed"

\* The snapshot of s is on file, and what others saved since s was opened is not.
Saved(s) ==
    /\ saved' = (saved \ unseen[s]) \cup DOMAIN temp[s]
    /\ unseen' = [t \in Stores |-> IF t = s THEN {} ELSE unseen[t] \cup DOMAIN temp[s]]

\* A save that writes the file in place, item by item.
SaveInPlace(s) ==
    /\ pc[s] \in {"saving", "detached"}
    /\ \E K \in SUBSET DOMAIN temp[s] : file' = Only(temp[s], K)
    /\ pc' = [pc EXCEPT ![s] = AfterSave(s)]
    /\ Saved(s)
    /\ temp' = [temp EXCEPT ![s] = Empty]
    /\ UNCHANGED <<now, items, nextRev, writes>>

\* The rename, in a blocking worker that an aborted run leaves behind.
atomic_save(s) ==
    /\ pc[s] \in {"saving", "detached"}
    /\ file' = temp[s]
    /\ pc' = [pc EXCEPT ![s] = AfterSave(s)]
    /\ Saved(s)
    /\ temp' = [temp EXCEPT ![s] = Empty]
    /\ UNCHANGED <<now, items, nextRev, writes>>

\* The write fails: the temporary file is removed and the error logged.
SaveFails(s) ==
    /\ pc[s] \in {"saving", "detached"}
    /\ pc' = [pc EXCEPT ![s] = AfterSave(s)]
    /\ temp' = [temp EXCEPT ![s] = Empty]
    /\ UNCHANGED <<now, items, nextRev, file, historyVars>>

\* The run ends, is aborted (a blocking worker then runs on) or its process dies.
Close(s) ==
    /\ pc[s] # "closed"
    /\ \/ /\ pc' = [pc EXCEPT ![s] = "closed"] /\ temp' = [temp EXCEPT ![s] = Empty]
       \/ /\ pc[s] = "saving" /\ pc' = [pc EXCEPT ![s] = "detached"]
          /\ UNCHANGED temp
    /\ items' = [items EXCEPT ![s] = Empty]
    /\ nextRev' = [nextRev EXCEPT ![s] = 1]
    /\ UNCHANGED <<now, file, historyVars>>

Next == \/ Tick
        \/ \E s \in Stores :
              \/ persistent_with_config(s) \/ save(s) \/ atomic_save(s)
              \/ SaveFails(s) \/ Close(s) \/ delete(s, Keys)
              \/ \E k \in Keys :
                    \/ get(s, k) \/ delete(s, {k})
                    \/ \E size \in Sizes :
                          \/ set(s, k, size)
                          \/ \E ttl \in TTLs : set_with_options(s, k, size, ttl)

Spec == Init /\ [][Next]_vars

(***************************************************************************)
(* Properties.                                                             *)
(***************************************************************************)
TypeOK == /\ now \in 0..MaxClock /\ writes \in 0..MaxWrites
          /\ pc \in [Stores -> {"closed", "open", "saving", "detached"}]
          /\ \A s \in Stores : DOMAIN items[s] \subseteq Keys /\ DOMAIN temp[s] \subseteq Keys
          /\ \A s \in Stores : \A k \in DOMAIN items[s] : items[s][k].rev < nextRev[s]
          /\ DOMAIN file \subseteq Keys /\ saved \subseteq Keys /\ unseen \in [Stores -> SUBSET Keys]

\* What a run saved stays on file until a run deletes it, evicts it or finds it
\* expired, whatever saves fail, are interrupted or outlive their run; only a run that
\* was open while it was saved takes it out unawares.  docs/crews.md says of racing
\* snapshots that no partial file is exposed, and does not say that one is lost.
SavedIsOnFile == saved \subseteq DOMAIN file

\* A value that was just written is in the store, unless every item that was kept has
\* been read more often, or the value alone is over the limit, or it was set over an
\* item that had expired unnoticed: set keeps the age and the TTL of that one, and
\* evict_items takes the new value for expired as well.
WriteIsKept ==
    \A s \in Stores, k \in Keys, size \in Sizes :
        LET present == k \in DOMAIN items[s] IN
        /\ set(s, k, size) /\ k \notin DOMAIN items'[s]
           => \/ size > MaxTokens
              \/ present /\ is_expired(items[s][k])
              \/ \A j \in DOMAIN items'[s] :
                    items'[s][j].acc > (IF present THEN items[s][k].acc ELSE 0)
        /\ \A ttl \in TTLs :
             set_with_options(s, k, size, ttl) /\ k \notin DOMAIN items'[s]
             => size > MaxTokens \/ \A j \in DOMAIN items'[s] : items'[s][j].acc > 0

=============================================================================
