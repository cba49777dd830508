-------------------------- MODULE LockOrderProofs --------------------------
(***************************************************************************)
(* Proofs about LockOrder: for any number of connections, runs, keys and   *)
(* conversations, a set of transactions that waits on itself contains a    *)
(* reconciler that waits for an append on a row of the journal's state.    *)
(*                                                                         *)
(* Facts(p) collects what the text of one transaction says about the order *)
(* of its statements; it is read off each of them.  LockInv says that a    *)
(* transaction holds what its statements so far have locked.  Together     *)
(* they give each wait a rank that grows along every wait-for edge except  *)
(* the one the property names.  A deletion that waits for a question an    *)
(* answer has locked needs more than its own edge: what it holds is waited *)
(* for only by transactions of low rank, because the answer holds the      *)
(* run's resource.                                                         *)
(***************************************************************************)
EXTENDS LockOrder, TLAPS

LedgerRow(l) == l.class \in Phases
Guarded(l) == l.class \in {"principal", "accounting", "scope", "conversation"}

Classes == {"quota", "run-fence", "event-usage", "resource", "principal", "scope", "key", "live",
            "ended", "accounting", "conversation", "run", "human", "event-state",
            "event-maintenance"}

\* The rank of a transaction of this kind while it waits for this lock.
Rank(kind, l) ==
    IF kind = "reconcile" /\ l.class \notin {"quota", "run-fence"} THEN 13
    ELSE IF l.class = "run-fence" THEN 1
    ELSE IF l.class = "resource" THEN 2
    ELSE IF l.class = "key" THEN 5
    ELSE IF LedgerRow(l) THEN (IF kind \in {"claim", "prune", "drain"} THEN 7 ELSE 6)
    ELSE IF l.class = "run" THEN
        (IF kind \in {"status", "append", "read", "remove"} THEN 3
         ELSE IF kind = "ownbeat" THEN 9 ELSE 8)
    ELSE IF l.class = "event-state" THEN (IF kind = "read" THEN 10 ELSE 11)
    ELSE IF l.class = "human" THEN (IF kind = "remove" THEN 4 ELSE 12)
    ELSE 0

\* One of the first statements of S, before the i-th, had to take this lock.
Took(S, i, lock) ==
    \/ i > 1 /\ S[1].how = "all" /\ lock \in S[1].locks
    \/ i > 2 /\ S[2].how = "all" /\ lock \in S[2].locks
    \/ i > 3 /\ S[3].how = "all" /\ lock \in S[3].locks
    \/ i > 4 /\ S[4].how = "all" /\ lock \in S[4].locks

\* In which mode a transaction of this kind takes this lock.
ModeFact(kind, l, mode) ==
    /\ mode \in {"S", "X"} /\ l.class \in Classes
    /\ (l.class = "run-fence" /\ kind \in {"reconcile", "drain"}) => mode = "X"
    /\ (l.class = "run" /\ kind \notin {"read", "register"}) => mode = "X"
    /\ (l.class = "event-state" /\ kind # "read") => mode = "X"
    /\ l.class \notin {"run-fence", "run", "event-state"} => mode = "X"

\* Which transactions lock runs and journal states, and what a reconciler waits for.
KindFact(kind, l, how) ==
    /\ l.class = "run" => kind \in {"status", "append", "read", "remove", "ownbeat", "reconcile",
                                    "runbeat", "intent", "finish", "cancel", "register"}
    /\ l.class = "event-state" => kind \in {"append", "read", "remove", "retain", "reconcile"}
    /\ l.class = "human" => kind \in {"runbeat", "finish", "cancel", "register", "answer", "close",
                                      "remove", "reconcile"}
    /\ how \in {"all", "some"} =>
            /\ l.class # "event-maintenance"
            /\ kind = "reconcile" => l.class \in {"quota", "run-fence", "live", "ended",
                                                 "accounting", "human", "event-state"}

\* What has been taken before the i-th statement of a transaction takes l.
GuardFact(kind, S, i, l) ==
    /\ l.class \in {"principal", "accounting"} => Took(S, i, Quota)
    /\ l.class \in {"scope", "conversation"} => Took(S, i, Resourced(l.of))
    /\ (LedgerRow(l) /\ kind \in {"claim", "prune"}) => Took(S, i, Quota)
    /\ (LedgerRow(l) /\ kind = "prune") => l.class = "ended"
    /\ (LedgerRow(l) /\ kind = "drain") =>
            /\ Took(S, i, Fence)
            /\ l.class = "live" /\ l.of \in RunKeys
    /\ (l.class = "live" /\ l.of \in RunKeys /\ kind = "claim") => Took(S, i, Fence)
    /\ (l.class = "run" /\ kind \in {"runbeat", "intent", "finish", "cancel", "register"}) =>
            Took(S, i, Resourced(l.of))
    /\ (l.class = "run" /\ kind = "ownbeat") => l.of \in Unkeyed
    /\ (l.class = "human" /\ kind \notin {"remove", "reconcile"}) => Took(S, i, Resourced(l.of))
    /\ (l.class \in {"human", "event-state"} /\ kind = "remove") => Took(S, i, Lock("run", l.of))
    /\ (l.class = "event-state" /\ kind = "read") => Took(S, i, Lock("run", l.of))
    /\ (l.class = "event-state" /\ kind \in {"append", "remove"}) => Took(S, i, Usage)
    /\ (kind = "reconcile" /\ l.class \notin {"quota", "run-fence"}) =>
            /\ Took(S, i, Quota) /\ Took(S, i, Fence)
    /\ (kind = "reconcile" /\ l.class = "event-state") =>
            i > 4 /\ S[4].how = "pick" /\ Lock("run", l.of) \in S[4].locks

\* What a transaction may still wait for, w, once its j-th statement has taken l.
AfterFact(kind, S, j, l, w) ==
    /\ l.class \in {"quota", "event-usage"} => Rank(kind, w) > 0
    /\ l.class = "run-fence" => Rank(kind, w) > 1
    /\ l.class = "resource" => Rank(kind, w) > 2
    /\ l.class = "key" => Rank(kind, w) > 5
    /\ LedgerRow(l) =>
            /\ Rank(kind, w) > 7 \/ (kind \in {"claim", "prune", "drain"} /\ Rank(kind, w) = 7)
            /\ Took(S, j, Quota) \/ Took(S, j, Fence)
    /\ l.class = "run" =>
            \/ Rank(kind, w) > 9
            \/ kind = "ownbeat" /\ Rank(kind, w) = 9
            \/ kind = "remove" /\ w.class = "human" /\ w.of = l.of
            \/ /\ kind \in {"intent", "finish", "cancel"} /\ Rank(kind, w) > 3
               /\ Took(S, j, Resourced(l.of)) /\ l.of \notin Unkeyed
    /\ l.class = "event-state" =>
            \/ kind = "reconcile" /\ Rank(kind, w) = 13
            \/ kind = "retain"
            \/ kind = "append" /\ Rank(kind, w) = 11 /\ Took(S, j, Usage)
            \/ kind = "remove" /\ w.class = "human" /\ w.of = l.of
    /\ l.class = "human" =>
            \/ /\ kind = "reconcile" /\ Rank(kind, w) = 13
               /\ j > 4 /\ S[4].how = "pick" /\ Lock("run", l.of) \in S[4].locks
            \/ /\ kind = "answer" /\ Rank(kind, w) > 4 /\ l.of \notin Unkeyed
               /\ Took(S, j, Resourced(l.of)) /\ Took(S, j, Fence)

Facts(kind, S) ==
    /\ Len(S) \in Nat /\ Len(S) > 0 /\ kind # "idle"
    /\ \A i \in 1..Len(S) : \A l \in S[i].locks :
            /\ ModeFact(kind, l, S[i].mode)
            /\ GuardFact(kind, S, i, l)
            /\ KindFact(kind, l, S[i].how)
    /\ \A i \in 1..Len(S) : \A j \in 1..i : \A l \in S[j].locks, w \in S[i].locks :
            (S[i].how \in {"all", "some"} /\ w # l /\ ~Guarded(w)) => AfterFact(kind, S, j, l, w)

-----------------------------------------------------------------------------
(***************************************************************************)
(* Each transaction, statement by statement.                               *)
(***************************************************************************)
USE DEF Took, Stage, Lock, Row, Rows, Free, IdemRows, lock_advisory, lock_run_fence,
        lock_resource, lock_principal, lock_scope, lock_idempotency_key, Quota, Fence,
        Usage, Resourced, AccountingTrigger, Phases, LedgerRow, RunKeys, ChatKeys, KeysOf,
        Unkeyed, delete_run_event_candidates, ResourceAssumption, Classes

LEMMA ClaimRunFacts ==
  ASSUME ResourceAssumption, NEW k \in RunKeys
  PROVE  Facts("claim", ClaimRun(k))
<1> DEFINE S == ClaimRun(k)
<1>1. /\ Len(S) = 9
      /\ S[1] = lock_advisory(Quota)
      /\ S[2] = lock_principal(k)
      /\ S[3] = lock_run_fence(TRUE)
      /\ S[4] = lock_resource(Resource[k])
      /\ S[5] = lock_idempotency_key(k)
      /\ S[6] = Rows("ended", Keys)
      /\ S[7] = AccountingTrigger(Keys)
      /\ S[8] = IdemRows({k}, "some")
      /\ S[9] = AccountingTrigger({k})
  BY DEF ClaimRun
<1> HIDE DEF S
<1>2. ASSUME NEW i \in 1..9, NEW l \in S[i].locks
      PROVE  /\ ModeFact("claim", l, S[i].mode)
             /\ GuardFact("claim", S, i, l)
             /\ KindFact("claim", l, S[i].how)
  <2>1. CASE i = 1
    BY <1>1, <1>2, <2>1 DEF ModeFact, GuardFact, KindFact
  <2>2. CASE i = 2
    BY <1>1, <1>2, <2>2 DEF ModeFact, GuardFact, KindFact
  <2>3. CASE i = 3
    BY <1>1, <1>2, <2>3 DEF ModeFact, GuardFact, KindFact
  <2>4. CASE i = 4
    BY <1>1, <1>2, <2>4 DEF ModeFact, GuardFact, KindFact
  <2>5. CASE i = 5
    BY <1>1, <1>2, <2>5 DEF ModeFact, GuardFact, KindFact
  <2>6. CASE i = 6
    BY <1>1, <1>2, <2>6 DEF ModeFact, GuardFact, KindFact
  <2>7. CASE i = 7
    BY <1>1, <1>2, <2>7 DEF ModeFact, GuardFact, KindFact
  <2>8. CASE i = 8
    BY <1>1, <1>2, <2>8 DEF ModeFact, GuardFact, KindFact
  <2>9. CASE i = 9
    BY <1>1, <1>2, <2>9 DEF ModeFact, GuardFact, KindFact
  <2> QED
    BY <2>1, <2>2, <2>3, <2>4, <2>5, <2>6, <2>7, <2>8, <2>9
<1>3. ASSUME NEW i \in 1..9, NEW j \in 1..i, NEW l \in S[j].locks, NEW w \in S[i].locks,
             S[i].how \in {"all", "some"}, w # l, ~Guarded(w)
      PROVE  AfterFact("claim", S, j, l, w)
  BY <1>1, <1>3 DEF AfterFact, Rank, Guarded
<1>4. Facts("claim", S)
  BY <1>1, <1>2, <1>3 DEF Facts
<1> QED
  BY <1>4 DEF S

LEMMA ClaimConversationFacts ==
  ASSUME ResourceAssumption, NEW k \in ChatKeys
  PROVE  Facts("claim", ClaimConversation(k))
<1> DEFINE S == ClaimConversation(k)
<1>1. /\ Len(S) = 11
      /\ S[1] = lock_advisory(Quota)
      /\ S[2] = lock_principal(k)
      /\ S[3] = lock_resource(Resource[k])
      /\ S[4] = lock_scope(Resource[k])
      /\ S[5] = lock_idempotency_key(k)
      /\ S[6] = Rows("ended", Keys)
      /\ S[7] = AccountingTrigger(Keys)
      /\ S[8] = IdemRows({k}, "some")
      /\ S[9] = Rows("conversation", {Resource[k]})
      /\ S[10] = IdemRows(KeysOf(Resource[k]), "some")
      /\ S[11] = AccountingTrigger({k})
  BY DEF ClaimConversation
<1> HIDE DEF S
<1>2. ASSUME NEW i \in 1..11, NEW l \in S[i].locks
      PROVE  /\ ModeFact("claim", l, S[i].mode)
             /\ GuardFact("claim", S, i, l)
             /\ KindFact("claim", l, S[i].how)
  <2>1. CASE i = 1
    BY <1>1, <1>2, <2>1 DEF ModeFact, GuardFact, KindFact
  <2>2. CASE i = 2
    BY <1>1, <1>2, <2>2 DEF ModeFact, GuardFact, KindFact
  <2>3. CASE i = 3
    BY <1>1, <1>2, <2>3 DEF ModeFact, GuardFact, KindFact
  <2>4. CASE i = 4
    BY <1>1, <1>2, <2>4 DEF ModeFact, GuardFact, KindFact
  <2>5. CASE i = 5
    BY <1>1, <1>2, <2>5 DEF ModeFact, GuardFact, KindFact
  <2>6. CASE i = 6
    BY <1>1, <1>2, <2>6 DEF ModeFact, GuardFact, KindFact
  <2>7. CASE i = 7
    BY <1>1, <1>2, <2>7 DEF ModeFact, GuardFact, KindFact
  <2>8. CASE i = 8
    BY <1>1, <1>2, <2>8 DEF ModeFact, GuardFact, KindFact
  <2>9. CASE i = 9
    BY <1>1, <1>2, <2>9 DEF ModeFact, GuardFact, KindFact
  <2>10. CASE i = 10
    BY <1>1, <1>2, <2>10 DEF ModeFact, GuardFact, KindFact
  <2>11. CASE i = 11
    BY <1>1, <1>2, <2>11 DEF ModeFact, GuardFact, KindFact
  <2> QED
    BY <2>1, <2>2, <2>3, <2>4, <2>5, <2>6, <2>7, <2>8, <2>9, <2>10, <2>11
<1>3. ASSUME NEW i \in 1..11, NEW j \in 1..i, NEW l \in S[j].locks, NEW w \in S[i].locks,
             S[i].how \in {"all", "some"}, w # l, ~Guarded(w)
      PROVE  AfterFact("claim", S, j, l, w)
  BY <1>1, <1>3 DEF AfterFact, Rank, Guarded
<1>4. Facts("claim", S)
  BY <1>1, <1>2, <1>3 DEF Facts
<1> QED
  BY <1>4 DEF S

LEMMA MarkFacts ==
  ASSUME ResourceAssumption, NEW k \in Keys, NEW p \in Phases
  PROVE  Facts("mark", mark_idempotency_indeterminate_record(k, p))
<1> DEFINE S == mark_idempotency_indeterminate_record(k, p)
<1>1. Len(S) = 5
  BY DEF mark_idempotency_indeterminate_record
<1>2. ASSUME NEW i \in 1..5, NEW l \in S[i].locks
      PROVE  /\ ModeFact("mark", l, S[i].mode)
             /\ GuardFact("mark", S, i, l)
             /\ KindFact("mark", l, S[i].how)
  BY <1>2 DEF mark_idempotency_indeterminate_record, ModeFact, GuardFact, KindFact
<1>3. ASSUME NEW i \in 1..5, NEW j \in 1..i, NEW l \in S[j].locks, NEW w \in S[i].locks,
             S[i].how \in {"all", "some"}, w # l, ~Guarded(w)
      PROVE  AfterFact("mark", S, j, l, w)
  BY <1>3 DEF mark_idempotency_indeterminate_record, AfterFact, Rank, Guarded
<1> QED
  BY <1>1, <1>2, <1>3 DEF Facts

LEMMA ReleaseFacts ==
  ASSUME ResourceAssumption, NEW k \in Keys, NEW p \in Phases
  PROVE  Facts("mark", release_idempotency_record(k, p))
<1> DEFINE S == release_idempotency_record(k, p)
<1>1. Len(S) = 5
  BY DEF release_idempotency_record
<1>2. ASSUME NEW i \in 1..5, NEW l \in S[i].locks
      PROVE  /\ ModeFact("mark", l, S[i].mode)
             /\ GuardFact("mark", S, i, l)
             /\ KindFact("mark", l, S[i].how)
  BY <1>2 DEF release_idempotency_record, ModeFact, GuardFact, KindFact
<1>3. ASSUME NEW i \in 1..5, NEW j \in 1..i, NEW l \in S[j].locks, NEW w \in S[i].locks,
             S[i].how \in {"all", "some"}, w # l, ~Guarded(w)
      PROVE  AfterFact("mark", S, j, l, w)
  BY <1>3 DEF release_idempotency_record, AfterFact, Rank, Guarded
<1> QED
  BY <1>1, <1>2, <1>3 DEF Facts

LEMMA CompleteFacts ==
  ASSUME ResourceAssumption, NEW k \in Keys, NEW p \in Phases
  PROVE  Facts("mark", complete_idempotency_record(k, p))
<1> DEFINE S == complete_idempotency_record(k, p)
<1>1. Len(S) = 5
  BY DEF complete_idempotency_record
<1>2. ASSUME NEW i \in 1..5, NEW l \in S[i].locks
      PROVE  /\ ModeFact("mark", l, S[i].mode)
             /\ GuardFact("mark", S, i, l)
             /\ KindFact("mark", l, S[i].how)
  BY <1>2 DEF complete_idempotency_record, ModeFact, GuardFact, KindFact
<1>3. ASSUME NEW i \in 1..5, NEW j \in 1..i, NEW l \in S[j].locks, NEW w \in S[i].locks,
             S[i].how \in {"all", "some"}, w # l, ~Guarded(w)
      PROVE  AfterFact("mark", S, j, l, w)
  BY <1>3 DEF complete_idempotency_record, AfterFact, Rank, Guarded
<1> QED
  BY <1>1, <1>2, <1>3 DEF Facts

LEMMA CommitFacts ==
  ASSUME ResourceAssumption, NEW k \in ChatKeys, NEW p \in Phases
  PROVE  Facts("commit", commit_conversation_idempotency_record(k, p))
<1> DEFINE S == commit_conversation_idempotency_record(k, p)
<1>1. /\ Len(S) = 7
      /\ S[1] = lock_advisory(Quota)
      /\ S[2] = lock_principal(k)
      /\ S[3] = lock_resource(Resource[k])
      /\ S[4] = lock_idempotency_key(k)
      /\ S[5] = Rows(p, {k})
      /\ S[6] = Rows("conversation", {Resource[k]})
      /\ S[7] = AccountingTrigger({k})
  BY DEF commit_conversation_idempotency_record
<1> HIDE DEF S
<1>2. ASSUME NEW i \in 1..7, NEW l \in S[i].locks
      PROVE  /\ ModeFact("commit", l, S[i].mode)
             /\ GuardFact("commit", S, i, l)
             /\ KindFact("commit", l, S[i].how)
  <2>1. CASE i = 1
    BY <1>1, <1>2, <2>1 DEF ModeFact, GuardFact, KindFact
  <2>2. CASE i = 2
    BY <1>1, <1>2, <2>2 DEF ModeFact, GuardFact, KindFact
  <2>3. CASE i = 3
    BY <1>1, <1>2, <2>3 DEF ModeFact, GuardFact, KindFact
  <2>4. CASE i = 4
    BY <1>1, <1>2, <2>4 DEF ModeFact, GuardFact, KindFact
  <2>5. CASE i = 5
    BY <1>1, <1>2, <2>5 DEF ModeFact, GuardFact, KindFact
  <2>6. CASE i = 6
    BY <1>1, <1>2, <2>6 DEF ModeFact, GuardFact, KindFact
  <2>7. CASE i = 7
    BY <1>1, <1>2, <2>7 DEF ModeFact, GuardFact, KindFact
  <2> QED
    BY <2>1, <2>2, <2>3, <2>4, <2>5, <2>6, <2>7
<1>3. ASSUME NEW i \in 1..7, NEW j \in 1..i, NEW l \in S[j].locks, NEW w \in S[i].locks,
             S[i].how \in {"all", "some"}, w # l, ~Guarded(w)
      PROVE  AfterFact("commit", S, j, l, w)
  BY <1>1, <1>3 DEF AfterFact, Rank, Guarded
<1>4. Facts("commit", S)
  BY <1>1, <1>2, <1>3 DEF Facts
<1> QED
  BY <1>4 DEF S

LEMMA PruneFacts ==
  ASSUME ResourceAssumption
  PROVE  Facts("prune", prune_idempotency_records)
<1> DEFINE S == prune_idempotency_records
<1>1. Len(S) = 3
  BY DEF prune_idempotency_records
<1>2. ASSUME NEW i \in 1..3, NEW l \in S[i].locks
      PROVE  /\ ModeFact("prune", l, S[i].mode)
             /\ GuardFact("prune", S, i, l)
             /\ KindFact("prune", l, S[i].how)
  BY <1>2 DEF prune_idempotency_records, ModeFact, GuardFact, KindFact
<1>3. ASSUME NEW i \in 1..3, NEW j \in 1..i, NEW l \in S[j].locks, NEW w \in S[i].locks,
             S[i].how \in {"all", "some"}, w # l, ~Guarded(w)
      PROVE  AfterFact("prune", S, j, l, w)
  BY <1>3 DEF prune_idempotency_records, AfterFact, Rank, Guarded
<1> QED
  BY <1>1, <1>2, <1>3 DEF Facts

LEMMA BeatFacts ==
  ASSUME ResourceAssumption, NEW k \in Keys, NEW p \in Phases
  PROVE  Facts("beat", heartbeat_idempotency_record(k, p))
<1> DEFINE S == heartbeat_idempotency_record(k, p)
<1>1. Len(S) = 2
  BY DEF heartbeat_idempotency_record
<1>2. ASSUME NEW i \in 1..2, NEW l \in S[i].locks
      PROVE  /\ ModeFact("beat", l, S[i].mode)
             /\ GuardFact("beat", S, i, l)
             /\ KindFact("beat", l, S[i].how)
  BY <1>2 DEF heartbeat_idempotency_record, ModeFact, GuardFact, KindFact
<1>3. ASSUME NEW i \in 1..2, NEW j \in 1..i, NEW l \in S[j].locks, NEW w \in S[i].locks,
             S[i].how \in {"all", "some"}, w # l, ~Guarded(w)
      PROVE  AfterFact("beat", S, j, l, w)
  BY <1>3 DEF heartbeat_idempotency_record, AfterFact, Rank, Guarded
<1> QED
  BY <1>1, <1>2, <1>3 DEF Facts

LEMMA LookupFacts ==
  ASSUME ResourceAssumption, NEW k \in Keys, NEW p \in Phases
  PROVE  Facts("beat", lookup_idempotency_for_principal_record(k, p))
<1> DEFINE S == lookup_idempotency_for_principal_record(k, p)
<1>1. Len(S) = 2
  BY DEF lookup_idempotency_for_principal_record
<1>2. ASSUME NEW i \in 1..2, NEW l \in S[i].locks
      PROVE  /\ ModeFact("beat", l, S[i].mode)
             /\ GuardFact("beat", S, i, l)
             /\ KindFact("beat", l, S[i].how)
  BY <1>2 DEF lookup_idempotency_for_principal_record, ModeFact, GuardFact, KindFact
<1>3. ASSUME NEW i \in 1..2, NEW j \in 1..i, NEW l \in S[j].locks, NEW w \in S[i].locks,
             S[i].how \in {"all", "some"}, w # l, ~Guarded(w)
      PROVE  AfterFact("beat", S, j, l, w)
  BY <1>3 DEF lookup_idempotency_for_principal_record, AfterFact, Rank, Guarded
<1> QED
  BY <1>1, <1>2, <1>3 DEF Facts

LEMMA RunBeatFacts ==
  ASSUME ResourceAssumption, NEW k \in RunKeys, NEW p \in Phases
  PROVE  Facts("runbeat", heartbeat_idempotent_run_record(k, p))
<1> DEFINE S == heartbeat_idempotent_run_record(k, p)
<1>1. Len(S) = 6
  BY DEF heartbeat_idempotent_run_record
<1>2. ASSUME NEW i \in 1..6, NEW l \in S[i].locks
      PROVE  /\ ModeFact("runbeat", l, S[i].mode)
             /\ GuardFact("runbeat", S, i, l)
             /\ KindFact("runbeat", l, S[i].how)
  BY <1>2 DEF heartbeat_idempotent_run_record, ModeFact, GuardFact, KindFact
<1>3. ASSUME NEW i \in 1..6, NEW j \in 1..i, NEW l \in S[j].locks, NEW w \in S[i].locks,
             S[i].how \in {"all", "some"}, w # l, ~Guarded(w)
      PROVE  AfterFact("runbeat", S, j, l, w)
  BY <1>3 DEF heartbeat_idempotent_run_record, AfterFact, Rank, Guarded
<1> QED
  BY <1>1, <1>2, <1>3 DEF Facts

LEMMA IntentKeyedFacts ==
  ASSUME ResourceAssumption, NEW k \in RunKeys, NEW p \in Phases
  PROVE  Facts("intent", IntentKeyed(k, p))
<1> DEFINE S == IntentKeyed(k, p)
<1>1. Len(S) = 4
  BY DEF IntentKeyed
<1>2. ASSUME NEW i \in 1..4, NEW l \in S[i].locks
      PROVE  /\ ModeFact("intent", l, S[i].mode)
             /\ GuardFact("intent", S, i, l)
             /\ KindFact("intent", l, S[i].how)
  BY <1>2 DEF IntentKeyed, ModeFact, GuardFact, KindFact
<1>3. ASSUME NEW i \in 1..4, NEW j \in 1..i, NEW l \in S[j].locks, NEW w \in S[i].locks,
             S[i].how \in {"all", "some"}, w # l, ~Guarded(w)
      PROVE  AfterFact("intent", S, j, l, w)
  BY <1>3 DEF IntentKeyed, AfterFact, Rank, Guarded
<1> QED
  BY <1>1, <1>2, <1>3 DEF Facts

LEMMA IntentUnkeyedFacts ==
  ASSUME ResourceAssumption, NEW r \in Unkeyed
  PROVE  Facts("intent", IntentUnkeyed(r))
<1> DEFINE S == IntentUnkeyed(r)
<1>1. Len(S) = 3
  BY DEF IntentUnkeyed
<1>2. ASSUME NEW i \in 1..3, NEW l \in S[i].locks
      PROVE  /\ ModeFact("intent", l, S[i].mode)
             /\ GuardFact("intent", S, i, l)
             /\ KindFact("intent", l, S[i].how)
  BY <1>2 DEF IntentUnkeyed, ModeFact, GuardFact, KindFact
<1>3. ASSUME NEW i \in 1..3, NEW j \in 1..i, NEW l \in S[j].locks, NEW w \in S[i].locks,
             S[i].how \in {"all", "some"}, w # l, ~Guarded(w)
      PROVE  AfterFact("intent", S, j, l, w)
  BY <1>3 DEF IntentUnkeyed, AfterFact, Rank, Guarded
<1> QED
  BY <1>1, <1>2, <1>3 DEF Facts

LEMMA FinishKeyedFacts ==
  ASSUME ResourceAssumption, NEW k \in RunKeys, NEW p \in Phases
  PROVE  Facts("finish", FinishKeyed(k, p))
<1> DEFINE S == FinishKeyed(k, p)
<1>1. /\ Len(S) = 7
      /\ S[1] = lock_advisory(Quota)
      /\ S[2] = lock_run_fence(TRUE)
      /\ S[3] = lock_resource(Resource[k])
      /\ S[4] = Rows("run", {Resource[k]})
      /\ S[5] = Rows(p, {k})
      /\ S[6] = AccountingTrigger({k})
      /\ S[7] = Rows("human", {Resource[k]})
  BY DEF FinishKeyed
<1> HIDE DEF S
<1>2. ASSUME NEW i \in 1..7, NEW l \in S[i].locks
      PROVE  /\ ModeFact("finish", l, S[i].mode)
             /\ GuardFact("finish", S, i, l)
             /\ KindFact("finish", l, S[i].how)
  <2>1. CASE i = 1
    BY <1>1, <1>2, <2>1 DEF ModeFact, GuardFact, KindFact
  <2>2. CASE i = 2
    BY <1>1, <1>2, <2>2 DEF ModeFact, GuardFact, KindFact
  <2>3. CASE i = 3
    BY <1>1, <1>2, <2>3 DEF ModeFact, GuardFact, KindFact
  <2>4. CASE i = 4
    BY <1>1, <1>2, <2>4 DEF ModeFact, GuardFact, KindFact
  <2>5. CASE i = 5
    BY <1>1, <1>2, <2>5 DEF ModeFact, GuardFact, KindFact
  <2>6. CASE i = 6
    BY <1>1, <1>2, <2>6 DEF ModeFact, GuardFact, KindFact
  <2>7. CASE i = 7
    BY <1>1, <1>2, <2>7 DEF ModeFact, GuardFact, KindFact
  <2> QED
    BY <2>1, <2>2, <2>3, <2>4, <2>5, <2>6, <2>7
<1>3. ASSUME NEW i \in 1..7, NEW j \in 1..i, NEW l \in S[j].locks, NEW w \in S[i].locks,
             S[i].how \in {"all", "some"}, w # l, ~Guarded(w)
      PROVE  AfterFact("finish", S, j, l, w)
  BY <1>1, <1>3 DEF AfterFact, Rank, Guarded
<1>4. Facts("finish", S)
  BY <1>1, <1>2, <1>3 DEF Facts
<1> QED
  BY <1>4 DEF S

LEMMA FinishUnkeyedFacts ==
  ASSUME ResourceAssumption, NEW r \in Unkeyed
  PROVE  Facts("finish", FinishUnkeyed(r))
<1> DEFINE S == FinishUnkeyed(r)
<1>1. Len(S) = 5
  BY DEF FinishUnkeyed
<1>2. ASSUME NEW i \in 1..5, NEW l \in S[i].locks
      PROVE  /\ ModeFact("finish", l, S[i].mode)
             /\ GuardFact("finish", S, i, l)
             /\ KindFact("finish", l, S[i].how)
  BY <1>2 DEF FinishUnkeyed, ModeFact, GuardFact, KindFact
<1>3. ASSUME NEW i \in 1..5, NEW j \in 1..i, NEW l \in S[j].locks, NEW w \in S[i].locks,
             S[i].how \in {"all", "some"}, w # l, ~Guarded(w)
      PROVE  AfterFact("finish", S, j, l, w)
  BY <1>3 DEF FinishUnkeyed, AfterFact, Rank, Guarded
<1> QED
  BY <1>1, <1>2, <1>3 DEF Facts

LEMMA StatusFacts ==
  ASSUME ResourceAssumption, NEW r \in Runs
  PROVE  Facts("status", set_run_status(r))
<1> DEFINE S == set_run_status(r)
<1>1. Len(S) = 1
  BY DEF set_run_status
<1>2. ASSUME NEW i \in 1..1, NEW l \in S[i].locks
      PROVE  /\ ModeFact("status", l, S[i].mode)
             /\ GuardFact("status", S, i, l)
             /\ KindFact("status", l, S[i].how)
  BY <1>2 DEF set_run_status, ModeFact, GuardFact, KindFact
<1>3. ASSUME NEW i \in 1..1, NEW j \in 1..i, NEW l \in S[j].locks, NEW w \in S[i].locks,
             S[i].how \in {"all", "some"}, w # l, ~Guarded(w)
      PROVE  AfterFact("status", S, j, l, w)
  BY <1>3 DEF set_run_status, AfterFact, Rank, Guarded
<1> QED
  BY <1>1, <1>2, <1>3 DEF Facts

LEMMA CancelFacts ==
  ASSUME ResourceAssumption, NEW k \in RunKeys, NEW p \in Phases
  PROVE  Facts("cancel", request_run_cancellation_maintenance(k, p))
<1> DEFINE S == request_run_cancellation_maintenance(k, p)
<1>1. Len(S) = 6
  BY DEF request_run_cancellation_maintenance
<1>2. ASSUME NEW i \in 1..6, NEW l \in S[i].locks
      PROVE  /\ ModeFact("cancel", l, S[i].mode)
             /\ GuardFact("cancel", S, i, l)
             /\ KindFact("cancel", l, S[i].how)
  BY <1>2 DEF request_run_cancellation_maintenance, ModeFact, GuardFact, KindFact
<1>3. ASSUME NEW i \in 1..6, NEW j \in 1..i, NEW l \in S[j].locks, NEW w \in S[i].locks,
             S[i].how \in {"all", "some"}, w # l, ~Guarded(w)
      PROVE  AfterFact("cancel", S, j, l, w)
  BY <1>3 DEF request_run_cancellation_maintenance, AfterFact, Rank, Guarded
<1> QED
  BY <1>1, <1>2, <1>3 DEF Facts

LEMMA CancelTerminalFacts ==
  ASSUME ResourceAssumption, NEW r \in Runs
  PROVE  Facts("cancel", CancelTerminal(r))
<1> DEFINE S == CancelTerminal(r)
<1>1. Len(S) = 4
  BY DEF CancelTerminal
<1>2. ASSUME NEW i \in 1..4, NEW l \in S[i].locks
      PROVE  /\ ModeFact("cancel", l, S[i].mode)
             /\ GuardFact("cancel", S, i, l)
             /\ KindFact("cancel", l, S[i].how)
  BY <1>2 DEF CancelTerminal, ModeFact, GuardFact, KindFact
<1>3. ASSUME NEW i \in 1..4, NEW j \in 1..i, NEW l \in S[j].locks, NEW w \in S[i].locks,
             S[i].how \in {"all", "some"}, w # l, ~Guarded(w)
      PROVE  AfterFact("cancel", S, j, l, w)
  BY <1>3 DEF CancelTerminal, AfterFact, Rank, Guarded
<1> QED
  BY <1>1, <1>2, <1>3 DEF Facts

LEMMA RegisterAgainFacts ==
  ASSUME ResourceAssumption, NEW k \in RunKeys
  PROVE  Facts("register", RegisterAgain(k))
<1> DEFINE S == RegisterAgain(k)
<1>1. Len(S) = 5
  BY DEF RegisterAgain
<1>2. ASSUME NEW i \in 1..5, NEW l \in S[i].locks
      PROVE  /\ ModeFact("register", l, S[i].mode)
             /\ GuardFact("register", S, i, l)
             /\ KindFact("register", l, S[i].how)
  BY <1>2 DEF RegisterAgain, ModeFact, GuardFact, KindFact
<1>3. ASSUME NEW i \in 1..5, NEW j \in 1..i, NEW l \in S[j].locks, NEW w \in S[i].locks,
             S[i].how \in {"all", "some"}, w # l, ~Guarded(w)
      PROVE  AfterFact("register", S, j, l, w)
  BY <1>3 DEF RegisterAgain, AfterFact, Rank, Guarded
<1> QED
  BY <1>1, <1>2, <1>3 DEF Facts

LEMMA RegisterNewFacts ==
  ASSUME ResourceAssumption, NEW k \in RunKeys
  PROVE  Facts("register", RegisterNew(k))
<1> DEFINE S == RegisterNew(k)
<1>1. Len(S) = 5
  BY DEF RegisterNew
<1>2. ASSUME NEW i \in 1..5, NEW l \in S[i].locks
      PROVE  /\ ModeFact("register", l, S[i].mode)
             /\ GuardFact("register", S, i, l)
             /\ KindFact("register", l, S[i].how)
  BY <1>2 DEF RegisterNew, ModeFact, GuardFact, KindFact
<1>3. ASSUME NEW i \in 1..5, NEW j \in 1..i, NEW l \in S[j].locks, NEW w \in S[i].locks,
             S[i].how \in {"all", "some"}, w # l, ~Guarded(w)
      PROVE  AfterFact("register", S, j, l, w)
  BY <1>3 DEF RegisterNew, AfterFact, Rank, Guarded
<1> QED
  BY <1>1, <1>2, <1>3 DEF Facts

LEMMA AnswerFacts ==
  ASSUME ResourceAssumption, NEW k \in RunKeys
  PROVE  Facts("answer", answer_human_input_record(k))
<1> DEFINE S == answer_human_input_record(k)
<1>1. Len(S) = 5
  BY DEF answer_human_input_record
<1>2. ASSUME NEW i \in 1..5, NEW l \in S[i].locks
      PROVE  /\ ModeFact("answer", l, S[i].mode)
             /\ GuardFact("answer", S, i, l)
             /\ KindFact("answer", l, S[i].how)
  BY <1>2 DEF answer_human_input_record, ModeFact, GuardFact, KindFact
<1>3. ASSUME NEW i \in 1..5, NEW j \in 1..i, NEW l \in S[j].locks, NEW w \in S[i].locks,
             S[i].how \in {"all", "some"}, w # l, ~Guarded(w)
      PROVE  AfterFact("answer", S, j, l, w)
  BY <1>3 DEF answer_human_input_record, AfterFact, Rank, Guarded
<1> QED
  BY <1>1, <1>2, <1>3 DEF Facts

LEMMA CloseFacts ==
  ASSUME ResourceAssumption, NEW r \in Runs
  PROVE  Facts("close", close_human_input_record(r))
<1> DEFINE S == close_human_input_record(r)
<1>1. Len(S) = 3
  BY DEF close_human_input_record
<1>2. ASSUME NEW i \in 1..3, NEW l \in S[i].locks
      PROVE  /\ ModeFact("close", l, S[i].mode)
             /\ GuardFact("close", S, i, l)
             /\ KindFact("close", l, S[i].how)
  BY <1>2 DEF close_human_input_record, ModeFact, GuardFact, KindFact
<1>3. ASSUME NEW i \in 1..3, NEW j \in 1..i, NEW l \in S[j].locks, NEW w \in S[i].locks,
             S[i].how \in {"all", "some"}, w # l, ~Guarded(w)
      PROVE  AfterFact("close", S, j, l, w)
  BY <1>3 DEF close_human_input_record, AfterFact, Rank, Guarded
<1> QED
  BY <1>1, <1>2, <1>3 DEF Facts

LEMMA OwnBeatFacts ==
  ASSUME ResourceAssumption
  PROVE  Facts("ownbeat", heartbeat_owned_runs_maintenance)
<1> DEFINE S == heartbeat_owned_runs_maintenance
<1>1. Len(S) = 2
  BY DEF heartbeat_owned_runs_maintenance
<1>2. ASSUME NEW i \in 1..2, NEW l \in S[i].locks
      PROVE  /\ ModeFact("ownbeat", l, S[i].mode)
             /\ GuardFact("ownbeat", S, i, l)
             /\ KindFact("ownbeat", l, S[i].how)
  BY <1>2 DEF heartbeat_owned_runs_maintenance, ModeFact, GuardFact, KindFact
<1>3. ASSUME NEW i \in 1..2, NEW j \in 1..i, NEW l \in S[j].locks, NEW w \in S[i].locks,
             S[i].how \in {"all", "some"}, w # l, ~Guarded(w)
      PROVE  AfterFact("ownbeat", S, j, l, w)
  BY <1>3 DEF heartbeat_owned_runs_maintenance, AfterFact, Rank, Guarded
<1> QED
  BY <1>1, <1>2, <1>3 DEF Facts

LEMMA ReconcileFacts ==
  ASSUME ResourceAssumption, NEW R \in SUBSET Runs
  PROVE  Facts("reconcile", reconcile_abandoned_runs_maintenance(R))
<1> DEFINE S == reconcile_abandoned_runs_maintenance(R)
           K == UNION {KeysOf(r) : r \in R}
<1>1. /\ Len(S) = 11
      /\ S[1] = lock_advisory(Quota)
      /\ S[2] = lock_run_fence(FALSE)
      /\ S[3] = IdemRows(K, "skip")
      /\ S[4] = Stage({Lock("run", r) : r \in R}, "X", "pick")
      /\ S[5] = Rows("event-state", R)
      /\ S[6] = IdemRows(K, "some")
      /\ S[7] = AccountingTrigger(Keys)
      /\ S[8] = Rows("human", R)
      /\ S[9] = IdemRows(ChatKeys, "skip")
      /\ S[10] = AccountingTrigger(Keys)
      /\ S[11] = Free("human", Runs)
  BY DEF reconcile_abandoned_runs_maintenance
<1> HIDE DEF S, K
<1>2. ASSUME NEW i \in 1..11, NEW l \in S[i].locks
      PROVE  /\ ModeFact("reconcile", l, S[i].mode)
             /\ GuardFact("reconcile", S, i, l)
             /\ KindFact("reconcile", l, S[i].how)
  <2>1. CASE i = 1
    BY <1>1, <1>2, <2>1 DEF ModeFact, GuardFact, KindFact
  <2>2. CASE i = 2
    BY <1>1, <1>2, <2>2 DEF ModeFact, GuardFact, KindFact
  <2>3. CASE i = 3
    BY <1>1, <1>2, <2>3 DEF ModeFact, GuardFact, KindFact
  <2>4. CASE i = 4
    BY <1>1, <1>2, <2>4 DEF ModeFact, GuardFact, KindFact
  <2>5. CASE i = 5
    BY <1>1, <1>2, <2>5 DEF ModeFact, GuardFact, KindFact
  <2>6. CASE i = 6
    BY <1>1, <1>2, <2>6 DEF ModeFact, GuardFact, KindFact
  <2>7. CASE i = 7
    BY <1>1, <1>2, <2>7 DEF ModeFact, GuardFact, KindFact
  <2>8. CASE i = 8
    BY <1>1, <1>2, <2>8 DEF ModeFact, GuardFact, KindFact
  <2>9. CASE i = 9
    BY <1>1, <1>2, <2>9 DEF ModeFact, GuardFact, KindFact
  <2>10. CASE i = 10
    BY <1>1, <1>2, <2>10 DEF ModeFact, GuardFact, KindFact
  <2>11. CASE i = 11
    BY <1>1, <1>2, <2>11 DEF ModeFact, GuardFact, KindFact
  <2> QED
    BY <2>1, <2>2, <2>3, <2>4, <2>5, <2>6, <2>7, <2>8, <2>9, <2>10, <2>11
<1>3. ASSUME NEW i \in 1..11, NEW j \in 1..i, NEW l \in S[j].locks, NEW w \in S[i].locks,
             S[i].how \in {"all", "some"}, w # l, ~Guarded(w)
      PROVE  AfterFact("reconcile", S, j, l, w)
  <2> DEFINE Late(x) == x.class \in {"live", "ended", "run", "event-state", "accounting", "human"}
  <2>1. \A x \in S[1].locks : x.class = "quota" /\ x = Quota
    BY <1>1 DEF lock_advisory, Stage, Quota, Lock
  <2>2. \A x \in S[2].locks : x.class = "run-fence" /\ x = Fence
    BY <1>1 DEF lock_run_fence, Stage, Fence, Lock
  <2>3. (\A x \in S[3].locks : Late(x)) /\ (\A x \in S[6].locks : Late(x))
    BY <1>1 DEF IdemRows, Stage, Lock, Phases
  <2>4. \A x \in S[4].locks : Late(x)
    BY <1>1 DEF Stage, Lock
  <2>5. (\A x \in S[5].locks : Late(x)) /\ (\A x \in S[8].locks : Late(x))
    BY <1>1 DEF Rows, Stage, Lock
  <2>6. (\A x \in S[7].locks : Late(x)) /\ (\A x \in S[10].locks : Late(x))
    BY <1>1 DEF AccountingTrigger, Rows, Stage, Lock
  <2>7. \A x \in S[9].locks : Late(x)
    BY <1>1 DEF IdemRows, Stage, Lock, Phases
  <2>8. \A x \in S[11].locks : Late(x)
    BY <1>1 DEF Free, Stage, Lock
  <2>9. CASE i = 1
    <3>1. j = 1
      BY <1>3, <2>9
    <3> QED
      BY <1>3, <2>1, <2>9, <3>1
  <2>10. CASE i = 2
    <3>1. w = Fence /\ w.class = "run-fence"
      BY <1>3, <2>2, <2>10
    <3>2. l.class = "quota"
      BY <1>3, <2>1, <2>2, <2>10
    <3> QED
      BY <3>1, <3>2 DEF AfterFact, Rank, LedgerRow, Phases
  <2>11. CASE i > 2
    <3>1. Late(w)
      BY <1>3, <2>3, <2>4, <2>5, <2>6, <2>7, <2>8, <2>11
    <3>2. Rank("reconcile", w) = 13
      BY <3>1 DEF Rank
    <3>3. j \in 1..11 /\ GuardFact("reconcile", S, j, l)
      BY <1>2, <1>3
    <3>4. l.class = "human" => j > 4 /\ S[4].how = "pick" /\ Lock("run", l.of) \in S[4].locks
      <4> SUFFICES ASSUME l.class = "human"
                   PROVE  j > 4 /\ S[4].how = "pick" /\ Lock("run", l.of) \in S[4].locks
        OBVIOUS
      <4>1. S[11].how = "skip"
        BY <1>1 DEF Free, Stage
      <4>2. i # 11 /\ j \in 1..10
        BY <1>3, <4>1
      <4>3. j \notin {1, 2}
        BY <2>1, <2>2
      <4>4. j \notin {3, 6, 9}
        BY <1>1 DEF IdemRows, Stage, Lock, Phases
      <4>5. j \notin {4, 5}
        BY <1>1 DEF Rows, Stage, Lock
      <4>6. j \notin {7, 10}
        BY <1>1 DEF AccountingTrigger, Rows, Stage, Lock
      <4>7. j = 8
        BY <4>2, <4>3, <4>4, <4>5, <4>6
      <4>8. l \in Rows("human", R).locks
        BY <1>1, <4>7
      <4> QED
        BY <1>1, <4>7, <4>8 DEF Rows, Stage, Lock
    <3> QED
      BY <3>2, <3>3, <3>4 DEF AfterFact, GuardFact, LedgerRow, Phases
  <2> QED
    BY <2>9, <2>10, <2>11
<1>4. Facts("reconcile", S)
  BY <1>1, <1>2, <1>3 DEF Facts
<1> QED
  BY <1>4 DEF S

LEMMA DrainFacts ==
  ASSUME ResourceAssumption
  PROVE  Facts("drain", begin_owner_drain_maintenance)
<1> DEFINE S == begin_owner_drain_maintenance
<1>1. Len(S) = 2
  BY DEF begin_owner_drain_maintenance
<1>2. ASSUME NEW i \in 1..2, NEW l \in S[i].locks
      PROVE  /\ ModeFact("drain", l, S[i].mode)
             /\ GuardFact("drain", S, i, l)
             /\ KindFact("drain", l, S[i].how)
  BY <1>2 DEF begin_owner_drain_maintenance, ModeFact, GuardFact, KindFact
<1>3. ASSUME NEW i \in 1..2, NEW j \in 1..i, NEW l \in S[j].locks, NEW w \in S[i].locks,
             S[i].how \in {"all", "some"}, w # l, ~Guarded(w)
      PROVE  AfterFact("drain", S, j, l, w)
  BY <1>3 DEF begin_owner_drain_maintenance, AfterFact, Rank, Guarded
<1> QED
  BY <1>1, <1>2, <1>3 DEF Facts

LEMMA AppendFacts ==
  ASSUME ResourceAssumption, NEW r \in Runs
  PROVE  Facts("append", append_run_event_journal(r))
<1> DEFINE S == append_run_event_journal(r)
<1>1. Len(S) = 5
  BY DEF append_run_event_journal
<1>2. ASSUME NEW i \in 1..5, NEW l \in S[i].locks
      PROVE  /\ ModeFact("append", l, S[i].mode)
             /\ GuardFact("append", S, i, l)
             /\ KindFact("append", l, S[i].how)
  BY <1>2 DEF append_run_event_journal, ModeFact, GuardFact, KindFact
<1>3. ASSUME NEW i \in 1..5, NEW j \in 1..i, NEW l \in S[j].locks, NEW w \in S[i].locks,
             S[i].how \in {"all", "some"}, w # l, ~Guarded(w)
      PROVE  AfterFact("append", S, j, l, w)
  BY <1>3 DEF append_run_event_journal, AfterFact, Rank, Guarded
<1> QED
  BY <1>1, <1>2, <1>3 DEF Facts

LEMMA ReadFacts ==
  ASSUME ResourceAssumption, NEW r \in Runs
  PROVE  Facts("read", read_run_events_journal(r))
<1> DEFINE S == read_run_events_journal(r)
<1>1. Len(S) = 2
  BY DEF read_run_events_journal
<1>2. ASSUME NEW i \in 1..2, NEW l \in S[i].locks
      PROVE  /\ ModeFact("read", l, S[i].mode)
             /\ GuardFact("read", S, i, l)
             /\ KindFact("read", l, S[i].how)
  BY <1>2 DEF read_run_events_journal, ModeFact, GuardFact, KindFact
<1>3. ASSUME NEW i \in 1..2, NEW j \in 1..i, NEW l \in S[j].locks, NEW w \in S[i].locks,
             S[i].how \in {"all", "some"}, w # l, ~Guarded(w)
      PROVE  AfterFact("read", S, j, l, w)
  BY <1>3 DEF read_run_events_journal, AfterFact, Rank, Guarded
<1> QED
  BY <1>1, <1>2, <1>3 DEF Facts

LEMMA RemoveFacts ==
  ASSUME ResourceAssumption, NEW r \in Runs
  PROVE  Facts("remove", remove_run(r))
<1> DEFINE S == remove_run(r)
<1>1. Len(S) = 4
  BY DEF remove_run
<1>2. ASSUME NEW i \in 1..4, NEW l \in S[i].locks
      PROVE  /\ ModeFact("remove", l, S[i].mode)
             /\ GuardFact("remove", S, i, l)
             /\ KindFact("remove", l, S[i].how)
  BY <1>2 DEF remove_run, ModeFact, GuardFact, KindFact
<1>3. ASSUME NEW i \in 1..4, NEW j \in 1..i, NEW l \in S[j].locks, NEW w \in S[i].locks,
             S[i].how \in {"all", "some"}, w # l, ~Guarded(w)
      PROVE  AfterFact("remove", S, j, l, w)
  BY <1>3 DEF remove_run, AfterFact, Rank, Guarded
<1> QED
  BY <1>1, <1>2, <1>3 DEF Facts

LEMMA RetainFacts ==
  ASSUME ResourceAssumption
  PROVE  Facts("retain", prune_expired_run_events_best_effort)
<1> DEFINE S == prune_expired_run_events_best_effort
<1>1. Len(S) = 3
  BY DEF prune_expired_run_events_best_effort
<1>2. ASSUME NEW i \in 1..3, NEW l \in S[i].locks
      PROVE  /\ ModeFact("retain", l, S[i].mode)
             /\ GuardFact("retain", S, i, l)
             /\ KindFact("retain", l, S[i].how)
  BY <1>2 DEF prune_expired_run_events_best_effort, ModeFact, GuardFact, KindFact
<1>3. ASSUME NEW i \in 1..3, NEW j \in 1..i, NEW l \in S[j].locks, NEW w \in S[i].locks,
             S[i].how \in {"all", "some"}, w # l, ~Guarded(w)
      PROVE  AfterFact("retain", S, j, l, w)
  BY <1>3 DEF prune_expired_run_events_best_effort, AfterFact, Rank, Guarded
<1> QED
  BY <1>1, <1>2, <1>3 DEF Facts

LEMMA SaveFacts ==
  ASSUME ResourceAssumption, NEW c \in Chats
  PROVE  Facts("save", save_conversation_record(c))
<1> DEFINE S == save_conversation_record(c)
<1>1. Len(S) = 2
  BY DEF save_conversation_record
<1>2. ASSUME NEW i \in 1..2, NEW l \in S[i].locks
      PROVE  /\ ModeFact("save", l, S[i].mode)
             /\ GuardFact("save", S, i, l)
             /\ KindFact("save", l, S[i].how)
  BY <1>2 DEF save_conversation_record, ModeFact, GuardFact, KindFact
<1>3. ASSUME NEW i \in 1..2, NEW j \in 1..i, NEW l \in S[j].locks, NEW w \in S[i].locks,
             S[i].how \in {"all", "some"}, w # l, ~Guarded(w)
      PROVE  AfterFact("save", S, j, l, w)
  BY <1>3 DEF save_conversation_record, AfterFact, Rank, Guarded
<1> QED
  BY <1>1, <1>2, <1>3 DEF Facts

LEMMA DeleteFacts ==
  ASSUME ResourceAssumption, NEW c \in Chats
  PROVE  Facts("save", delete_conversation_record(c))
<1> DEFINE S == delete_conversation_record(c)
<1>1. Len(S) = 2
  BY DEF delete_conversation_record
<1>2. ASSUME NEW i \in 1..2, NEW l \in S[i].locks
      PROVE  /\ ModeFact("save", l, S[i].mode)
             /\ GuardFact("save", S, i, l)
             /\ KindFact("save", l, S[i].how)
  BY <1>2 DEF delete_conversation_record, ModeFact, GuardFact, KindFact
<1>3. ASSUME NEW i \in 1..2, NEW j \in 1..i, NEW l \in S[j].locks, NEW w \in S[i].locks,
             S[i].how \in {"all", "some"}, w # l, ~Guarded(w)
      PROVE  AfterFact("save", S, j, l, w)
  BY <1>3 DEF delete_conversation_record, AfterFact, Rank, Guarded
<1> QED
  BY <1>1, <1>2, <1>3 DEF Facts

HIDE DEF Took, Stage, Lock, Row, Rows, Free, IdemRows, lock_advisory, lock_run_fence,
         lock_resource, lock_principal, lock_scope, lock_idempotency_key, Quota, Fence,
         Usage, Resourced, AccountingTrigger, Phases, LedgerRow, RunKeys, ChatKeys, KeysOf,
         Unkeyed, delete_run_event_candidates, ResourceAssumption, Classes

LEMMA ProgramFacts ==
  ASSUME ResourceAssumption, NEW p \in Programs
  PROVE  Facts(p.kind, p.stages)
<1> DEFINE P(kind, programs) == p.kind = kind /\ p.stages \in programs
<1>1. ASSUME NEW kind, NEW programs, p \in Transaction(kind, programs)
      PROVE  P(kind, programs)
  BY <1>1 DEF Transaction
<1>2. CASE p \in Transaction("claim", claim_idempotency_record)
  BY <1>1, <1>2, ClaimRunFacts, ClaimConversationFacts DEF claim_idempotency_record
<1>3. CASE p \in Transaction("mark", {mark_idempotency_indeterminate_record(k, q) : k \in Keys, q \in Phases}
                  \cup {release_idempotency_record(k, q) : k \in Keys, q \in Phases}
                  \cup {complete_idempotency_record(k, q) : k \in Keys, q \in Phases})
  BY <1>1, <1>3, MarkFacts, ReleaseFacts, CompleteFacts
<1>4. CASE p \in Transaction("commit", {commit_conversation_idempotency_record(k, q)
                                          : k \in ChatKeys, q \in Phases})
  BY <1>1, <1>4, CommitFacts
<1>5. CASE p \in Transaction("prune", {prune_idempotency_records})
  BY <1>1, <1>5, PruneFacts
<1>6. CASE p \in Transaction("beat", {heartbeat_idempotency_record(k, q) : k \in Keys, q \in Phases}
                  \cup {lookup_idempotency_for_principal_record(k, q) : k \in Keys, q \in Phases})
  BY <1>1, <1>6, BeatFacts, LookupFacts
<1>7. CASE p \in Transaction("runbeat", {heartbeat_idempotent_run_record(k, q)
                                           : k \in RunKeys, q \in Phases})
  BY <1>1, <1>7, RunBeatFacts
<1>8. CASE p \in Transaction("intent", insert_run_intent)
  BY <1>1, <1>8, IntentKeyedFacts, IntentUnkeyedFacts DEF insert_run_intent
<1>9. CASE p \in Transaction("finish", finish_run)
  BY <1>1, <1>9, FinishKeyedFacts, FinishUnkeyedFacts DEF finish_run
<1>10. CASE p \in Transaction("status", {set_run_status(r) : r \in Runs})
  BY <1>1, <1>10, StatusFacts
<1>11. CASE p \in Transaction("cancel", {request_run_cancellation_maintenance(k, q)
                                            : k \in RunKeys, q \in Phases}
                                        \cup {CancelTerminal(r) : r \in Runs})
  BY <1>1, <1>11, CancelFacts, CancelTerminalFacts
<1>12. CASE p \in Transaction("register", register_human_input_record)
  BY <1>1, <1>12, RegisterAgainFacts, RegisterNewFacts DEF register_human_input_record
<1>22. CASE p \in Transaction("answer", {answer_human_input_record(k) : k \in RunKeys})
  BY <1>1, <1>22, AnswerFacts
<1>13. CASE p \in Transaction("close", {close_human_input_record(r) : r \in Runs})
  BY <1>1, <1>13, CloseFacts
<1>14. CASE p \in Transaction("ownbeat", {heartbeat_owned_runs_maintenance})
  BY <1>1, <1>14, OwnBeatFacts
<1>15. CASE p \in Transaction("reconcile", {reconcile_abandoned_runs_maintenance(R) : R \in SUBSET Runs})
  BY <1>1, <1>15, ReconcileFacts
<1>16. CASE p \in Transaction("drain", {begin_owner_drain_maintenance})
  BY <1>1, <1>16, DrainFacts
<1>17. CASE p \in Transaction("append", {append_run_event_journal(r) : r \in Runs})
  BY <1>1, <1>17, AppendFacts
<1>18. CASE p \in Transaction("read", {read_run_events_journal(r) : r \in Runs})
  BY <1>1, <1>18, ReadFacts
<1>19. CASE p \in Transaction("remove", {remove_run(r) : r \in Runs})
  BY <1>1, <1>19, RemoveFacts
<1>20. CASE p \in Transaction("retain", {prune_expired_run_events_best_effort})
  BY <1>1, <1>20, RetainFacts
<1>21. CASE p \in Transaction("save", {save_conversation_record(c) : c \in Chats}
                                      \cup {delete_conversation_record(c) : c \in Chats})
  BY <1>1, <1>21, SaveFacts, DeleteFacts
<1> QED
  BY <1>2, <1>3, <1>4, <1>5, <1>6, <1>7, <1>8, <1>9, <1>10, <1>11, <1>12, <1>13, <1>14, <1>15,
     <1>16, <1>17, <1>18, <1>19, <1>20, <1>21, <1>22 DEF Programs


-----------------------------------------------------------------------------
(***************************************************************************)
(* What a running transaction holds.                                       *)
(***************************************************************************)
Kind(t) == prog[t].kind
Stages(t) == prog[t].stages

Domains == /\ DOMAIN prog = Slots /\ DOMAIN at = Slots /\ DOMAIN held = Slots
           /\ want = [t \in Slots |-> want[t]]

\* A transaction is one of the programs, at one of its statements.
TxOK(t) ==
    /\ at[t] \in Nat /\ at[t] >= 1
    /\ Running(t) => /\ Facts(Kind(t), Stages(t)) /\ at[t] <= Len(Stages(t))
                     /\ Kind(t) \in Kinds
    /\ ~Running(t) => prog[t] = Idle /\ at[t] = 1 /\ held[t] = {} /\ want[t] = {}

\* Each lock it holds is one of a statement so far, in that statement's mode ...
Holding(t) ==
    \A h \in held[t] : \E j \in 1..at[t] :
        h[1] \in Stages(t)[j].locks /\ h = <<h[1], Stages(t)[j].mode>>

\* ... every earlier statement that had to has taken all of its locks ...
Complete(t) ==
    \A j \in 1..at[t] :
        (j < at[t] /\ Stages(t)[j].how \in {"all", "pick"}) => Stages(t)[j].locks \subseteq LocksOf(t)

\* ... and it waits for at most one lock, of its current statement.
Wanting(t) ==
    \A l \in want[t] :
        /\ want[t] = {l} /\ Running(t)
        /\ l \in Now(t).locks /\ l \notin LocksOf(t)
        /\ Now(t).how \in {"all", "some"}

\* Two transactions hold one lock only if both share it.
Exclusive(t, u) ==
    t # u => \A l, m : (<<l, "X">> \in held[t] /\ m \in {"S", "X"}) => <<l, m>> \notin held[u]

OneOwnBeat(t, u) == (Kind(t) = "ownbeat" /\ Kind(u) = "ownbeat") => t = u

LockInv ==
    /\ Domains
    /\ \A t \in Slots : TxOK(t) /\ Holding(t) /\ Complete(t) /\ Wanting(t)
    /\ \A t, u \in Slots : Exclusive(t, u) /\ OneOwnBeat(t, u)

LEMMA LockInvInit == Init => LockInv
<1> SUFFICES ASSUME Init PROVE LockInv
  OBVIOUS
<1>1. Domains
  BY DEF Init, Domains
<1>2. ASSUME NEW t \in Slots
      PROVE  /\ prog[t] = Idle /\ at[t] = 1 /\ held[t] = {} /\ want[t] = {} /\ ~Running(t)
             /\ TxOK(t) /\ Holding(t) /\ Complete(t) /\ Wanting(t)
  BY DEF Init, TxOK, Holding, Complete, Wanting, Running, Idle
<1>3. ASSUME NEW t \in Slots, NEW u \in Slots
      PROVE  Exclusive(t, u) /\ OneOwnBeat(t, u)
  BY <1>2 DEF Exclusive, OneOwnBeat, Kind, Idle
<1> QED
  BY <1>1, <1>2, <1>3 DEF LockInv

\* A transaction whose row of the state is left alone stays as it is.
LEMMA Untouched ==
  ASSUME LockInv, NEW u \in Slots,
         prog'[u] = prog[u], at'[u] = at[u], held'[u] = held[u], want'[u] = want[u]
  PROVE  (TxOK(u) /\ Holding(u) /\ Complete(u) /\ Wanting(u))'
  BY DEF LockInv, TxOK, Holding, Complete, Wanting, Running, Kind, Stages, LocksOf, Now

\* What is left to show of a step of transaction t.
LEMMA StepOf ==
  ASSUME LockInv, Domains', NEW t \in Slots,
         \A u \in Slots \ {t} : /\ prog'[u] = prog[u] /\ at'[u] = at[u]
                                /\ held'[u] = held[u] /\ want'[u] = want[u],
         (TxOK(t) /\ Holding(t) /\ Complete(t) /\ Wanting(t))',
         \A u \in Slots : (Exclusive(t, u) /\ Exclusive(u, t) /\ OneOwnBeat(t, u))'
  PROVE  LockInv'
<1>1. ASSUME NEW u \in Slots
      PROVE  (TxOK(u) /\ Holding(u) /\ Complete(u) /\ Wanting(u))'
  BY Untouched
<1>2. ASSUME NEW u \in Slots, NEW v \in Slots
      PROVE  (Exclusive(u, v) /\ OneOwnBeat(u, v))'
  <2>1. CASE u = t \/ v = t
    BY <2>1 DEF OneOwnBeat
  <2>2. CASE u # t /\ v # t
    BY <2>2 DEF LockInv, Exclusive, OneOwnBeat, Kind
  <2> QED
    BY <2>1, <2>2
<1> QED
  BY <1>1, <1>2 DEF LockInv

LEMMA BeginKeeps ==
  ASSUME ResourceAssumption, LockInv, NEW t \in Slots, NEW p \in Programs, Begin(t, p)
  PROVE  LockInv'
<1>1. Domains'
  BY DEF LockInv, Domains, Begin
<1>2. /\ prog'[t] = p /\ at'[t] = 1 /\ held'[t] = {} /\ want'[t] = {}
      /\ \A u \in Slots \ {t} : /\ prog'[u] = prog[u] /\ at'[u] = at[u]
                                /\ held'[u] = held[u] /\ want'[u] = want[u]
  BY DEF LockInv, Domains, Begin, TxOK
<1>3. Facts(p.kind, p.stages)
  BY ProgramFacts
<1>4. TxOK(t)'
  BY <1>2, <1>3 DEF TxOK, Running, Kind, Stages, Facts, Begin
<1>5. (Holding(t) /\ Complete(t) /\ Wanting(t))'
  BY <1>2 DEF Holding, Complete, Wanting
<1>6. ASSUME NEW u \in Slots
      PROVE  (Exclusive(t, u) /\ Exclusive(u, t) /\ OneOwnBeat(t, u))'
  <2>1. (Exclusive(t, u) /\ Exclusive(u, t))'
    BY <1>2 DEF Exclusive
  <2>2. OneOwnBeat(t, u)'
    BY <1>2 DEF OneOwnBeat, Kind, Begin
  <2> QED
    BY <2>1, <2>2
<1> QED
  BY <1>1, <1>2, <1>4, <1>5, <1>6, StepOf

\* A transaction that is granted a lock of its current statement that no other
\* holds in a conflicting mode.
LEMMA GrantKeeps ==
  ASSUME LockInv, NEW t \in Slots, NEW lock, Running(t),
         lock \in Now(t).locks, Blockers(t, lock, Now(t).mode) = {},
         held' = [held EXCEPT ![t] = @ \cup {<<lock, Now(t).mode>>}],
         want' = [want EXCEPT ![t] = {}], UNCHANGED <<prog, at>>
  PROVE  LockInv'
<1> DEFINE mode == Now(t).mode
<1>1. Domains'
  BY DEF LockInv, Domains
<1>2. /\ prog'[t] = prog[t] /\ at'[t] = at[t] /\ want'[t] = {}
      /\ held'[t] = held[t] \cup {<<lock, mode>>}
      /\ \A u \in Slots \ {t} : /\ prog'[u] = prog[u] /\ at'[u] = at[u]
                                /\ held'[u] = held[u] /\ want'[u] = want[u]
  BY DEF LockInv, Domains
<1>3. TxOK(t) /\ Holding(t) /\ Complete(t)
  BY DEF LockInv
<1>4. TxOK(t)'
  BY <1>2, <1>3 DEF TxOK, Running, Kind, Stages
<1>5. Holding(t)'
  <2>1. ASSUME NEW h \in held'[t]
        PROVE  \E j \in 1..at[t] : h[1] \in Stages(t)[j].locks /\ h = <<h[1], Stages(t)[j].mode>>
    <3>1. CASE h \in held[t]
      BY <1>3, <3>1 DEF Holding
    <3>2. CASE h = <<lock, mode>>
      <4>1. at[t] \in 1..at[t]
        BY <1>3 DEF TxOK
      <4> QED
        BY <3>2, <4>1 DEF Now, Stages
    <3> QED
      BY <1>2, <2>1, <3>1, <3>2
  <2> QED
    BY <1>2, <2>1 DEF Holding, Stages
<1>6. Complete(t)'
  <2>1. LocksOf(t) \subseteq LocksOf(t)'
    BY <1>2 DEF LocksOf
  <2> QED
    BY <1>2, <1>3, <2>1 DEF Complete, Stages
<1>7. Wanting(t)'
  BY <1>2 DEF Wanting
<1>8. mode \in {"S", "X"}
  BY <1>3 DEF TxOK, Facts, ModeFact, Now, Kind, Stages
<1>9. ASSUME NEW u \in Slots
      PROVE  (Exclusive(t, u) /\ Exclusive(u, t) /\ OneOwnBeat(t, u))'
  <2>1. OneOwnBeat(t, u)'
    BY <1>2 DEF LockInv, OneOwnBeat, Kind
  <2>2. CASE u = t
    BY <2>1, <2>2 DEF Exclusive
  <2>3. CASE u # t
    <3>1. /\ Exclusive(t, u) /\ Exclusive(u, t)
          /\ held'[u] = held[u]
      BY <1>2, <2>3 DEF LockInv
    <3>2. ASSUME NEW m \in {"S", "X"}, "X" \in {m, mode}
          PROVE  <<lock, m>> \notin held[u]
      BY <2>3, <3>2 DEF Blockers
    <3>3. Exclusive(t, u)'
      BY <1>2, <1>8, <3>1, <3>2 DEF Exclusive
    <3>4. Exclusive(u, t)'
      BY <1>2, <1>8, <3>1, <3>2 DEF Exclusive
    <3> QED
      BY <2>1, <3>3, <3>4
  <2> QED
    BY <2>2, <2>3
<1> QED
  BY <1>1, <1>2, <1>4, <1>5, <1>6, <1>7, <1>9, StepOf

LEMMA TakeKeeps ==
  ASSUME LockInv, NEW t \in Slots, NEW lock, Take(t, lock)
  PROVE  LockInv'
<1>1. want' = [want EXCEPT ![t] = {}]
  BY DEF Take, LockInv, Domains
<1> QED
  BY <1>1, GrantKeeps DEF Take

LEMMA WakeKeeps ==
  ASSUME LockInv, NEW t \in Slots, Wake(t)
  PROVE  LockInv'
<1>1. PICK lock \in want[t] : TRUE
  BY DEF Wake
<1>2. /\ want[t] = {lock} /\ Running(t) /\ lock \in Now(t).locks
  BY <1>1 DEF LockInv, Wanting
<1>3. Blockers(t, lock, Now(t).mode) = {}
  BY <1>2 DEF Wake, WaitsFor
<1>4. {<<l, Now(t).mode>> : l \in want[t]} = {<<lock, Now(t).mode>>}
  BY <1>2
<1>5. held' = [held EXCEPT ![t] = @ \cup {<<lock, Now(t).mode>>}]
  BY <1>4 DEF Wake
<1> QED
  BY <1>2, <1>3, <1>5, GrantKeeps DEF Wake

LEMMA BlockKeeps ==
  ASSUME LockInv, NEW t \in Slots, NEW lock, Block(t, lock)
  PROVE  LockInv'
<1>1. Domains'
  BY DEF LockInv, Domains, Block
<1>2. /\ prog'[t] = prog[t] /\ at'[t] = at[t] /\ want'[t] = {lock} /\ held'[t] = held[t]
      /\ \A u \in Slots \ {t} : /\ prog'[u] = prog[u] /\ at'[u] = at[u]
                                /\ held'[u] = held[u] /\ want'[u] = want[u]
  BY DEF LockInv, Domains, Block
<1>3. TxOK(t) /\ Holding(t) /\ Complete(t)
  BY DEF LockInv
<1>4. (TxOK(t) /\ Holding(t) /\ Complete(t))'
  BY <1>2, <1>3 DEF TxOK, Holding, Complete, Running, Kind, Stages, LocksOf, Block
<1>5. Wanting(t)'
  BY <1>2 DEF Wanting, Block, Running, Now, LocksOf
<1>6. \A u \in Slots : (Exclusive(t, u) /\ Exclusive(u, t) /\ OneOwnBeat(t, u))'
  BY <1>2 DEF LockInv, Exclusive, OneOwnBeat, Kind
<1> QED
  BY <1>1, <1>2, <1>4, <1>5, <1>6, StepOf

LEMMA AdvanceKeeps ==
  ASSUME LockInv, NEW t \in Slots, Advance(t)
  PROVE  LockInv'
<1>1. Domains'
  BY DEF LockInv, Domains, Advance
<1>2. /\ prog'[t] = prog[t] /\ at'[t] = at[t] + 1 /\ want'[t] = {} /\ held'[t] = held[t]
      /\ \A u \in Slots \ {t} : /\ prog'[u] = prog[u] /\ at'[u] = at[u]
                                /\ held'[u] = held[u] /\ want'[u] = want[u]
  BY DEF LockInv, Domains, Advance, StageDone
<1>3. TxOK(t) /\ Holding(t) /\ Complete(t) /\ Running(t)
  BY DEF LockInv, Advance, StageDone
<1>4. at[t] \in Nat /\ at[t] >= 1 /\ at[t] < Len(Stages(t)) /\ Len(Stages(t)) \in Nat
  BY <1>3 DEF TxOK, Advance, Stages, Facts
<1>5. TxOK(t)'
  BY <1>2, <1>3, <1>4 DEF TxOK, Running, Kind, Stages
<1>6. Holding(t)'
  <2>1. \A j \in 1..at[t] : j \in 1..(at[t] + 1)
    BY <1>4
  <2> QED
    BY <1>2, <1>3, <2>1 DEF Holding, Stages
<1>7. Complete(t)'
  <2> SUFFICES ASSUME NEW j \in 1..(at[t] + 1), j < at[t] + 1, Stages(t)[j].how \in {"all", "pick"}
               PROVE  Stages(t)[j].locks \subseteq LocksOf(t)
    BY <1>2 DEF Complete, Stages, LocksOf
  <2>1. CASE j < at[t]
    <3>1. j \in 1..at[t]
      BY <1>4, <2>1
    <3> QED
      BY <1>3, <2>1, <3>1 DEF Complete
  <2>2. CASE j = at[t]
    BY <2>2 DEF Advance, StageDone, Now, Stages
  <2> QED
    BY <1>4, <2>1, <2>2
<1>8. Wanting(t)'
  BY <1>2 DEF Wanting
<1>9. \A u \in Slots : (Exclusive(t, u) /\ Exclusive(u, t) /\ OneOwnBeat(t, u))'
  BY <1>2 DEF LockInv, Exclusive, OneOwnBeat, Kind
<1> QED
  BY <1>1, <1>2, <1>5, <1>6, <1>7, <1>8, <1>9, StepOf

\* The end of a transaction, which releases everything.
LEMMA EndKeeps ==
  ASSUME LockInv, NEW t \in Slots,
         prog' = [prog EXCEPT ![t] = Idle], at' = [at EXCEPT ![t] = 1],
         held' = [held EXCEPT ![t] = {}], want' = [want EXCEPT ![t] = {}]
  PROVE  LockInv'
<1>1. Domains'
  BY DEF LockInv, Domains
<1>2. /\ prog'[t] = Idle /\ at'[t] = 1 /\ want'[t] = {} /\ held'[t] = {}
      /\ \A u \in Slots \ {t} : /\ prog'[u] = prog[u] /\ at'[u] = at[u]
                                /\ held'[u] = held[u] /\ want'[u] = want[u]
  BY DEF LockInv, Domains
<1>3. (TxOK(t) /\ Holding(t) /\ Complete(t) /\ Wanting(t))'
  BY <1>2 DEF TxOK, Holding, Complete, Wanting, Running, Idle
<1>4. \A u \in Slots : (Exclusive(t, u) /\ Exclusive(u, t) /\ OneOwnBeat(t, u))'
  BY <1>2 DEF LockInv, Exclusive, OneOwnBeat, Kind, Idle
<1> QED
  BY <1>1, <1>2, <1>3, <1>4, StepOf

LEMMA EndActionsKeep ==
  ASSUME LockInv, NEW t \in Slots, Finish(t) \/ GiveUp(t)
  PROVE  LockInv'
<1>1. CASE Finish(t)
  <2>1. want[t] = {}
    BY <1>1 DEF Finish, StageDone, LockInv, Wanting
  <2>2. want' = [want EXCEPT ![t] = {}]
    BY <1>1, <2>1 DEF Finish, LockInv, Domains
  <2> QED
    BY <1>1, <2>2, EndKeeps DEF Finish
<1>2. CASE GiveUp(t)
  BY <1>2, EndKeeps DEF GiveUp
<1> QED
  BY <1>1, <1>2

LEMMA LockInvStep ==
  ASSUME ResourceAssumption, LockInv, [Next]_vars
  PROVE  LockInv'
<1>1. CASE UNCHANGED vars
  BY <1>1 DEF LockInv, Domains, TxOK, Holding, Complete, Wanting, Exclusive, OneOwnBeat, Running,
              Kind, Stages, Now, LocksOf, vars
<1>2. CASE Next
  <2>1. PICK t \in Slots : (\E p \in Programs : Begin(t, p)) \/ Step(t)
    BY <1>2 DEF Next, NextOf
  <2>2. CASE \E p \in Programs : Begin(t, p)
    BY <2>2, BeginKeeps
  <2>3. CASE Step(t)
    BY <2>3, TakeKeeps, BlockKeeps, WakeKeeps, AdvanceKeeps, EndActionsKeep DEF Step
  <2> QED
    BY <2>1, <2>2, <2>3
<1> QED
  BY <1>1, <1>2

-----------------------------------------------------------------------------
(***************************************************************************)
(* Waiting: t waits for u on the lock l.                                   *)
(***************************************************************************)
Waits(t, l, u) == l \in want[t] /\ u \in Blockers(t, l, Now(t).mode)

\* What a running transaction's text says of a lock of one of its statements so far.
LEMMA FactsOf ==
  ASSUME LockInv, NEW t \in Slots, NEW j \in 1..at[t], NEW l \in Stages(t)[j].locks, Running(t)
  PROVE  /\ ModeFact(Kind(t), l, Stages(t)[j].mode)
         /\ GuardFact(Kind(t), Stages(t), j, l)
         /\ KindFact(Kind(t), l, Stages(t)[j].how)
<1>1. TxOK(t)
  BY DEF LockInv
<1>2. j \in 1..Len(Stages(t)) /\ Facts(Kind(t), Stages(t))
  BY <1>1 DEF TxOK, Facts
<1> QED
  BY <1>2 DEF Facts

\* A lock that had to be taken before is held.
LEMMA TookHeld ==
  ASSUME LockInv, NEW t \in Slots, NEW j \in 1..at[t], NEW x, Took(Stages(t), j, x), Running(t)
  PROVE  \E m \in {"S", "X"} : <<x, m>> \in held[t] /\ ModeFact(Kind(t), x, m)
<1>1. TxOK(t) /\ Holding(t) /\ Complete(t)
  BY DEF LockInv
<1>2. at[t] \in Nat
  BY <1>1 DEF TxOK
<1>3. PICK i \in 1..at[t] : i < at[t] /\ Stages(t)[i].how = "all" /\ x \in Stages(t)[i].locks
  BY <1>2 DEF Took
<1>4. x \in LocksOf(t)
  BY <1>1, <1>3 DEF Complete
<1>5. PICK h \in held[t] : x = h[1]
  BY <1>4 DEF LocksOf
<1>6. PICK n \in 1..at[t] : h[1] \in Stages(t)[n].locks /\ h = <<h[1], Stages(t)[n].mode>>
  BY <1>1, <1>5 DEF Holding
<1>7. ModeFact(Kind(t), x, Stages(t)[n].mode)
  BY <1>5, <1>6, FactsOf
<1> QED
  BY <1>5, <1>6, <1>7 DEF ModeFact

\* Two transactions that both had to take a lock that is never shared.
LEMMA NotBoth ==
  ASSUME LockInv, NEW t \in Slots, NEW u \in Slots, t # u, Running(t), Running(u),
         NEW i \in 1..at[t], NEW j \in 1..at[u], NEW x,
         Took(Stages(t), i, x), Took(Stages(u), j, x),
         x.class \notin {"run-fence", "run", "event-state"}
  PROVE  FALSE
<1>1. PICK m \in {"S", "X"} : <<x, m>> \in held[t] /\ ModeFact(Kind(t), x, m)
  BY TookHeld
<1>2. PICK n \in {"S", "X"} : <<x, n>> \in held[u] /\ ModeFact(Kind(u), x, n)
  BY TookHeld
<1>3. m = "X" /\ n = "X"
  BY <1>1, <1>2 DEF ModeFact
<1> QED
  BY <1>1, <1>2, <1>3 DEF LockInv, Exclusive

LEMMA NotBothQuota ==
  ASSUME LockInv, NEW t \in Slots, NEW u \in Slots, t # u, Running(t), Running(u),
         NEW i \in 1..at[t], NEW j \in 1..at[u],
         Took(Stages(t), i, Quota), Took(Stages(u), j, Quota)
  PROVE  FALSE
<1>1. Quota.class = "quota"
  BY DEF Quota, Lock
<1> QED
  BY <1>1, NotBoth

LEMMA NotBothUsage ==
  ASSUME LockInv, NEW t \in Slots, NEW u \in Slots, t # u, Running(t), Running(u),
         NEW i \in 1..at[t], NEW j \in 1..at[u],
         Took(Stages(t), i, Usage), Took(Stages(u), j, Usage)
  PROVE  FALSE
<1>1. Usage.class = "event-usage"
  BY DEF Usage, Lock
<1> QED
  BY <1>1, NotBoth

LEMMA NotBothResource ==
  ASSUME LockInv, NEW t \in Slots, NEW u \in Slots, t # u, Running(t), Running(u),
         NEW i \in 1..at[t], NEW j \in 1..at[u], NEW r,
         Took(Stages(t), i, Resourced(r)), Took(Stages(u), j, Resourced(r))
  PROVE  FALSE
<1>1. Resourced(r).class = "resource"
  BY DEF Resourced, Lock
<1> QED
  BY <1>1, NotBoth

\* The fence is shared with a transaction that takes it, unless one of the two is
\* the reconciler or a drain.
LEMMA NotBothFence ==
  ASSUME LockInv, NEW t \in Slots, NEW u \in Slots, t # u, Running(t), Running(u),
         NEW i \in 1..at[t], NEW j \in 1..at[u],
         Took(Stages(t), i, Fence), Took(Stages(u), j, Fence),
         Kind(t) \in {"reconcile", "drain"}
  PROVE  FALSE
<1>1. Fence.class = "run-fence"
  BY DEF Fence, Lock
<1>2. PICK m \in {"S", "X"} : <<Fence, m>> \in held[t] /\ ModeFact(Kind(t), Fence, m)
  BY TookHeld
<1>3. PICK n \in {"S", "X"} : <<Fence, n>> \in held[u] /\ ModeFact(Kind(u), Fence, n)
  BY TookHeld
<1>4. m = "X"
  BY <1>1, <1>2 DEF ModeFact
<1> QED
  BY <1>2, <1>3, <1>4 DEF LockInv, Exclusive

\* The two ends of a wait.
LEMMA WaitEnds ==
  ASSUME LockInv, NEW t \in Slots, NEW u \in Slots, NEW l, Waits(t, l, u)
  PROVE  /\ t # u /\ Running(t) /\ Running(u)
         /\ at[t] \in 1..at[t] /\ l \in Stages(t)[at[t]].locks
         /\ Stages(t)[at[t]].how \in {"all", "some"}
         /\ \E j \in 1..at[u] : l \in Stages(u)[j].locks
         /\ l \in LocksOf(u) /\ want[t] = {l}
<1>1. /\ TxOK(t) /\ Wanting(t)
      /\ TxOK(u) /\ Holding(u)
  BY DEF LockInv
<1>2. /\ t # u /\ Running(t) /\ want[t] = {l}
      /\ at[t] \in 1..at[t] /\ l \in Stages(t)[at[t]].locks
      /\ Stages(t)[at[t]].how \in {"all", "some"}
  BY <1>1 DEF Waits, Blockers, Wanting, TxOK, Now, Stages
<1>3. PICK m \in {"S", "X"} : <<l, m>> \in held[u]
  BY DEF Waits, Blockers
<1>4. Running(u) /\ l \in LocksOf(u)
  BY <1>1, <1>3 DEF TxOK, LocksOf
<1>5. \E j \in 1..at[u] : l \in Stages(u)[j].locks
  BY <1>1, <1>3 DEF Holding
<1> QED
  BY <1>2, <1>4, <1>5

\* Nothing waits for a lock that another lock guards.
LEMMA GuardedNeverBlocks ==
  ASSUME LockInv, NEW t \in Slots, NEW u \in Slots, NEW l, Waits(t, l, u)
  PROVE  ~Guarded(l)
<1> SUFFICES ASSUME Guarded(l) PROVE FALSE
  OBVIOUS
<1>1. /\ t # u /\ Running(t) /\ Running(u)
      /\ at[t] \in 1..at[t] /\ l \in Stages(t)[at[t]].locks
  BY WaitEnds
<1>2. PICK j \in 1..at[u] : l \in Stages(u)[j].locks
  BY WaitEnds
<1>3. GuardFact(Kind(t), Stages(t), at[t], l) /\ GuardFact(Kind(u), Stages(u), j, l)
  BY <1>1, <1>2, FactsOf
<1>4. CASE l.class \in {"principal", "accounting"}
  <2>1. Took(Stages(t), at[t], Quota) /\ Took(Stages(u), j, Quota)
    BY <1>3, <1>4 DEF GuardFact
  <2> QED
    BY <1>1, <1>2, <2>1, NotBothQuota
<1>5. CASE l.class \in {"scope", "conversation"}
  <2>1. Took(Stages(t), at[t], Resourced(l.of)) /\ Took(Stages(u), j, Resourced(l.of))
    BY <1>3, <1>5 DEF GuardFact
  <2> QED
    BY <1>1, <1>2, <2>1, NotBothResource
<1> QED
  BY <1>4, <1>5 DEF Guarded

\* A run a deletion has locked is not one a reconciler has picked.
LEMMA NotPicked ==
  ASSUME LockInv, NEW t \in Slots, NEW u \in Slots, Running(t), Running(u), NEW r,
         Kind(t) = "reconcile", at[t] > 4, Stages(t)[4].how = "pick",
         Lock("run", r) \in Stages(t)[4].locks,
         Kind(u) = "remove", NEW j \in 1..at[u], Took(Stages(u), j, Lock("run", r))
  PROVE  FALSE
<1>1. PICK m \in {"S", "X"} : /\ <<Lock("run", r), m>> \in held[u]
                              /\ ModeFact(Kind(u), Lock("run", r), m)
  BY TookHeld
<1>2. m = "X"
  BY <1>1 DEF ModeFact, Lock
<1>3. 4 \in 1..at[t] /\ Complete(t) /\ Holding(t)
  BY DEF LockInv, TxOK
<1>4. Lock("run", r) \in LocksOf(t)
  BY <1>3 DEF Complete
<1>5. PICK h \in held[t] : h[1] = Lock("run", r)
  BY <1>4 DEF LocksOf
<1>6. PICK n \in 1..at[t] : h[1] \in Stages(t)[n].locks /\ h = <<h[1], Stages(t)[n].mode>>
  BY <1>3, <1>5 DEF Holding
<1>7. Stages(t)[n].mode \in {"S", "X"}
  BY <1>6, FactsOf DEF ModeFact
<1> QED
  BY <1>1, <1>2, <1>5, <1>6, <1>7 DEF LockInv, Exclusive

\* Nor is it one a reader of its journal has locked.
LEMMA NotRead ==
  ASSUME LockInv, NEW t \in Slots, NEW u \in Slots, t # u, Running(t), Running(u), NEW r,
         NEW i \in 1..at[t], NEW j \in 1..at[u], Kind(u) = "remove",
         Took(Stages(t), i, Lock("run", r)), Took(Stages(u), j, Lock("run", r))
  PROVE  FALSE
<1>1. PICK m \in {"S", "X"} : /\ <<Lock("run", r), m>> \in held[u]
                              /\ ModeFact(Kind(u), Lock("run", r), m)
  BY TookHeld
<1>2. m = "X"
  BY <1>1 DEF ModeFact, Lock
<1>3. PICK n \in {"S", "X"} : <<Lock("run", r), n>> \in held[t]
  BY TookHeld
<1> QED
  BY <1>1, <1>2, <1>3 DEF LockInv, Exclusive

LEMMA RankBounded == ASSUME NEW kind, NEW l PROVE Rank(kind, l) \in 0..13
  BY DEF Rank

\* The wait the property names.
Journal(t, l, u) == Kind(t) = "reconcile" /\ Kind(u) = "append" /\ l.class = "event-state"

\* What u, which holds the lock t waits for, waits for itself.
LEMMA AfterOf ==
  ASSUME LockInv, NEW t \in Slots, NEW u \in Slots, NEW v \in Slots, NEW l, NEW w,
         Waits(t, l, u), Waits(u, w, v)
  PROVE  \E j \in 1..at[u] : l \in Stages(u)[j].locks /\ AfterFact(Kind(u), Stages(u), j, l, w)
<1>1. PICK j \in 1..at[u] : l \in Stages(u)[j].locks
  BY WaitEnds
<1>2. ~Guarded(w) /\ Running(u)
  BY GuardedNeverBlocks, WaitEnds
<1>3. /\ at[u] \in 1..at[u] /\ w \in Stages(u)[at[u]].locks
      /\ Stages(u)[at[u]].how \in {"all", "some"} /\ want[u] = {w}
      /\ l \in LocksOf(u)
  BY WaitEnds
<1>4. w # l /\ TxOK(u)
  BY <1>3 DEF LockInv, Wanting
<1>5. at[u] \in 1..Len(Stages(u)) /\ j \in 1..at[u] /\ Facts(Kind(u), Stages(u))
  BY <1>1, <1>2, <1>4 DEF TxOK, Facts
<1> QED
  BY <1>1, <1>2, <1>3, <1>4, <1>5 DEF Facts

\* A deletion that waits for a question waits for the answer to it, which holds the
\* run's resource lock.
LEMMA RemovalWaitsForAnswer ==
  ASSUME LockInv, NEW u \in Slots, NEW v \in Slots, NEW x \in Slots, NEW w, NEW y,
         Waits(u, w, v), Waits(v, y, x), Kind(u) = "remove", w.class = "human"
  PROVE  /\ Kind(v) = "answer" /\ w.of \notin Unkeyed
         /\ \E j \in 1..at[v] : Took(Stages(v), j, Resourced(w.of))
<1>1. PICK j \in 1..at[v] : AfterFact(Kind(v), Stages(v), j, w, y)
  BY AfterOf
<1>2. CASE Kind(v) = "reconcile"
  <2>1. /\ at[u] \in 1..at[u] /\ w \in Stages(u)[at[u]].locks /\ Running(u) /\ Running(v)
    BY WaitEnds
  <2>2. Took(Stages(u), at[u], Lock("run", w.of))
    BY <2>1, FactsOf DEF GuardFact
  <2>3. j > 4 /\ Stages(v)[4].how = "pick" /\ Lock("run", w.of) \in Stages(v)[4].locks
    BY <1>1, <1>2 DEF AfterFact
  <2>4. at[v] > 4
    BY <1>1, <2>1, <2>3 DEF LockInv, TxOK
  <2> QED
    BY <1>2, <2>1, <2>2, <2>3, <2>4, NotPicked
<1> QED
  BY <1>1, <1>2 DEF AfterFact

\* Along a chain of three waits the rank grows.
LEMMA RankGrows ==
  ASSUME LockInv, NEW t \in Slots, NEW u \in Slots, NEW v \in Slots, NEW x \in Slots,
         NEW l, NEW w, NEW y, Waits(t, l, u), Waits(u, w, v), Waits(v, y, x),
         Kind(t) # "retain", Kind(u) # "retain", ~Journal(t, l, u)
  PROVE  Rank(Kind(t), l) < Rank(Kind(u), w)
<1> DEFINE R(slot, lk) == Rank(Kind(slot), lk)
<1>1. /\ t # u /\ Running(t) /\ Running(u)
      /\ at[t] \in 1..at[t] /\ l \in Stages(t)[at[t]].locks
      /\ Stages(t)[at[t]].how \in {"all", "some"}
  BY WaitEnds
<1>2. PICK j \in 1..at[u] : l \in Stages(u)[j].locks /\ AfterFact(Kind(u), Stages(u), j, l, w)
  BY AfterOf
<1>3. GuardFact(Kind(t), Stages(t), at[t], l) /\ GuardFact(Kind(u), Stages(u), j, l)
  BY <1>1, <1>2, FactsOf
<1>4. /\ ModeFact(Kind(t), l, Stages(t)[at[t]].mode)
      /\ KindFact(Kind(t), l, Stages(t)[at[t]].how)
  BY <1>1, FactsOf
<1>5. ~Guarded(l) /\ ~Guarded(w)
  BY GuardedNeverBlocks
<1>6. AfterFact(Kind(u), Stages(u), j, l, w)
  BY <1>2
<1>7. l.class \in Classes
  BY <1>4 DEF ModeFact
<1>8. CASE l.class \in {"quota", "event-usage"} /\ Kind(t) # "reconcile"
  BY <1>6, <1>8 DEF AfterFact, Rank, LedgerRow, Phases
<1>9. CASE l.class = "quota" /\ Kind(t) = "reconcile"
  BY <1>6, <1>9 DEF AfterFact, Rank, LedgerRow, Phases
<1>10. CASE l.class = "run-fence"
  BY <1>6, <1>10 DEF AfterFact, Rank, LedgerRow, Phases
<1>11. CASE l.class = "resource" /\ Kind(t) # "reconcile"
  BY <1>6, <1>11 DEF AfterFact, Rank, LedgerRow, Phases
<1>12. CASE l.class = "key" /\ Kind(t) # "reconcile"
  BY <1>6, <1>12 DEF AfterFact, Rank, LedgerRow, Phases
<1>13. CASE LedgerRow(l) /\ Kind(t) # "reconcile"
  <2>1. \/ R(u, w) > 7
        \/ Kind(u) \in {"claim", "prune", "drain"} /\ R(u, w) = 7
    BY <1>6, <1>13 DEF AfterFact
  <2>2. R(t, l) = IF Kind(t) \in {"claim", "prune", "drain"} THEN 7 ELSE 6
    BY <1>13 DEF Rank, LedgerRow, Phases
  <2>3. CASE R(u, w) > 7
    BY <2>2, <2>3, RankBounded
  <2>4. CASE R(u, w) = 7 /\ Kind(t) \notin {"claim", "prune", "drain"}
    BY <2>2, <2>4
  <2>5. CASE Kind(t) \in {"claim", "prune"} /\ Kind(u) \in {"claim", "prune"}
    <3>1. Took(Stages(t), at[t], Quota) /\ Took(Stages(u), j, Quota)
      BY <1>3, <1>13, <2>5 DEF GuardFact
    <3> QED
      BY <1>1, <1>2, <3>1, NotBothQuota
  <2>6. CASE Kind(t) = "drain" /\ Kind(u) \in {"claim", "prune", "drain"}
    <3>1. Took(Stages(t), at[t], Fence) /\ l.class = "live" /\ l.of \in RunKeys
      BY <1>3, <1>13, <2>6 DEF GuardFact
    <3>2. Took(Stages(u), j, Fence)
      BY <1>3, <1>13, <2>6, <3>1 DEF GuardFact
    <3> QED
      BY <1>1, <1>2, <2>6, <3>1, <3>2, NotBothFence
  <2>7. CASE Kind(u) = "drain" /\ Kind(t) \in {"claim", "prune", "drain"}
    <3>1. Took(Stages(u), j, Fence) /\ l.class = "live" /\ l.of \in RunKeys
      BY <1>3, <1>13, <2>7 DEF GuardFact
    <3>2. Took(Stages(t), at[t], Fence)
      BY <1>3, <1>13, <2>7, <3>1 DEF GuardFact
    <3> QED
      BY <1>1, <1>2, <2>7, <3>1, <3>2, NotBothFence
  <2> QED
    BY <2>1, <2>3, <2>4, <2>5, <2>6, <2>7
<1>14. CASE l.class = "run" /\ Kind(t) # "reconcile"
  <2>1. \/ R(u, w) > 9
        \/ Kind(u) = "ownbeat" /\ R(u, w) = 9
        \/ Kind(u) = "remove" /\ w.class = "human" /\ w.of = l.of
        \/ /\ Kind(u) \in {"intent", "finish", "cancel"} /\ R(u, w) > 3
           /\ Took(Stages(u), j, Resourced(l.of)) /\ l.of \notin Unkeyed
    BY <1>6, <1>14 DEF AfterFact
  <2>2. R(t, l) = IF Kind(t) \in {"status", "append", "read", "remove"} THEN 3
                  ELSE IF Kind(t) = "ownbeat" THEN 9 ELSE 8
    BY <1>14 DEF Rank, LedgerRow, Phases
  <2>3. CASE R(u, w) > 9
    BY <2>2, <2>3, RankBounded
  <2>4. CASE Kind(u) = "ownbeat" /\ R(u, w) = 9
    <3>1. Kind(t) # "ownbeat"
      BY <1>1, <2>4 DEF LockInv, OneOwnBeat
    <3> QED
      BY <2>2, <2>4, <3>1
  <2>5. CASE /\ Kind(u) \in {"intent", "finish", "cancel"} /\ R(u, w) > 3
             /\ Took(Stages(u), j, Resourced(l.of)) /\ l.of \notin Unkeyed
    <3>1. CASE Kind(t) \in {"status", "append", "read", "remove"}
      BY <2>2, <2>5, <3>1
    <3>2. CASE Kind(t) = "ownbeat"
      BY <1>3, <1>14, <2>5, <3>2 DEF GuardFact
    <3>3. CASE Kind(t) \in {"runbeat", "intent", "finish", "cancel", "register"}
      <4>1. Took(Stages(t), at[t], Resourced(l.of))
        BY <1>3, <1>14, <3>3 DEF GuardFact
      <4> QED
        BY <1>1, <1>2, <2>5, <4>1, NotBothResource
    <3> QED
      BY <1>4, <1>14, <3>1, <3>2, <3>3 DEF KindFact
  <2>6. CASE Kind(u) = "remove" /\ w.class = "human" /\ w.of = l.of
    <3>1. R(u, w) = 4
      BY <2>6 DEF Rank, LedgerRow, Phases
    <3>2. Kind(v) = "answer" /\ l.of \notin Unkeyed
      BY <2>6, RemovalWaitsForAnswer
    <3>3. CASE Kind(t) \in {"status", "append", "read", "remove"}
      BY <2>2, <3>1, <3>3
    <3>4. CASE Kind(t) = "ownbeat"
      BY <1>3, <1>14, <3>2, <3>4 DEF GuardFact
    <3>5. CASE Kind(t) \in {"runbeat", "intent", "finish", "cancel", "register"}
      <4>1. Took(Stages(t), at[t], Resourced(l.of))
        BY <1>3, <1>14, <3>5 DEF GuardFact
      <4>2. PICK n \in 1..at[v] : Took(Stages(v), n, Resourced(l.of))
        BY <2>6, RemovalWaitsForAnswer
      <4>3. t # v /\ Running(v)
        BY <3>2, <3>5, WaitEnds
      <4> QED
        BY <1>1, <4>1, <4>2, <4>3, NotBothResource
    <3> QED
      BY <1>4, <1>14, <3>3, <3>4, <3>5 DEF KindFact
  <2> QED
    BY <2>1, <2>3, <2>4, <2>5, <2>6
<1>15. CASE l.class = "event-state" /\ Kind(t) # "reconcile"
  <2>1. \/ Kind(u) = "reconcile" /\ R(u, w) = 13
        \/ Kind(u) = "append" /\ R(u, w) = 11 /\ Took(Stages(u), j, Usage)
        \/ Kind(u) = "remove"
    BY <1>6, <1>15 DEF AfterFact
  <2>2. R(t, l) = IF Kind(t) = "read" THEN 10 ELSE 11
    BY <1>15 DEF Rank, LedgerRow, Phases
  <2>3. CASE R(u, w) = 13
    BY <2>2, <2>3
  <2>4. CASE R(u, w) = 11 /\ Took(Stages(u), j, Usage)
    <3>1. CASE Kind(t) = "read"
      BY <2>2, <2>4, <3>1
    <3>2. CASE Kind(t) \in {"append", "remove"}
      <4>1. Took(Stages(t), at[t], Usage)
        BY <1>3, <1>15, <3>2 DEF GuardFact
      <4> QED
        BY <1>1, <1>2, <2>4, <4>1, NotBothUsage
    <3> QED
      BY <1>4, <1>15, <3>1, <3>2 DEF KindFact
  <2>5. CASE Kind(u) = "remove"
    <3>1. Took(Stages(u), j, Usage) /\ Took(Stages(u), j, Lock("run", l.of))
      BY <1>3, <1>15, <2>5 DEF GuardFact
    <3>2. CASE Kind(t) = "read"
      <4>1. Took(Stages(t), at[t], Lock("run", l.of))
        BY <1>3, <1>15, <3>2 DEF GuardFact
      <4> QED
        BY <1>1, <1>2, <2>5, <3>1, <4>1, NotRead
    <3>3. CASE Kind(t) \in {"append", "remove"}
      <4>1. Took(Stages(t), at[t], Usage)
        BY <1>3, <1>15, <3>3 DEF GuardFact
      <4> QED
        BY <1>1, <1>2, <3>1, <4>1, NotBothUsage
    <3> QED
      BY <1>4, <1>15, <3>2, <3>3 DEF KindFact
  <2> QED
    BY <2>1, <2>3, <2>4, <2>5
<1>16. CASE l.class = "human" /\ Kind(t) # "reconcile"
  <2>1. R(t, l) = IF Kind(t) = "remove" THEN 4 ELSE 12
    BY <1>16 DEF Rank, LedgerRow, Phases
  <2>2. CASE Kind(u) = "reconcile"
    <3>1. R(u, w) = 13
      BY <1>6, <1>16, <2>2 DEF AfterFact
    <3> QED
      BY <2>1, <3>1
  <2>3. CASE Kind(u) = "answer" /\ Kind(t) = "remove"
    <3>1. R(u, w) > 4
      BY <1>6, <1>16, <2>3 DEF AfterFact
    <3> QED
      BY <2>1, <2>3, <3>1
  <2>4. CASE Kind(u) = "answer" /\ Kind(t) # "remove"
    <3>1. Took(Stages(u), j, Resourced(l.of))
      BY <1>6, <1>16, <2>4 DEF AfterFact
    <3>2. Took(Stages(t), at[t], Resourced(l.of))
      BY <1>3, <1>16, <2>4 DEF GuardFact
    <3> QED
      BY <1>1, <1>2, <3>1, <3>2, NotBothResource
  <2> QED
    BY <1>6, <1>16, <2>2, <2>3, <2>4 DEF AfterFact
<1>17. CASE Kind(t) = "reconcile" /\ l.class \notin {"quota", "run-fence"}
  <2>1. Took(Stages(t), at[t], Quota) /\ Took(Stages(t), at[t], Fence)
    BY <1>3, <1>17 DEF GuardFact
  <2>2. l.class \in {"live", "ended", "human", "event-state"}
    BY <1>1, <1>4, <1>5, <1>17 DEF KindFact, Guarded
  <2>3. CASE LedgerRow(l)
    <3>1. Took(Stages(u), j, Quota) \/ Took(Stages(u), j, Fence)
      BY <1>6, <2>3 DEF AfterFact
    <3> QED
      BY <1>1, <1>2, <1>17, <2>1, <3>1, NotBothQuota, NotBothFence
  <2>4. CASE Kind(u) = "reconcile"
    <3>1. Took(Stages(u), j, Quota)
      BY <1>3, <1>17, <2>4 DEF GuardFact
    <3> QED
      BY <1>1, <1>2, <2>1, <3>1, NotBothQuota
  <2>5. CASE l.class = "human" /\ Kind(u) # "reconcile"
    <3>1. Took(Stages(u), j, Fence)
      BY <1>6, <2>5 DEF AfterFact
    <3> QED
      BY <1>1, <1>2, <1>17, <2>1, <3>1, NotBothFence
  <2>6. CASE l.class = "event-state" /\ Kind(u) # "reconcile"
    <3>1. Kind(u) = "remove"
      BY <1>6, <1>17, <2>6 DEF AfterFact, Journal
    <3>2. Took(Stages(u), j, Lock("run", l.of))
      BY <1>3, <2>6, <3>1 DEF GuardFact
    <3>3. at[t] > 4 /\ Stages(t)[4].how = "pick" /\ Lock("run", l.of) \in Stages(t)[4].locks
      BY <1>3, <1>17, <2>6 DEF GuardFact
    <3> QED
      BY <1>1, <1>2, <1>17, <3>1, <3>2, <3>3, NotPicked
  <2> QED
    BY <2>2, <2>3, <2>4, <2>5, <2>6 DEF LedgerRow, Phases
<1> QED
  BY <1>1, <1>4, <1>5, <1>7, <1>8, <1>9, <1>10, <1>11, <1>12, <1>13, <1>14, <1>15, <1>16, <1>17
     DEF Classes, Guarded, KindFact, LedgerRow, Phases

-----------------------------------------------------------------------------
(***************************************************************************)
(* The theorems.                                                           *)
(***************************************************************************)

\* In a set of transactions that waits on itself some reconciler waits for an append
\* on a journal state: otherwise its ranks would grow without end.
LEMMA CycleHasJournal ==
  ASSUME LockInv, NEW D \in SUBSET Slots, Cycle(D)
  PROVE  \E t, u \in D : \E l : Waits(t, l, u) /\ Journal(t, l, u)
<1> SUFFICES ASSUME \A t, u \in D : \A l : Waits(t, l, u) => ~Journal(t, l, u) PROVE FALSE
  OBVIOUS
<1> DEFINE r(t) == Rank(Kind(t), CHOOSE l : l \in want[t])
           P(n) == \E t \in D : r(t) >= n
<1>1. ASSUME NEW t \in D
      PROVE  Kind(t) # "retain" /\ \E u \in D : \E l : Waits(t, l, u)
  BY DEF Cycle, WaitsFor, Waits, Kind
<1>2. ASSUME NEW t \in D, NEW u \in D, NEW l, Waits(t, l, u)
      PROVE  r(t) = Rank(Kind(t), l)
  <2>1. want[t] = {l}
    BY <1>2, WaitEnds
  <2> QED
    BY <2>1
<1>3. ASSUME NEW t \in D
      PROVE  \E u \in D : r(t) < r(u)
  <2>1. PICK u \in D : \E l : Waits(t, l, u)
    BY <1>1
  <2>2. PICK v \in D : \E w : Waits(u, w, v)
    BY <1>1
  <2>3. PICK x \in D : \E y : Waits(v, y, x)
    BY <1>1
  <2>4. PICK l : Waits(t, l, u)
    BY <2>1
  <2>5. PICK w : Waits(u, w, v)
    BY <2>2
  <2>6. PICK y : Waits(v, y, x)
    BY <2>3
  <2>7. Rank(Kind(t), l) < Rank(Kind(u), w)
    BY <1>1, <2>4, <2>5, <2>6, RankGrows
  <2> QED
    BY <1>2, <2>4, <2>5, <2>7
<1>4. \A t \in D : r(t) \in 0..13
  BY RankBounded
<1> HIDE DEF r
<1>5. P(0)
  BY <1>4 DEF Cycle
<1>6. ASSUME NEW n \in Nat, P(n) PROVE P(n + 1)
  <2>1. PICK t \in D : r(t) >= n
    BY <1>6
  <2>2. PICK u \in D : r(t) < r(u)
    BY <1>3
  <2>3. r(u) >= n + 1
    BY <1>4, <2>1, <2>2
  <2> QED
    BY <2>3
<1> HIDE DEF P
<1>7. \A n \in Nat : P(n) => P(n + 2)
  <2>1. ASSUME NEW n \in Nat, P(n) PROVE P(n + 2)
    <3>1. P(n + 1) /\ n + 1 \in Nat /\ (n + 1) + 1 = n + 2
      BY <1>6, <2>1
    <3>2. P((n + 1) + 1)
      BY <1>6, <3>1
    <3> QED
      BY <3>1, <3>2
  <2> QED
    BY <2>1
<1>8. P(2) /\ P(4) /\ P(6) /\ P(8) /\ P(10) /\ P(12) /\ P(14)
  <2>1. P(0 + 2)
    BY <1>5, <1>7
  <2>2. P(2 + 2)
    BY <1>7, <2>1
  <2>3. P(4 + 2)
    BY <1>7, <2>2
  <2>4. P(6 + 2)
    BY <1>7, <2>3
  <2>5. P(8 + 2)
    BY <1>7, <2>4
  <2>6. P(10 + 2)
    BY <1>7, <2>5
  <2>7. P(12 + 2)
    BY <1>7, <2>6
  <2> QED
    BY <2>1, <2>2, <2>3, <2>4, <2>5, <2>6, <2>7
<1> QED
  BY <1>4, <1>8 DEF P

LEMMA OnlyTheJournalFromInv == LockInv => OnlyTheJournal
<1> SUFFICES ASSUME LockInv, NEW D \in SUBSET Slots, Cycle(D)
             PROVE  \E t, u \in D :
                        /\ prog[t].kind = "reconcile" /\ prog[u].kind = "append"
                        /\ \A l \in want[t] : l.class = "event-state"
                        /\ u \in WaitsFor(t)
  BY DEF OnlyTheJournal
<1>1. PICK t \in D, u \in D : \E l : Waits(t, l, u) /\ Journal(t, l, u)
  BY CycleHasJournal
<1>2. PICK l : Waits(t, l, u) /\ Journal(t, l, u)
  BY <1>1
<1>3. want[t] = {l}
  BY <1>2, WaitEnds
<1> QED
  BY <1>2, <1>3 DEF Waits, Journal, WaitsFor, Kind

LEMMA QuotaGuardsFromInv == LockInv => QuotaGuardsAccounting
<1> SUFFICES ASSUME LockInv, NEW t \in Slots, NEW l \in LocksOf(t), l.class = "accounting"
             PROVE  <<Quota, "X">> \in held[t]
  BY DEF QuotaGuardsAccounting
<1>1. TxOK(t) /\ Holding(t)
  BY DEF LockInv
<1>2. PICK h \in held[t] : h[1] = l
  BY DEF LocksOf
<1>3. Running(t)
  BY <1>1, <1>2 DEF TxOK
<1>4. PICK j \in 1..at[t] : l \in Stages(t)[j].locks
  BY <1>1, <1>2 DEF Holding
<1>5. Took(Stages(t), j, Quota)
  BY <1>3, <1>4, FactsOf DEF GuardFact
<1>6. PICK m \in {"S", "X"} : <<Quota, m>> \in held[t] /\ ModeFact(Kind(t), Quota, m)
  BY <1>3, <1>4, <1>5, TookHeld
<1> QED
  BY <1>6 DEF ModeFact, Quota, Lock

LEMMA TypesFromInv == LockInv => TypeOK
<1> SUFFICES ASSUME LockInv PROVE TypeOK
  OBVIOUS
<1>1. ASSUME NEW t \in Slots PROVE at[t] \in 1..(Len(prog[t].stages) + 1)
  <2>1. TxOK(t)
    BY DEF LockInv
  <2>2. CASE Running(t)
    BY <2>1, <2>2 DEF TxOK, Facts, Stages
  <2>3. CASE ~Running(t)
    BY <2>1, <2>3 DEF TxOK, Idle
  <2> QED
    BY <2>2, <2>3
<1>2. ASSUME NEW t \in Slots, NEW h \in held[t]
      PROVE  h = <<h[1], h[2]>> /\ h[2] \in {"S", "X"}
  <2>1. PICK j \in 1..at[t] : h[1] \in Stages(t)[j].locks /\ h = <<h[1], Stages(t)[j].mode>>
    BY DEF LockInv, Holding
  <2>2. Running(t)
    BY <1>2 DEF LockInv, TxOK
  <2>3. Stages(t)[j].mode \in {"S", "X"}
    BY <2>1, <2>2, FactsOf DEF ModeFact
  <2> QED
    BY <2>1, <2>3
<1>3. ASSUME NEW t \in Slots, NEW u \in Slots, NEW h \in held[t], NEW g \in held[u], t # u,
             h[1] = g[1]
      PROVE  h[2] = "S" /\ g[2] = "S"
  BY <1>2, <1>3 DEF LockInv, Exclusive
<1> QED
  BY <1>1, <1>2, <1>3 DEF TypeOK

\* Whatever transactions of the store run together, a set of them that waits on itself
\* contains a reconciler waiting for an append on a journal state, and the ledger's
\* counters are only locked under the quota lock.
THEOREM LockOrderHolds == ASSUME ResourceAssumption PROVE Spec => []LockOrderSound
<1>1. Init => LockInv
  BY LockInvInit
<1>2. LockInv /\ [Next]_vars => LockInv'
  BY LockInvStep
<1>3. LockInv => LockOrderSound
  BY TypesFromInv, OnlyTheJournalFromInv, QuotaGuardsFromInv DEF LockOrderSound
<1> QED
  BY <1>1, <1>2, <1>3, PTL DEF Spec

\* Where no append runs beside a reconciler, the store's transactions never wait in
\* a circle.
THEOREM NoCycleWithoutTheJournal ==
  ASSUME ResourceAssumption, "append" \notin Kinds \/ "reconcile" \notin Kinds
  PROVE  Spec => []NoWaitCycle
<1>1. Init => LockInv
  BY LockInvInit
<1>2. LockInv /\ [Next]_vars => LockInv'
  BY LockInvStep
<1>3. LockInv => NoWaitCycle
  <2> SUFFICES ASSUME LockInv, NEW D \in SUBSET Slots, Cycle(D) PROVE FALSE
    BY DEF NoWaitCycle
  <2>1. PICK t \in D, u \in D : \E l : Waits(t, l, u) /\ Journal(t, l, u)
    BY CycleHasJournal
  <2>2. Running(t) /\ Running(u)
    BY <2>1, WaitEnds
  <2>3. Kind(t) \in Kinds /\ Kind(u) \in Kinds
    BY <2>2 DEF LockInv, TxOK
  <2> QED
    BY <2>1, <2>3 DEF Journal
<1> QED
  BY <1>1, <1>2, <1>3, PTL DEF Spec
=============================================================================
