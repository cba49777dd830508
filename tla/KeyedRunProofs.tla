--------------------------- MODULE KeyedRunProofs ---------------------------
(***************************************************************************)
(* KeyedRun for every set of replicas, keys and attempts and every lease,  *)
(* retention and clock bound. First its types, with the lemmas on its      *)
(* operators. Then OwnershipInv is an invariant: it gives the at-most-once *)
(* execution of a key, the convergence of replies and the durability of    *)
(* acknowledged runs. Then FenceInv: the deadline a replica counts for     *)
(* itself never outlives the leases PostgreSQL holds for its attempt, so a *)
(* live local fence keeps peers out. Last DrainInv: a replica that reports *)
(* draining has marked the rows of all its registered runs, so that no     *)
(* peer and no late intent can act on them any more.                       *)
(***************************************************************************)
EXTENDS KeyedRun, TLAPS

\* A step that neither adds, removes nor hands over a row.
KeepsOwners ==
    \A k \in Key : /\ ledger'[k].att = ledger[k].att
                   /\ ledger'[k].st = "absent" <=> ledger[k].st = "absent"

\* The part of TypeOK about the tasks of the attempts.
TasksTyped ==
    /\ pc \in [Attempt -> PC]
    /\ mem \in [Attempt -> TaskMemory]
    /\ \A a \in Attempt : pc[a] \in {"ended", "stopped", "fallback", "recorded"} =>
                            mem[a].status # "none"

\* A request names a key and a replica.
LEMMA ReqType ==
  ASSUME NEW a \in Attempt
  PROVE  KeyOf(a) \in Key /\ InstOf(a) \in Instance
BY KeyedRunAssumption DEF KeyedRunAssumption, KeyOf, InstOf

\* A step that keeps the owners of rows keeps them named.
LEMMA OwnersKept ==
  ASSUME RowsNamed, KeepsOwners
  PROVE  RowsNamed'
BY DEF RowsNamed, KeepsOwners, KeyOf

\* The instants that leases and retentions are set to are naturals.
LEMMA Clocks ==
  ASSUME TypeOK
  PROVE  /\ now \in Nat /\ now + 1 \in Nat
         /\ LeaseTTL \in Nat /\ Retention \in Nat
         /\ now + LeaseTTL \in Nat /\ now + Retention \in Nat
         /\ \A a \in Attempt : mem[a].sent + LeaseTTL \in Nat
BY KeyedRunAssumption DEF KeyedRunAssumption, TypeOK, TaskMemory

----------------------------------------------------------------------------
\* Type correctness.

\* The memory of an attempt without tasks is well typed.
LEMMA NoMemType == NoMem \in TaskMemory /\ NoMem.status = "none"
BY DEF NoMem, TaskMemory, Outcome

\* The initial states are well typed.
LEMMA InitType == Init => TypeInv
<1> SUFFICES ASSUME Init PROVE TypeInv
  OBVIOUS
<1>1. TypeOK
  BY DEF Init, TypeOK, NoRow, NoRun, NoMem, LedgerRow, RunRecord, TaskMemory,
     Phase, LedgerState, RunState, Outcome, PC
<1>2. RowsNamed
  BY DEF Init, RowsNamed, NoRow
<1>3. QED
  BY <1>1, <1>2 DEF TypeInv

\* The rows the statements write are rows, and keep their owners.
LEMMA IndeterminateRow ==
  ASSUME TypeOK, NEW row \in LedgerRow
  PROVE  Indeterminate(row) \in LedgerRow /\ Indeterminate(row).att = row.att
BY Clocks DEF Indeterminate, LedgerRow, LedgerState

\* A settled row is well typed and keeps its owner.
LEMMA SettledRow ==
  ASSUME TypeOK, NEW row \in LedgerRow
  PROVE  /\ SettleRow(row) \in LedgerRow /\ SettleRow(row).att = row.att
         /\ SettleRow(row).st = IF row.st = "absent" THEN "absent" ELSE "completed"
<1>1. SettleRow(row) \in LedgerRow /\ SettleRow(row).att = row.att
  BY Clocks DEF SettleRow, LedgerRow, LedgerState
<1>2. SettleRow(row).st = IF row.st = "absent" THEN "absent" ELSE "completed"
  BY DEF SettleRow, InFlight, LedgerRow, LedgerState
<1>3. QED
  BY <1>1, <1>2

\* Settling rows keeps the ledger typed and named.
LEMMA SettledLedger ==
  ASSUME TypeInv, NEW S, ledger' = SettleRows(S)
  PROVE  ledger' \in [Key -> LedgerRow] /\ RowsNamed'
<1>1. \A k \in Key : ledger[k] \in LedgerRow
  BY DEF TypeInv, TypeOK
<1>2. \A k \in Key : ledger'[k] = IF ledger[k].att \in S THEN SettleRow(ledger[k]) ELSE ledger[k]
  BY DEF SettleRows
<1>3. \A k \in Key : /\ ledger'[k] \in LedgerRow /\ ledger'[k].att = ledger[k].att
                     /\ ledger'[k].st = "absent" <=> ledger[k].st = "absent"
  BY <1>1, <1>2, SettledRow DEF TypeInv
<1>4. ledger' \in [Key -> LedgerRow]
  BY <1>3 DEF SettleRows
<1>5. RowsNamed'
  BY <1>3 DEF TypeInv, RowsNamed, KeyOf
<1>6. QED
  BY <1>4, <1>5

\* What the retention sweep leaves in the ledger.
LEMMA Pruned ==
  ASSUME TypeInv
  PROVE  /\ PrunedLedger \in [Key -> LedgerRow]
         /\ PrunedAttempts \subseteq Attempt
         /\ \A k \in Key : IF Expired(ledger[k])
                           THEN PrunedLedger[k] = NoRow /\ ledger[k].att \in PrunedAttempts
                           ELSE PrunedLedger[k] = ledger[k]
<1>1. PrunedLedger \in [Key -> LedgerRow]
  BY DEF TypeInv, TypeOK, PrunedLedger, NoRow, LedgerRow, LedgerState
<1>2. PrunedAttempts \subseteq Attempt
  BY DEF TypeInv, RowsNamed, PrunedAttempts, Expired, Settled
<1>3. \A k \in Key : IF Expired(ledger[k])
                     THEN PrunedLedger[k] = NoRow /\ ledger[k].att \in PrunedAttempts
                     ELSE PrunedLedger[k] = ledger[k]
  BY DEF PrunedLedger, PrunedAttempts, Expired
<1>4. QED
  BY <1>1, <1>2, <1>3

\* An intent, saved or refused, keeps the store typed and named.
LEMMA SavedIntent ==
  ASSUME TypeInv, NEW a \in Attempt, SaveIntent(a)
  PROVE  /\ ledger' \in [Key -> LedgerRow] /\ RowsNamed'
         /\ runs' \in [Attempt -> RunRecord]
<1>1. CASE IntentVerdict(a) # "saved"
  BY <1>1 DEF SaveIntent, store, TypeInv, TypeOK, RowsNamed
<1>2. CASE IntentVerdict(a) = "saved"
  <2>1. runs' \in [Attempt -> RunRecord]
    BY <1>2, Clocks DEF SaveIntent, TypeInv, TypeOK, RunRecord, RunState, Terminal
  <2>2. ledger' \in [Key -> LedgerRow]
    BY SMTT(30), <1>2, Clocks, ReqType DEF SaveIntent, TypeInv, TypeOK, LedgerRow, LedgerState
  <2>3. RowsNamed'
    <3>1. KeepsOwners
      <4>1. CASE Maps(a)
        BY SMTT(30), <1>2, <4>1, ReqType DEF SaveIntent, TypeInv, TypeOK, LedgerRow, KeepsOwners, Maps, Linked, Row
      <4>2. CASE ~Maps(a)
        BY <1>2, <4>2 DEF SaveIntent, KeepsOwners
      <4>3. QED
        BY <4>1, <4>2
    <3>2. QED
      BY <3>1, OwnersKept DEF TypeInv
  <2>4. QED
    BY <2>1, <2>2, <2>3
<1>3. QED
  BY <1>1, <1>2

\* Every step of an attempt keeps the types.
LEMMA RequestType == ASSUME TypeInv, NEW a \in Attempt, Request(a) PROVE TypeInv'
<1>1. pc' \in [Attempt -> PC] /\ mem' \in [Attempt -> TaskMemory]
  <2>1. CASE Lookup(a) = "miss"
    BY SMTT(30), <2>1, Clocks DEF Request, TypeInv, TypeOK, Goto, PC, TaskMemory
  <2>2. CASE Lookup(a) # "miss"
    BY <2>2, NoMemType DEF Request, TypeInv, TypeOK, Leave, Goto, PC
  <2>3. QED
    BY <2>1, <2>2
<1>2. acked' \in [Attempt -> SUBSET Attempt]
  BY ReqType DEF Request, TypeInv, TypeOK, RowsNamed, Lookup, Row
<1>3. \A b \in Attempt : pc'[b] \in {"ended", "stopped", "fallback", "recorded"} =>
                           mem'[b].status # "none"
  BY DEF Request, TypeInv, TypeOK, Leave, Goto, TaskMemory
<1>4. QED
  BY <1>1, <1>2, <1>3 DEF Request, TypeInv, TypeOK, RowsNamed, store, ghost

\* Claiming the key (claim_idempotency_record) keeps TypeInv.
LEMMA ClaimType == ASSUME TypeInv, NEW a \in Attempt, Claim(a) PROVE TypeInv'
<1>1. pc' \in [Attempt -> PC] /\ mem' \in [Attempt -> TaskMemory]
  BY ZenonT(60), NoMemType DEF Claim, ClaimNew, ClaimExisting, ClaimOverQuota, TypeInv, TypeOK, Leave, Goto, PC
<1>2. \A b \in Attempt : pc'[b] \in {"ended", "stopped", "fallback", "recorded"} =>
                           mem'[b].status # "none"
  BY DEF Claim, ClaimNew, ClaimExisting, ClaimOverQuota, TypeInv, TypeOK, Leave, Goto, TaskMemory
<1>3. acked' \in [Attempt -> SUBSET Attempt] /\ ledger' \in [Key -> LedgerRow] /\ RowsNamed'
  <2>1. CASE ClaimNew(a)
    <3>1. PICK fits \in BOOLEAN :
            ledger' = [PrunedLedger EXCEPT ![KeyOf(a)] =
                        [NoRow EXCEPT !.st = "claimed", !.att = a,
                                      !.lease = now + LeaseTTL, !.body = fits]]
      BY <2>1 DEF ClaimNew
    <3>2. ledger' \in [Key -> LedgerRow]
      BY <3>1, Pruned, ReqType, Clocks DEF TypeInv, NoRow, LedgerRow, LedgerState
    <3>3. ledger'[KeyOf(a)].st = "claimed" /\ ledger'[KeyOf(a)].att = a
      BY <3>1, Pruned, ReqType DEF NoRow
    <3>4. \A k \in Key \ {KeyOf(a)} : ledger'[k] = NoRow \/ ledger'[k] = ledger[k]
      BY <3>1, Pruned, ReqType
    <3>5. RowsNamed'
      BY <3>3, <3>4 DEF TypeInv, RowsNamed, NoRow, KeyOf
    <3>6. QED
      BY <3>2, <3>5, <2>1 DEF ClaimNew, TypeInv, TypeOK
  <2>2. CASE ClaimExisting(a)
    <3> DEFINE row == PrunedLedger[KeyOf(a)]
    <3>1. row \in LedgerRow /\ row.att \in Attempt
      BY <2>2, Pruned, ReqType DEF ClaimExisting, TypeInv, RowsNamed, NoRow
    <3>2. acked' \in [Attempt -> SUBSET Attempt]
      BY <2>2, <3>1 DEF ClaimExisting, TypeInv, TypeOK
    <3>3. ledger' = [PrunedLedger EXCEPT ![KeyOf(a)] = Indeterminate(row)] \/ ledger' = PrunedLedger
      BY <2>2 DEF ClaimExisting
    <3>4. ledger' \in [Key -> LedgerRow]
      BY <3>1, <3>3, IndeterminateRow, Pruned, ReqType DEF TypeInv
    <3>5. \A k \in Key : \/ ledger'[k] = NoRow \/ ledger'[k] = ledger[k]
                         \/ k = KeyOf(a) /\ ledger'[k] = Indeterminate(row) /\ row = ledger[k]
      <4>1. row = ledger[KeyOf(a)]
        BY <2>2, Pruned, ReqType DEF ClaimExisting, NoRow
      <4>2. \A k \in Key : PrunedLedger[k] = NoRow \/ PrunedLedger[k] = ledger[k]
        BY Pruned
      <4>3. QED
        BY <3>3, <4>1, <4>2, Pruned, ReqType
    <3>6. Indeterminate(row).att = row.att /\ Indeterminate(row).st = "indeterminate"
      BY <3>1, IndeterminateRow DEF TypeInv, Indeterminate, LedgerRow
    <3>7. RowsNamed'
      BY SMTT(30), <3>1, <3>5, <3>6, <2>2 DEF ClaimExisting, TypeInv, RowsNamed, NoRow, KeyOf
    <3>8. QED
      BY <3>2, <3>4, <3>7
  <2>3. CASE ClaimOverQuota(a)
    <3>1. \A k \in Key : ledger'[k] = NoRow \/ ledger'[k] = ledger[k]
      BY <2>3, Pruned DEF ClaimOverQuota
    <3>2. RowsNamed'
      BY <3>1 DEF TypeInv, RowsNamed, NoRow, KeyOf
    <3>3. QED
      BY <2>3, <3>2, Pruned DEF ClaimOverQuota, TypeInv, TypeOK
  <2>4. QED
    BY <2>1, <2>2, <2>3 DEF Claim
<1>4. freed' \subseteq Attempt
  BY Pruned DEF Claim, TypeInv, TypeOK
<1>5. QED
  BY <1>1, <1>2, <1>3, <1>4 DEF Claim, TypeInv, TypeOK

\* The steps that leave the store alone change the tasks of one attempt.
LEMMA ClaimTooLateType == ASSUME TypeInv, NEW a \in Attempt, ClaimTooLate(a) PROVE TypeInv'
<1>1. TasksTyped'
  BY DEF ClaimTooLate, TypeInv, TypeOK, TasksTyped, Goto, PC
<1> QED
  BY <1>1 DEF ClaimTooLate, TypeInv, TypeOK, TasksTyped, RowsNamed, store, ghost

\* Registering the worker (run_flow) keeps TypeInv.
LEMMA RegisterType == ASSUME TypeInv, NEW a \in Attempt, Register(a) PROVE TypeInv'
<1>1. TasksTyped'
  BY DEF Register, TypeInv, TypeOK, TasksTyped, Goto, PC
<1> QED
  BY <1>1 DEF Register, TypeInv, TypeOK, TasksTyped, RowsNamed, store, ghost

\* Refusing registration (run_flow) keeps TypeInv.
LEMMA RefuseRegistrationType == ASSUME TypeInv, NEW a \in Attempt, RefuseRegistration(a) PROVE TypeInv'
<1>1. TasksTyped'
  BY NoMemType DEF RefuseRegistration, TypeInv, TypeOK, TasksTyped, Goto, PC
<1> QED
  BY <1>1 DEF RefuseRegistration, TypeInv, TypeOK, TasksTyped, RowsNamed, store, ghost

\* Dropping a heartbeat, or publishing an outcome, keeps the memory typed.
LEMMA NoBeatType ==
  ASSUME NEW m \in TaskMemory, NEW outcome \in Outcome
  PROVE  /\ NoBeat(m) \in TaskMemory /\ NoBeat(m).status = m.status
         /\ Published(m, outcome) \in TaskMemory /\ Published(m, outcome).status = m.status
         /\ NoBeat(m).mark = m.mark /\ Published(m, outcome).mark = m.mark
BY DEF NoBeat, Published, TaskMemory, Outcome

\* Sending a heartbeat (spawn_loop) keeps TypeInv.
LEMMA SendHeartbeatType == ASSUME TypeInv, NEW a \in Attempt, SendHeartbeat(a) PROVE TypeInv'
<1>1. TasksTyped'
  <2>1. [mem[a] EXCEPT !.beat = "sent", !.sent = now] \in TaskMemory
    BY ZenonT(60) DEF TypeInv, TypeOK, TaskMemory
  <2>2. \A b \in Attempt : mem'[b].status = mem[b].status
    BY DEF SendHeartbeat, TypeInv, TypeOK, TaskMemory
  <2>3. QED
    BY <2>1, <2>2 DEF SendHeartbeat, TypeInv, TypeOK, TasksTyped
<1> QED
  BY <1>1 DEF SendHeartbeat, TypeInv, TypeOK, TasksTyped, RowsNamed, store, ghost

\* The answer to the first heartbeat (RunLeaseHeartbeat::start) keeps TypeInv.
LEMMA EstablishFenceType == ASSUME TypeInv, NEW a \in Attempt, EstablishFence(a) PROVE TypeInv'
<1>1. TasksTyped'
  <2> DEFINE m == [mem[a] EXCEPT !.deadline = RenewedDeadline(a)]
  <2>1. mem[a] \in TaskMemory /\ m \in TaskMemory
    BY Clocks DEF TypeInv, TypeOK, TaskMemory, RenewedDeadline
  <2>2. mem' = [mem EXCEPT ![a] = NoBeat(m)] \/ mem' = [mem EXCEPT ![a] = NoBeat(mem[a])]
    BY DEF EstablishFence, SetBeatless
  <2>3. pc' \in {[pc EXCEPT ![a] = "fenced"], [pc EXCEPT ![a] = "releasing"]}
    BY DEF EstablishFence, Goto
  <2>4. mem' \in [Attempt -> TaskMemory] /\ \A b \in Attempt \ {a} : mem'[b] = mem[b]
    BY <2>1, <2>2, NoBeatType DEF TypeInv, TypeOK, Outcome
  <2>5. QED
    BY <2>3, <2>4 DEF TypeInv, TypeOK, TasksTyped, PC
<1> QED
  BY <1>1 DEF EstablishFence, TypeInv, TypeOK, TasksTyped, RowsNamed, store, ghost

\* What the heartbeat loop keeps after an answer is well typed.
LEMMA FenceAfterAnswerType ==
  ASSUME TypeInv, NEW a \in Attempt
  PROVE  /\ FenceAfterAnswer(a) \in TaskMemory
         /\ FenceAfterAnswer(a).status = mem[a].status /\ FenceAfterAnswer(a).mark = mem[a].mark
<1> DEFINE m == [mem[a] EXCEPT !.deadline = RenewedDeadline(a)]
<1>1. mem[a] \in TaskMemory /\ mem[a].answer \in Outcome \cup {"owned"}
  BY DEF TypeInv, TypeOK, TaskMemory
<1>2. m \in TaskMemory
  BY <1>1, Clocks DEF TypeInv, TaskMemory, RenewedDeadline
<1>3. m.status = mem[a].status /\ m.mark = mem[a].mark
  BY <1>1 DEF TaskMemory
<1>4. "lost" \in Outcome /\ (mem[a].answer # "owned" => mem[a].answer \in Outcome)
  BY <1>1 DEF Outcome
<1>5. QED
  BY <1>1, <1>2, <1>3, <1>4, NoBeatType DEF FenceAfterAnswer

\* An answer to the heartbeat loop (renew_if_live) keeps TypeInv.
LEMMA ReceiveHeartbeatType == ASSUME TypeInv, NEW a \in Attempt, ReceiveHeartbeat(a) PROVE TypeInv'
<1>1. TasksTyped'
  <2>2. FenceAfterAnswer(a) \in TaskMemory /\ FenceAfterAnswer(a).status = mem[a].status
    BY FenceAfterAnswerType
  <2>3. NoBeat(FenceAfterAnswer(a)) \in TaskMemory /\ NoBeat(FenceAfterAnswer(a)).status = mem[a].status
    BY <2>2, NoBeatType DEF Outcome
  <2>4. QED
    BY <2>3 DEF ReceiveHeartbeat, SetBeatless, TypeInv, TypeOK, TasksTyped
<1> QED
  BY <1>1 DEF ReceiveHeartbeat, TypeInv, TypeOK, TasksTyped, RowsNamed, store, ghost

\* A failed heartbeat (spawn_loop) keeps TypeInv.
LEMMA HeartbeatFailsType == ASSUME TypeInv, NEW a \in Attempt, HeartbeatFails(a) PROVE TypeInv'
<1>1. TasksTyped'
  <2>1. NoBeat(mem[a]) \in TaskMemory /\ NoBeat(mem[a]).status = mem[a].status
    BY NoBeatType DEF TypeInv, TypeOK, Outcome
  <2>2. QED
    BY <2>1 DEF HeartbeatFails, SetBeatless, TypeInv, TypeOK, TasksTyped, PC
<1> QED
  BY <1>1 DEF HeartbeatFails, TypeInv, TypeOK, TasksTyped, RowsNamed, store, ghost

\* The expiry of the local fence (lose_if_expired) keeps TypeInv.
LEMMA FenceExpiresType == ASSUME TypeInv, NEW a \in Attempt, FenceExpires(a) PROVE TypeInv'
<1>1. TasksTyped'
  <2>1. Published(mem[a], "lost") \in TaskMemory /\ Published(mem[a], "lost").status = mem[a].status
    BY NoBeatType DEF TypeInv, TypeOK, Outcome
  <2>2. NoBeat(Published(mem[a], "lost")) \in TaskMemory
        /\ NoBeat(Published(mem[a], "lost")).status = mem[a].status
    BY <2>1, NoBeatType DEF Outcome
  <2>3. QED
    BY <2>2 DEF FenceExpires, SetBeatless, TypeInv, TypeOK, TasksTyped
<1> QED
  BY <1>1 DEF FenceExpires, TypeInv, TypeOK, TasksTyped, RowsNamed, store, ghost

\* Opening the worker gate (admit_execution) keeps TypeInv.
LEMMA AdmitType == ASSUME TypeInv, NEW a \in Attempt, Admit(a) PROVE TypeInv'
<1>1. TasksTyped'
  <2>1. Published(mem[a], "lost") \in TaskMemory /\ Published(mem[a], "lost").status = mem[a].status
    BY NoBeatType DEF TypeInv, TypeOK, Outcome
  <2>2. QED
    BY <2>1 DEF Admit, Goto, TypeInv, TypeOK, TasksTyped, PC
<1> QED
  BY <1>1 DEF Admit, TypeInv, TypeOK, TasksTyped, RowsNamed, store, ghost

\* Ending the worker keeps the tasks typed.
LEMMA EndWorkerType ==
  ASSUME TypeInv, NEW a \in Attempt, NEW status \in Terminal, EndWorker(a, status)
  PROVE  TasksTyped'
<1>1. mem' \in [Attempt -> TaskMemory] /\ mem'[a].status = status
      /\ \A b \in Attempt \ {a} : mem'[b] = mem[b]
  BY SMTT(30) DEF EndWorker, TypeInv, TypeOK, TaskMemory
<1>2. QED
  BY <1>1 DEF EndWorker, Goto, TypeInv, TypeOK, TasksTyped, PC, Terminal

\* The worker's read-back (execute_crew_from_path_with_events) keeps TypeInv.
LEMMA ConfirmIntentType == ASSUME TypeInv, NEW a \in Attempt, ConfirmIntent(a) PROVE TypeInv'
<1>1. TasksTyped'
  BY EndWorkerType DEF ConfirmIntent, Goto, TypeInv, TypeOK, TasksTyped, PC, Terminal
<1> QED
  BY <1>1 DEF ConfirmIntent, TypeInv, TypeOK, TasksTyped, RowsNamed, store, ghost

\* The end of the worker keeps TypeInv.
LEMMA WorkerReturnsType == ASSUME TypeInv, NEW a \in Attempt, WorkerReturns(a) PROVE TypeInv'
<1>1. TasksTyped'
  BY EndWorkerType DEF WorkerReturns, Terminal
<1> QED
  BY <1>1 DEF WorkerReturns, TypeInv, TypeOK, TasksTyped, RowsNamed, store, ghost

\* A local abort (abort_run, teardown_active_state) keeps TypeInv.
LEMMA AbortWorkerType == ASSUME TypeInv, NEW a \in Attempt, AbortWorker(a) PROVE TypeInv'
<1>1. TasksTyped'
  BY EndWorkerType DEF AbortWorker, Terminal
<1> QED
  BY <1>1 DEF AbortWorker, TypeInv, TypeOK, TasksTyped, RowsNamed, store, ghost

\* The monitor's fence branch (run_flow) keeps TypeInv.
LEMMA StopByFenceType == ASSUME TypeInv, NEW a \in Attempt, StopByFence(a) PROVE TypeInv'
<1>1. TasksTyped'
  <2>1. PICK status \in StatusOfFence(a) :
          mem' = [mem EXCEPT ![a] = [@ EXCEPT !.status = status, !.mark = mem[a].outcome = "lost"]]
    BY DEF StopByFence
  <2>2. status \in Terminal
    BY DEF StatusOfFence, Terminal
  <2>3. mem' \in [Attempt -> TaskMemory] /\ mem'[a].status = status
        /\ \A b \in Attempt \ {a} : mem'[b] = mem[b]
    <3>1. (mem[a].outcome = "lost") \in BOOLEAN
      OBVIOUS
    <3>2. [mem[a] EXCEPT !.status = status, !.mark = mem[a].outcome = "lost"] \in TaskMemory
      <4>1. \A lost \in BOOLEAN : [mem[a] EXCEPT !.status = status, !.mark = lost] \in TaskMemory
        BY ZenonT(60), <2>2 DEF TypeInv, TypeOK, TaskMemory
      <4>2. QED
        BY <3>1, <4>1
    <3>3. mem'[a].status = status /\ \A b \in Attempt \ {a} : mem'[b] = mem[b]
      BY <2>1 DEF TypeInv, TypeOK, TaskMemory
    <3>4. QED
      BY <2>1, <3>2, <3>3 DEF TypeInv, TypeOK
  <2>4. QED
    BY <2>2, <2>3 DEF StopByFence, Goto, TypeInv, TypeOK, TasksTyped, PC, Terminal
<1> QED
  BY <1>1 DEF StopByFence, TypeInv, TypeOK, TasksTyped, RowsNamed, store, ghost

\* The monitor's join branch (run_flow) keeps TypeInv.
LEMMA JoinWorkerType == ASSUME TypeInv, NEW a \in Attempt, JoinWorker(a) PROVE TypeInv'
<1>1. TasksTyped'
  <2>1. PICK status \in {mem[a].status, "failed"} : mem' = [mem EXCEPT ![a].status = status]
    BY DEF JoinWorker
  <2>2. status \in Terminal
    BY DEF JoinWorker, TypeInv, TypeOK, TaskMemory, Terminal
  <2>3. mem' \in [Attempt -> TaskMemory] /\ mem'[a].status = status
        /\ \A b \in Attempt \ {a} : mem'[b] = mem[b]
    BY SMTT(30), <2>1, <2>2 DEF TypeInv, TypeOK, TaskMemory
  <2>4. QED
    BY <2>2, <2>3 DEF JoinWorker, Goto, TypeInv, TypeOK, TasksTyped, PC, Terminal
<1> QED
  BY <1>1 DEF JoinWorker, TypeInv, TypeOK, TasksTyped, RowsNamed, store, ghost

\* The monitor's lifetime branch (run_flow) keeps TypeInv.
LEMMA TimeOutWorkerType == ASSUME TypeInv, NEW a \in Attempt, TimeOutWorker(a) PROVE TypeInv'
<1>1. TasksTyped'
  <2>1. PICK status \in {"timed_out", "failed"} : mem' = [mem EXCEPT ![a].status = status]
    BY DEF TimeOutWorker
  <2>2. status \in Terminal
    BY DEF Terminal
  <2>3. mem' \in [Attempt -> TaskMemory] /\ mem'[a].status = status
        /\ \A b \in Attempt \ {a} : mem'[b] = mem[b]
    BY <2>1, <2>2 DEF TypeInv, TypeOK, TaskMemory
  <2>4. QED
    BY <2>2, <2>3 DEF TimeOutWorker, Goto, TypeInv, TypeOK, TasksTyped, PC, Terminal
<1> QED
  BY <1>1 DEF TimeOutWorker, TypeInv, TypeOK, TasksTyped, RowsNamed, store, ghost

\* The steps of an attempt that write the store.
LEMMA ReleaseType == ASSUME TypeInv, NEW a \in Attempt, Release(a) PROVE TypeInv'
<1>1. TasksTyped'
  BY NoMemType DEF Release, Leave, Goto, TypeInv, TypeOK, TasksTyped, PC
<1>2. NoRow \in LedgerRow /\ NoRow.st = "absent" /\ NoRow.att = NoAttempt
  BY DEF NoRow, LedgerRow, LedgerState
<1>3. ledger' = ledger \/ ledger' = [ledger EXCEPT ![KeyOf(a)] = NoRow]
  BY DEF Release, ReleasedLedger
<1>4. ledger' \in [Key -> LedgerRow] /\ RowsNamed'
  BY <1>2, <1>3, ReqType DEF TypeInv, TypeOK, RowsNamed, KeyOf
<1>5. QED
  BY <1>1, <1>4 DEF Release, TypeInv, TypeOK, TasksTyped, ghost

\* The heartbeat transaction keeps TypeInv.
LEMMA HeartbeatTxType == ASSUME TypeInv, NEW a \in Attempt, HeartbeatTx(a) PROVE TypeInv'
<1>1. Verdict(a) \in Outcome \cup {"owned"}
  BY DEF Verdict, Outcome
<1>2. TasksTyped'
  <2>1. [mem[a] EXCEPT !.beat = "answered", !.answer = Verdict(a)] \in TaskMemory
    BY ZenonT(60), <1>1 DEF TypeInv, TypeOK, TaskMemory
  <2>2. \A b \in Attempt : mem'[b].status = mem[b].status
    BY DEF HeartbeatTx, TypeInv, TypeOK, TaskMemory
  <2>3. QED
    BY <2>1, <2>2 DEF HeartbeatTx, TypeInv, TypeOK, TasksTyped
<1>3. ledger' = ledger \/ ledger' = [ledger EXCEPT ![KeyOf(a)].lease = now + LeaseTTL]
  BY DEF HeartbeatTx, store
<1>4. ledger' \in [Key -> LedgerRow] /\ KeepsOwners
  <2>1. ledger' \in [Key -> LedgerRow]
    <3>1. CASE ledger' = [ledger EXCEPT ![KeyOf(a)].lease = now + LeaseTTL]
      BY ZenonT(60), <3>1, ReqType, Clocks DEF TypeInv, TypeOK, LedgerRow
    <3>2. QED
      BY <1>3, <3>1 DEF TypeInv, TypeOK
  <2>2. KeepsOwners
    BY <1>3, ReqType DEF TypeInv, TypeOK, LedgerRow, KeepsOwners
  <2>3. QED
    BY <2>1, <2>2
<1>5. runs' \in [Attempt -> RunRecord]
  BY Clocks DEF HeartbeatTx, store, TypeInv, TypeOK, RunRecord
<1>6. QED
  BY <1>2, <1>4, <1>5, OwnersKept DEF HeartbeatTx, TypeInv, TypeOK, TasksTyped, ghost

\* The provisional intent keeps TypeInv.
LEMMA ProvisionalIntentType ==
  ASSUME TypeInv, NEW a \in Attempt, ProvisionalIntent(a) PROVE TypeInv'
<1>1. TasksTyped'
  BY EndWorkerType DEF ProvisionalIntent, Goto, TypeInv, TypeOK, TasksTyped, PC, Terminal
<1>2. QED
  BY <1>1, SavedIntent DEF ProvisionalIntent, TypeInv, TypeOK, TasksTyped, ghost

\* Crew:run()'s intent keeps TypeInv.
LEMMA CrewIntentType == ASSUME TypeInv, NEW a \in Attempt, CrewIntent(a) PROVE TypeInv'
<1>1. TasksTyped'
  BY EndWorkerType DEF CrewIntent, TypeInv, TypeOK, TasksTyped, Terminal
<1>2. QED
  BY <1>1, SavedIntent DEF CrewIntent, TypeInv, TypeOK, TasksTyped, ghost

\* The finaliser's fallback intent (persist_terminal_outcome) keeps TypeInv.
LEMMA FallbackIntentType == ASSUME TypeInv, NEW a \in Attempt, FallbackIntent(a) PROVE TypeInv'
<1>1. TasksTyped'
  <2>1. mem' \in [Attempt -> TaskMemory] /\ \A b \in Attempt : mem'[b].status = mem[b].status
    <3>1. CASE mem' = [mem EXCEPT ![a].mark = TRUE]
      BY ZenonT(60), <3>1 DEF TypeInv, TypeOK, TaskMemory
    <3>2. QED
      BY <3>1 DEF FallbackIntent, TypeInv, TypeOK
  <2>2. QED
    BY <2>1 DEF FallbackIntent, Goto, TypeInv, TypeOK, TasksTyped, PC
<1>2. QED
  BY <1>1, SavedIntent DEF FallbackIntent, TypeInv, TypeOK, TasksTyped, ghost

\* The terminal write (finish_run) keeps TypeInv.
LEMMA FinishRunType == ASSUME TypeInv, NEW a \in Attempt, FinishRun(a) PROVE TypeInv'
<1>1. TasksTyped'
  BY DEF FinishRun, Goto, TypeInv, TypeOK, TasksTyped, PC
<1>2. CASE runs[a].st = "absent"
  BY <1>1, <1>2 DEF FinishRun, TypeInv, TypeOK, TasksTyped, RowsNamed, store, ghost
<1>3. CASE runs[a].st # "absent"
  <2>1. FinishedRun(a) \in RunRecord
    BY DEF FinishRun, FinishedRun, TypeInv, TypeOK, RunRecord, TaskMemory, RunState
  <2>2. runs' \in [Attempt -> RunRecord]
    BY <1>3, <2>1 DEF FinishRun, TypeInv, TypeOK
  <2>3. ledger' \in [Key -> LedgerRow] /\ RowsNamed'
    BY <1>3, SettledLedger DEF FinishRun
  <2>4. QED
    BY <1>1, <2>2, <2>3 DEF FinishRun, TypeInv, TypeOK, TasksTyped, ghost
<1>4. QED
  BY <1>2, <1>3

\* Closing the ledger row (complete_run_idempotency) keeps TypeInv.
LEMMA CloseLedgerType == ASSUME TypeInv, NEW a \in Attempt, CloseLedger(a) PROVE TypeInv'
<1>1. TasksTyped'
  BY NoMemType DEF CloseLedger, Leave, Goto, TypeInv, TypeOK, TasksTyped, PC
<1>2. PICK fits \in BOOLEAN :
        ledger' = IF Linked(a) /\ InFlight(Row(a))
                  THEN [ledger EXCEPT ![KeyOf(a)] = ClosedRow(a, fits)] ELSE ledger
  BY DEF CloseLedger
<1>3. Row(a) \in LedgerRow
  BY ReqType DEF Row, TypeInv, TypeOK
<1>4. ClosedRow(a, fits) \in LedgerRow
  BY <1>3, IndeterminateRow, Clocks DEF ClosedRow, TypeInv, LedgerRow, LedgerState
<1>5. ClosedRow(a, fits).att = Row(a).att /\ ClosedRow(a, fits).st \in {"completed", "indeterminate"}
  BY <1>3 DEF ClosedRow, Indeterminate, LedgerRow
<1>6. ledger' \in [Key -> LedgerRow]
  BY <1>2, <1>4, ReqType DEF TypeInv, TypeOK
<1>7. KeepsOwners
  BY <1>2, <1>5, ReqType DEF TypeInv, TypeOK, KeepsOwners, Linked, Row
<1>8. QED
  BY <1>1, <1>6, <1>7, OwnersKept DEF CloseLedger, TypeInv, TypeOK, TasksTyped, ghost

\* ... and so does every step of a peer, of a replica's lifecycle and of time.
LEMMA PeerType == ASSUME TypeInv, PeerStep PROVE TypeInv'
<1>1. CASE Reconcile
  <2>1. runs' \in [Attempt -> RunRecord]
    BY <1>1 DEF Reconcile, TypeInv, TypeOK, RunRecord, RunState, Terminal
  <2>2. QED
    BY <1>1, <2>1, SettledLedger DEF Reconcile, TypeInv, TypeOK, ghost
<1>2. CASE Prune
  <2>1. \A k \in Key : ledger'[k] = NoRow \/ ledger'[k] = ledger[k]
    BY <1>2, Pruned DEF Prune
  <2>2. RowsNamed'
    BY <2>1 DEF TypeInv, RowsNamed, NoRow, KeyOf
  <2>3. QED
    BY <1>2, <2>2, Pruned DEF Prune, TypeInv, TypeOK
<1>3. ASSUME NEW a \in Attempt, Cancel(a) PROVE TypeInv'
  <2>1. ledger' \in [Key -> LedgerRow] /\ KeepsOwners
    BY ZenonT(60), <1>3, ReqType DEF Cancel, TypeInv, TypeOK, LedgerRow, KeepsOwners
  <2>2. QED
    BY <1>3, <2>1, OwnersKept DEF Cancel, TypeInv, TypeOK, ghost
<1>4. ASSUME NEW a \in Attempt, DeleteRun(a) PROVE TypeInv'
  <2>1. runs' \in [Attempt -> RunRecord]
    BY <1>4 DEF DeleteRun, TypeInv, TypeOK, NoRun, RunRecord, RunState
  <2>2. QED
    BY <1>4, <2>1 DEF DeleteRun, TypeInv, TypeOK, RowsNamed
<1>5. QED
  BY <1>1, <1>2, <1>3, <1>4 DEF PeerStep

\* A phase change or a crash keeps TypeInv.
LEMMA LifecycleType == ASSUME TypeInv, NEW i \in Instance, LifecycleStep(i) PROVE TypeInv'
<1>1. CASE BeginFencing(i)
  BY <1>1 DEF BeginFencing, TypeInv, TypeOK, RowsNamed, Phase, store, ghost
<1>2. CASE FenceOwner(i)
  <2>1. ledger' \in [Key -> LedgerRow]
    BY ZenonT(60), <1>2 DEF FenceOwner, DrainedLedger, TypeInv, TypeOK, LedgerRow
  <2>2. KeepsOwners
    BY <1>2 DEF FenceOwner, DrainedLedger, TypeInv, TypeOK, LedgerRow, KeepsOwners
  <2>3. phase' \in [Instance -> Phase]
    BY <1>2 DEF FenceOwner, TypeInv, TypeOK, Phase
  <2>4. QED
    BY <1>2, <2>1, <2>2, <2>3, OwnersKept DEF FenceOwner, TypeInv, TypeOK, ghost
<1>3. CASE MarkStopping(i)
  BY <1>3 DEF MarkStopping, TypeInv, TypeOK, RowsNamed, Phase, store, ghost
<1>4. CASE Crash(i)
  <2>1. phase' \in [Instance -> Phase]
    BY <1>4 DEF Crash, TypeInv, TypeOK, Phase
  <2>2. TasksTyped'
    BY <1>4, NoMemType DEF Crash, TypeInv, TypeOK, TasksTyped, PC
  <2>3. QED
    BY <1>4, <2>1, <2>2 DEF Crash, TypeInv, TypeOK, TasksTyped, RowsNamed, store, ghost
<1>5. QED
  BY <1>1, <1>2, <1>3, <1>4 DEF LifecycleStep

\* Every step keeps TypeInv.
LEMMA TypeStep == TypeInv /\ [Next]_vars => TypeInv'
<1> SUFFICES ASSUME TypeInv, [Next]_vars PROVE TypeInv'
  OBVIOUS
<1>1. ASSUME NEW a \in Attempt, Request(a) \/ HandlerStep(a) PROVE TypeInv'
  BY <1>1, RequestType, ClaimType, ClaimTooLateType, RegisterType, RefuseRegistrationType,
     ReleaseType DEF HandlerStep
<1>2. ASSUME NEW a \in Attempt, HeartbeatStep(a) PROVE TypeInv'
  BY <1>2, SendHeartbeatType, HeartbeatTxType, EstablishFenceType, ReceiveHeartbeatType,
     HeartbeatFailsType, FenceExpiresType DEF HeartbeatStep
<1>3. ASSUME NEW a \in Attempt, WorkerStep(a) PROVE TypeInv'
  BY <1>3, AdmitType, ProvisionalIntentType, ConfirmIntentType, CrewIntentType,
     WorkerReturnsType, AbortWorkerType DEF WorkerStep
<1>4. ASSUME NEW a \in Attempt, MonitorStep(a) PROVE TypeInv'
  BY <1>4, StopByFenceType, JoinWorkerType, TimeOutWorkerType, FinishRunType,
     FallbackIntentType, CloseLedgerType DEF MonitorStep
<1>5. CASE Tick
  BY <1>5, Clocks DEF Tick, TypeInv, TypeOK, RowsNamed, store, ghost
<1>6. CASE UNCHANGED vars
  BY <1>6 DEF vars, TypeInv, TypeOK, RowsNamed
<1>7. QED
  BY <1>1, <1>2, <1>3, <1>4, <1>5, <1>6, PeerType, LifecycleType DEF Next

\* In every reachable state the ledger, the run records and the tasks have the
\* types TypeOK gives them, and no finaliser is without a status to persist.
THEOREM TypeCorrect == Spec => []TypeOK
<1>1. TypeInv => TypeOK
  BY DEF TypeInv
<1>2. QED
  BY InitType, TypeStep, <1>1, PTL DEF Spec

-----------------------------------------------------------------------------
\* Ownership.

\* A step that changes no state, owner or body of a row and no status of a run.
KeepsShape ==
    /\ \A k \in Key : /\ ledger'[k].st = ledger[k].st /\ ledger'[k].att = ledger[k].att
                      /\ ledger'[k].body = ledger[k].body
    /\ \A a \in Attempt : runs'[a].st = runs[a].st
    /\ freed' = freed /\ deleted' = deleted

\* What a step that keeps the shape of the store may do to the labels.
Labels ==
    \A a \in Attempt :
        /\ pc'[a] \in Beating \cup {"claimed"} => pc[a] \in Beating \cup {"claimed"}
        /\ pc'[a] \in {"idle", "claiming"} => pc[a] \in {"idle", "claiming"}
        /\ pc'[a] \in PreRun => pc[a] \in PreRun
        /\ pc'[a] \in PreRun \cup {"done", "recorded"} =>
             pc[a] \in PreRun \cup {"done", "recorded"} \/ ~Linked(a)
        /\ pc'[a] = "fallback" => pc[a] = "fallback" \/ runs[a].st = "absent"
        /\ pc'[a] = "recorded" => pc[a] = "recorded" /\ mem'[a].mark = mem[a].mark
        /\ a \in ran' => a \in ran \/ (pc[a] = "registered" /\ pc'[a] = "executing")

\* Links and row states follow from the kept shape of the store.
LEMMA ShapeKeepsLinks ==
  ASSUME KeepsShape, NEW a \in Attempt
  PROVE  /\ Linked(a)' <=> Linked(a)
         /\ Row(a)'.st = Row(a).st /\ Row(a)'.body = Row(a).body
         /\ runs'[a].st = runs[a].st
BY ReqType DEF KeepsShape, Linked, Row, KeyOf

\* A step inside the tasks of the attempts keeps the invariant.
LEMMA LocalOwnership ==
  ASSUME OwnershipInv, TypeInv', KeepsShape, Labels, AckedKept'
  PROVE  OwnershipInv'
<1>1. Unclaimed'
  BY ShapeKeepsLinks DEF OwnershipInv, Unclaimed, Labels
<1>2. ClaimHeld'
  <2>1. SUFFICES ASSUME NEW a \in Attempt, pc'[a] \in Beating \cup {"claimed"} \/ a \in ran'
                 PROVE  Linked(a)' \/ a \in freed'
    BY DEF ClaimHeld, Beating
  <2>2. pc[a] \in Beating \cup {"claimed"} \/ a \in ran
    BY <2>1 DEF Labels, Beating, Working
  <2>3. QED
    BY <2>2, ShapeKeepsLinks DEF OwnershipInv, ClaimHeld, KeepsShape
<1>3. GateClosed'
  BY DEF OwnershipInv, GateClosed, Labels, PreRun
<1>4. RowFollowsRun'
  BY ShapeKeepsLinks DEF OwnershipInv, RowFollowsRun, Labels, KeepsShape
<1>5. MonitorKnows'
  BY DEF OwnershipInv, MonitorKnows, Labels, KeepsShape
<1>6. QED
  BY <1>1, <1>2, <1>3, <1>4, <1>5 DEF OwnershipInv

\* A 200 that names run r is justified now.
Justified(a, r) ==
    /\ r \in Attempt /\ KeyOf(r) = KeyOf(a)
    /\ r \in freed \/ (Linked(r) /\ Row(r).st # "claimed")
    /\ runs[r].st # "absent" \/ r \in deleted

\* Answers stay justified by such a step, and it may add justified ones.
LEMMA AckedStep ==
  ASSUME OwnershipInv, TypeInv', KeepsShape,
         \A a \in Attempt : \A r \in acked'[a] : r \in acked[a] \/ Justified(a, r)
  PROVE  AckedKept'
<1>1. SUFFICES ASSUME NEW a \in Attempt, NEW r \in acked'[a]
               PROVE  /\ KeyOf(r) = KeyOf(a)
                      /\ r \in freed' \/ (Linked(r)' /\ Row(r)'.st # "claimed")
                      /\ runs'[r].st # "absent" \/ r \in deleted'
  BY DEF AckedKept, KeyOf
<1>2. Justified(a, r)
  BY DEF Justified, OwnershipInv, AckedKept, TypeInv, TypeOK
<1>3. QED
  BY <1>2, ShapeKeepsLinks DEF Justified, KeepsShape

\* A local step leaves the acknowledged runs kept.
LEMMA LocalAcked ==
  ASSUME OwnershipInv, TypeInv', KeepsShape, acked' = acked
  PROVE  AckedKept'
BY AckedStep

----------------------------------------------------------------------------
\* The steps that leave the shape of the store alone.

\* A claim that outlived its window (run_flow) keeps OwnershipInv.
LEMMA ClaimTooLateOwns == ASSUME OwnershipInv, TypeInv', NEW a \in Attempt, ClaimTooLate(a) PROVE OwnershipInv'
<1>1. KeepsShape
  BY DEF ClaimTooLate, KeepsShape, store, ghost
<1>2. Labels
  BY DEF ClaimTooLate, Labels, Goto, Leave, OwnershipInv, TypeInv, TypeOK, TaskMemory, PreRun, Beating, Working,
         store, ghost
<1>3. QED
  BY <1>1, <1>2, LocalOwnership, LocalAcked DEF ClaimTooLate

\* Registering the worker (run_flow) keeps OwnershipInv.
LEMMA RegisterOwns == ASSUME OwnershipInv, TypeInv', NEW a \in Attempt, Register(a) PROVE OwnershipInv'
<1>1. KeepsShape
  BY DEF Register, KeepsShape, store, ghost
<1>2. Labels
  BY DEF Register, Labels, Goto, Leave, OwnershipInv, TypeInv, TypeOK, TaskMemory, PreRun, Beating, Working,
         store, ghost
<1>3. QED
  BY <1>1, <1>2, LocalOwnership, LocalAcked DEF Register

\* Refusing registration (run_flow) keeps OwnershipInv.
LEMMA RefuseRegistrationOwns == ASSUME OwnershipInv, TypeInv', NEW a \in Attempt, RefuseRegistration(a) PROVE OwnershipInv'
<1>1. KeepsShape
  BY DEF RefuseRegistration, KeepsShape, store, ghost
<1>2. Labels
  BY DEF RefuseRegistration, Labels, Goto, Leave, OwnershipInv, TypeInv, TypeOK, TaskMemory, PreRun, Beating, Working,
         store, ghost
<1>3. QED
  BY <1>1, <1>2, LocalOwnership, LocalAcked DEF RefuseRegistration

\* Sending a heartbeat (spawn_loop) keeps OwnershipInv.
LEMMA SendHeartbeatOwns == ASSUME OwnershipInv, TypeInv', NEW a \in Attempt, SendHeartbeat(a) PROVE OwnershipInv'
<1>1. KeepsShape
  BY DEF SendHeartbeat, KeepsShape, store, ghost
<1>2. Labels
  BY DEF SendHeartbeat, Labels, Goto, Leave, OwnershipInv, TypeInv, TypeOK, TaskMemory, PreRun, Beating, Working,
         store, ghost
<1>3. QED
  BY <1>1, <1>2, LocalOwnership, LocalAcked DEF SendHeartbeat

\* The answer to the first heartbeat (RunLeaseHeartbeat::start) keeps
\* OwnershipInv.
LEMMA EstablishFenceOwns == ASSUME OwnershipInv, TypeInv', NEW a \in Attempt, EstablishFence(a) PROVE OwnershipInv'
<1>1. KeepsShape
  BY DEF EstablishFence, KeepsShape, store, ghost
<1>2. Labels
  BY DEF EstablishFence, SetBeatless, Labels, Goto, OwnershipInv, TypeInv, TypeOK, PreRun, Beating,
         Working, ghost
<1>3. QED
  BY <1>1, <1>2, LocalOwnership, LocalAcked DEF EstablishFence

\* An answer to the heartbeat loop (renew_if_live) keeps OwnershipInv.
LEMMA ReceiveHeartbeatOwns == ASSUME OwnershipInv, TypeInv', NEW a \in Attempt, ReceiveHeartbeat(a) PROVE OwnershipInv'
<1>1. KeepsShape
  BY DEF ReceiveHeartbeat, KeepsShape, store, ghost
<1>2. Labels
  <2>1. FenceAfterAnswer(a) \in TaskMemory /\ FenceAfterAnswer(a).mark = mem[a].mark
    BY FenceAfterAnswerType DEF OwnershipInv
  <2>2. mem'[a].mark = mem[a].mark
    BY <2>1 DEF ReceiveHeartbeat, SetBeatless, NoBeat, OwnershipInv, TypeInv, TypeOK, TaskMemory
  <2>3. QED
    BY <2>2 DEF ReceiveHeartbeat, SetBeatless, Labels, OwnershipInv, TypeInv, TypeOK, ghost
<1>3. QED
  BY <1>1, <1>2, LocalOwnership, LocalAcked DEF ReceiveHeartbeat

\* A failed heartbeat (spawn_loop) keeps OwnershipInv.
LEMMA HeartbeatFailsOwns == ASSUME OwnershipInv, TypeInv', NEW a \in Attempt, HeartbeatFails(a) PROVE OwnershipInv'
<1>1. KeepsShape
  BY DEF HeartbeatFails, KeepsShape, store, ghost
<1>2. Labels
  BY DEF HeartbeatFails, Labels, Goto, Leave, OwnershipInv, TypeInv, TypeOK, TaskMemory, PreRun, Beating, Working,
         store, ghost, SetBeatless, NoBeat
<1>3. QED
  BY <1>1, <1>2, LocalOwnership, LocalAcked DEF HeartbeatFails

\* The expiry of the local fence (lose_if_expired) keeps OwnershipInv.
LEMMA FenceExpiresOwns == ASSUME OwnershipInv, TypeInv', NEW a \in Attempt, FenceExpires(a) PROVE OwnershipInv'
<1>1. KeepsShape
  BY DEF FenceExpires, KeepsShape, store, ghost
<1>2. Labels
  BY DEF FenceExpires, Labels, Goto, Leave, OwnershipInv, TypeInv, TypeOK, TaskMemory, PreRun, Beating, Working,
         store, ghost, SetBeatless, NoBeat, Published
<1>3. QED
  BY <1>1, <1>2, LocalOwnership, LocalAcked DEF FenceExpires

\* Opening the worker gate (admit_execution) keeps OwnershipInv.
LEMMA AdmitOwns == ASSUME OwnershipInv, TypeInv', NEW a \in Attempt, Admit(a) PROVE OwnershipInv'
<1>1. KeepsShape
  BY DEF Admit, KeepsShape, store, ghost
<1>2. Labels
  BY DEF Admit, Labels, Goto, Leave, OwnershipInv, TypeInv, TypeOK, TaskMemory, PreRun, Beating, Working,
         store, ghost, Published
<1>3. QED
  BY <1>1, <1>2, LocalOwnership, LocalAcked DEF Admit

\* The end of the worker keeps OwnershipInv.
LEMMA WorkerReturnsOwns == ASSUME OwnershipInv, TypeInv', NEW a \in Attempt, WorkerReturns(a) PROVE OwnershipInv'
<1>1. KeepsShape
  BY DEF WorkerReturns, KeepsShape, store, ghost
<1>2. Labels
  BY DEF WorkerReturns, Labels, Goto, Leave, OwnershipInv, TypeInv, TypeOK, TaskMemory, PreRun, Beating, Working,
         store, ghost, EndWorker
<1>3. QED
  BY <1>1, <1>2, LocalOwnership, LocalAcked DEF WorkerReturns

\* A local abort (abort_run, teardown_active_state) keeps OwnershipInv.
LEMMA AbortWorkerOwns == ASSUME OwnershipInv, TypeInv', NEW a \in Attempt, AbortWorker(a) PROVE OwnershipInv'
<1>1. KeepsShape
  BY DEF AbortWorker, KeepsShape, store, ghost
<1>2. Labels
  BY DEF AbortWorker, Labels, Goto, Leave, OwnershipInv, TypeInv, TypeOK, TaskMemory, PreRun, Beating, Working,
         store, ghost, EndWorker
<1>3. QED
  BY <1>1, <1>2, LocalOwnership, LocalAcked DEF AbortWorker

\* The monitor's fence branch (run_flow) keeps OwnershipInv.
LEMMA StopByFenceOwns == ASSUME OwnershipInv, TypeInv', NEW a \in Attempt, StopByFence(a) PROVE OwnershipInv'
<1>1. KeepsShape
  BY DEF StopByFence, KeepsShape, store, ghost
<1>2. Labels
  BY DEF StopByFence, Labels, Goto, Leave, OwnershipInv, TypeInv, TypeOK, TaskMemory, PreRun, Beating, Working,
         store, ghost
<1>3. QED
  BY <1>1, <1>2, LocalOwnership, LocalAcked DEF StopByFence

\* The monitor's join branch (run_flow) keeps OwnershipInv.
LEMMA JoinWorkerOwns == ASSUME OwnershipInv, TypeInv', NEW a \in Attempt, JoinWorker(a) PROVE OwnershipInv'
<1>1. KeepsShape
  BY DEF JoinWorker, KeepsShape, store, ghost
<1>2. Labels
  BY DEF JoinWorker, Labels, Goto, Leave, OwnershipInv, TypeInv, TypeOK, TaskMemory, PreRun, Beating, Working,
         store, ghost
<1>3. QED
  BY <1>1, <1>2, LocalOwnership, LocalAcked DEF JoinWorker

\* The monitor's lifetime branch (run_flow) keeps OwnershipInv.
LEMMA TimeOutWorkerOwns == ASSUME OwnershipInv, TypeInv', NEW a \in Attempt, TimeOutWorker(a) PROVE OwnershipInv'
<1>1. KeepsShape
  BY DEF TimeOutWorker, KeepsShape, store, ghost
<1>2. Labels
  BY DEF TimeOutWorker, Labels, Goto, Leave, OwnershipInv, TypeInv, TypeOK, TaskMemory, PreRun, Beating, Working,
         store, ghost
<1>3. QED
  BY <1>1, <1>2, LocalOwnership, LocalAcked DEF TimeOutWorker

\* A heartbeat renews leases only.
LEMMA HeartbeatTxOwns == ASSUME OwnershipInv, TypeInv', NEW a \in Attempt, HeartbeatTx(a) PROVE OwnershipInv'
<1>1. KeepsShape
  <2>1. ledger' = ledger \/ ledger' = [ledger EXCEPT ![KeyOf(a)].lease = now + LeaseTTL]
    BY DEF HeartbeatTx, store
  <2>2. runs' = runs \/ runs' = [runs EXCEPT ![a].lease = now + LeaseTTL]
    BY DEF HeartbeatTx, store
  <2>3. \A k \in Key : /\ ledger'[k].st = ledger[k].st /\ ledger'[k].att = ledger[k].att
                       /\ ledger'[k].body = ledger[k].body
    <3>1. CASE ledger' = [ledger EXCEPT ![KeyOf(a)].lease = now + LeaseTTL]
      BY <3>1, ReqType DEF OwnershipInv, TypeInv, TypeOK, LedgerRow
    <3>2. QED
      BY <2>1, <3>1
  <2>4. \A b \in Attempt : runs'[b].st = runs[b].st
    BY <2>2 DEF OwnershipInv, TypeInv, TypeOK, RunRecord
  <2>5. QED
    BY <2>3, <2>4 DEF HeartbeatTx, KeepsShape, ghost
<1>2. Labels
  BY DEF HeartbeatTx, Labels, OwnershipInv, TypeInv, TypeOK, TaskMemory, ghost
<1>3. QED
  BY <1>1, <1>2, LocalOwnership, LocalAcked DEF HeartbeatTx

\* A replayable row justifies a 200 that names its owner.
LEMMA ReplayIsJustified ==
  ASSUME OwnershipInv, NEW k \in Key, Replayable(ledger[k])
  PROVE  LET r == ledger[k].att IN
         /\ r \in Attempt /\ KeyOf(r) = k
         /\ Linked(r) /\ Row(r).st # "claimed"
         /\ runs[r].st # "absent" \/ r \in deleted
<1> DEFINE r == ledger[k].att
<1>1. r \in Attempt /\ KeyOf(r) = k
  BY DEF OwnershipInv, TypeInv, RowsNamed, Replayable
<1>2. Linked(r) /\ Row(r) = ledger[k]
  BY <1>1 DEF Linked, Row, Replayable
<1>3. QED
  BY <1>1, <1>2 DEF OwnershipInv, RowFollowsRun, Replayable

\* The request and its lookup (run_flow) keeps OwnershipInv.
LEMMA RequestOwns == ASSUME OwnershipInv, TypeInv', NEW a \in Attempt, Request(a) PROVE OwnershipInv'
<1>1. KeepsShape
  BY DEF Request, KeepsShape, store, ghost
<1>2. Labels
  BY DEF Request, Labels, Goto, Leave, OwnershipInv, Unclaimed, TypeInv, TypeOK, PreRun, Beating, Working, ghost
<1>3. AckedKept'
  <2>1. CASE acked' = acked
    BY <1>1, <2>1, LocalAcked
  <2>2. CASE Lookup(a) # "replay" /\ acked' = [acked EXCEPT ![a] = {}]
    BY <1>1, <2>2, AckedStep DEF OwnershipInv, TypeInv, TypeOK
  <2>3. CASE Lookup(a) = "replay" /\ acked' = [acked EXCEPT ![a] = {Row(a).att}]
    <3>1. Replayable(ledger[KeyOf(a)])
      BY <2>3 DEF Lookup, Row
    <3>2. \A b \in Attempt : \A x \in acked'[b] : x \in acked[b] \/ (b = a /\ x = ledger[KeyOf(a)].att)
      BY <2>3 DEF OwnershipInv, TypeInv, TypeOK, Row
    <3>3. QED
      BY <1>1, <3>1, <3>2, ReqType, ReplayIsJustified, AckedStep DEF Justified
  <2>4. QED
    BY <2>1, <2>2, <2>3 DEF Request
<1>4. QED
  BY <1>1, <1>2, <1>3, LocalOwnership

\* The worker's read-back (execute_crew_from_path_with_events) keeps
\* OwnershipInv.
LEMMA ConfirmIntentOwns ==
  ASSUME OwnershipInv, TypeInv', NEW a \in Attempt, ConfirmIntent(a) PROVE OwnershipInv'
<1>1. KeepsShape
  BY DEF ConfirmIntent, KeepsShape, store, ghost
<1>2. Labels
  BY DEF ConfirmIntent, Labels, Goto, EndWorker, OwnershipInv, TypeInv, TypeOK, TaskMemory, PreRun, Beating,
         Working, ghost
<1>3. AckedKept'
  <2>1. CASE acked' = acked
    BY <1>1, <2>1, LocalAcked
  <2>2. CASE Linked(a) /\ Row(a).st = "running" /\ acked' = [acked EXCEPT ![a] = {a}]
    <3>1. runs[a].st = "running"
      BY <2>2 DEF OwnershipInv, RowFollowsRun
    <3>2. \A b \in Attempt : \A x \in acked'[b] : x \in acked[b] \/ (b = a /\ x = a)
      BY <2>2 DEF OwnershipInv, TypeInv, TypeOK
    <3>3. QED
      BY <1>1, <2>2, <3>1, <3>2, AckedStep DEF Justified
  <2>3. QED
    BY <2>1, <2>2 DEF ConfirmIntent
<1>4. QED
  BY <1>1, <1>2, <1>3, LocalOwnership

\* A replica's lifecycle touches drain marks, phases and labels only.
LEMMA LifecycleOwns ==
  ASSUME OwnershipInv, TypeInv', NEW i \in Instance, LifecycleStep(i) PROVE OwnershipInv'
<1>1. KeepsShape
  <2>1. CASE FenceOwner(i)
    BY <2>1 DEF FenceOwner, DrainedLedger, KeepsShape, ghost, OwnershipInv, TypeInv, TypeOK, LedgerRow
  <2>2. CASE BeginFencing(i) \/ MarkStopping(i) \/ Crash(i)
    BY <2>2 DEF BeginFencing, MarkStopping, Crash, KeepsShape, store, ghost
  <2>3. QED
    BY <2>1, <2>2 DEF LifecycleStep
<1>2. Labels
  <2>1. CASE pc' = pc /\ mem' = mem
    BY <2>1 DEF LifecycleStep, BeginFencing, FenceOwner, MarkStopping, Crash, Labels, ghost
  <2>2. CASE Crash(i)
    BY <2>2 DEF Crash, Labels, PreRun, Beating, Working, OwnershipInv, TypeInv, TypeOK, ghost
  <2>3. QED
    BY <2>1, <2>2 DEF LifecycleStep, BeginFencing, FenceOwner, MarkStopping
<1>3. acked' = acked
  BY DEF LifecycleStep, BeginFencing, FenceOwner, MarkStopping, Crash
<1>4. QED
  BY <1>1, <1>2, <1>3, LocalOwnership, LocalAcked

\* A remote cancellation (request_run_cancellation) keeps OwnershipInv.
LEMMA CancelOwns == ASSUME OwnershipInv, TypeInv', NEW a \in Attempt, Cancel(a) PROVE OwnershipInv'
<1>1. KeepsShape
  BY ReqType DEF Cancel, KeepsShape, ghost, OwnershipInv, TypeInv, TypeOK, LedgerRow
<1>2. Labels
  BY DEF Cancel, Labels, ghost
<1>3. QED
  BY <1>1, <1>2, LocalOwnership, LocalAcked DEF Cancel

----------------------------------------------------------------------------
\* The steps that create, settle, remove or record.

\* What insert_run_intent does to the rows and the runs.
LEMMA IntentEffect ==
  ASSUME OwnershipInv, NEW a \in Attempt, SaveIntent(a)
  PROVE  /\ \A b \in Attempt \ {a} :
              /\ Linked(b)' <=> Linked(b)
              /\ Linked(b) => Row(b)' = Row(b)
              /\ runs'[b] = runs[b]
         /\ Linked(a)' <=> Linked(a)
         /\ Row(a)'.body = Row(a).body
         /\ IF IntentVerdict(a) = "saved"
            THEN /\ runs'[a].st = "running"
                 /\ Linked(a) => \/ Row(a)'.st = "running"
                                 \/ runs[a].st = "running" /\ Row(a)'.st = Row(a).st
            ELSE Row(a)' = Row(a) /\ runs'[a] = runs[a]
<1>1. CASE IntentVerdict(a) # "saved"
  BY <1>1 DEF SaveIntent, store, Linked, Row, KeyOf
<1>2. CASE IntentVerdict(a) = "saved" /\ Maps(a)
  <2>1. ledger' = [ledger EXCEPT ![KeyOf(a)].st = "running", ![KeyOf(a)].lease = now + LeaseTTL]
    BY <1>2 DEF SaveIntent
  <2>2. runs' = [runs EXCEPT ![a] = [st |-> "running", lease |-> now + LeaseTTL]]
    BY <1>2 DEF SaveIntent
  <2>3. Linked(a) /\ Row(a).st = "claimed"
    BY <1>2 DEF Maps
  <2>4. /\ ledger'[KeyOf(a)].st = "running" /\ ledger'[KeyOf(a)].att = ledger[KeyOf(a)].att
        /\ ledger'[KeyOf(a)].body = ledger[KeyOf(a)].body
        /\ \A k \in Key \ {KeyOf(a)} : ledger'[k] = ledger[k]
    BY <2>1, ReqType DEF OwnershipInv, TypeInv, TypeOK, LedgerRow
  <2>5. runs'[a].st = "running" /\ \A b \in Attempt \ {a} : runs'[b] = runs[b]
    BY <2>2 DEF OwnershipInv, TypeInv, TypeOK
  <2>6. \A b \in Attempt \ {a} : (Linked(b)' <=> Linked(b)) /\ (Linked(b) => Row(b)' = Row(b))
    BY <2>3, <2>4, ReqType DEF Linked, Row, KeyOf
  <2>7. QED
    BY <1>2, <2>3, <2>4, <2>5, <2>6 DEF Linked, Row, KeyOf
<1>3. CASE IntentVerdict(a) = "saved" /\ ~Maps(a)
  <2>1. ledger' = ledger /\ runs' = [runs EXCEPT ![a] = [st |-> "running", lease |-> now + LeaseTTL]]
    BY <1>3 DEF SaveIntent
  <2>2. Linked(a) => runs[a].st = "running"
    BY <1>3 DEF IntentVerdict, Hydrates
  <2>3. runs'[a].st = "running" /\ \A b \in Attempt \ {a} : runs'[b] = runs[b]
    BY <2>1 DEF OwnershipInv, TypeInv, TypeOK
  <2>4. QED
    BY <1>3, <2>1, <2>2, <2>3 DEF Linked, Row, KeyOf
<1>4. QED
  BY <1>1, <1>2, <1>3

\* An intent saved by the owner's worker or monitor keeps the invariant: the
\* label of the attempt stays past its gate.
LEMMA IntentOwns ==
  ASSUME OwnershipInv, TypeInv', NEW a \in Attempt, SaveIntent(a),
         pc[a] \in {"executing", "accepted", "fallback"},
         IF IntentVerdict(a) = "saved" THEN pc'[a] \in {"intended", "accepted", "stopped"}
         ELSE \/ pc'[a] \in {"ended", "stopped"}
              \/ pc[a] = "fallback" /\ pc'[a] = "recorded" /\ mem'[a].mark,
         \A b \in Attempt \ {a} : pc'[b] = pc[b] /\ mem'[b] = mem[b],
         UNCHANGED <<acked, ran, freed, deleted>>
  PROVE  OwnershipInv'
<1>1. Unclaimed'
  BY IntentEffect DEF OwnershipInv, Unclaimed
<1>2. ClaimHeld'
  <2>1. pc[a] \in Beating
    BY DEF Beating, Working
  <2>2. QED
    BY <2>1, IntentEffect DEF OwnershipInv, ClaimHeld
<1>3. GateClosed'
  BY DEF OwnershipInv, GateClosed, PreRun
<1>4. RowFollowsRun'
  <2>1. SUFFICES ASSUME NEW b \in Attempt, Linked(b)'
                 PROVE  /\ Row(b)'.st = "claimed" => runs'[b].st = "absent"
                        /\ Row(b)'.st = "running" => /\ runs'[b].st = "running"
                                                     /\ pc'[b] \notin PreRun \cup {"done", "recorded"}
                        /\ Row(b)'.st = "completed" =>
                              /\ runs'[b].st # "running"
                              /\ Row(b)'.body => runs'[b].st # "absent" \/ b \in deleted'
    BY DEF RowFollowsRun
  <2>2. CASE b # a
    BY <2>1, <2>2, IntentEffect DEF OwnershipInv, RowFollowsRun
  <2>3. CASE b = a
    BY <2>1, <2>3, IntentEffect DEF OwnershipInv, RowFollowsRun, MonitorKnows, PreRun
  <2>4. QED
    BY <2>2, <2>3
<1>5. MonitorKnows'
  BY IntentEffect DEF OwnershipInv, MonitorKnows
<1>6. AckedKept'
  <2>1. SUFFICES ASSUME NEW b \in Attempt, NEW r \in acked[b]
                 PROVE  /\ KeyOf(r) = KeyOf(b)
                        /\ r \in freed \/ (Linked(r)' /\ Row(r)'.st # "claimed")
                        /\ runs'[r].st # "absent" \/ r \in deleted
    BY DEF AckedKept, KeyOf
  <2>2. r \in Attempt
    BY DEF OwnershipInv, TypeInv, TypeOK
  <2>3. CASE r # a
    BY <2>2, <2>3, IntentEffect DEF OwnershipInv, AckedKept
  <2>4. CASE r = a
    BY <2>4, IntentEffect DEF OwnershipInv, AckedKept
  <2>5. QED
    BY <2>3, <2>4
<1>7. QED
  BY <1>1, <1>2, <1>3, <1>4, <1>5, <1>6 DEF OwnershipInv

\* The provisional intent keeps OwnershipInv.
LEMMA ProvisionalIntentOwns ==
  ASSUME OwnershipInv, TypeInv', NEW a \in Attempt, ProvisionalIntent(a) PROVE OwnershipInv'
<1>1. IF IntentVerdict(a) = "saved" THEN pc'[a] = "intended" ELSE pc'[a] = "ended"
  BY DEF ProvisionalIntent, EndWorker, Goto, OwnershipInv, TypeInv, TypeOK
<1>2. \A b \in Attempt \ {a} : pc'[b] = pc[b] /\ mem'[b] = mem[b]
  BY DEF ProvisionalIntent, EndWorker, Goto, OwnershipInv, TypeInv, TypeOK
<1>3. QED
  BY <1>1, <1>2, IntentOwns DEF ProvisionalIntent, ghost

\* Crew:run()'s intent keeps OwnershipInv.
LEMMA CrewIntentOwns == ASSUME OwnershipInv, TypeInv', NEW a \in Attempt, CrewIntent(a) PROVE OwnershipInv'
<1>1. IF IntentVerdict(a) = "saved" THEN pc'[a] = "accepted" ELSE pc'[a] = "ended"
  BY DEF CrewIntent, EndWorker, Goto, OwnershipInv, TypeInv, TypeOK
<1>2. \A b \in Attempt \ {a} : pc'[b] = pc[b] /\ mem'[b] = mem[b]
  BY DEF CrewIntent, EndWorker, Goto, OwnershipInv, TypeInv, TypeOK
<1>3. QED
  BY <1>1, <1>2, IntentOwns DEF CrewIntent, ghost

\* The finaliser's fallback intent (persist_terminal_outcome) keeps
\* OwnershipInv.
LEMMA FallbackIntentOwns ==
  ASSUME OwnershipInv, TypeInv', NEW a \in Attempt, FallbackIntent(a) PROVE OwnershipInv'
<1>1. \/ pc'[a] = "stopped"
      \/ IntentVerdict(a) # "saved" /\ pc'[a] = "recorded" /\ mem'[a].mark
  BY DEF FallbackIntent, Goto, OwnershipInv, TypeInv, TypeOK, TaskMemory
<1>2. \A b \in Attempt \ {a} : pc'[b] = pc[b] /\ mem'[b] = mem[b]
  BY DEF FallbackIntent, Goto, OwnershipInv, TypeInv, TypeOK
<1>3. QED
  BY <1>1, <1>2, IntentOwns DEF FallbackIntent, ghost

\* Settling the rows of the runs in S.
LEMMA SettleEffect ==
  ASSUME OwnershipInv, NEW S, ledger' = SettleRows(S), NEW b \in Attempt
  PROVE  /\ Linked(b)' <=> Linked(b)
         /\ Linked(b) => /\ Row(b)'.body = Row(b).body
                         /\ IF b \in S THEN Row(b)'.st = "completed" ELSE Row(b)' = Row(b)
<1>1. ledger[KeyOf(b)] \in LedgerRow /\ KeyOf(b) \in Key
  BY ReqType DEF OwnershipInv, TypeInv, TypeOK
<1>2. ledger'[KeyOf(b)] = IF ledger[KeyOf(b)].att \in S THEN SettleRow(ledger[KeyOf(b)])
                          ELSE ledger[KeyOf(b)]
  BY <1>1 DEF SettleRows
<1>3. /\ SettleRow(ledger[KeyOf(b)]).att = ledger[KeyOf(b)].att
      /\ SettleRow(ledger[KeyOf(b)]).st =
            IF ledger[KeyOf(b)].st = "absent" THEN "absent" ELSE "completed"
  BY <1>1, SettledRow DEF OwnershipInv, TypeInv
<1>4. SettleRow(ledger[KeyOf(b)]).body = ledger[KeyOf(b)].body
  BY <1>1 DEF SettleRow, LedgerRow
<1>5. QED
  BY <1>2, <1>3, <1>4 DEF Linked, Row, KeyOf

\* Settling the rows of a set of terminal runs keeps OwnershipInv.
LEMMA SettleOwns ==
  ASSUME OwnershipInv, TypeInv', NEW S \in SUBSET Attempt, ledger' = SettleRows(S),
         \A b \in Attempt : IF b \in S THEN runs'[b].st \in Terminal ELSE runs'[b] = runs[b],
         \A b \in S : pc[b] \notin {"idle", "claiming"},
         \A b \in Attempt : pc'[b] = pc[b] \/ (b \in S /\ pc[b] = "stopped" /\ pc'[b] = "recorded"),
         UNCHANGED <<mem, acked, ran, freed, deleted>>
  PROVE  OwnershipInv'
<1>0. \A b \in S : runs'[b].st \notin {"absent", "running"}
  BY DEF Terminal
<1>1. Unclaimed'
  BY SettleEffect DEF OwnershipInv, Unclaimed
<1>2. ClaimHeld'
  BY SettleEffect DEF OwnershipInv, ClaimHeld, Beating, Working
<1>3. GateClosed'
  BY DEF OwnershipInv, GateClosed, PreRun
<1>4. RowFollowsRun'
  <2>1. SUFFICES ASSUME NEW b \in Attempt, Linked(b)'
                 PROVE  /\ Row(b)'.st = "claimed" => runs'[b].st = "absent"
                        /\ Row(b)'.st = "running" => /\ runs'[b].st = "running"
                                                     /\ pc'[b] \notin PreRun \cup {"done", "recorded"}
                        /\ Row(b)'.st = "completed" =>
                              /\ runs'[b].st # "running"
                              /\ Row(b)'.body => runs'[b].st # "absent" \/ b \in deleted'
    BY DEF RowFollowsRun
  <2>2. CASE b \in S
    BY <1>0, <2>1, <2>2, SettleEffect
  <2>3. CASE b \notin S
    BY <2>1, <2>3, SettleEffect DEF OwnershipInv, RowFollowsRun
  <2>4. QED
    BY <2>2, <2>3
<1>5. MonitorKnows'
  BY <1>0 DEF OwnershipInv, MonitorKnows
<1>6. AckedKept'
  <2>1. SUFFICES ASSUME NEW b \in Attempt, NEW r \in acked[b]
                 PROVE  /\ KeyOf(r) = KeyOf(b)
                        /\ r \in freed \/ (Linked(r)' /\ Row(r)'.st # "claimed")
                        /\ runs'[r].st # "absent" \/ r \in deleted
    BY DEF AckedKept, KeyOf
  <2>2. r \in Attempt
    BY DEF OwnershipInv, TypeInv, TypeOK
  <2>3. QED
    BY <1>0, <2>2, SettleEffect DEF OwnershipInv, AckedKept
<1>7. QED
  BY <1>1, <1>2, <1>3, <1>4, <1>5, <1>6 DEF OwnershipInv

\* The terminal write (finish_run) keeps OwnershipInv.
LEMMA FinishRunOwns == ASSUME OwnershipInv, TypeInv', NEW a \in Attempt, FinishRun(a) PROVE OwnershipInv'
<1>1. CASE runs[a].st = "absent"
  <2>1. KeepsShape
    BY <1>1 DEF FinishRun, KeepsShape, store, ghost
  <2>2. Labels
    BY <1>1 DEF FinishRun, Labels, Goto, OwnershipInv, TypeInv, TypeOK, PreRun, Beating, Working, ghost
  <2>3. QED
    BY <2>1, <2>2, LocalOwnership, LocalAcked DEF FinishRun
<1>2. CASE runs[a].st # "absent"
  <2>1. runs' = [runs EXCEPT ![a] = FinishedRun(a)] /\ ledger' = SettleRows({a})
    BY <1>2 DEF FinishRun
  <2>2. FinishedRun(a).st \in Terminal
    <3>1. mem[a].status \in Terminal
      BY DEF FinishRun, OwnershipInv, TypeInv, TypeOK, TaskMemory
    <3>2. QED
      BY <1>2, <3>1 DEF FinishedRun, OwnershipInv, TypeInv, TypeOK, RunRecord, RunState
  <2>3. \A b \in Attempt : IF b \in {a} THEN runs'[b].st \in Terminal ELSE runs'[b] = runs[b]
    BY <2>1, <2>2 DEF OwnershipInv, TypeInv, TypeOK
  <2>4. pc[a] = "stopped" /\ \A b \in Attempt : pc'[b] = IF b = a THEN "recorded" ELSE pc[b]
    BY <1>2 DEF FinishRun, Goto, OwnershipInv, TypeInv, TypeOK
  <2>5. QED
    BY <2>1, <2>3, <2>4, SettleOwns DEF FinishRun, ghost
<1>3. QED
  BY <1>1, <1>2

\* The reconciler (reconcile_abandoned_runs) keeps OwnershipInv.
LEMMA ReconcileOwns == ASSUME OwnershipInv, TypeInv', Reconcile PROVE OwnershipInv'
<1> DEFINE S == DeadClaims \cup DeadRuns
<1>1. S \in SUBSET Attempt
  BY DEF DeadClaims, DeadRuns
<1>2. \A b \in S : pc[b] \notin {"idle", "claiming"}
  BY DEF DeadClaims, DeadRuns, OwnershipInv, Unclaimed
<1>3. \A b \in Attempt : IF b \in S THEN runs'[b].st \in Terminal ELSE runs'[b] = runs[b]
  BY DEF Reconcile, Terminal
<1>4. QED
  BY <1>1, <1>2, <1>3, SettleOwns DEF Reconcile, ghost

\* Deleting a run (delete_run) keeps OwnershipInv.
LEMMA DeleteRunOwns == ASSUME OwnershipInv, TypeInv', NEW a \in Attempt, DeleteRun(a) PROVE OwnershipInv'
<1>1. /\ runs'[a].st = "absent" /\ a \in deleted'
      /\ \A b \in Attempt \ {a} : runs'[b] = runs[b]
      /\ deleted \subseteq deleted'
  BY DEF DeleteRun, NoRun, OwnershipInv, TypeInv, TypeOK
<1>2. \A b \in Attempt : (Linked(b)' <=> Linked(b)) /\ Row(b)' = Row(b)
  BY DEF DeleteRun, Linked, Row, KeyOf
<1>3. runs[a].st \notin {"absent", "running"}
  BY DEF DeleteRun, Terminal
<1>4. Unclaimed' /\ ClaimHeld' /\ GateClosed' /\ MonitorKnows'
  BY <1>1, <1>2, <1>3 DEF DeleteRun, OwnershipInv, Unclaimed, ClaimHeld, GateClosed, MonitorKnows
<1>5. RowFollowsRun'
  BY <1>1, <1>2, <1>3 DEF DeleteRun, OwnershipInv, RowFollowsRun
<1>6. AckedKept'
  BY <1>1, <1>2 DEF DeleteRun, OwnershipInv, AckedKept, TypeInv, TypeOK
<1>7. QED
  BY <1>4, <1>5, <1>6 DEF OwnershipInv

\* Closing the ledger row (complete_run_idempotency) keeps OwnershipInv.
LEMMA CloseLedgerOwns ==
  ASSUME OwnershipInv, TypeInv', NEW a \in Attempt, CloseLedger(a) PROVE OwnershipInv'
<1>1. PICK fits \in BOOLEAN :
        ledger' = IF Linked(a) /\ InFlight(Row(a))
                  THEN [ledger EXCEPT ![KeyOf(a)] = ClosedRow(a, fits)] ELSE ledger
  BY DEF CloseLedger
<1>2. /\ pc[a] = "recorded" /\ pc'[a] = "done"
      /\ \A b \in Attempt \ {a} : pc'[b] = pc[b] /\ mem'[b] = mem[b]
      /\ UNCHANGED <<runs, acked, ran, freed, deleted>>
  BY DEF CloseLedger, Leave, Goto, ghost, OwnershipInv, TypeInv, TypeOK
<1>3. Row(a) \in LedgerRow
  BY ReqType DEF Row, OwnershipInv, TypeInv, TypeOK
<1>4. /\ ClosedRow(a, fits).att = Row(a).att
      /\ ClosedRow(a, fits).st = IF mem[a].mark THEN "indeterminate" ELSE "completed"
  BY <1>3 DEF ClosedRow, Indeterminate, LedgerRow
<1>5. \A b \in Attempt \ {a} : (Linked(b)' <=> Linked(b)) /\ (Linked(b) => Row(b)' = Row(b))
  BY <1>1, <1>4, ReqType DEF Linked, Row, KeyOf, OwnershipInv, TypeInv, TypeOK
<1>6. /\ Linked(a)' <=> Linked(a)
      /\ Linked(a) => \/ Row(a)' = Row(a) /\ ~InFlight(Row(a))
                      \/ mem[a].mark /\ Row(a)'.st = "indeterminate"
                      \/ ~mem[a].mark /\ Row(a)'.st = "completed"
  BY <1>1, <1>4, ReqType DEF Linked, Row, KeyOf, OwnershipInv, TypeInv, TypeOK
<1>7. Unclaimed' /\ ClaimHeld' /\ GateClosed' /\ MonitorKnows'
  BY <1>2, <1>5, <1>6 DEF OwnershipInv, Unclaimed, ClaimHeld, GateClosed, MonitorKnows, PreRun, Beating, Working
<1>8. RowFollowsRun'
  <2>1. \A b \in Attempt \ {a} : Linked(b)' =>
          /\ Row(b)'.st = "claimed" => runs'[b].st = "absent"
          /\ Row(b)'.st = "running" => /\ runs'[b].st = "running"
                                       /\ pc'[b] \notin PreRun \cup {"done", "recorded"}
          /\ Row(b)'.st = "completed" =>
                /\ runs'[b].st # "running"
                /\ Row(b)'.body => runs'[b].st # "absent" \/ b \in deleted'
    BY <1>2, <1>5 DEF OwnershipInv, RowFollowsRun
  <2>2. Linked(a)' =>
          /\ Row(a)'.st = "claimed" => runs'[a].st = "absent"
          /\ Row(a)'.st # "running"
          /\ Row(a)'.st = "completed" =>
                /\ runs'[a].st # "running"
                /\ Row(a)'.body => runs'[a].st # "absent" \/ a \in deleted'
    BY <1>2, <1>6 DEF OwnershipInv, RowFollowsRun, MonitorKnows, InFlight
  <2>3. QED
    BY <2>1, <2>2 DEF RowFollowsRun
<1>9. AckedKept'
  <2>1. \A b \in Attempt : \A r \in acked[b] : r \in Attempt
    BY DEF OwnershipInv, TypeInv, TypeOK
  <2>2. \A r \in Attempt : Linked(r) /\ Row(r).st # "claimed" => Linked(r)' /\ Row(r)'.st # "claimed"
    BY <1>5, <1>6
  <2>3. QED
    BY <1>2, <2>1, <2>2 DEF OwnershipInv, AckedKept
<1>10. QED
  BY <1>7, <1>8, <1>9 DEF OwnershipInv

\* Giving a claim back (release_idempotency_record) keeps OwnershipInv.
LEMMA ReleaseOwns == ASSUME OwnershipInv, TypeInv', NEW a \in Attempt, Release(a) PROVE OwnershipInv'
<1>1. /\ pc[a] = "releasing" /\ pc'[a] = "done"
      /\ \A b \in Attempt \ {a} : pc'[b] = pc[b] /\ mem'[b] = mem[b]
      /\ UNCHANGED <<runs, acked, ran, freed, deleted>>
  BY DEF Release, Leave, Goto, ghost, OwnershipInv, TypeInv, TypeOK
<1>2. \/ ledger' = ledger
      \/ ledger' = [ledger EXCEPT ![KeyOf(a)] = NoRow] /\ Linked(a) /\ InFlight(Row(a))
  BY DEF Release, ReleasedLedger
<1>3. \A b \in Attempt \ {a} : (Linked(b)' <=> Linked(b)) /\ (Linked(b) => Row(b)' = Row(b))
  BY <1>2, ReqType DEF Linked, Row, KeyOf, NoRow, OwnershipInv, TypeInv, TypeOK
<1>4. Linked(a)' => Linked(a) /\ Row(a)' = Row(a)
  BY <1>2, ReqType DEF Linked, Row, KeyOf, NoRow, OwnershipInv, TypeInv, TypeOK
<1>5. a \notin ran /\ (Linked(a) => Row(a).st # "running")
  BY <1>1 DEF OwnershipInv, GateClosed, RowFollowsRun, PreRun
<1>6. Unclaimed' /\ ClaimHeld' /\ GateClosed' /\ MonitorKnows'
  BY <1>1, <1>3, <1>5 DEF OwnershipInv, Unclaimed, ClaimHeld, GateClosed, MonitorKnows, PreRun, Beating, Working
<1>7. RowFollowsRun'
  BY <1>1, <1>3, <1>4, <1>5 DEF OwnershipInv, RowFollowsRun
<1>8. AckedKept'
  <2>1. \A b \in Attempt : \A r \in acked[b] : r \in Attempt
    BY DEF OwnershipInv, TypeInv, TypeOK
  <2>2. Linked(a) /\ Row(a).st # "claimed" => Linked(a)' /\ Row(a)'.st # "claimed"
    BY <1>2, <1>5 DEF InFlight, Linked, Row, KeyOf
  <2>3. QED
    BY <1>1, <1>3, <2>1, <2>2 DEF OwnershipInv, AckedKept
<1>9. QED
  BY <1>6, <1>7, <1>8 DEF OwnershipInv

\* The sweep takes the row of an attempt only into freed.
LEMMA PruneEffect ==
  ASSUME OwnershipInv, NEW b \in Attempt, NEW L,
         L[KeyOf(b)] = PrunedLedger[KeyOf(b)]
  PROVE  \/ L[KeyOf(b)] = Row(b)
         \/ L[KeyOf(b)] = NoRow /\ (Linked(b) => b \in PrunedAttempts)
BY Pruned, ReqType DEF OwnershipInv, Row, Linked

\* A sweep or a refused claim: rows are kept, freed or made indeterminate, and
\* at most a claiming attempt leaves, with a justified answer.
LEMMA SweepOwns ==
  ASSUME OwnershipInv, TypeInv', UNCHANGED <<runs, ran, deleted>>, freed \subseteq freed',
         \A b \in Attempt :
            /\ Linked(b)' => Linked(b) /\ (Row(b)' = Row(b) \/ Row(b)'.st = "indeterminate")
            /\ Linked(b) => Linked(b)' \/ b \in freed',
         \A b \in Attempt :
            (pc'[b] = pc[b] /\ mem'[b] = mem[b]) \/ (pc[b] = "claiming" /\ pc'[b] = "done"),
         \A b \in Attempt : \A r \in acked'[b] : r \in acked[b] \/ Justified(b, r)
  PROVE  OwnershipInv'
<1>1. Unclaimed' /\ ClaimHeld' /\ MonitorKnows'
  BY DEF OwnershipInv, Unclaimed, ClaimHeld, MonitorKnows, Beating, Working
<1>2. GateClosed'
  BY DEF OwnershipInv, GateClosed, PreRun
<1>3. RowFollowsRun'
  BY DEF OwnershipInv, RowFollowsRun, Unclaimed
<1>4. AckedKept'
  <2>1. SUFFICES ASSUME NEW b \in Attempt, NEW r \in acked'[b]
                 PROVE  /\ KeyOf(r) = KeyOf(b)
                        /\ r \in freed' \/ (Linked(r)' /\ Row(r)'.st # "claimed")
                        /\ runs'[r].st # "absent" \/ r \in deleted'
    BY DEF AckedKept, KeyOf
  <2>2. Justified(b, r)
    BY DEF Justified, OwnershipInv, AckedKept, TypeInv, TypeOK
  <2>3. QED
    BY <2>2 DEF Justified
<1>5. QED
  BY <1>1, <1>2, <1>3, <1>4 DEF OwnershipInv

\* The retention sweep keeps OwnershipInv.
LEMMA PruneOwns == ASSUME OwnershipInv, TypeInv', Prune PROVE OwnershipInv'
<1>1. UNCHANGED <<runs, pc, mem, acked, ran, deleted>> /\ freed' = freed \cup PrunedAttempts
  BY DEF Prune
<1>2. ASSUME NEW b \in Attempt
      PROVE  Row(b)' = Row(b) \/ (Row(b)' = NoRow /\ (Linked(b) => b \in freed'))
  <2>1. ledger'[KeyOf(b)] = PrunedLedger[KeyOf(b)]
    BY DEF Prune
  <2>2. QED
    BY <1>1, <2>1, PruneEffect DEF Row, KeyOf
<1>3. \A b \in Attempt :
        /\ Linked(b)' => Linked(b) /\ (Row(b)' = Row(b) \/ Row(b)'.st = "indeterminate")
        /\ Linked(b) => Linked(b)' \/ b \in freed'
  BY <1>2 DEF Linked, NoRow
<1>4. QED
  BY <1>1, <1>3, SweepOwns

\* Claiming the key (claim_idempotency_record) keeps OwnershipInv.
LEMMA ClaimOwns == ASSUME OwnershipInv, TypeInv', NEW a \in Attempt, Claim(a) PROVE OwnershipInv'
<1> DEFINE k == KeyOf(a)
<1>1. /\ pc[a] = "claiming" /\ UNCHANGED <<runs, ran, deleted>>
      /\ freed' = freed \cup PrunedAttempts
  BY DEF Claim
<1>2. k \in Key /\ ~Linked(a) /\ runs[a].st = "absent" /\ a \notin ran
  BY <1>1, ReqType DEF OwnershipInv, Unclaimed, GateClosed, PreRun
<1>3. \A b \in Attempt \ {a} : pc'[b] = pc[b] /\ mem'[b] = mem[b]
  BY DEF Claim, ClaimNew, ClaimExisting, ClaimOverQuota, Leave, Goto, OwnershipInv, TypeInv, TypeOK
<1>4. CASE ClaimNew(a)
  <2>1. /\ ledger'[k].st = "claimed" /\ ledger'[k].att = a
        /\ \A j \in Key \ {k} : ledger'[j] = PrunedLedger[j]
        /\ PrunedLedger[k].st = "absent" /\ acked' = acked
    BY <1>2, <1>4, Pruned DEF ClaimNew, NoRow, OwnershipInv
  <2>2. pc'[a] \in {"claimed", "done"}
    BY <1>4 DEF ClaimNew, Leave, Goto, OwnershipInv, TypeInv, TypeOK
  <2>3. Linked(a)' /\ Row(a)'.st = "claimed"
    BY <2>1 DEF Linked, Row, KeyOf
  <2>4. ASSUME NEW b \in Attempt \ {a}
        PROVE  /\ Linked(b)' => Linked(b) /\ Row(b)' = Row(b)
               /\ Linked(b) => Linked(b)' \/ b \in freed'
    <3>1. CASE KeyOf(b) = k
      <4>1. PrunedLedger[KeyOf(b)] = Row(b) \/ (Linked(b) => b \in PrunedAttempts)
        BY PruneEffect
      <4>2. Linked(b) => b \in freed'
        BY <1>1, <2>1, <3>1, <4>1 DEF Linked
      <4>3. ~Linked(b)'
        BY <2>1, <3>1 DEF Linked, Row, KeyOf
      <4>4. QED
        BY <4>2, <4>3
    <3>2. CASE KeyOf(b) # k
      <4>1. ledger'[KeyOf(b)] = PrunedLedger[KeyOf(b)]
        BY <2>1, <3>2, ReqType
      <4>2. Row(b)' = Row(b) \/ (Row(b)' = NoRow /\ (Linked(b) => b \in freed'))
        BY <1>1, <4>1, PruneEffect DEF Row, KeyOf
      <4>3. QED
        BY <4>2 DEF Linked, NoRow
    <3>3. QED
      BY <3>1, <3>2
  <2>5. Unclaimed' /\ ClaimHeld' /\ GateClosed' /\ MonitorKnows'
    BY <1>1, <1>2, <1>3, <2>2, <2>3, <2>4
       DEF OwnershipInv, Unclaimed, ClaimHeld, GateClosed, MonitorKnows, PreRun
  <2>6. RowFollowsRun'
    BY <1>1, <1>2, <1>3, <2>3, <2>4 DEF OwnershipInv, RowFollowsRun
  <2>7. AckedKept'
    <3>1. \A b \in Attempt : \A r \in acked[b] : r \in Attempt
      BY DEF OwnershipInv, TypeInv, TypeOK
    <3>2. \A b \in Attempt : \A r \in acked[b] : r = a => a \in freed
      BY <1>2 DEF OwnershipInv, AckedKept
    <3>3. QED
      BY <1>1, <2>1, <2>4, <3>1, <3>2 DEF OwnershipInv, AckedKept
  <2>8. QED
    BY <2>5, <2>6, <2>7 DEF OwnershipInv
<1>5. CASE ClaimExisting(a)
  <2>1. PrunedLedger[k].st # "absent" /\ PrunedLedger[k] = ledger[k] /\ ledger[k] \in LedgerRow
    BY <1>2, <1>5, Pruned DEF ClaimExisting, NoRow, OwnershipInv, TypeInv, TypeOK
  <2>2. /\ ledger'[k] = ledger[k] \/ ledger'[k] = Indeterminate(ledger[k])
        /\ \A j \in Key \ {k} : ledger'[j] = PrunedLedger[j]
    BY <1>2, <1>5, <2>1, Pruned DEF ClaimExisting, OwnershipInv
  <2>3. /\ Indeterminate(ledger[k]).att = ledger[k].att
        /\ Indeterminate(ledger[k]).st = "indeterminate"
    BY <2>1 DEF Indeterminate, LedgerRow
  <2>4. ASSUME NEW b \in Attempt
        PROVE  /\ Linked(b)' => Linked(b) /\ (Row(b)' = Row(b) \/ Row(b)'.st = "indeterminate")
               /\ Linked(b) => Linked(b)' \/ b \in freed'
    <3>1. CASE KeyOf(b) = k
      BY <2>1, <2>2, <2>3, <3>1 DEF Linked, Row, KeyOf
    <3>2. CASE KeyOf(b) # k
      <4>1. ledger'[KeyOf(b)] = PrunedLedger[KeyOf(b)]
        BY <2>2, <3>2, ReqType
      <4>2. Row(b)' = Row(b) \/ (Row(b)' = NoRow /\ (Linked(b) => b \in freed'))
        BY <1>1, <4>1, PruneEffect DEF Row, KeyOf
      <4>3. QED
        BY <4>2 DEF Linked, NoRow
    <3>3. QED
      BY <3>1, <3>2
  <2>5. \A b \in Attempt : \A r \in acked'[b] : r \in acked[b] \/ Justified(b, r)
    <3>1. \A b \in Attempt \ {a} : acked'[b] = acked[b]
      BY <1>5 DEF ClaimExisting, OwnershipInv, TypeInv, TypeOK
    <3>2. \A r \in acked'[a] : r = ledger[k].att /\ Replayable(ledger[k])
      BY <1>5, <2>1 DEF ClaimExisting, OwnershipInv, TypeInv, TypeOK
    <3>3. QED
      BY <1>2, <3>1, <3>2, ReplayIsJustified DEF Justified
  <2>6. pc'[a] = "done"
    BY <1>5 DEF ClaimExisting, Leave, Goto, OwnershipInv, TypeInv, TypeOK
  <2>7. QED
    BY <1>1, <1>3, <2>4, <2>5, <2>6, SweepOwns
<1>6. CASE ClaimOverQuota(a)
  <2>1. ASSUME NEW b \in Attempt
        PROVE  Row(b)' = Row(b) \/ (Row(b)' = NoRow /\ (Linked(b) => b \in freed'))
    <3>1. ledger'[KeyOf(b)] = PrunedLedger[KeyOf(b)]
      BY <1>6 DEF ClaimOverQuota
    <3>2. QED
      BY <1>1, <3>1, PruneEffect DEF Row, KeyOf
  <2>2. \A b \in Attempt :
          /\ Linked(b)' => Linked(b) /\ (Row(b)' = Row(b) \/ Row(b)'.st = "indeterminate")
          /\ Linked(b) => Linked(b)' \/ b \in freed'
    BY <2>1 DEF Linked, NoRow
  <2>3. pc'[a] = "done" /\ acked' = acked
    BY <1>6 DEF ClaimOverQuota, Leave, Goto, OwnershipInv, TypeInv, TypeOK
  <2>4. QED
    BY <1>1, <1>3, <2>2, <2>3, SweepOwns
<1>7. QED
  BY <1>4, <1>5, <1>6 DEF Claim

----------------------------------------------------------------------------
\* The invariant, and what it gives.

\* OwnershipInv holds initially.
LEMMA OwnershipInit == Init => OwnershipInv
<1> SUFFICES ASSUME Init PROVE OwnershipInv
  OBVIOUS
<1>1. \A a \in Attempt : /\ pc[a] = "idle" /\ ~Linked(a) /\ runs[a].st = "absent"
                         /\ acked[a] = {} /\ a \notin ran
  BY ReqType DEF Init, Linked, Row, NoRow, NoRun
<1>2. Unclaimed /\ ClaimHeld /\ GateClosed /\ RowFollowsRun /\ MonitorKnows /\ AckedKept
  BY <1>1 DEF Unclaimed, ClaimHeld, GateClosed, RowFollowsRun, MonitorKnows, AckedKept, Beating, Working
<1>3. QED
  BY <1>2, InitType DEF OwnershipInv

\* Every step keeps OwnershipInv.
LEMMA OwnershipStep == OwnershipInv /\ [Next]_vars => OwnershipInv'
<1> SUFFICES ASSUME OwnershipInv, [Next]_vars PROVE OwnershipInv'
  OBVIOUS
<1>0. TypeInv'
  BY TypeStep DEF OwnershipInv
<1>1. ASSUME NEW a \in Attempt, Request(a) \/ HandlerStep(a) PROVE OwnershipInv'
  BY <1>0, <1>1, RequestOwns, ClaimOwns, ClaimTooLateOwns, RegisterOwns, RefuseRegistrationOwns,
     ReleaseOwns DEF HandlerStep
<1>2. ASSUME NEW a \in Attempt, HeartbeatStep(a) PROVE OwnershipInv'
  BY <1>0, <1>2, SendHeartbeatOwns, HeartbeatTxOwns, EstablishFenceOwns, ReceiveHeartbeatOwns,
     HeartbeatFailsOwns, FenceExpiresOwns DEF HeartbeatStep
<1>3. ASSUME NEW a \in Attempt, WorkerStep(a) PROVE OwnershipInv'
  BY <1>0, <1>3, AdmitOwns, ProvisionalIntentOwns, ConfirmIntentOwns, CrewIntentOwns,
     WorkerReturnsOwns, AbortWorkerOwns DEF WorkerStep
<1>4. ASSUME NEW a \in Attempt, MonitorStep(a) PROVE OwnershipInv'
  BY <1>0, <1>4, StopByFenceOwns, JoinWorkerOwns, TimeOutWorkerOwns, FinishRunOwns,
     FallbackIntentOwns, CloseLedgerOwns DEF MonitorStep
<1>5. CASE PeerStep
  BY <1>0, <1>5, ReconcileOwns, PruneOwns, CancelOwns, DeleteRunOwns DEF PeerStep
<1>6. CASE Tick \/ UNCHANGED vars
  <2>1. KeepsShape /\ Labels /\ acked' = acked
    BY <1>6 DEF Tick, vars, KeepsShape, Labels, store, ghost
  <2>2. QED
    BY <1>0, <2>1, LocalOwnership, LocalAcked
<1>7. QED
  BY <1>0, <1>1, <1>2, <1>3, <1>4, <1>5, <1>6, LifecycleOwns DEF Next

\* The ownership invariant holds in every reachable state.
THEOREM Ownership == Spec => []OwnershipInv
<1>1. QED
  BY OwnershipInit, OwnershipStep, PTL DEF Spec

\* A retry never executes the flow of its key twice while the row is retained,
\* with any number of replicas, keys and attempts (run_flow, admit_execution).
THEOREM ExecutesOnce == Spec => []OneExecutionPerKey
<1>1. OwnershipInv => OneExecutionPerKey
  <2>1. SUFFICES ASSUME OwnershipInv, NEW a \in ran, NEW b \in ran, a # b, KeyOf(a) = KeyOf(b),
                        a \notin freed, b \notin freed
                 PROVE  FALSE
    BY DEF OneExecutionPerKey
  <2>2. a \in Attempt /\ b \in Attempt
    BY <2>1 DEF OwnershipInv, TypeInv, TypeOK
  <2>3. Linked(a) /\ Linked(b)
    BY <2>1, <2>2 DEF OwnershipInv, ClaimHeld
  <2>4. QED
    BY <2>1, <2>3 DEF Linked, Row
<1>2. QED
  BY <1>1, Ownership, PTL

\* All 200 answers for a key name one run while its row is retained
\* (lookup_idempotency_record, claim_idempotency_record).
THEOREM RepliesAgree == Spec => []RepliesConverge
<1>1. OwnershipInv => RepliesConverge
  <2>1. SUFFICES ASSUME OwnershipInv, NEW a \in Attempt, NEW b \in Attempt, KeyOf(a) = KeyOf(b),
                        NEW r \in acked[a], NEW s \in acked[b], r \notin freed, s \notin freed
                 PROVE  r = s
    BY DEF RepliesConverge
  <2>2. KeyOf(r) = KeyOf(s) /\ Linked(r) /\ Linked(s)
    BY <2>1 DEF OwnershipInv, AckedKept
  <2>3. QED
    BY <2>2 DEF Linked, Row
<1>2. QED
  BY <1>1, Ownership, PTL

\* A 200 never names a run without a durable record
\* (execute_crew_from_path_with_events, materialize_expired_run_claim).
THEOREM AckedIsDurable == Spec => []AckedRunIsDurable
<1>1. OwnershipInv => AckedRunIsDurable
  BY DEF OwnershipInv, AckedKept, AckedRunIsDurable
<1>2. QED
  BY <1>1, Ownership, PTL

\* The ledger row and the run record of an attempt agree, whichever of the
\* finaliser, the reconciler and a racing claim wrote last (finish_run).
THEOREM LedgerFollowsRun == Spec => []LedgerMatchesRun
<1>1. OwnershipInv => LedgerMatchesRun
  <2>1. SUFFICES ASSUME OwnershipInv, NEW a \in Attempt, Linked(a)
                 PROVE  /\ runs[a].st \in Terminal => Settled(Row(a))
                        /\ runs[a].st = "running" => Row(a).st \in {"running", "indeterminate"}
    BY DEF LedgerMatchesRun
  <2>2. Row(a).st \in LedgerState \ {"absent"}
    BY <2>1, ReqType DEF OwnershipInv, TypeInv, TypeOK, LedgerRow, Linked, Row
  <2>3. QED
    BY <2>1, <2>2 DEF OwnershipInv, RowFollowsRun, LedgerState, Terminal, Settled
<1>2. QED
  BY <1>1, Ownership, PTL

\* No step rewrites a terminal status (finish_run's compare-and-set, the
\* reconciler's and insert_run_intent's conditions).
THEOREM TerminalStays == Spec => TerminalIsFinal
<1>1. OwnershipInv /\ [Next]_vars =>
        [\A a \in Attempt : runs[a].st \in Terminal => runs'[a].st \in {runs[a].st, "absent"}]_vars
  <2>1. SUFFICES ASSUME OwnershipInv, Next, NEW a \in Attempt, runs[a].st \in Terminal
                 PROVE  runs'[a].st \in {runs[a].st, "absent"}
    OBVIOUS
  <2>2. CASE runs' = runs
    BY <2>2
  <2>3. ASSUME NEW b \in Attempt, SaveIntent(b) PROVE runs'[a] = runs[a]
    <3>1. CASE b # a
      BY <2>1, <2>3, <3>1, IntentEffect
    <3>2. CASE b = a
      <4>1. IntentVerdict(a) # "saved"
        BY <2>1 DEF IntentVerdict, Hydrates, Terminal
      <4>2. QED
        BY <2>1, <2>3, <3>2, <4>1, IntentEffect
    <3>3. QED
      BY <3>1, <3>2
  <2>4. ASSUME NEW b \in Attempt, FinishRun(b) PROVE runs'[a] = runs[a]
    BY <2>1, <2>4 DEF FinishRun, FinishedRun, store, Terminal, OwnershipInv, TypeInv, TypeOK
  <2>5. CASE Reconcile
    BY <2>1, <2>5 DEF Reconcile, DeadClaims, DeadRuns, Terminal
  <2>6. ASSUME NEW b \in Attempt, DeleteRun(b) PROVE runs'[a].st \in {runs[a].st, "absent"}
    BY <2>6 DEF DeleteRun, NoRun, OwnershipInv, TypeInv, TypeOK
  <2>7. ASSUME NEW b \in Attempt, HeartbeatTx(b) PROVE runs'[a].st = runs[a].st
    <3>1. runs' = runs \/ runs' = [runs EXCEPT ![b].lease = now + LeaseTTL]
      BY <2>7 DEF HeartbeatTx, store
    <3>2. QED
      BY <2>1, <3>1 DEF OwnershipInv, TypeInv, TypeOK, RunRecord
  <2>8. ASSUME NEW b \in Attempt, Request(b) \/ HandlerStep(b) PROVE runs' = runs
    BY <2>8 DEF Request, HandlerStep, Claim, ClaimTooLate, Register, RefuseRegistration, Release, store
  <2>9. ASSUME NEW b \in Attempt, HeartbeatStep(b) PROVE runs'[a].st = runs[a].st
    BY <2>7, <2>9 DEF HeartbeatStep, SendHeartbeat, EstablishFence, ReceiveHeartbeat, HeartbeatFails,
       FenceExpires, store
  <2>10. ASSUME NEW b \in Attempt, WorkerStep(b) PROVE runs'[a] = runs[a]
    BY <2>3, <2>10 DEF WorkerStep, Admit, ProvisionalIntent, ConfirmIntent, CrewIntent, WorkerReturns,
       AbortWorker, store
  <2>11. ASSUME NEW b \in Attempt, MonitorStep(b) PROVE runs'[a] = runs[a]
    BY <2>3, <2>4, <2>11 DEF MonitorStep, StopByFence, JoinWorker, TimeOutWorker, FallbackIntent,
       CloseLedger, store
  <2>12. CASE PeerStep
    BY <2>5, <2>6, <2>12 DEF PeerStep, Prune, Cancel
  <2>13. ASSUME NEW i \in Instance, LifecycleStep(i) PROVE runs' = runs
    BY <2>13 DEF LifecycleStep, BeginFencing, FenceOwner, MarkStopping, Crash, store
  <2>14. CASE Tick
    BY <2>14 DEF Tick, store
  <2>15. QED
    BY <2>1, <2>8, <2>9, <2>10, <2>11, <2>12, <2>13, <2>14 DEF Next
<1>2. QED
  BY <1>1, Ownership, PTL DEF Spec, TerminalIsFinal

-----------------------------------------------------------------------------

\* What a live fence entails, for one attempt.
Sheltered(b) ==
    LiveFence(b) =>
        /\ Linked(b) /\ InFlight(Row(b)) /\ runs[b].st \notin Terminal
        /\ Covered(b, mem[b].deadline)
        /\ mem[b].beat = "answered" /\ mem[b].answer = "owned" => Covered(b, mem[b].sent + LeaseTTL)

\* The store still holds attempt b's unexpired row and run.
Leased(b) ==
    /\ Linked(b) /\ InFlight(Row(b)) /\ Row(b).lease > now
    /\ runs[b].st \notin Terminal /\ (runs[b].st = "running" => runs[b].lease > now)

\* A step takes nothing from an attempt whose leases are live.
StoreSafe(b) ==
    Leased(b) =>
        /\ Linked(b)' /\ InFlight(Row(b)') /\ runs'[b].st \notin Terminal
        /\ Row(b)'.lease = Row(b).lease \/ Row(b)'.lease = now + LeaseTTL
        /\ runs'[b].st = "running" => \/ runs'[b].lease = now + LeaseTTL
                                      \/ runs[b].st = "running" /\ runs'[b].lease = runs[b].lease

\* A step does not extend the fence of an attempt.
TaskSafe(b) ==
    LiveFence(b)' =>
        /\ LiveFence(b) /\ mem'[b].deadline = mem[b].deadline
        /\ mem'[b].beat = "answered" /\ mem'[b].answer = "owned" =>
             mem[b].beat = "answered" /\ mem[b].answer = "owned" /\ mem'[b].sent = mem[b].sent

\* The integers a live fence is compared with.
LEMMA LeaseTypes ==
  ASSUME TypeInv, NEW b \in Attempt
  PROVE  /\ now \in Nat /\ LeaseTTL \in Nat
         /\ mem[b].deadline \in Nat /\ mem[b].sent \in Nat
         /\ Row(b).lease \in Nat /\ runs[b].lease \in Nat
BY ReqType, Clocks DEF TypeInv, TypeOK, TaskMemory, LedgerRow, RunRecord, Row

\* An attempt with a live fence is leased in the store.
LEMMA LiveIsLeased ==
  ASSUME FenceInv, NEW b \in Attempt, LiveFence(b)
  PROVE  Leased(b)
<1>1. Sheltered(b)
  BY DEF FenceInv, FenceCovered, Sheltered
<1>2. QED
  BY <1>1, LeaseTypes DEF Sheltered, LiveFence, Leased, Covered, FenceInv, OwnershipInv

\* A step safe for the rows and the tasks of an attempt keeps it sheltered.
LEMMA StaysSheltered ==
  ASSUME FenceInv, TypeInv', NEW b \in Attempt, StoreSafe(b), TaskSafe(b)
  PROVE  Sheltered(b)'
<1>1. SUFFICES ASSUME LiveFence(b)'
               PROVE  /\ Linked(b)' /\ InFlight(Row(b)') /\ runs'[b].st \notin Terminal
                      /\ Covered(b, mem[b].deadline)'
                      /\ mem'[b].beat = "answered" /\ mem'[b].answer = "owned" =>
                            Covered(b, mem[b].sent + LeaseTTL)'
  BY DEF Sheltered, InFlight
<1>2. LiveFence(b) /\ mem'[b].deadline = mem[b].deadline
  BY <1>1 DEF TaskSafe
<1>3. Leased(b) /\ Sheltered(b)
  BY <1>2, LiveIsLeased DEF FenceInv, FenceCovered, Sheltered
<1>4. mem[b].deadline <= now + LeaseTTL /\ mem[b].sent + LeaseTTL <= now + LeaseTTL
  BY LeaseTypes DEF FenceInv, Punctual, OwnershipInv
<1>5. \A d \in Nat : d <= now + LeaseTTL /\ Covered(b, d) => Covered(b, d)'
  BY <1>3, LeaseTypes DEF StoreSafe, Covered
<1>6. Covered(b, mem[b].deadline)'
  <2>1. Covered(b, mem[b].deadline)
    BY <1>2, <1>3 DEF Sheltered
  <2>2. mem[b].deadline \in Nat
    BY LeaseTypes DEF FenceInv, OwnershipInv
  <2>3. QED
    BY <1>2, <1>4, <1>5, <2>1, <2>2 DEF Covered
<1>7. ASSUME mem'[b].beat = "answered", mem'[b].answer = "owned"
      PROVE  Covered(b, mem[b].sent + LeaseTTL)'
  <2>1. Covered(b, mem[b].sent + LeaseTTL) /\ mem'[b].sent = mem[b].sent
    BY <1>1, <1>2, <1>3, <1>7 DEF Sheltered, TaskSafe
  <2>2. mem[b].sent + LeaseTTL \in Nat
    BY LeaseTypes DEF FenceInv, OwnershipInv
  <2>3. QED
    BY <1>4, <1>5, <2>1, <2>2 DEF Covered
<1>8. QED
  BY <1>3, <1>6, <1>7 DEF StoreSafe

----------------------------------------------------------------------------
\* No step of the store takes a leased row: not the sweep, which looks at settled
\* rows, nor a claim or the reconciler, which look at expired leases.

\* A step that leaves the store alone is safe for every leased attempt.
LEMMA SameStoreSafe == ASSUME NEW b \in Attempt, UNCHANGED store PROVE StoreSafe(b)
BY DEF store, StoreSafe, Leased, Linked, Row, KeyOf, InFlight

\* The heartbeat transaction leaves every leased attempt its row and its run.
LEMMA HeartbeatSafe ==
  ASSUME OwnershipInv, NEW a \in Attempt, HeartbeatTx(a), NEW b \in Attempt PROVE StoreSafe(b)
<1>1. CASE Verdict(a) # "owned"
  BY <1>1, SameStoreSafe DEF HeartbeatTx
<1>2. CASE Verdict(a) = "owned"
  <2>1. ledger' = [ledger EXCEPT ![KeyOf(a)].lease = now + LeaseTTL]
    BY <1>2 DEF HeartbeatTx
  <2>2. \A k \in Key : /\ ledger'[k].st = ledger[k].st /\ ledger'[k].att = ledger[k].att
                       /\ ledger'[k].lease = ledger[k].lease \/ ledger'[k].lease = now + LeaseTTL
    BY <2>1, ReqType DEF OwnershipInv, TypeInv, TypeOK, LedgerRow
  <2>3. runs' = runs \/ runs' = [runs EXCEPT ![a].lease = now + LeaseTTL]
    BY <1>2 DEF HeartbeatTx
  <2>4. runs'[b].st = runs[b].st /\ (runs'[b].lease = runs[b].lease \/ runs'[b].lease = now + LeaseTTL)
    BY <2>3 DEF OwnershipInv, TypeInv, TypeOK, RunRecord
  <2>5. QED
    BY <2>2, <2>4, ReqType DEF StoreSafe, Leased, Linked, Row, KeyOf, InFlight
<1>3. QED
  BY <1>1, <1>2

\* An intent leaves every leased attempt its row and its run.
LEMMA IntentSafe ==
  ASSUME OwnershipInv, NEW a \in Attempt, SaveIntent(a), NEW b \in Attempt PROVE StoreSafe(b)
<1>1. CASE IntentVerdict(a) # "saved"
  BY <1>1, SameStoreSafe DEF SaveIntent
<1>2. CASE IntentVerdict(a) = "saved"
  <2>1. runs' = [runs EXCEPT ![a] = [st |-> "running", lease |-> now + LeaseTTL]]
    BY <1>2 DEF SaveIntent
  <2>2. \/ runs'[b] = runs[b]
        \/ runs'[b].st = "running" /\ runs'[b].lease = now + LeaseTTL
    BY <2>1 DEF OwnershipInv, TypeInv, TypeOK
  <2>3. ASSUME Linked(b), InFlight(Row(b))
        PROVE  /\ Linked(b)' /\ InFlight(Row(b)')
               /\ Row(b)'.lease = Row(b).lease \/ Row(b)'.lease = now + LeaseTTL
    <3>1. CASE ledger' = ledger
      BY <2>3, <3>1 DEF Linked, Row, KeyOf, InFlight
    <3>2. CASE ledger' = [ledger EXCEPT ![KeyOf(a)].st = "running", ![KeyOf(a)].lease = now + LeaseTTL]
      <4>1. \A k \in Key : /\ ledger'[k].att = ledger[k].att
                           /\ ledger'[k].st = ledger[k].st \/ ledger'[k].st = "running"
                           /\ ledger'[k].lease = ledger[k].lease \/ ledger'[k].lease = now + LeaseTTL
        BY <3>2, ReqType DEF OwnershipInv, TypeInv, TypeOK, LedgerRow
      <4>2. QED
        BY <2>3, <4>1, ReqType DEF Linked, Row, KeyOf, InFlight
    <3>3. QED
      BY <1>2, <3>1, <3>2 DEF SaveIntent
  <2>4. QED
    BY <2>2, <2>3 DEF StoreSafe, Leased, Terminal
<1>3. QED
  BY <1>1, <1>2

\* The sweep keeps an in-flight row.
LEMMA PrunedKeepsInFlight ==
  ASSUME TypeInv, NEW b \in Attempt, InFlight(Row(b))
  PROVE  PrunedLedger[KeyOf(b)] = Row(b)
BY Pruned, ReqType DEF Row, InFlight, Expired, Settled

\* Claiming the key (claim_idempotency_record) leaves every leased attempt its
\* row and its run.
LEMMA ClaimSafe ==
  ASSUME OwnershipInv, NEW a \in Attempt, Claim(a), NEW b \in Attempt PROVE StoreSafe(b)
<1>1. SUFFICES ASSUME Leased(b)
               PROVE  Linked(b)' /\ InFlight(Row(b)') /\ Row(b)' = Row(b) /\ runs' = runs
  BY DEF StoreSafe, Leased
<1>2. PrunedLedger[KeyOf(b)] = Row(b) /\ Row(b).st # "absent" /\ Row(b).lease > now
  BY <1>1, PrunedKeepsInFlight DEF Leased, OwnershipInv, InFlight
<1>3. ledger'[KeyOf(b)] = Row(b)
  <2>1. CASE KeyOf(b) = KeyOf(a)
    <3>1. ClaimExisting(a)
      BY <1>2, <2>1 DEF Claim, ClaimNew, ClaimOverQuota
    <3>2. ~(PrunedLedger[KeyOf(a)].lease <= now)
      BY <1>2, <2>1, LeaseTypes DEF OwnershipInv
    <3>3. ledger' = PrunedLedger
      BY <3>1, <3>2 DEF ClaimExisting
    <3>4. QED
      BY <1>2, <3>3
  <2>2. CASE KeyOf(b) # KeyOf(a)
    <3>1. ledger'[KeyOf(b)] = PrunedLedger[KeyOf(b)]
      BY <2>2, Pruned, ReqType DEF Claim, ClaimNew, ClaimExisting, ClaimOverQuota, OwnershipInv
    <3>2. QED
      BY <1>2, <3>1
  <2>3. QED
    BY <2>1, <2>2
<1>4. QED
  BY <1>1, <1>3 DEF Claim, Leased, Linked, Row, KeyOf, InFlight

\* The retention sweep leaves every leased attempt its row and its run.
LEMMA PruneSafe == ASSUME OwnershipInv, Prune, NEW b \in Attempt PROVE StoreSafe(b)
<1>1. ASSUME Leased(b) PROVE ledger'[KeyOf(b)] = Row(b) /\ runs' = runs
  BY <1>1, PrunedKeepsInFlight DEF Prune, Leased, OwnershipInv
<1>2. QED
  BY <1>1 DEF StoreSafe, Leased, Linked, Row, KeyOf, InFlight

\* The reconciler (reconcile_abandoned_runs) leaves every leased attempt its
\* row and its run.
LEMMA ReconcileSafe == ASSUME OwnershipInv, Reconcile, NEW b \in Attempt PROVE StoreSafe(b)
<1>1. SUFFICES ASSUME Leased(b) PROVE Linked(b)' /\ Row(b)' = Row(b) /\ runs'[b] = runs[b]
  BY DEF StoreSafe, Leased, InFlight
<1>2. b \notin DeadClaims /\ b \notin DeadRuns
  BY <1>1, LeaseTypes DEF Leased, DeadClaims, DeadRuns, OwnershipInv
<1>3. QED
  BY <1>1, <1>2, SettleEffect DEF Reconcile, Leased

\* So does every peer step.
LEMMA PeerSafe == ASSUME OwnershipInv, PeerStep, NEW b \in Attempt PROVE StoreSafe(b)
<1>1. ASSUME NEW a \in Attempt, Cancel(a) PROVE StoreSafe(b)
  <2>1. \A k \in Key : /\ ledger'[k].st = ledger[k].st /\ ledger'[k].att = ledger[k].att
                       /\ ledger'[k].lease = ledger[k].lease
    BY <1>1, ReqType DEF Cancel, OwnershipInv, TypeInv, TypeOK, LedgerRow
  <2>2. QED
    BY <1>1, <2>1, ReqType DEF Cancel, StoreSafe, Leased, Linked, Row, KeyOf, InFlight
<1>2. ASSUME NEW a \in Attempt, DeleteRun(a) PROVE StoreSafe(b)
  BY <1>2 DEF DeleteRun, StoreSafe, Leased, Linked, Row, KeyOf, InFlight, OwnershipInv, TypeInv, TypeOK
<1>3. QED
  BY <1>1, <1>2, PruneSafe, ReconcileSafe DEF PeerStep

\* A phase change or a crash leaves every leased attempt its row and its run.
LEMMA LifecycleSafe ==
  ASSUME OwnershipInv, NEW i \in Instance, LifecycleStep(i), NEW b \in Attempt PROVE StoreSafe(b)
<1>1. CASE FenceOwner(i)
  <2>1. \A k \in Key : /\ ledger'[k].st = ledger[k].st /\ ledger'[k].att = ledger[k].att
                       /\ ledger'[k].lease = ledger[k].lease
    BY <1>1 DEF FenceOwner, DrainedLedger, OwnershipInv, TypeInv, TypeOK, LedgerRow
  <2>2. QED
    BY <1>1, <2>1, ReqType DEF FenceOwner, StoreSafe, Leased, Linked, Row, KeyOf, InFlight
<1>2. CASE UNCHANGED store
  BY <1>2, SameStoreSafe
<1>3. QED
  BY <1>1, <1>2 DEF LifecycleStep, BeginFencing, MarkStopping, Crash

\* The owner's own release, finish and close leave the other attempts alone.
LEMMA OthersSafe ==
  ASSUME OwnershipInv, NEW a \in Attempt, Release(a) \/ FinishRun(a) \/ CloseLedger(a),
         NEW b \in Attempt \ {a}
  PROVE  StoreSafe(b)
<1>1. CASE Release(a)
  <2>1. Linked(b) => Row(b)' = Row(b)
    BY <1>1, ReqType DEF Release, ReleasedLedger, Linked, Row, KeyOf, OwnershipInv, TypeInv, TypeOK
  <2>2. QED
    BY <1>1, <2>1 DEF Release, StoreSafe, Leased, Linked, InFlight, KeyOf, Row
<1>2. CASE FinishRun(a)
  <2>1. CASE UNCHANGED store
    BY <2>1, SameStoreSafe
  <2>2. CASE ledger' = SettleRows({a}) /\ runs' = [runs EXCEPT ![a] = FinishedRun(a)]
    <3>1. Linked(b) => Linked(b)' /\ Row(b)' = Row(b)
      BY <2>2, SettleEffect
    <3>2. runs'[b] = runs[b]
      BY <2>2 DEF OwnershipInv, TypeInv, TypeOK
    <3>3. QED
      BY <3>1, <3>2 DEF StoreSafe, Leased, InFlight
  <2>3. QED
    BY <1>2, <2>1, <2>2 DEF FinishRun
<1>3. CASE CloseLedger(a)
  <2>1. Linked(b) => Row(b)' = Row(b)
    BY <1>3, ReqType DEF CloseLedger, Linked, Row, KeyOf, OwnershipInv, TypeInv, TypeOK
  <2>2. QED
    BY <1>3, <2>1 DEF CloseLedger, StoreSafe, Leased, Linked, InFlight, KeyOf, Row
<1>4. QED
  BY <1>1, <1>2, <1>3

----------------------------------------------------------------------------
\* The steps of an attempt, for the attempt itself.

Punct(b) == mem[b].sent <= now /\ mem[b].deadline <= now + LeaseTTL

\* Punctual, for one attempt.
LEMMA PunctNow == ASSUME FenceInv, NEW b \in Attempt PROVE Punct(b)
BY DEF FenceInv, Punctual, Punct

\* An attempt that leaves the fenced part of its life with its memory reset or
\* kept needs no shelter.
LEMMA OutOfFence ==
  ASSUME FenceInv, TypeInv', NEW a \in Attempt, pc'[a] \notin Fenced, now' = now,
         \/ mem'[a] = mem[a] \/ mem'[a] = NoMem \/ mem'[a] = NoBeat(mem[a])
         \/ mem'[a] = [mem[a] EXCEPT !.deadline = now + LeaseTTL]
  PROVE  Sheltered(a)' /\ Punct(a)'
<1>1. Sheltered(a)'
  BY DEF Sheltered, LiveFence
<1>2. mem[a] \in TaskMemory
  BY DEF FenceInv, OwnershipInv, TypeInv, TypeOK
<1>3. mem'[a].sent \in {mem[a].sent, 0} /\ mem'[a].deadline \in {mem[a].deadline, 0, now + LeaseTTL}
  <2>1. CASE mem'[a] = mem[a]
    BY <2>1
  <2>2. CASE mem'[a] = NoMem
    BY <2>2 DEF NoMem
  <2>3. CASE mem'[a] = NoBeat(mem[a])
    BY <1>2, <2>3 DEF NoBeat, TaskMemory
  <2>4. CASE mem'[a] = [mem[a] EXCEPT !.deadline = now + LeaseTTL]
    BY <1>2, <2>4 DEF TaskMemory
  <2>5. QED
    BY <2>1, <2>2, <2>3, <2>4
<1>4. QED
  BY <1>1, <1>3, LeaseTypes, PunctNow DEF Punct, FenceInv, OwnershipInv

\* A handler that leaves, or is not yet fenced, has no fence to cover.
LEMMA HandlerFence ==
  ASSUME FenceInv, TypeInv', NEW a \in Attempt,
         \/ Request(a) \/ ClaimTooLate(a) \/ RefuseRegistration(a) \/ Release(a) \/ CloseLedger(a)
  PROVE  Sheltered(a)' /\ Punct(a)'
<1>1. pc'[a] \in {"claiming", "releasing", "done"} /\ now' = now
  BY DEF Request, ClaimTooLate, RefuseRegistration, Release, CloseLedger, Leave, Goto, FenceInv,
         OwnershipInv, TypeInv, TypeOK
<1>2. \/ mem'[a] = mem[a] \/ mem'[a] = NoMem
      \/ mem'[a] = [mem[a] EXCEPT !.deadline = now + LeaseTTL]
  BY DEF Request, ClaimTooLate, RefuseRegistration, Release, CloseLedger, Leave, FenceInv,
         OwnershipInv, TypeInv, TypeOK
<1>3. QED
  BY <1>1, <1>2, OutOfFence DEF Fenced, Working

\* The claim opens a window counted from before the transaction, so its lease
\* covers the deadline.
LEMMA ClaimFence ==
  ASSUME FenceInv, TypeInv', NEW a \in Attempt, Claim(a) PROVE Sheltered(a)' /\ Punct(a)'
<1>1. CASE pc'[a] = "done" /\ mem'[a] = NoMem
  BY <1>1, OutOfFence DEF Claim, Fenced, Working
<1>2. CASE ClaimNew(a) /\ mem' = mem
  <2>1. /\ ledger'[KeyOf(a)].st = "claimed" /\ ledger'[KeyOf(a)].att = a
        /\ ledger'[KeyOf(a)].lease = now + LeaseTTL
    BY <1>2, Pruned, ReqType DEF ClaimNew, NoRow, FenceInv, OwnershipInv
  <2>2. runs[a].st = "absent" /\ runs' = runs /\ now' = now /\ pc[a] = "claiming"
    BY DEF Claim, FenceInv, OwnershipInv, Unclaimed
  <2>3. mem[a].deadline <= now + LeaseTTL /\ mem[a].sent + LeaseTTL <= now + LeaseTTL
    BY PunctNow, LeaseTypes DEF Punct, FenceInv, OwnershipInv
  <2>4. Sheltered(a)'
    BY <1>2, <2>1, <2>2, <2>3 DEF Sheltered, Covered, Linked, Row, KeyOf, InFlight, Terminal
  <2>5. QED
    BY <1>2, <2>2, <2>4, PunctNow DEF Punct
<1>3. QED
  BY <1>1, <1>2 DEF Claim, ClaimNew, ClaimExisting, ClaimOverQuota, Leave, Goto, FenceInv,
     OwnershipInv, TypeInv, TypeOK

\* The steps that leave the heartbeat and the deadline alone.

\* Registering the worker (run_flow) keeps the fence of its attempt covered.
LEMMA RegisterFence ==
  ASSUME FenceInv, TypeInv', NEW a \in Attempt, Register(a) PROVE Sheltered(a)' /\ Punct(a)'
<1>1. /\ pc'[a] \in Fenced => pc[a] \in Fenced
      /\ mem'[a].deadline = mem[a].deadline /\ mem'[a].sent = mem[a].sent
      /\ mem'[a].outcome = "none" => mem[a].outcome = "none"
      /\ mem'[a].beat = mem[a].beat /\ mem'[a].answer = mem[a].answer /\ now' = now
  BY DEF Register, Goto, Fenced, Working, FenceInv, OwnershipInv, TypeInv, TypeOK, TaskMemory
<1>2. TaskSafe(a) /\ Punct(a)'
  BY <1>1, PunctNow DEF TaskSafe, LiveFence, Punct
<1>3. StoreSafe(a)
  BY SameStoreSafe DEF Register
<1>4. QED
  BY <1>2, <1>3, StaysSheltered

\* The end of the worker keeps the fence of its attempt covered.
LEMMA WorkerReturnsFence ==
  ASSUME FenceInv, TypeInv', NEW a \in Attempt, WorkerReturns(a) PROVE Sheltered(a)' /\ Punct(a)'
<1>1. /\ pc'[a] \in Fenced => pc[a] \in Fenced
      /\ mem'[a].deadline = mem[a].deadline /\ mem'[a].sent = mem[a].sent
      /\ mem'[a].outcome = "none" => mem[a].outcome = "none"
      /\ mem'[a].beat = mem[a].beat /\ mem'[a].answer = mem[a].answer /\ now' = now
  BY DEF WorkerReturns, EndWorker, Goto, Fenced, Working, FenceInv, OwnershipInv, TypeInv, TypeOK, TaskMemory
<1>2. TaskSafe(a) /\ Punct(a)'
  BY <1>1, PunctNow DEF TaskSafe, LiveFence, Punct
<1>3. StoreSafe(a)
  BY SameStoreSafe DEF WorkerReturns
<1>4. QED
  BY <1>2, <1>3, StaysSheltered

\* A local abort (abort_run, teardown_active_state) keeps the fence of its
\* attempt covered.
LEMMA AbortWorkerFence ==
  ASSUME FenceInv, TypeInv', NEW a \in Attempt, AbortWorker(a) PROVE Sheltered(a)' /\ Punct(a)'
<1>1. /\ pc'[a] \in Fenced => pc[a] \in Fenced
      /\ mem'[a].deadline = mem[a].deadline /\ mem'[a].sent = mem[a].sent
      /\ mem'[a].outcome = "none" => mem[a].outcome = "none"
      /\ mem'[a].beat = mem[a].beat /\ mem'[a].answer = mem[a].answer /\ now' = now
  BY DEF AbortWorker, EndWorker, Goto, Fenced, Working, FenceInv, OwnershipInv, TypeInv, TypeOK, TaskMemory
<1>2. TaskSafe(a) /\ Punct(a)'
  BY <1>1, PunctNow DEF TaskSafe, LiveFence, Punct
<1>3. StoreSafe(a)
  BY SameStoreSafe DEF AbortWorker
<1>4. QED
  BY <1>2, <1>3, StaysSheltered

\* The worker's read-back (execute_crew_from_path_with_events) keeps the fence
\* of its attempt covered.
LEMMA ConfirmIntentFence ==
  ASSUME FenceInv, TypeInv', NEW a \in Attempt, ConfirmIntent(a) PROVE Sheltered(a)' /\ Punct(a)'
<1>1. /\ pc'[a] \in Fenced => pc[a] \in Fenced
      /\ mem'[a].deadline = mem[a].deadline /\ mem'[a].sent = mem[a].sent
      /\ mem'[a].outcome = "none" => mem[a].outcome = "none"
      /\ mem'[a].beat = mem[a].beat /\ mem'[a].answer = mem[a].answer /\ now' = now
  BY DEF ConfirmIntent, EndWorker, Goto, Fenced, Working, FenceInv, OwnershipInv, TypeInv, TypeOK, TaskMemory
<1>2. TaskSafe(a) /\ Punct(a)'
  BY <1>1, PunctNow DEF TaskSafe, LiveFence, Punct
<1>3. StoreSafe(a)
  BY SameStoreSafe DEF ConfirmIntent
<1>4. QED
  BY <1>2, <1>3, StaysSheltered

\* The monitor's fence branch (run_flow) keeps the fence of its attempt
\* covered.
LEMMA StopByFenceFence ==
  ASSUME FenceInv, TypeInv', NEW a \in Attempt, StopByFence(a) PROVE Sheltered(a)' /\ Punct(a)'
<1>1. /\ pc'[a] \in Fenced => pc[a] \in Fenced
      /\ mem'[a].deadline = mem[a].deadline /\ mem'[a].sent = mem[a].sent
      /\ mem'[a].outcome = "none" => mem[a].outcome = "none"
      /\ mem'[a].beat = mem[a].beat /\ mem'[a].answer = mem[a].answer /\ now' = now
  BY DEF StopByFence, Goto, Fenced, Working, FenceInv, OwnershipInv, TypeInv, TypeOK, TaskMemory
<1>2. TaskSafe(a) /\ Punct(a)'
  BY <1>1, PunctNow DEF TaskSafe, LiveFence, Punct
<1>3. StoreSafe(a)
  BY SameStoreSafe DEF StopByFence
<1>4. QED
  BY <1>2, <1>3, StaysSheltered

\* The monitor's join branch (run_flow) keeps the fence of its attempt covered.
LEMMA JoinWorkerFence ==
  ASSUME FenceInv, TypeInv', NEW a \in Attempt, JoinWorker(a) PROVE Sheltered(a)' /\ Punct(a)'
<1>1. /\ pc'[a] \in Fenced => pc[a] \in Fenced
      /\ mem'[a].deadline = mem[a].deadline /\ mem'[a].sent = mem[a].sent
      /\ mem'[a].outcome = "none" => mem[a].outcome = "none"
      /\ mem'[a].beat = mem[a].beat /\ mem'[a].answer = mem[a].answer /\ now' = now
  BY DEF JoinWorker, Goto, Fenced, Working, FenceInv, OwnershipInv, TypeInv, TypeOK, TaskMemory
<1>2. TaskSafe(a) /\ Punct(a)'
  BY <1>1, PunctNow DEF TaskSafe, LiveFence, Punct
<1>3. StoreSafe(a)
  BY SameStoreSafe DEF JoinWorker
<1>4. QED
  BY <1>2, <1>3, StaysSheltered

\* The monitor's lifetime branch (run_flow) keeps the fence of its attempt
\* covered.
LEMMA TimeOutWorkerFence ==
  ASSUME FenceInv, TypeInv', NEW a \in Attempt, TimeOutWorker(a) PROVE Sheltered(a)' /\ Punct(a)'
<1>1. /\ pc'[a] \in Fenced => pc[a] \in Fenced
      /\ mem'[a].deadline = mem[a].deadline /\ mem'[a].sent = mem[a].sent
      /\ mem'[a].outcome = "none" => mem[a].outcome = "none"
      /\ mem'[a].beat = mem[a].beat /\ mem'[a].answer = mem[a].answer /\ now' = now
  BY DEF TimeOutWorker, Goto, Fenced, Working, FenceInv, OwnershipInv, TypeInv, TypeOK, TaskMemory
<1>2. TaskSafe(a) /\ Punct(a)'
  BY <1>1, PunctNow DEF TaskSafe, LiveFence, Punct
<1>3. StoreSafe(a)
  BY SameStoreSafe DEF TimeOutWorker
<1>4. QED
  BY <1>2, <1>3, StaysSheltered

\* Opening the worker gate (admit_execution) keeps the fence of its attempt
\* covered.
LEMMA AdmitFence ==
  ASSUME FenceInv, TypeInv', NEW a \in Attempt, Admit(a) PROVE Sheltered(a)' /\ Punct(a)'
<1>1. /\ pc'[a] \in Fenced => pc[a] \in Fenced
      /\ mem'[a].deadline = mem[a].deadline /\ mem'[a].sent = mem[a].sent
      /\ mem'[a].outcome = "none" => mem[a].outcome = "none"
      /\ mem'[a].beat = mem[a].beat /\ mem'[a].answer = mem[a].answer /\ now' = now
  BY DEF Admit, Published, Goto, Fenced, Working, FenceInv, OwnershipInv, TypeInv, TypeOK, TaskMemory
<1>2. TaskSafe(a) /\ Punct(a)'
  BY <1>1, PunctNow DEF TaskSafe, LiveFence, Punct
<1>3. StoreSafe(a)
  BY SameStoreSafe DEF Admit
<1>4. QED
  BY <1>2, <1>3, StaysSheltered

\* The provisional intent keeps the fence of its attempt covered.
LEMMA ProvisionalIntentFence ==
  ASSUME FenceInv, TypeInv', NEW a \in Attempt, ProvisionalIntent(a) PROVE Sheltered(a)' /\ Punct(a)'
<1>1. /\ pc'[a] \in Fenced => pc[a] \in Fenced
      /\ mem'[a].deadline = mem[a].deadline /\ mem'[a].sent = mem[a].sent
      /\ mem'[a].outcome = "none" => mem[a].outcome = "none"
      /\ mem'[a].beat = mem[a].beat /\ mem'[a].answer = mem[a].answer /\ now' = now
  BY DEF ProvisionalIntent, EndWorker, Goto, Fenced, Working, FenceInv, OwnershipInv, TypeInv, TypeOK, TaskMemory
<1>2. TaskSafe(a) /\ Punct(a)'
  BY <1>1, PunctNow DEF TaskSafe, LiveFence, Punct
<1>3. StoreSafe(a)
  BY IntentSafe DEF ProvisionalIntent, FenceInv
<1>4. QED
  BY <1>2, <1>3, StaysSheltered

\* Crew:run()'s intent keeps the fence of its attempt covered.
LEMMA CrewIntentFence ==
  ASSUME FenceInv, TypeInv', NEW a \in Attempt, CrewIntent(a) PROVE Sheltered(a)' /\ Punct(a)'
<1>1. /\ pc'[a] \in Fenced => pc[a] \in Fenced
      /\ mem'[a].deadline = mem[a].deadline /\ mem'[a].sent = mem[a].sent
      /\ mem'[a].outcome = "none" => mem[a].outcome = "none"
      /\ mem'[a].beat = mem[a].beat /\ mem'[a].answer = mem[a].answer /\ now' = now
  BY DEF CrewIntent, EndWorker, Goto, Fenced, Working, FenceInv, OwnershipInv, TypeInv, TypeOK, TaskMemory
<1>2. TaskSafe(a) /\ Punct(a)'
  BY <1>1, PunctNow DEF TaskSafe, LiveFence, Punct
<1>3. StoreSafe(a)
  BY IntentSafe DEF CrewIntent, FenceInv
<1>4. QED
  BY <1>2, <1>3, StaysSheltered

\* The finaliser's fallback intent (persist_terminal_outcome) keeps the fence
\* of its attempt covered.
LEMMA FallbackIntentFence ==
  ASSUME FenceInv, TypeInv', NEW a \in Attempt, FallbackIntent(a) PROVE Sheltered(a)' /\ Punct(a)'
<1>1. /\ pc'[a] \in Fenced => pc[a] \in Fenced
      /\ mem'[a].deadline = mem[a].deadline /\ mem'[a].sent = mem[a].sent
      /\ mem'[a].outcome = "none" => mem[a].outcome = "none"
      /\ mem'[a].beat = mem[a].beat /\ mem'[a].answer = mem[a].answer /\ now' = now
  BY DEF FallbackIntent, Goto, Fenced, Working, FenceInv, OwnershipInv, TypeInv, TypeOK, TaskMemory
<1>2. TaskSafe(a) /\ Punct(a)'
  BY <1>1, PunctNow DEF TaskSafe, LiveFence, Punct
<1>3. StoreSafe(a)
  BY IntentSafe DEF FallbackIntent, FenceInv
<1>4. QED
  BY <1>2, <1>3, StaysSheltered

\* The terminal write (finish_run) keeps the fence of its attempt covered.
LEMMA FinishRunFence ==
  ASSUME FenceInv, TypeInv', NEW a \in Attempt, FinishRun(a) PROVE Sheltered(a)' /\ Punct(a)'
<1>1. mem' = mem /\ now' = now /\ pc[a] = "stopped"
  BY DEF FinishRun
<1>2. CASE UNCHANGED store
  <2>1. TaskSafe(a)
    BY <1>1 DEF TaskSafe, LiveFence, Fenced, Working
  <2>2. QED
    BY <1>1, <1>2, <2>1, SameStoreSafe, StaysSheltered, PunctNow DEF Punct
<1>3. CASE pc'[a] = "recorded"
  BY <1>1, <1>3, OutOfFence DEF Fenced, Working
<1>4. QED
  BY <1>2, <1>3 DEF FinishRun, Goto, FenceInv, OwnershipInv, TypeInv, TypeOK

\* The heartbeat of an attempt.
LEMMA SendHeartbeatFence ==
  ASSUME FenceInv, TypeInv', NEW a \in Attempt, SendHeartbeat(a) PROVE Sheltered(a)' /\ Punct(a)'
<1>1. /\ pc' = pc /\ now' = now /\ mem'[a].deadline = mem[a].deadline /\ mem'[a].sent = now
      /\ mem'[a].outcome = mem[a].outcome /\ mem'[a].beat = "sent"
  BY DEF SendHeartbeat, FenceInv, OwnershipInv, TypeInv, TypeOK, TaskMemory
<1>2. TaskSafe(a)
  BY <1>1 DEF TaskSafe, LiveFence
<1>3. Punct(a)'
  BY <1>1, PunctNow, LeaseTypes DEF Punct, FenceInv, OwnershipInv
<1>4. StoreSafe(a)
  BY SameStoreSafe DEF SendHeartbeat
<1>5. QED
  BY <1>2, <1>3, <1>4, StaysSheltered

\* An owned answer finds both leases renewed past the deadline it will install.
LEMMA HeartbeatTxFence ==
  ASSUME FenceInv, TypeInv', NEW a \in Attempt, HeartbeatTx(a) PROVE Sheltered(a)' /\ Punct(a)'
<1>1. /\ pc' = pc /\ now' = now /\ mem'[a].deadline = mem[a].deadline /\ mem'[a].sent = mem[a].sent
      /\ mem'[a].outcome = mem[a].outcome /\ mem'[a].beat = "answered" /\ mem'[a].answer = Verdict(a)
  BY DEF HeartbeatTx, FenceInv, OwnershipInv, TypeInv, TypeOK, TaskMemory
<1>2. Punct(a)'
  BY <1>1, PunctNow DEF Punct
<1>3. CASE Verdict(a) # "owned"
  <2>1. TaskSafe(a)
    BY <1>1, <1>3 DEF TaskSafe, LiveFence
  <2>2. StoreSafe(a)
    BY HeartbeatSafe DEF FenceInv
  <2>3. QED
    BY <1>2, <2>1, <2>2, StaysSheltered
<1>4. CASE Verdict(a) = "owned"
  <2>1. Linked(a) /\ InFlight(Row(a)) /\ runs[a].st \notin Terminal
    BY <1>4 DEF Verdict, InFlight
  <2>2. /\ ledger'[KeyOf(a)].st = ledger[KeyOf(a)].st /\ ledger'[KeyOf(a)].att = ledger[KeyOf(a)].att
        /\ ledger'[KeyOf(a)].lease = now + LeaseTTL
    BY <1>4, ReqType DEF HeartbeatTx, FenceInv, OwnershipInv, TypeInv, TypeOK, LedgerRow
  <2>3. /\ runs'[a].st = runs[a].st
        /\ runs[a].st = "running" => runs'[a].lease = now + LeaseTTL
    BY <1>4 DEF HeartbeatTx, FenceInv, OwnershipInv, TypeInv, TypeOK, RunRecord
  <2>4. mem[a].deadline <= now + LeaseTTL /\ mem[a].sent + LeaseTTL <= now + LeaseTTL
    BY PunctNow, LeaseTypes DEF Punct, FenceInv, OwnershipInv
  <2>5. Sheltered(a)'
    BY <1>1, <2>1, <2>2, <2>3, <2>4 DEF Sheltered, Covered, Linked, Row, KeyOf, InFlight
  <2>6. QED
    BY <1>2, <2>5
<1>5. QED
  BY <1>3, <1>4

\* Installing the deadline of an owned answer.
LEMMA InstallDeadline ==
  ASSUME FenceInv, TypeInv', NEW a \in Attempt, LiveFence(a),
         mem[a].beat = "answered", mem[a].answer = "owned", UNCHANGED <<now, store>>,
         mem'[a].deadline = mem[a].sent + LeaseTTL, mem'[a].beat = "idle", mem'[a].sent = 0
  PROVE  Sheltered(a)' /\ Punct(a)'
<1>1. /\ Linked(a) /\ InFlight(Row(a)) /\ runs[a].st \notin Terminal
      /\ Covered(a, mem[a].sent + LeaseTTL)
  BY DEF FenceInv, FenceCovered
<1>2. Sheltered(a)'
  BY <1>1 DEF Sheltered, Covered, Linked, Row, KeyOf, InFlight, store
<1>3. Punct(a)'
  BY PunctNow, LeaseTypes DEF Punct, FenceInv, OwnershipInv
<1>4. QED
  BY <1>2, <1>3

\* Dropping the heartbeat in flight, with or without a published outcome.
LEMMA DropBeat ==
  ASSUME FenceInv, TypeInv', NEW a \in Attempt, UNCHANGED <<now, store>>,
         pc'[a] \in Fenced => pc[a] \in Fenced,
         mem'[a].deadline = mem[a].deadline, mem'[a].sent = 0, mem'[a].beat = "idle",
         mem'[a].outcome = "none" => mem[a].outcome = "none"
  PROVE  Sheltered(a)' /\ Punct(a)'
<1>1. TaskSafe(a)
  BY DEF TaskSafe, LiveFence
<1>2. Punct(a)'
  BY PunctNow, LeaseTypes DEF Punct, FenceInv, OwnershipInv
<1>3. QED
  BY <1>1, <1>2, SameStoreSafe, StaysSheltered

\* The answer to the first heartbeat (RunLeaseHeartbeat::start) keeps the fence
\* of its attempt covered.
LEMMA EstablishFenceFence ==
  ASSUME FenceInv, TypeInv', NEW a \in Attempt, EstablishFence(a) PROVE Sheltered(a)' /\ Punct(a)'
<1>1. mem[a] \in TaskMemory /\ UNCHANGED <<now, store>> /\ pc[a] = "claimed" /\ mem[a].beat = "answered"
  BY DEF EstablishFence, FenceInv, OwnershipInv, TypeInv, TypeOK
<1>2. CASE mem[a].answer = "owned" /\ now < mem[a].deadline
  <2>1. mem'[a] = NoBeat([mem[a] EXCEPT !.deadline = RenewedDeadline(a)])
    BY <1>2 DEF EstablishFence, SetBeatless, FenceInv, OwnershipInv, TypeInv, TypeOK
  <2>2. mem'[a].deadline = mem[a].sent + LeaseTTL /\ mem'[a].beat = "idle" /\ mem'[a].sent = 0
    BY <1>1, <2>1 DEF NoBeat, RenewedDeadline, TaskMemory
  <2>3. CASE mem[a].outcome = "none"
    BY <1>1, <1>2, <2>2, <2>3, InstallDeadline DEF LiveFence, Fenced
  <2>4. CASE mem[a].outcome # "none"
    <3>1. mem'[a].outcome # "none"
      BY <1>1, <2>1, <2>4 DEF NoBeat, TaskMemory
    <3>2. QED
      BY <1>1, <2>2, <3>1, PunctNow, LeaseTypes DEF Sheltered, LiveFence, Punct, FenceInv, OwnershipInv
  <2>5. QED
    BY <2>3, <2>4
<1>3. CASE ~(mem[a].answer = "owned" /\ now < mem[a].deadline)
  <2>1. pc'[a] = "releasing" /\ mem'[a] = NoBeat(mem[a])
    BY <1>3 DEF EstablishFence, SetBeatless, Goto, FenceInv, OwnershipInv, TypeInv, TypeOK
  <2>2. QED
    BY <1>1, <2>1, OutOfFence DEF Fenced, Working
<1>4. QED
  BY <1>2, <1>3

\* An answer to the heartbeat loop (renew_if_live) keeps the fence of its
\* attempt covered.
LEMMA ReceiveHeartbeatFence ==
  ASSUME FenceInv, TypeInv', NEW a \in Attempt, ReceiveHeartbeat(a) PROVE Sheltered(a)' /\ Punct(a)'
<1>1. /\ mem[a] \in TaskMemory /\ UNCHANGED <<now, store>> /\ pc' = pc
      /\ mem[a].beat = "answered" /\ mem[a].outcome = "none"
      /\ mem'[a] = NoBeat(FenceAfterAnswer(a)) /\ FenceAfterAnswer(a) \in TaskMemory
  BY FenceAfterAnswerType DEF ReceiveHeartbeat, SetBeatless, FenceInv, OwnershipInv, TypeInv, TypeOK
<1>2. /\ mem'[a].beat = "idle" /\ mem'[a].sent = 0
      /\ mem'[a].deadline = FenceAfterAnswer(a).deadline /\ mem'[a].outcome = FenceAfterAnswer(a).outcome
  BY <1>1 DEF NoBeat, TaskMemory
<1>3. CASE FenceAfterAnswer(a).deadline = mem[a].deadline
  BY <1>1, <1>2, <1>3, DropBeat
<1>4. CASE /\ FenceAfterAnswer(a) = [mem[a] EXCEPT !.deadline = RenewedDeadline(a)]
           /\ now < mem[a].deadline /\ mem[a].answer = "owned"
  <2>1. mem'[a].deadline = mem[a].sent + LeaseTTL
    BY <1>1, <1>2, <1>4 DEF RenewedDeadline, TaskMemory
  <2>2. CASE pc[a] \in Fenced
    BY <1>1, <1>2, <1>4, <2>1, <2>2, InstallDeadline DEF LiveFence
  <2>3. CASE pc[a] \notin Fenced
    BY <1>1, <1>2, <2>1, <2>3, PunctNow, LeaseTypes DEF Sheltered, LiveFence, Punct, FenceInv, OwnershipInv
  <2>4. QED
    BY <2>2, <2>3
<1>5. QED
  <2>1. \A o : Published(mem[a], o).deadline = mem[a].deadline
    BY <1>1 DEF Published, TaskMemory
  <2>2. \/ \E o : FenceAfterAnswer(a) = Published(mem[a], o)
        \/ /\ FenceAfterAnswer(a) = [mem[a] EXCEPT !.deadline = RenewedDeadline(a)]
           /\ ~(now >= mem[a].deadline) /\ mem[a].answer = "owned"
    BY DEF FenceAfterAnswer
  <2>3. ~(now >= mem[a].deadline) => now < mem[a].deadline
    BY LeaseTypes DEF FenceInv, OwnershipInv
  <2>4. QED
    BY <1>3, <1>4, <2>1, <2>2, <2>3

\* Dropping a heartbeat keeps the fence of its attempt covered.
LEMMA BeatDroppedFence ==
  ASSUME FenceInv, TypeInv', NEW a \in Attempt, HeartbeatFails(a) \/ FenceExpires(a)
  PROVE  Sheltered(a)' /\ Punct(a)'
<1>1. mem[a] \in TaskMemory /\ UNCHANGED <<now, store>> /\ (pc'[a] = pc[a] \/ pc'[a] = "releasing")
  BY DEF HeartbeatFails, FenceExpires, FenceInv, OwnershipInv, TypeInv, TypeOK
<1>2. mem'[a] = NoBeat(mem[a]) \/ mem'[a] = NoBeat(Published(mem[a], "lost"))
  BY DEF HeartbeatFails, FenceExpires, SetBeatless, FenceInv, OwnershipInv, TypeInv, TypeOK
<1>3. /\ mem'[a].deadline = mem[a].deadline /\ mem'[a].sent = 0 /\ mem'[a].beat = "idle"
      /\ mem'[a].outcome = "none" => mem[a].outcome = "none"
  <2>1. CASE mem'[a] = NoBeat(mem[a])
    BY <1>1, <2>1 DEF NoBeat, TaskMemory
  <2>2. CASE mem'[a] = NoBeat(Published(mem[a], "lost"))
    BY <1>1, <2>2 DEF NoBeat, Published, TaskMemory
  <2>3. QED
    BY <1>2, <2>1, <2>2
<1>4. QED
  BY <1>1, <1>3, DropBeat DEF Fenced, Working

----------------------------------------------------------------------------
\* The invariant, and what it gives.

AttemptStep(a) ==
    \/ Request(a) \/ HandlerStep(a) \/ HeartbeatStep(a) \/ WorkerStep(a) \/ MonitorStep(a)

\* The steps of an attempt touch its own tasks only.
LEMMA AttemptIsLocal ==
  ASSUME TypeInv, NEW a \in Attempt, AttemptStep(a)
  PROVE  now' = now /\ \A b \in Attempt \ {a} : pc'[b] = pc[b] /\ mem'[b] = mem[b]
<1>1. CASE Request(a) \/ HandlerStep(a)
  BY <1>1 DEF HandlerStep, Request, Claim, ClaimNew, ClaimExisting, ClaimOverQuota, ClaimTooLate,
     Register, RefuseRegistration, Release, Leave, Goto, TypeInv, TypeOK
<1>2. CASE HeartbeatStep(a)
  BY <1>2 DEF HeartbeatStep, SendHeartbeat, HeartbeatTx, EstablishFence, ReceiveHeartbeat,
     HeartbeatFails, FenceExpires, SetBeatless, Goto, TypeInv, TypeOK
<1>3. CASE WorkerStep(a)
  BY <1>3 DEF WorkerStep, Admit, ProvisionalIntent, ConfirmIntent, CrewIntent, WorkerReturns,
     AbortWorker, EndWorker, Goto, TypeInv, TypeOK
<1>4. CASE MonitorStep(a)
  BY <1>4 DEF MonitorStep, StopByFence, JoinWorker, TimeOutWorker, FinishRun, FallbackIntent,
     CloseLedger, Leave, Goto, TypeInv, TypeOK
<1>5. QED
  BY <1>1, <1>2, <1>3, <1>4 DEF AttemptStep

\* ... and take nothing from the others in the store.
LEMMA AttemptSafe ==
  ASSUME OwnershipInv, NEW a \in Attempt, AttemptStep(a), NEW b \in Attempt \ {a} PROVE StoreSafe(b)
<1>1. CASE UNCHANGED store
  BY <1>1, SameStoreSafe
<1>2. CASE SaveIntent(a) \/ Claim(a) \/ HeartbeatTx(a)
  BY <1>2, IntentSafe, ClaimSafe, HeartbeatSafe
<1>3. CASE Release(a) \/ FinishRun(a) \/ CloseLedger(a)
  BY <1>3, OthersSafe
<1>4. QED
  BY <1>1, <1>2, <1>3 DEF AttemptStep, HandlerStep, HeartbeatStep, WorkerStep, MonitorStep, Request,
     ClaimTooLate, Register, RefuseRegistration, SendHeartbeat, EstablishFence, ReceiveHeartbeat,
     HeartbeatFails, FenceExpires, Admit, ProvisionalIntent, ConfirmIntent, CrewIntent, WorkerReturns,
     AbortWorker, StopByFence, JoinWorker, TimeOutWorker, FallbackIntent

\* FenceInv holds initially.
LEMMA FenceInit == Init => FenceInv
<1> SUFFICES ASSUME Init PROVE FenceInv
  OBVIOUS
<1>1. \A a \in Attempt : mem[a].sent = 0 /\ mem[a].deadline = 0 /\ pc[a] = "idle" /\ now = 0
  BY DEF Init, NoMem
<1>2. Punctual /\ FenceCovered
  BY <1>1, KeyedRunAssumption DEF KeyedRunAssumption, Punctual, FenceCovered, LiveFence, Fenced, Working
<1>3. QED
  BY <1>2, OwnershipInit DEF FenceInv

\* Every step keeps FenceInv.
LEMMA FenceStep == FenceInv /\ [Next]_vars => FenceInv'
<1> SUFFICES ASSUME FenceInv, [Next]_vars PROVE FenceInv'
  OBVIOUS
<1>1. OwnershipInv' /\ TypeInv'
  BY OwnershipStep DEF FenceInv, OwnershipInv
<1>2. SUFFICES ASSUME NEW b \in Attempt PROVE Sheltered(b)' /\ Punct(b)'
  BY <1>1 DEF FenceInv, Punctual, Punct, FenceCovered, Sheltered, InFlight, LiveFence, Covered, Row, Linked, KeyOf
<1>3. ASSUME now' \in Nat, now' >= now, StoreSafe(b), TaskSafe(b),
             mem'[b] = mem[b] \/ mem'[b] = NoMem
      PROVE  Sheltered(b)' /\ Punct(b)'
  <2>1. mem'[b].sent \in {mem[b].sent, 0} /\ mem'[b].deadline \in {mem[b].deadline, 0}
    BY <1>3 DEF NoMem
  <2>2. Punct(b)'
    BY <1>3, <2>1, PunctNow, LeaseTypes DEF Punct, FenceInv, OwnershipInv
  <2>3. QED
    BY <1>1, <1>3, <2>2, StaysSheltered
<1>4. ASSUME NEW a \in Attempt, AttemptStep(a) PROVE Sheltered(b)' /\ Punct(b)'
  <2>1. CASE b # a
    <3>1. now' = now /\ pc'[b] = pc[b] /\ mem'[b] = mem[b]
      BY <1>4, <2>1, AttemptIsLocal DEF FenceInv, OwnershipInv
    <3>2. TaskSafe(b)
      BY <3>1 DEF TaskSafe, LiveFence
    <3>3. StoreSafe(b)
      BY <1>4, <2>1, AttemptSafe DEF FenceInv
    <3>4. QED
      BY <1>3, <3>1, <3>2, <3>3, LeaseTypes DEF FenceInv, OwnershipInv
  <2>2. CASE b = a
    BY <1>1, <1>4, <2>2, HandlerFence, ClaimFence, RegisterFence, SendHeartbeatFence, HeartbeatTxFence,
       EstablishFenceFence, ReceiveHeartbeatFence, BeatDroppedFence, AdmitFence,
       ProvisionalIntentFence, ConfirmIntentFence, CrewIntentFence, WorkerReturnsFence,
       AbortWorkerFence, StopByFenceFence, JoinWorkerFence, TimeOutWorkerFence, FinishRunFence,
       FallbackIntentFence
       DEF AttemptStep, HandlerStep, HeartbeatStep, WorkerStep, MonitorStep
  <2>3. QED
    BY <2>1, <2>2
<1>5. CASE PeerStep
  <2>1. now' = now /\ pc' = pc /\ mem' = mem
    BY <1>5 DEF PeerStep, Reconcile, Prune, Cancel, DeleteRun
  <2>2. TaskSafe(b)
    BY <2>1 DEF TaskSafe, LiveFence
  <2>3. QED
    BY <1>3, <1>5, <2>1, <2>2, PeerSafe, LeaseTypes DEF FenceInv, OwnershipInv
<1>6. ASSUME NEW i \in Instance, LifecycleStep(i) PROVE Sheltered(b)' /\ Punct(b)'
  <2>1. now' = now
    BY <1>6 DEF LifecycleStep, BeginFencing, FenceOwner, MarkStopping, Crash
  <2>2. (pc'[b] = pc[b] \/ pc'[b] = "crashed") /\ (mem'[b] = mem[b] \/ mem'[b] = NoMem)
    BY <1>6 DEF LifecycleStep, BeginFencing, FenceOwner, MarkStopping, Crash
  <2>3. TaskSafe(b)
    <3>1. CASE mem'[b] = mem[b]
      BY <2>1, <2>2, <3>1 DEF TaskSafe, LiveFence, Fenced, Working
    <3>2. CASE mem'[b] = NoMem
      BY <2>1, <3>2, LeaseTypes DEF TaskSafe, LiveFence, NoMem, FenceInv, OwnershipInv
    <3>3. QED
      BY <2>2, <3>1, <3>2
  <2>4. QED
    BY <1>3, <1>6, <2>1, <2>2, <2>3, LifecycleSafe, LeaseTypes DEF FenceInv, OwnershipInv
<1>7. CASE Tick \/ UNCHANGED vars
  <2>1. /\ now' = now + 1 \/ now' = now
        /\ UNCHANGED store /\ pc' = pc /\ mem' = mem
    BY <1>7 DEF Tick, vars, store
  <2>2. now' \in Nat /\ now' >= now /\ (\A d \in Nat : now' < d => now < d)
    BY <2>1, LeaseTypes DEF FenceInv, OwnershipInv
  <2>3. TaskSafe(b)
    BY <2>1, <2>2, LeaseTypes DEF TaskSafe, LiveFence, FenceInv, OwnershipInv
  <2>4. QED
    BY <1>3, <2>1, <2>2, <2>3, SameStoreSafe
<1>8. QED
  BY <1>4, <1>5, <1>6, <1>7 DEF Next, AttemptStep

\* While the replica's own deadline has not passed no peer has settled, taken or
\* abandoned its attempt, whatever the delays of heartbeats and answers
\* (conservative_lease_deadline, spawn_loop, admit_execution).
THEOREM FenceExcludes == Spec => []LiveFenceExcludesPeers
<1>1. FenceInv => LiveFenceExcludesPeers
  BY DEF FenceInv, FenceCovered, LiveFence, Fenced, Working, LiveFenceExcludesPeers
<1>2. QED
  BY <1>1, FenceInit, FenceStep, PTL DEF Spec

----------------------------------------------------------------------------
\* The drain.

Registered == Working \cup {"ended", "stopped", "fallback"}

\* A step gives attempt b no new row in flight, and keeps its marks.
RowsBack(b) ==
    Linked(b)' /\ InFlight(Row(b)') =>
        Linked(b) /\ InFlight(Row(b)) /\ Row(b)'.drain = Row(b).drain

\* A step that leaves the ledger alone adds no row.
LEMMA SameStoreBack == ASSUME NEW b \in Attempt, UNCHANGED ledger PROVE RowsBack(b)
BY DEF RowsBack, Linked, Row, KeyOf, InFlight

\* An intent puts no further row in flight and keeps the marks.
LEMMA IntentBack ==
  ASSUME OwnershipInv, NEW a \in Attempt, SaveIntent(a), NEW b \in Attempt PROVE RowsBack(b)
<1>1. CASE ledger' = ledger
  BY <1>1, SameStoreBack
<1>2. CASE /\ Maps(a)
           /\ ledger' = [ledger EXCEPT ![KeyOf(a)].st = "running", ![KeyOf(a)].lease = now + LeaseTTL]
  <2>1. \A k \in Key : ledger'[k].att = ledger[k].att /\ ledger'[k].drain = ledger[k].drain
    BY <1>2, ReqType DEF OwnershipInv, TypeInv, TypeOK, LedgerRow
  <2>2. InFlight(ledger[KeyOf(a)]) /\ \A k \in Key \ {KeyOf(a)} : ledger'[k].st = ledger[k].st
    BY <1>2, ReqType DEF Maps, Row, InFlight, OwnershipInv, TypeInv, TypeOK
  <2>3. QED
    BY <2>1, <2>2, ReqType DEF RowsBack, Linked, Row, KeyOf, InFlight
<1>3. QED
  BY <1>1, <1>2 DEF SaveIntent, store

\* Claiming gives a row to the claiming attempt only.
LEMMA ClaimBack ==
  ASSUME OwnershipInv, NEW a \in Attempt, Claim(a), NEW b \in Attempt \ {a} PROVE RowsBack(b)
<1>1. SUFFICES ASSUME Linked(b)', InFlight(Row(b)') PROVE ledger'[KeyOf(b)] = ledger[KeyOf(b)]
  BY DEF RowsBack, Linked, Row, KeyOf, InFlight
<1>2. KeyOf(a) \in Key /\ KeyOf(b) \in Key /\ PrunedLedger \in [Key -> LedgerRow]
  BY ReqType, Pruned DEF OwnershipInv
<1>3. ledger'[KeyOf(b)].st \notin {"absent", "indeterminate"} /\ ledger'[KeyOf(b)].att = b
  BY <1>1 DEF Linked, Row, KeyOf, InFlight
<1>4. CASE ledger'[KeyOf(b)] = PrunedLedger[KeyOf(b)]
  BY <1>2, <1>3, <1>4, Pruned DEF NoRow, OwnershipInv
<1>5. CASE KeyOf(b) = KeyOf(a) /\ ClaimNew(a)
  BY <1>2, <1>3, <1>5 DEF ClaimNew, NoRow
<1>6. CASE KeyOf(b) = KeyOf(a) /\ ledger' = [PrunedLedger EXCEPT ![KeyOf(a)] = Indeterminate(PrunedLedger[KeyOf(a)])]
  BY <1>2, <1>3, <1>6 DEF Indeterminate, LedgerRow
<1>7. QED
  BY <1>2, <1>4, <1>5, <1>6 DEF Claim, ClaimNew, ClaimExisting, ClaimOverQuota

\* The other steps of an attempt.
LEMMA AttemptBack ==
  ASSUME OwnershipInv, NEW a \in Attempt, AttemptStep(a), ~Claim(a), NEW b \in Attempt PROVE RowsBack(b)
<1>1. CASE UNCHANGED ledger
  BY <1>1, SameStoreBack
<1>2. CASE SaveIntent(a)
  BY <1>2, IntentBack
<1>3. CASE ledger' = [ledger EXCEPT ![KeyOf(a)].lease = now + LeaseTTL]
  <2>1. \A k \in Key : /\ ledger'[k].st = ledger[k].st /\ ledger'[k].att = ledger[k].att
                       /\ ledger'[k].drain = ledger[k].drain
    BY <1>3, ReqType DEF OwnershipInv, TypeInv, TypeOK, LedgerRow
  <2>2. QED
    BY <2>1, ReqType DEF RowsBack, Linked, Row, KeyOf, InFlight
<1>4. CASE Release(a)
  BY <1>4, ReqType DEF Release, ReleasedLedger, NoRow, RowsBack, Linked, Row, KeyOf, InFlight, OwnershipInv,
     TypeInv, TypeOK
<1>5. CASE ledger' = SettleRows({a})
  BY <1>5, SettleEffect DEF RowsBack, InFlight
<1>6. CASE CloseLedger(a)
  <2>1. PICK fits \in BOOLEAN :
          ledger' = IF Linked(a) /\ InFlight(Row(a))
                    THEN [ledger EXCEPT ![KeyOf(a)] = ClosedRow(a, fits)] ELSE ledger
    BY <1>6 DEF CloseLedger
  <2>2. Row(a) \in LedgerRow
    BY ReqType DEF Row, OwnershipInv, TypeInv, TypeOK
  <2>3. ~InFlight(ClosedRow(a, fits))
    BY <2>2 DEF ClosedRow, Indeterminate, LedgerRow, InFlight
  <2>4. QED
    BY <2>1, <2>3, ReqType DEF RowsBack, Linked, Row, KeyOf, InFlight, OwnershipInv, TypeInv, TypeOK
<1>7. QED
  BY <1>1, <1>2, <1>3, <1>4, <1>5, <1>6 DEF AttemptStep, HandlerStep, HeartbeatStep, WorkerStep,
     MonitorStep, Request, ClaimTooLate, Register, RefuseRegistration, SendHeartbeat, HeartbeatTx,
     EstablishFence, ReceiveHeartbeat, HeartbeatFails, FenceExpires, Admit, ProvisionalIntent,
     ConfirmIntent, CrewIntent, WorkerReturns, AbortWorker, StopByFence, JoinWorker, TimeOutWorker,
     FinishRun, FallbackIntent, store

\* A peer step gives no attempt a new row in flight.
LEMMA PeerBack == ASSUME OwnershipInv, PeerStep, NEW b \in Attempt PROVE RowsBack(b)
<1>1. CASE Reconcile
  BY <1>1, SettleEffect DEF Reconcile, RowsBack, InFlight
<1>2. CASE Prune
  <2>1. ledger'[KeyOf(b)] = PrunedLedger[KeyOf(b)]
    BY <1>2 DEF Prune
  <2>2. Row(b)' = Row(b) \/ Row(b)' = NoRow
    BY <2>1, PruneEffect DEF Row, KeyOf
  <2>3. QED
    BY <2>2 DEF RowsBack, Linked, NoRow, InFlight
<1>3. ASSUME NEW a \in Attempt, Cancel(a) PROVE RowsBack(b)
  <2>1. \A k \in Key : /\ ledger'[k].st = ledger[k].st /\ ledger'[k].att = ledger[k].att
                       /\ ledger'[k].drain = ledger[k].drain
    BY <1>3, ReqType DEF Cancel, OwnershipInv, TypeInv, TypeOK, LedgerRow
  <2>2. QED
    BY <2>1, ReqType DEF RowsBack, Linked, Row, KeyOf, InFlight
<1>4. ASSUME NEW a \in Attempt, DeleteRun(a) PROVE RowsBack(b)
  BY <1>4, SameStoreBack DEF DeleteRun
<1>5. QED
  BY <1>1, <1>2, <1>3, <1>4 DEF PeerStep

\* An attempt becomes registered only on a replica that accepts.
LEMMA AttemptRegisters ==
  ASSUME TypeInv, NEW a \in Attempt, AttemptStep(a)
  PROVE  /\ phase' = phase
         /\ \A b \in Attempt : pc'[b] \in Registered =>
               pc[b] \in Registered \/ phase[InstOf(b)] = "accepting"
         /\ \A b \in Attempt : pc'[b] = "crashed" => pc[b] = "crashed"
<1>1. CASE Request(a) \/ HandlerStep(a)
  BY <1>1 DEF HandlerStep, Request, Claim, ClaimNew, ClaimExisting, ClaimOverQuota, ClaimTooLate,
     Register, MayRegister, RefuseRegistration, Release, Leave, Goto, TypeInv, TypeOK, Registered, Working
<1>2. CASE HeartbeatStep(a)
  BY <1>2 DEF HeartbeatStep, SendHeartbeat, HeartbeatTx, EstablishFence, ReceiveHeartbeat,
     HeartbeatFails, FenceExpires, Goto, TypeInv, TypeOK, Registered, Working
<1>3. CASE WorkerStep(a)
  BY <1>3 DEF WorkerStep, Admit, ProvisionalIntent, ConfirmIntent, CrewIntent, WorkerReturns,
     AbortWorker, EndWorker, Goto, TypeInv, TypeOK, Registered, Working
<1>4. CASE MonitorStep(a)
  BY <1>4 DEF MonitorStep, StopByFence, JoinWorker, TimeOutWorker, FinishRun, FallbackIntent,
     CloseLedger, Leave, Goto, TypeInv, TypeOK, Registered, Working
<1>5. QED
  BY <1>1, <1>2, <1>3, <1>4 DEF AttemptStep

\* The mark of one attempt.
Marked(b) ==
    /\ phase[InstOf(b)] \in {"draining", "stopping"} /\ pc[b] \in Registered
    /\ Linked(b) /\ InFlight(Row(b))
    => Row(b).drain

\* DrainInv holds initially.
LEMMA DrainInit == Init => DrainInv
<1> SUFFICES ASSUME Init PROVE DrainInv
  OBVIOUS
<1>1. CrashedDown /\ DrainFenceComplete
  BY ReqType DEF Init, CrashedDown, DrainFenceComplete
<1>2. QED
  BY <1>1, OwnershipInit DEF DrainInv

\* Every step keeps DrainInv.
LEMMA DrainStep == DrainInv /\ [Next]_vars => DrainInv'
<1> SUFFICES ASSUME DrainInv, [Next]_vars PROVE DrainInv'
  OBVIOUS
<1>1. OwnershipInv' /\ OwnershipInv /\ TypeInv
  BY OwnershipStep DEF DrainInv, OwnershipInv
<1>2. SUFFICES ASSUME NEW b \in Attempt
               PROVE  Marked(b)' /\ (pc'[b] = "crashed" => phase'[InstOf(b)] = "down")
  BY <1>1 DEF DrainInv, CrashedDown, DrainFenceComplete, Marked, Registered, InFlight, Linked, Row, KeyOf, InstOf
<1>3. Marked(b) /\ (pc[b] = "crashed" => phase[InstOf(b)] = "down")
  BY DEF DrainInv, CrashedDown, DrainFenceComplete, Marked, Registered
<1>4. ASSUME NEW a \in Attempt, AttemptStep(a)
      PROVE  Marked(b)' /\ (pc'[b] = "crashed" => phase'[InstOf(b)] = "down")
  <2>1. /\ phase' = phase /\ (pc'[b] = "crashed" => pc[b] = "crashed")
        /\ pc'[b] \in Registered => pc[b] \in Registered \/ phase[InstOf(b)] = "accepting"
    BY <1>1, <1>4, AttemptRegisters
  <2>2. CASE RowsBack(b)
    BY <1>3, <2>1, <2>2 DEF Marked, RowsBack, InstOf, InFlight, Linked, Row, KeyOf
  <2>3. CASE Claim(a) /\ b = a
    <3>1. pc'[a] \notin Registered
      BY <1>1, <2>3 DEF Claim, ClaimNew, ClaimExisting, ClaimOverQuota, Leave, Goto, TypeInv, TypeOK,
         Registered, Working
    <3>2. QED
      BY <1>3, <2>1, <2>3, <3>1 DEF Marked, InstOf
  <2>4. QED
    BY <1>1, <1>4, <2>2, <2>3, ClaimBack, AttemptBack
<1>5. CASE PeerStep
  <2>1. phase' = phase /\ pc' = pc
    BY <1>5 DEF PeerStep, Reconcile, Prune, Cancel, DeleteRun
  <2>2. RowsBack(b)
    BY <1>1, <1>5, PeerBack
  <2>3. QED
    BY <1>3, <2>1, <2>2 DEF Marked, RowsBack, InstOf, InFlight, Linked, Row, KeyOf
<1>6. ASSUME NEW i \in Instance, LifecycleStep(i)
      PROVE  Marked(b)' /\ (pc'[b] = "crashed" => phase'[InstOf(b)] = "down")
  <2>1. CASE FenceOwner(i)
    <3>1. /\ pc' = pc /\ ledger' = DrainedLedger(i)
          /\ phase' = phase \/ phase' = [phase EXCEPT ![i] = "draining"]
          /\ phase[i] = "fencing"
      BY <2>1 DEF FenceOwner
    <3>2. /\ Linked(b)' <=> Linked(b) /\ Row(b)'.st = Row(b).st
          /\ Row(b)'.drain = Row(b).drain \/ Row(b)'.drain
          /\ Linked(b) /\ InFlight(Row(b)) /\ InstOf(b) = i => Row(b)'.drain
      <4>1. KeyOf(b) \in Key /\ ledger[KeyOf(b)] \in LedgerRow
        BY <1>1, ReqType DEF TypeInv, TypeOK
      <4>2. ledger'[KeyOf(b)] = IF InFlight(ledger[KeyOf(b)]) /\ InstOf(ledger[KeyOf(b)].att) = i
                                THEN [ledger[KeyOf(b)] EXCEPT !.drain = TRUE] ELSE ledger[KeyOf(b)]
        BY <3>1, <4>1 DEF DrainedLedger
      <4>3. QED
        BY <4>1, <4>2 DEF Linked, Row, KeyOf, LedgerRow
    <3>3. phase'[InstOf(b)] = phase[InstOf(b)] \/ (InstOf(b) = i /\ phase'[InstOf(b)] = "draining")
      BY <1>1, <3>1, ReqType DEF TypeInv, TypeOK
    <3>4. (pc'[b] = "crashed" => phase'[InstOf(b)] = "down")
      BY <1>3, <3>1, <3>3
    <3>5. Marked(b)'
      BY <1>3, <3>1, <3>2, <3>3 DEF Marked, InFlight, InstOf
    <3>6. QED
      BY <3>4, <3>5
  <2>2. CASE BeginFencing(i) \/ MarkStopping(i)
    <3>1. /\ pc' = pc /\ ledger' = ledger /\ phase[i] # "down"
          /\ \/ phase' = [phase EXCEPT ![i] = "fencing"]
             \/ phase[i] = "draining" /\ phase' = [phase EXCEPT ![i] = "stopping"]
      BY <2>2 DEF BeginFencing, MarkStopping, store
    <3>2. /\ phase'[InstOf(b)] \in {"draining", "stopping"} => phase[InstOf(b)] \in {"draining", "stopping"}
          /\ phase[InstOf(b)] = "down" => phase'[InstOf(b)] = "down"
      BY <1>1, <3>1, ReqType DEF TypeInv, TypeOK
    <3>3. QED
      BY <1>3, <3>1, <3>2 DEF Marked, InstOf, InFlight, Linked, Row, KeyOf
  <2>3. CASE Crash(i)
    <3>1. /\ phase' = [phase EXCEPT ![i] = "down"] /\ ledger' = ledger
          /\ pc'[b] = IF InstOf(b) = i /\ pc[b] # "done" THEN "crashed" ELSE pc[b]
      BY <2>3 DEF Crash, store
    <3>2. phase'[InstOf(b)] = IF InstOf(b) = i THEN "down" ELSE phase[InstOf(b)]
      BY <1>1, <3>1, ReqType DEF TypeInv, TypeOK
    <3>3. QED
      BY <1>3, <3>1, <3>2 DEF Marked, InstOf, InFlight, Linked, Row, KeyOf
  <2>4. QED
    BY <1>6, <2>1, <2>2, <2>3 DEF LifecycleStep
<1>7. CASE Tick \/ UNCHANGED vars
  <2>1. phase' = phase /\ pc' = pc /\ ledger' = ledger
    BY <1>7 DEF Tick, vars, store
  <2>2. QED
    BY <1>3, <2>1 DEF Marked, InstOf, InFlight, Linked, Row, KeyOf
<1>8. QED
  BY <1>4, <1>5, <1>6, <1>7 DEF Next, AttemptStep

\* Once a replica reports draining every registered run of its own carries the
\* drain mark, the ones registered just before the fence included
\* (run_flow's locked recheck, begin_owner_drain_maintenance).
THEOREM DrainMarksAll == Spec => []DrainFenceComplete
<1>1. DrainInv => DrainFenceComplete
  BY DEF DrainInv
<1>2. QED
  BY <1>1, DrainInit, DrainStep, PTL DEF Spec

\* The row of key k gets no cancellation and no run in this step.
Quiet(k) ==
    /\ ~ledger[k].cancel => ~ledger'[k].cancel
    /\ ledger[k].st = "claimed" => ledger'[k].st # "running"

\* A row that is swept, settled, released or closed is quiet.
LEMMA QuietEffects ==
  ASSUME TypeInv, NEW a \in Attempt, NEW k \in Key,
         \/ ledger' = ledger
         \/ ledger' = [ledger EXCEPT ![KeyOf(a)].lease = now + LeaseTTL]
         \/ \E S : ledger' = SettleRows(S)
         \/ \E i : ledger' = DrainedLedger(i)
         \/ ledger' = PrunedLedger
         \/ Claim(a) \/ Release(a) \/ CloseLedger(a)
  PROVE  Quiet(k)
<1>1. ledger \in [Key -> LedgerRow] /\ KeyOf(a) \in Key /\ ledger[k] \in LedgerRow
  BY ReqType DEF TypeInv, TypeOK
<1>2. PrunedLedger \in [Key -> LedgerRow] /\ (PrunedLedger[k] = ledger[k] \/ PrunedLedger[k] = NoRow)
  BY Pruned
<1>3. CASE ledger' = ledger \/ ledger' = [ledger EXCEPT ![KeyOf(a)].lease = now + LeaseTTL]
  <2>1. ledger'[k].cancel = ledger[k].cancel /\ ledger'[k].st = ledger[k].st
    BY <1>1, <1>3 DEF LedgerRow
  <2>2. QED
    BY <2>1 DEF Quiet
<1>4. ASSUME NEW S, ledger' = SettleRows(S) PROVE Quiet(k)
  <2>1. ledger'[k] = IF ledger[k].att \in S THEN SettleRow(ledger[k]) ELSE ledger[k]
    BY <1>4 DEF SettleRows
  <2>2. ledger'[k].cancel = ledger[k].cancel /\ ledger'[k].st \in {ledger[k].st, "completed"}
    BY <1>1, <2>1 DEF SettleRow, LedgerRow
  <2>3. QED
    BY <2>2 DEF Quiet
<1>5. ASSUME NEW i, ledger' = DrainedLedger(i) PROVE Quiet(k)
  <2>1. ledger'[k].cancel = ledger[k].cancel /\ ledger'[k].st = ledger[k].st
    BY <1>1, <1>5 DEF DrainedLedger, LedgerRow
  <2>2. QED
    BY <2>1 DEF Quiet
<1>6. CASE ledger'[k] = PrunedLedger[k]
  BY <1>2, <1>6 DEF Quiet, NoRow
<1>7. CASE Claim(a)
  <2>1. CASE ledger'[KeyOf(a)].st = "claimed" /\ ~ledger'[KeyOf(a)].cancel /\ k = KeyOf(a)
    BY <2>1 DEF Quiet
  <2>2. CASE k = KeyOf(a) /\ ledger'[k] = Indeterminate(PrunedLedger[k])
    <3>1. ledger'[k].cancel = PrunedLedger[k].cancel /\ ledger'[k].st = "indeterminate"
      BY <1>2, <2>2 DEF Indeterminate, LedgerRow
    <3>2. QED
      BY <1>2, <3>1 DEF Quiet, NoRow
  <2>3. QED
    BY <1>1, <1>2, <1>6, <1>7, <2>1, <2>2 DEF Claim, ClaimNew, ClaimExisting, ClaimOverQuota, NoRow
<1>8. CASE Release(a)
  BY <1>1, <1>8 DEF Release, ReleasedLedger, NoRow, Quiet
<1>9. CASE CloseLedger(a)
  <2>1. PICK fits \in BOOLEAN :
          ledger' = IF Linked(a) /\ InFlight(Row(a))
                    THEN [ledger EXCEPT ![KeyOf(a)] = ClosedRow(a, fits)] ELSE ledger
    BY <1>9 DEF CloseLedger
  <2>2. /\ ClosedRow(a, fits).cancel = ledger[KeyOf(a)].cancel
        /\ ClosedRow(a, fits).st \in {"completed", "indeterminate"}
    BY <1>1 DEF ClosedRow, Indeterminate, LedgerRow, Row
  <2>3. QED
    BY <1>1, <2>1, <2>2 DEF Quiet
<1>10. QED
  BY <1>3, <1>4, <1>5, <1>6, <1>7, <1>8, <1>9

\* A running row of a draining replica is marked, and so is the row of a worker
\* or finaliser that could still save an intent.
LEMMA DrainedRows ==
  ASSUME DrainInv, NEW a \in Attempt, phase[InstOf(a)] \in {"draining", "stopping"},
         Linked(a), InFlight(Row(a)), Row(a).st = "running" \/ pc[a] \in Registered
  PROVE  Row(a).drain
<1>1. pc[a] \in Registered
  BY DEF DrainInv, OwnershipInv, RowFollowsRun, CrashedDown, TypeInv, TypeOK, PC, PreRun, Registered, Working
<1>2. QED
  BY <1>1 DEF DrainInv, DrainFenceComplete, Registered

\* Once the owner drains, no cancellation is recorded for its runs and none of
\* its claims becomes a run (request_run_cancellation's and insert_run_intent's
\* owner_draining_at conditions).
THEOREM DrainStopsControl == Spec => DrainedOwnerTakesNoControl
<1>1. DrainInv /\ [Next]_vars =>
        [\A a \in Attempt : phase[InstOf(a)] \in {"draining", "stopping"} /\ Linked(a) =>
            /\ ~Row(a).cancel => ~Row(a)'.cancel
            /\ Row(a).st = "claimed" => Row(a)'.st # "running"]_vars
  <2>1. SUFFICES ASSUME DrainInv, Next, NEW a \in Attempt,
                        phase[InstOf(a)] \in {"draining", "stopping"}, Linked(a)
                 PROVE  Quiet(KeyOf(a))
    BY DEF Quiet, Row, KeyOf
  <2>2. TypeInv /\ KeyOf(a) \in Key /\ ledger \in [Key -> LedgerRow]
    BY <2>1, ReqType DEF DrainInv, OwnershipInv, TypeInv, TypeOK
  <2>3. ASSUME NEW b \in Attempt, SaveIntent(b), pc[b] \in Registered PROVE Quiet(KeyOf(a))
    <3>1. CASE ledger' = ledger
      BY <2>2, <3>1, QuietEffects
    <3>2. CASE /\ Maps(b)
               /\ ledger' = [ledger EXCEPT ![KeyOf(b)].st = "running", ![KeyOf(b)].lease = now + LeaseTTL]
      <4>1. KeyOf(b) # KeyOf(a)
        BY <2>1, <2>3, <3>2, DrainedRows DEF Maps, Linked, Row, InFlight
      <4>2. ledger'[KeyOf(a)] = ledger[KeyOf(a)]
        BY <2>2, <3>2, <4>1
      <4>3. QED
        BY <4>2 DEF Quiet
    <3>3. QED
      BY <2>3, <3>1, <3>2 DEF SaveIntent, store
  <2>4. ASSUME NEW b \in Attempt, Cancel(b) PROVE Quiet(KeyOf(a))
    <3>1. Row(b).st = "running"
      BY <2>1, <2>4 DEF Cancel, InFlight, DrainInv, OwnershipInv, RowFollowsRun
    <3>2. KeyOf(b) # KeyOf(a)
      BY <2>1, <2>4, <3>1, DrainedRows DEF Cancel, Linked, Row
    <3>3. ledger'[KeyOf(a)] = ledger[KeyOf(a)]
      BY <2>2, <2>4, <3>2 DEF Cancel
    <3>4. QED
      BY <3>3 DEF Quiet
  <2>5. ASSUME NEW b \in Attempt, AttemptStep(b) PROVE Quiet(KeyOf(a))
    <3>1. CASE \/ ledger' = ledger \/ Claim(b) \/ Release(b) \/ CloseLedger(b)
               \/ ledger' = [ledger EXCEPT ![KeyOf(b)].lease = now + LeaseTTL]
               \/ ledger' = SettleRows({b})
      BY <2>2, <3>1, QuietEffects
    <3>2. CASE SaveIntent(b) /\ pc[b] \in {"executing", "accepted", "fallback"}
      BY <2>3, <3>2 DEF Registered, Working
    <3>3. QED
      BY <2>5, <3>1, <3>2 DEF AttemptStep, HandlerStep, HeartbeatStep, WorkerStep,
         MonitorStep, Request, ClaimTooLate, Register, RefuseRegistration, SendHeartbeat, HeartbeatTx,
         EstablishFence, ReceiveHeartbeat, HeartbeatFails, FenceExpires, Admit, ProvisionalIntent,
         ConfirmIntent, CrewIntent, WorkerReturns, AbortWorker, StopByFence, JoinWorker, TimeOutWorker,
         FinishRun, FallbackIntent, store
  <2>6. CASE PeerStep
    <3>1. CASE Reconcile \/ Prune
      BY <2>2, <3>1, QuietEffects DEF Reconcile, Prune
    <3>2. ASSUME NEW b \in Attempt, DeleteRun(b) PROVE Quiet(KeyOf(a))
      BY <2>2, <3>2, QuietEffects DEF DeleteRun
    <3>3. QED
      BY <2>4, <2>6, <3>1, <3>2 DEF PeerStep
  <2>7. ASSUME NEW i \in Instance, LifecycleStep(i) PROVE Quiet(KeyOf(a))
    <3>1. ledger' = ledger \/ ledger' = DrainedLedger(i)
      BY <2>7 DEF LifecycleStep, BeginFencing, FenceOwner, MarkStopping, Crash, store
    <3>2. QED
      BY <2>2, <3>1, QuietEffects
  <2>8. CASE Tick
    BY <2>2, <2>8, QuietEffects DEF Tick, store
  <2>9. QED
    BY <2>1, <2>5, <2>6, <2>7, <2>8 DEF Next, AttemptStep
<1>2. QED
  BY <1>1, DrainInit, DrainStep, PTL DEF Spec, DrainedOwnerTakesNoControl

=============================================================================
