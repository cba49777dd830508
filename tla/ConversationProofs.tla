------------------------- MODULE ConversationProofs -------------------------
(***************************************************************************)
(* ConversationTurn for every number of replicas, keys and messages. First *)
(* its types, and the exclusive scope of a conversation: one row holds it, *)
(* and the conversation does not move under a message in flight. Then what *)
(* a row of the ledger guarantees: retries of a key run one turn, and a    *)
(* turn of unknown outcome is not followed silently by another. Last what  *)
(* clients see: caches and ledger implement one linear transcript, and a   *)
(* recovery leaves the worker it gives up on a whole lease to stop.        *)
(***************************************************************************)
EXTENDS ConversationTurn, TLAPS

\* A row that is there belongs to a message on its key.
RowsNamed ==
    \A k \in Key : ledger[k].st # "absent" => ledger[k].msg \in Msg /\ KeyOf(ledger[k].msg) = k

\* TypeOK with its strengthening.
TypeInv == TypeOK /\ RowsNamed

\* The parts of TypeInv that steps change together.
TasksTyped == pc \in [Msg -> PC] /\ mem \in [Msg -> TaskMemory]
LedgerTyped == ledger \in [Key -> LedgerRow] /\ RowsNamed
CacheTyped == cache \in [Instance -> Conversation]
SessTyped == sess \in [Instance -> Session]
RestTyped ==
    /\ now \in Nat /\ minted \in Nat /\ phase \in [Instance -> Phase] /\ conv \in Conversation
    /\ past \subseteq Turn /\ said \subseteq [to : Msg, turn : Turn]
    /\ ran \in [Msg -> Nat] /\ recovered \subseteq Msg /\ freed \subseteq Msg

\* TypeInv is the conjunction of its parts.
LEMMA TypeParts ==
    TypeInv <=> TasksTyped /\ LedgerTyped /\ CacheTyped /\ SessTyped /\ RestTyped
BY DEF TypeInv, TypeOK, TasksTyped, LedgerTyped, CacheTyped, SessTyped, RestTyped

\* A step after which every part is typed keeps TypeInv.
LEMMA AllTyped ==
  ASSUME TasksTyped', LedgerTyped', CacheTyped', SessTyped', RestTyped'
  PROVE  TypeInv'
BY DEF TypeInv, TypeOK, TasksTyped, LedgerTyped, CacheTyped, SessTyped, RestTyped

\* A part that a step leaves alone stays typed.
LEMMA Kept ==
  ASSUME TypeInv
  PROVE  /\ UNCHANGED <<pc, mem>> => TasksTyped'
         /\ ledger' = ledger => LedgerTyped'
         /\ cache' = cache => CacheTyped'
         /\ sess' = sess => SessTyped'
         /\ UNCHANGED <<now, minted, phase, conv, past, said, ran, recovered, freed>> => RestTyped'
BY DEF TypeInv, TypeOK, TasksTyped, LedgerTyped, CacheTyped, SessTyped, RestTyped, RowsNamed

\* A request names a key and a replica.
LEMMA ReqType ==
  ASSUME NEW m \in Msg
  PROVE  KeyOf(m) \in Key /\ InstOf(m) \in Instance
BY ConversationAssumption DEF ConversationAssumption, KeyOf, InstOf

\* The instants that leases, deadlines and retentions are set to are naturals.
LEMMA Clocks ==
  ASSUME TypeInv
  PROVE  /\ now \in Nat /\ now + 1 \in Nat /\ minted + 1 \in Nat
         /\ LeaseTTL \in Nat /\ Retention \in Nat
         /\ now + LeaseTTL \in Nat /\ now + Retention \in Nat
         /\ now + LeaseTTL > 0 /\ now + Retention > now
         /\ \A m \in Msg : mem[m].sent + LeaseTTL \in Nat /\ mem[m].rev + 1 \in Nat
BY ConversationAssumption DEF ConversationAssumption, TypeInv, TypeOK, TaskMemory

\* The empty values have their types.
LEMMA Empties ==
    /\ NoConv \in Conversation /\ NoRow \in LedgerRow /\ NoSess \in Session /\ NoMem \in TaskMemory
<1>1. NoConv \in Conversation /\ NoSess \in Session
  BY DEF NoConv, Conversation, NoSess, Session, SessPC
<1>2. NoRow \in LedgerRow
  BY DEF NoRow, LedgerRow
<1>3. NoMem \in TaskMemory
  BY <1>2 DEF NoMem, TaskMemory
<1>4. QED
  BY <1>1, <1>2, <1>3

\* A message that leaves, or stops its heartbeat, has typed tasks.
LEMMA LeaveTyped ==
  ASSUME TypeInv, NEW m \in Msg, Leave(m)
  PROVE  TasksTyped'
BY Empties DEF Leave, Goto, TypeInv, TypeOK, TasksTyped, PC

\* The same for a task that goes on without its heartbeat.
LEMMA StopBeatTyped ==
  ASSUME TypeInv, NEW m \in Msg, NEW label \in PC, StopBeat(m, label)
  PROVE  TasksTyped'
BY DEF StopBeat, Goto, TypeInv, TypeOK, TasksTyped, TaskMemory

\* A step that only moves a message keeps its tasks typed.
LEMMA GotoTyped ==
  ASSUME TypeInv, NEW m \in Msg, NEW label \in PC, Goto(m, label), mem' = mem
  PROVE  TasksTyped'
BY DEF Goto, TypeInv, TypeOK, TasksTyped

\* Dropping a handle keeps the caches typed.
LEMMA ForgetTyped ==
  ASSUME TypeInv, NEW i \in Instance, Forget(i)
  PROVE  CacheTyped'
BY Empties DEF Forget, TypeInv, TypeOK, CacheTyped

\* The indeterminate form of a row is a row of the same message.
LEMMA IndeterminateRow ==
  ASSUME TypeInv, NEW row \in LedgerRow
  PROVE  /\ Indeterminate(row) \in LedgerRow /\ Indeterminate(row).msg = row.msg
         /\ Indeterminate(row).st = "indeterminate" /\ Indeterminate(row).inc = row.inc
         /\ Indeterminate(row).scoped = row.scoped
BY Clocks DEF Indeterminate, LedgerRow

\* What the retention sweep leaves in the ledger.
LEMMA Pruned ==
  ASSUME TypeInv
  PROVE  /\ PrunedLedger \in [Key -> LedgerRow] /\ PrunedMsgs \subseteq Msg
         /\ \A k \in Key : PrunedLedger[k] = IF Expired(ledger[k]) THEN NoRow ELSE ledger[k]
         /\ \A k \in Key : PrunedLedger[k].st # "absent" =>
              PrunedLedger[k].msg \in Msg /\ KeyOf(PrunedLedger[k].msg) = k
<1>1. PrunedLedger \in [Key -> LedgerRow]
  BY Empties DEF TypeInv, TypeOK, PrunedLedger
<1>2. PrunedMsgs \subseteq Msg
  BY DEF TypeInv, RowsNamed, PrunedMsgs, Settled
<1>3. \A k \in Key : PrunedLedger[k] = IF Expired(ledger[k]) THEN NoRow ELSE ledger[k]
  BY DEF PrunedLedger
<1>4. \A k \in Key : PrunedLedger[k].st # "absent" =>
              PrunedLedger[k].msg \in Msg /\ KeyOf(PrunedLedger[k].msg) = k
  BY <1>3 DEF TypeInv, RowsNamed, NoRow
<1>5. QED
  BY <1>1, <1>2, <1>3, <1>4

----------------------------------------------------------------------------
\* Steps of a message, up to its claim.

\* The initial states are well typed.
LEMMA InitType == Init => TypeInv
<1> SUFFICES ASSUME Init PROVE TypeInv
  OBVIOUS
<1>1. LedgerTyped /\ RestTyped
  BY Empties DEF Init, LedgerTyped, RestTyped, RowsNamed, NoRow, Phase
<1>2. TasksTyped /\ CacheTyped /\ SessTyped
  BY Empties DEF Init, TasksTyped, CacheTyped, SessTyped, PC
<1>3. QED
  BY <1>1, <1>2, TypeParts

\* Read, Lookup, Replay and TakeGate keep TypeInv.
LEMMA RequestType ==
  ASSUME TypeInv, NEW m \in Msg, Read(m) \/ Lookup(m) \/ Replay(m) \/ TakeGate(m)
  PROVE  TypeInv'
<1>a. InstOf(m) \in Instance /\ KeyOf(m) \in Key
  BY ReqType
<1>1. CASE Read(m)
  <2>1. TasksTyped' /\ CacheTyped'
    <3>1. CASE conv.inc = 0
      <4>1. Leave(m) /\ Forget(InstOf(m))
        BY <1>1, <3>1 DEF Read
      <4>2. QED
        BY <1>a, <4>1, LeaveTyped, ForgetTyped
    <3>2. CASE conv.inc # 0
      <4>1. conv.inc \in Nat /\ conv.rev \in Nat /\ "read" \in PC
        BY DEF TypeInv, TypeOK, Conversation, PC
      <4>2. mem' \in [Msg -> TaskMemory]
        <5>1. mem' = [mem EXCEPT ![m] = [@ EXCEPT !.inc = conv.inc, !.rev = conv.rev]]
          BY <1>1, <3>2 DEF Read
        <5>2. QED
          BY ZenonT(60), <4>1, <5>1 DEF TypeInv, TypeOK, TaskMemory
      <4>3. pc' \in [Msg -> PC] /\ cache' = cache
        BY <1>1, <3>2, <4>1 DEF Read, Goto, TypeInv, TypeOK
      <4>4. QED
        BY <4>2, <4>3, Kept DEF TasksTyped
    <3>3. QED
      BY <3>1, <3>2
  <2>2. LedgerTyped' /\ SessTyped' /\ RestTyped'
    BY <1>1, Kept DEF Read, store, ghost
  <2>3. QED
    BY <2>1, <2>2, AllTyped
<1>2. CASE Lookup(m)
  <2>1. TasksTyped'
    <3>1. CASE Leave(m)
      BY <3>1, LeaveTyped
    <3>2. CASE Goto(m, "missed") /\ mem' = mem
      BY <3>2, GotoTyped DEF PC
    <3>3. CASE Goto(m, "replaying") /\ mem' = [mem EXCEPT ![m].replay = Row(m)]
      BY ZenonT(60), <1>a, <3>3 DEF Goto, TypeInv, TypeOK, TasksTyped, TaskMemory, PC, Row
    <3>4. QED
      BY <1>2, <3>1, <3>2, <3>3 DEF Lookup
  <2>2. LedgerTyped' /\ SessTyped' /\ RestTyped' /\ CacheTyped'
    BY <1>2, Kept DEF Lookup, store, ghost
  <2>3. QED
    BY <2>1, <2>2, AllTyped
<1>3. CASE Replay(m)
  <2>1. TasksTyped'
    BY <1>3, LeaveTyped DEF Replay
  <2>2. CacheTyped'
    <3>1. cache' = cache \/ Forget(InstOf(m))
      BY <1>3 DEF Replay
    <3>2. QED
      BY <1>a, <3>1, Kept, ForgetTyped
  <2>3. mem[m].replay \in LedgerRow
    BY DEF TypeInv, TypeOK, TaskMemory
  <2>4. said' \subseteq [to : Msg, turn : Turn]
    BY <1>3, <2>3 DEF Replay, TypeInv, TypeOK, Turn, LedgerRow
  <2>5. LedgerTyped' /\ SessTyped'
    BY <1>3, Kept DEF Replay, store
  <2>6. RestTyped'
    BY <1>3, <2>4 DEF Replay, store, TypeInv, TypeOK, RestTyped
  <2>7. QED
    BY <2>1, <2>2, <2>5, <2>6, AllTyped
<1>4. CASE TakeGate(m)
  <2>1. TasksTyped'
    <3>1. CASE Leave(m)
      BY <3>1, LeaveTyped
    <3>2. CASE Goto(m, "gated") /\ mem' = [mem EXCEPT ![m].deadline = now + LeaseTTL]
      BY ZenonT(60), <3>2, Clocks DEF Goto, TypeInv, TypeOK, TasksTyped, TaskMemory, PC
    <3>3. QED
      BY <1>4, <3>1, <3>2 DEF TakeGate
  <2>2. LedgerTyped' /\ SessTyped' /\ RestTyped' /\ CacheTyped'
    BY <1>4, Kept DEF TakeGate, store, ghost
  <2>3. QED
    BY <2>1, <2>2, AllTyped
<1>5. QED
  BY <1>1, <1>2, <1>3, <1>4

----------------------------------------------------------------------------
\* The claim.

\* A row that is there belongs to a message on its key k.
Named(row, k) == row.st # "absent" => row.msg \in Msg /\ KeyOf(row.msg) = k

\* A ledger of typed and named rows.
LEMMA RowsTyped ==
  ASSUME DOMAIN ledger' = Key, ledger' = [k \in Key |-> ledger'[k]],
         \A k \in Key : ledger'[k] \in LedgerRow /\ Named(ledger'[k], k)
  PROVE  LedgerTyped'
<1>1. ledger' \in [Key -> LedgerRow]
  OBVIOUS
<1>2. RowsNamed'
  BY DEF RowsNamed, Named, KeyOf
<1>3. QED
  BY <1>1, <1>2 DEF LedgerTyped

\* The sweep of a claim leaves typed and named rows.
LEMMA PrunedRows ==
  ASSUME TypeInv, NEW k \in Key
  PROVE  /\ PrunedLedger[k] \in LedgerRow /\ Named(PrunedLedger[k], k)
         /\ Indeterminate(PrunedLedger[k]) \in LedgerRow
         /\ PrunedLedger[k].st # "absent" => Named(Indeterminate(PrunedLedger[k]), k)
<1>1. PrunedLedger[k] \in LedgerRow /\ Named(PrunedLedger[k], k)
  BY Pruned DEF Named
<1>2. QED
  BY <1>1, IndeterminateRow DEF Named

\* The recovered hazard stays the row of its message.
LEMMA ClearedRow ==
  ASSUME NEW row \in LedgerRow
  PROVE  /\ ClearScope(row) \in LedgerRow /\ ClearScope(row).msg = row.msg
         /\ ClearScope(row).st = row.st /\ ClearScope(row).inc = row.inc
         /\ ClearScope(row).scoped = FALSE
BY DEF ClearScope, LedgerRow

\* The row of a new claim.
ClaimedRow(m) ==
    [NoRow EXCEPT !.st = "claimed", !.msg = m, !.inc = mem[m].inc, !.base = mem[m].rev,
                  !.scoped = TRUE, !.lease = now + LeaseTTL]

\* A new claim is a row of its message, at the record that was read.
LEMMA ClaimedRowType ==
  ASSUME TypeInv, NEW m \in Msg
  PROVE  /\ ClaimedRow(m) \in LedgerRow /\ Named(ClaimedRow(m), KeyOf(m))
         /\ ClaimedRow(m).st = "claimed" /\ ClaimedRow(m).msg = m /\ ClaimedRow(m).scoped
         /\ ClaimedRow(m).inc = mem[m].inc /\ ClaimedRow(m).base = mem[m].rev
<1>1. mem[m].inc \in Nat /\ mem[m].rev \in Nat
  BY DEF TypeInv, TypeOK, TaskMemory
<1>2. QED
  BY <1>1, Clocks, Empties DEF ClaimedRow, NoRow, LedgerRow, Named

\* The ledger after a claim, row by row.
LEMMA ClaimLedger ==
  ASSUME TypeInv, NEW m \in Msg, Claim(m)
  PROVE  /\ DOMAIN ledger' = Key /\ ledger' = [k \in Key |-> ledger'[k]]
         /\ \A k \in Key :
              \/ ledger'[k] = PrunedLedger[k]
              \/ InFlight(PrunedLedger[k]) /\ ledger'[k] = Indeterminate(PrunedLedger[k])
              \/ ClaimNew(m) /\ k \in Hazards(m) /\ ledger'[k] = ClearScope(PrunedLedger[k])
              \/ k = KeyOf(m) /\ ClaimNew(m) /\ ledger'[k] = ClaimedRow(m)
<1>a. KeyOf(m) \in Key
  BY ReqType
<1>b. PrunedLedger = [k \in Key |-> PrunedLedger[k]]
  BY DEF PrunedLedger
<1>1. CASE ClaimExisting(m)
  BY <1>a, <1>b, <1>1 DEF ClaimExisting
<1>2. CASE ClaimStale(m)
  BY <1>b, <1>2 DEF ClaimStale
<1>3. CASE ClaimRefused(m)
  BY <1>3 DEF ClaimRefused, Occupants, ScopeRows, InFlight
<1>4. CASE ClaimNew(m)
  BY <1>4 DEF ClaimNew, ClaimedRow
<1>5. QED
  BY <1>1, <1>2, <1>3, <1>4 DEF Claim

\* A claim, won or refused, keeps TypeInv.
LEMMA ClaimType ==
  ASSUME TypeInv, NEW m \in Msg, Claim(m)
  PROVE  TypeInv'
<1>a. KeyOf(m) \in Key /\ InstOf(m) \in Instance
  BY ReqType
<1>1. LedgerTyped'
  <2>1. ASSUME NEW k \in Key
        PROVE  ledger'[k] \in LedgerRow /\ Named(ledger'[k], k)
    <3>1. PrunedLedger[k] \in LedgerRow /\ Named(PrunedLedger[k], k)
      BY PrunedRows
    <3>2. CASE ledger'[k] = PrunedLedger[k]
      BY <3>1, <3>2
    <3>3. CASE InFlight(PrunedLedger[k]) /\ ledger'[k] = Indeterminate(PrunedLedger[k])
      BY <3>3, PrunedRows DEF InFlight
    <3>4. CASE ledger'[k] = ClearScope(PrunedLedger[k])
      BY <3>1, <3>4, ClearedRow DEF Named
    <3>5. CASE k = KeyOf(m) /\ ledger'[k] = ClaimedRow(m)
      BY <3>5, ClaimedRowType
    <3>6. QED
      BY <3>2, <3>3, <3>4, <3>5, ClaimLedger
  <2>2. QED
    BY <2>1, ClaimLedger, RowsTyped
<1>2. TasksTyped'
  <2>1. CASE Leave(m)
    BY <2>1, LeaveTyped
  <2>2. CASE Goto(m, "won") /\ mem' = mem
    BY <2>2, GotoTyped DEF PC
  <2>3. CASE Goto(m, "replaying") /\ mem' = [mem EXCEPT ![m].replay = PrunedLedger[KeyOf(m)]]
    BY ZenonT(60), <1>a, <2>3, PrunedRows DEF Goto, TypeInv, TypeOK, TasksTyped, TaskMemory, PC
  <2>4. QED
    BY <2>1, <2>2, <2>3 DEF Claim, ClaimExisting, ClaimStale, ClaimRefused, ClaimNew
<1>3. CacheTyped'
  <2>1. cache' = cache \/ Forget(InstOf(m))
    BY DEF Claim, ClaimExisting, ClaimStale, ClaimRefused, ClaimNew
  <2>2. QED
    BY <1>a, <2>1, Kept, ForgetTyped
<1>4. recovered' \subseteq Msg
  <2>1. CASE recovered' = recovered
    BY <2>1 DEF TypeInv, TypeOK
  <2>2. CASE recovered' = recovered \cup {PrunedLedger[k].msg : k \in Hazards(m)}
    <3>1. \A k \in Hazards(m) : k \in Key /\ PrunedLedger[k].st = "indeterminate"
      BY DEF Hazards, ScopeRows
    <3>2. \A k \in Hazards(m) : PrunedLedger[k].msg \in Msg
      BY <3>1, Pruned
    <3>3. QED
      BY <2>2, <3>2 DEF TypeInv, TypeOK
  <2>3. QED
    BY <2>1, <2>2 DEF Claim, ClaimExisting, ClaimStale, ClaimRefused, ClaimNew
<1>5. freed' \subseteq Msg
  BY Pruned DEF Claim, TypeInv, TypeOK
<1>6. RestTyped' /\ SessTyped'
  BY <1>4, <1>5 DEF Claim, TypeInv, TypeOK, RestTyped, SessTyped
<1>7. QED
  BY <1>1, <1>2, <1>3, <1>6, AllTyped

----------------------------------------------------------------------------
\* The heartbeat and the turn.

\* One row is written and stays the row of its message: the ledger stays typed.
LEMMA RowWritten ==
  ASSUME TypeInv, NEW k \in Key, NEW row \in LedgerRow, row.msg = ledger[k].msg,
         ledger[k].st # "absent", ledger' = [ledger EXCEPT ![k] = row]
  PROVE  LedgerTyped'
<1>1. \A j \in Key : ledger'[j] = IF j = k THEN row ELSE ledger[j]
  BY DEF TypeInv, TypeOK
<1>2. \A j \in Key : ledger[j] \in LedgerRow /\ Named(ledger[j], j)
  BY DEF TypeInv, TypeOK, RowsNamed, Named
<1>3. \A j \in Key : ledger'[j] \in LedgerRow /\ Named(ledger'[j], j)
  BY <1>1, <1>2 DEF Named
<1>4. DOMAIN ledger' = Key /\ ledger' = [j \in Key |-> ledger'[j]]
  BY DEF TypeInv, TypeOK
<1>5. QED
  BY <1>3, <1>4, RowsTyped

\* The memory of one message is written and typed.
LEMMA MemWritten ==
  ASSUME TypeInv, NEW m \in Msg, NEW e \in TaskMemory, mem' = [mem EXCEPT ![m] = e],
         pc' = pc
  PROVE  TasksTyped'
BY DEF TypeInv, TypeOK, TasksTyped

\* A renewed lease keeps the ledger typed.
LEMMA RenewedTyped ==
  ASSUME TypeInv, NEW m \in Msg, ledger' \in {ledger, RenewedLedger(m)}
  PROVE  LedgerTyped'
<1>1. KeyOf(m) \in Key /\ ledger[KeyOf(m)] \in LedgerRow
  BY ReqType DEF TypeInv, TypeOK
<1> DEFINE row == [ledger[KeyOf(m)] EXCEPT !.lease = now + LeaseTTL]
<1>2. CASE ledger' = ledger
  BY <1>2, Kept
<1>3. CASE ledger' = [ledger EXCEPT ![KeyOf(m)].lease = now + LeaseTTL] /\ InFlight(Row(m))
  <2>1. row \in LedgerRow /\ row.msg = ledger[KeyOf(m)].msg
    BY <1>1, Clocks DEF LedgerRow
  <2>2. ledger' = [ledger EXCEPT ![KeyOf(m)] = row]
    BY <1>3
  <2>3. ledger[KeyOf(m)].st # "absent"
    BY <1>3 DEF InFlight, Row
  <2> HIDE DEF row
  <2>4. QED
    BY <1>1, <2>1, <2>2, <2>3, RowWritten
<1>4. QED
  BY <1>2, <1>3 DEF RenewedLedger

\* StartHeartbeat and the steps of the heartbeat keep TypeInv.
LEMMA BeatType ==
  ASSUME TypeInv, NEW m \in Msg, StartHeartbeat(m) \/ Beat(m)
  PROVE  TypeInv'
<1>a. mem[m] \in TaskMemory
  BY DEF TypeInv, TypeOK
<1>1. CASE StartHeartbeat(m)
  <2>1. TasksTyped'
    BY <1>1, GotoTyped DEF StartHeartbeat, PC
  <2>2. LedgerTyped' /\ CacheTyped' /\ SessTyped' /\ RestTyped'
    BY <1>1, Kept DEF StartHeartbeat, store, ghost
  <2>3. QED
    BY <2>1, <2>2, AllTyped
<1>2. CASE SendHeartbeat(m)
  <2>1. [mem[m] EXCEPT !.beat = TRUE, !.sent = now] \in TaskMemory
    BY <1>a, Clocks DEF TaskMemory
  <2>2. TasksTyped'
    BY <1>2, <2>1, MemWritten DEF SendHeartbeat
  <2>3. LedgerTyped' /\ CacheTyped' /\ SessTyped' /\ RestTyped'
    BY <1>2, Kept DEF SendHeartbeat, store, ghost
  <2>4. QED
    BY <2>2, <2>3, AllTyped
<1>3. CASE Heartbeat(m)
  <2>1. /\ [mem[m] EXCEPT !.beat = FALSE, !.sent = 0, !.deadline = RenewedDeadline(m)] \in TaskMemory
        /\ [mem[m] EXCEPT !.beat = FALSE, !.sent = 0, !.lost = TRUE] \in TaskMemory
    BY <1>a, Clocks DEF TaskMemory, RenewedDeadline
  <2>2. TasksTyped'
    BY <1>3, <2>1, MemWritten DEF Heartbeat
  <2>3. LedgerTyped'
    BY <1>3, RenewedTyped DEF Heartbeat
  <2>4. CacheTyped' /\ SessTyped' /\ RestTyped'
    BY <1>3, Kept DEF Heartbeat, ghost
  <2>5. QED
    BY <2>2, <2>3, <2>4, AllTyped
<1>4. CASE HeartbeatFails(m)
  <2>1. \A b \in BOOLEAN : [mem[m] EXCEPT !.beat = FALSE, !.sent = 0, !.lost = b] \in TaskMemory
    BY <1>a DEF TaskMemory
  <2>2. TasksTyped'
    <3>1. CASE now >= mem[m].deadline
      <4>1. (now >= mem[m].deadline) = TRUE
        BY <3>1
      <4>2. mem' = [mem EXCEPT ![m] = [mem[m] EXCEPT !.beat = FALSE, !.sent = 0, !.lost = TRUE]]
        BY <1>4, <4>1 DEF HeartbeatFails
      <4>3. QED
        BY <1>4, <2>1, <4>2, MemWritten DEF HeartbeatFails
    <3>2. CASE ~(now >= mem[m].deadline)
      <4>1. (now >= mem[m].deadline) = FALSE
        BY <3>2
      <4>2. mem' = [mem EXCEPT ![m] = [mem[m] EXCEPT !.beat = FALSE, !.sent = 0, !.lost = FALSE]]
        BY <1>4, <4>1 DEF HeartbeatFails
      <4>3. QED
        BY <1>4, <2>1, <4>2, MemWritten DEF HeartbeatFails
    <3>3. QED
      BY <3>1, <3>2
  <2>3. LedgerTyped'
    BY <1>4, RenewedTyped DEF HeartbeatFails
  <2>4. CacheTyped' /\ SessTyped' /\ RestTyped'
    BY <1>4, Kept DEF HeartbeatFails, ghost
  <2>5. QED
    BY <2>2, <2>3, <2>4, AllTyped
<1>5. CASE LeaseExpires(m)
  <2>1. [mem[m] EXCEPT !.beat = FALSE, !.sent = 0, !.lost = TRUE] \in TaskMemory
    BY <1>a DEF TaskMemory
  <2>2. TasksTyped'
    BY <1>5, <2>1, MemWritten DEF LeaseExpires
  <2>3. LedgerTyped' /\ CacheTyped' /\ SessTyped' /\ RestTyped'
    BY <1>5, Kept DEF LeaseExpires, store, ghost
  <2>4. QED
    BY <2>2, <2>3, AllTyped
<1>6. QED
  BY <1>1, <1>2, <1>3, <1>4, <1>5 DEF Beat

\* The handle is taken or rebuilt, the images are loaded, the turn runs or stops.
LEMMA WorkType ==
  ASSUME TypeInv, NEW m \in Msg,
         \/ UseHandle(m) \/ BackOut(m) \/ ImagesFail(m) \/ BeginTurn(m)
         \/ TurnFails(m) \/ EndTurn(m) \/ ClaimLost(m) \/ CommitConflict(m) \/ Disconnect(m)
  PROVE  TypeInv'
<1>a. InstOf(m) \in Instance
  BY ReqType
<1>1. CASE UseHandle(m)
  <2>1. CacheTyped'
    BY <1>1 DEF UseHandle, CacheTyped, TypeInv, TypeOK
  <2>2. cache'[InstOf(m)].log \in Seq(Msg)
    BY <1>a, <2>1 DEF CacheTyped, Conversation
  <2>3. mem' \in [Msg -> TaskMemory]
    <3>1. mem' = [mem EXCEPT ![m].log = cache'[InstOf(m)].log]
      BY <1>1 DEF UseHandle
    <3>2. QED
      BY ZenonT(60), <2>2, <3>1 DEF TypeInv, TypeOK, TaskMemory
  <2>4. pc' \in [Msg -> PC]
    BY <1>1 DEF UseHandle, Goto, TypeInv, TypeOK, PC
  <2>5. LedgerTyped' /\ SessTyped' /\ RestTyped'
    BY <1>1, Kept DEF UseHandle, store, ghost
  <2>6. QED
    BY <2>1, <2>3, <2>4, <2>5, AllTyped DEF TasksTyped
<1>2. CASE BackOut(m) \/ ClaimLost(m) \/ CommitConflict(m)
  <2>1. PICK label \in PC : StopBeat(m, label)
    BY <1>2 DEF BackOut, ClaimLost, CommitConflict, PC
  <2>2. TasksTyped'
    BY <2>1, StopBeatTyped
  <2>3. CacheTyped'
    <3>1. Forget(InstOf(m))
      BY <1>2 DEF BackOut, ClaimLost, CommitConflict
    <3>2. QED
      BY <1>a, <3>1, ForgetTyped
  <2>4. LedgerTyped' /\ SessTyped' /\ RestTyped'
    BY <1>2, Kept DEF BackOut, ClaimLost, CommitConflict, store, ghost
  <2>5. QED
    BY <2>2, <2>3, <2>4, AllTyped
<1>3. CASE ImagesFail(m) \/ TurnFails(m)
  <2>1. PICK label \in PC : StopBeat(m, label)
    BY <1>3 DEF ImagesFail, TurnFails, PC
  <2>2. TasksTyped'
    BY <2>1, StopBeatTyped
  <2>3. LedgerTyped' /\ SessTyped' /\ RestTyped' /\ CacheTyped'
    BY <1>3, Kept DEF ImagesFail, TurnFails, store, ghost
  <2>4. QED
    BY <2>2, <2>3, AllTyped
<1>4. CASE BeginTurn(m)
  <2>1. TasksTyped'
    BY <1>4, GotoTyped DEF BeginTurn, PC
  <2>2. ran' \in [Msg -> Nat]
    BY <1>4 DEF BeginTurn, TypeInv, TypeOK, TaskMemory
  <2>3. LedgerTyped' /\ SessTyped' /\ CacheTyped'
    BY <1>4, Kept DEF BeginTurn, store
  <2>4. RestTyped'
    BY <1>4, <2>2 DEF BeginTurn, store, TypeInv, TypeOK, RestTyped
  <2>5. QED
    BY <2>1, <2>3, <2>4, AllTyped
<1>5. CASE EndTurn(m)
  <2>1. TasksTyped'
    BY <1>5, GotoTyped DEF EndTurn, PC
  <2>2. LedgerTyped' /\ SessTyped' /\ RestTyped' /\ CacheTyped'
    BY <1>5, Kept DEF EndTurn, store, ghost
  <2>3. QED
    BY <2>1, <2>2, AllTyped
<1>6. CASE Disconnect(m)
  <2>1. TasksTyped'
    BY <1>6, LeaveTyped DEF Disconnect
  <2>2. LedgerTyped' /\ SessTyped' /\ RestTyped' /\ CacheTyped'
    BY <1>6, Kept DEF Disconnect, store, ghost
  <2>3. QED
    BY <2>1, <2>2, AllTyped
<1>7. QED
  BY <1>1, <1>2, <1>3, <1>4, <1>5, <1>6

\* The row a commit leaves, with or without its response body.
LEMMA CompletedRow ==
  ASSUME TypeInv, NEW row \in LedgerRow, NEW fits \in BOOLEAN
  PROVE  LET r == [row EXCEPT !.st = "completed", !.body = fits, !.lease = 0,
                              !.done = now, !.exp = now + Retention]
         IN  r \in LedgerRow /\ r.msg = row.msg /\ r.st = "completed"
BY Clocks DEF LedgerRow

\* The transcript and the answer of a turn are typed.
LEMMA TurnTyped ==
  ASSUME TypeInv, NEW m \in Msg
  PROVE  /\ PreparedLog(m) \in Seq(Msg)
         /\ [msg |-> m, inc |-> conv.inc, at |-> Len(conv.log) + 1] \in Turn
         /\ [to |-> m, turn |-> [msg |-> m, inc |-> mem[m].inc, at |-> mem[m].rev]]
              \in [to : Msg, turn : Turn]
<1>1. mem[m] \in TaskMemory /\ conv \in Conversation
  BY DEF TypeInv, TypeOK
<1>2. PreparedLog(m) \in Seq(Msg)
  BY <1>1 DEF PreparedLog, TaskMemory
<1>3. [msg |-> m, inc |-> conv.inc, at |-> Len(conv.log) + 1] \in Turn
  BY <1>1 DEF Conversation, Turn
<1>4. [to |-> m, turn |-> [msg |-> m, inc |-> mem[m].inc, at |-> mem[m].rev]]
              \in [to : Msg, turn : Turn]
  BY <1>1 DEF TaskMemory, Turn
<1>5. QED
  BY <1>2, <1>3, <1>4

\* The commit and what follows it keep TypeInv.
LEMMA CommitType ==
  ASSUME TypeInv, NEW m \in Msg, CommitTurn(m) \/ CommitAgain(m) \/ Publish(m)
  PROVE  TypeInv'
<1>a. InstOf(m) \in Instance /\ KeyOf(m) \in Key
  BY ReqType
<1>b. ledger[KeyOf(m)] \in LedgerRow /\ mem[m] \in TaskMemory /\ conv \in Conversation
  BY <1>a DEF TypeInv, TypeOK
<1>1. CASE CommitTurn(m)
  <2>1. LedgerTyped'
    <3>1. PICK fits \in BOOLEAN :
            ledger' = [ledger EXCEPT ![KeyOf(m)] =
                         [@ EXCEPT !.st = "completed", !.body = fits, !.lease = 0,
                                   !.done = now, !.exp = now + Retention]]
      BY <1>1 DEF CommitTurn
    <3>2. ledger[KeyOf(m)].st # "absent"
      BY <1>1 DEF CommitTurn, CommitVerdict, Row
    <3>3. QED
      BY <1>a, <1>b, <3>1, <3>2, CompletedRow, RowWritten
  <2>2. conv' \in Conversation
    <3>1. conv.inc \in Nat /\ conv.rev + 1 \in Nat
      BY <1>b DEF Conversation
    <3>2. conv' = [inc |-> conv.inc, rev |-> conv.rev + 1, log |-> PreparedLog(m)]
      BY <1>1 DEF CommitTurn
    <3>3. PreparedLog(m) \in Seq(Msg)
      BY TurnTyped
    <3>4. QED
      BY <3>1, <3>2, <3>3 DEF Conversation
  <2>3. past' \subseteq Turn
    BY <1>1, TurnTyped DEF CommitTurn, TypeInv, TypeOK
  <2>4. TasksTyped'
    <3>1. CASE StopBeat(m, "committed")
      BY <3>1, StopBeatTyped DEF PC
    <3>2. CASE UNCHANGED <<pc, mem>>
      BY <3>2, Kept
    <3>3. QED
      BY <1>1, <3>1, <3>2 DEF CommitTurn
  <2>5. RestTyped'
    BY <1>1, <2>2, <2>3 DEF CommitTurn, TypeInv, TypeOK, RestTyped
  <2>6. CacheTyped' /\ SessTyped'
    BY <1>1, Kept DEF CommitTurn
  <2>7. QED
    BY <2>1, <2>4, <2>5, <2>6, AllTyped
<1>2. CASE CommitAgain(m) \/ Publish(m)
  <2>1. TasksTyped'
    BY <1>2, LeaveTyped DEF CommitAgain, Publish
  <2>2. CacheTyped'
    <3>1. CASE Forget(InstOf(m))
      BY <1>a, <3>1, ForgetTyped
    <3>2. CASE Publish(m)
      <4>1. PublishedHandle(m) \in Conversation
        <5>1. mem[m].inc \in Nat /\ mem[m].rev + 1 \in Nat
          BY <1>b DEF TaskMemory
        <5>2. PreparedLog(m) \in Seq(Msg)
          BY TurnTyped
        <5>3. QED
          BY <5>1, <5>2 DEF PublishedHandle, Conversation
      <4>2. QED
        BY <3>2, <4>1 DEF Publish, CacheTyped, TypeInv, TypeOK
    <3>3. QED
      BY <1>2, <3>1, <3>2 DEF CommitAgain
  <2>3. said' \subseteq [to : Msg, turn : Turn]
    BY <1>2, TurnTyped DEF CommitAgain, Publish, Respond, TypeInv, TypeOK
  <2>4. RestTyped'
    BY <1>2, <2>3 DEF CommitAgain, Publish, store, TypeInv, TypeOK, RestTyped
  <2>5. LedgerTyped' /\ SessTyped'
    BY <1>2, Kept DEF CommitAgain, Publish, store
  <2>6. QED
    BY <2>1, <2>2, <2>4, <2>5, AllTyped
<1>3. QED
  BY <1>1, <1>2

\* A mark or a release of the claim keeps TypeInv.
LEMMA SettleType ==
  ASSUME TypeInv, NEW m \in Msg, Mark(m) \/ Release(m)
  PROVE  TypeInv'
<1>a. KeyOf(m) \in Key /\ ledger[KeyOf(m)] \in LedgerRow
  BY ReqType DEF TypeInv, TypeOK
<1>1. TasksTyped'
  BY LeaveTyped DEF Mark, Release
<1>2. LedgerTyped'
  <2>1. CASE ledger' = ledger
    BY <2>1, Kept
  <2>2. CASE InFlight(Row(m)) /\ ledger' = [ledger EXCEPT ![KeyOf(m)] = Indeterminate(@)]
    BY <1>a, <2>2, IndeterminateRow, RowWritten DEF InFlight, Row
  <2>3. CASE ledger' = [ledger EXCEPT ![KeyOf(m)] = NoRow]
    BY <1>a, <2>3, Empties DEF TypeInv, TypeOK, LedgerTyped, RowsNamed, NoRow
  <2>4. QED
    BY <2>1, <2>2, <2>3 DEF Mark, Release
<1>3. CacheTyped' /\ SessTyped' /\ RestTyped'
  BY Kept DEF Mark, Release, ghost
<1>4. QED
  BY <1>1, <1>2, <1>3, AllTyped

----------------------------------------------------------------------------
\* /start, DELETE, eviction, maintenance and lifecycle.

\* A session that ends, or moves on with a conversation, is typed.
LEMMA SessionTyped ==
  ASSUME TypeInv, NEW i \in Instance,
         EndSess(i) \/ \E label \in SessPC, c \in Conversation : SetSess(i, label, c)
  PROVE  SessTyped'
<1>1. CASE EndSess(i)
  BY <1>1, Empties DEF EndSess, SessTyped, TypeInv, TypeOK
<1>2. ASSUME NEW label \in SessPC, NEW c \in Conversation, SetSess(i, label, c)
      PROVE  SessTyped'
  <2>1. [pc |-> label, inc |-> c.inc, rev |-> c.rev, log |-> c.log] \in Session
    BY DEF Conversation, Session
  <2>2. QED
    BY <1>2, <2>1 DEF SetSess, SessTyped, TypeInv, TypeOK
<1>3. QED
  BY <1>1, <1>2

\* The handle a build makes is a conversation, and ids stay naturals.
LEMMA BuiltTyped ==
  ASSUME TypeInv, Mint
  PROVE  BuiltHandle \in Conversation /\ minted' \in Nat
<1>1. conv \in Conversation /\ minted \in Nat /\ minted + 1 \in Nat
  BY DEF TypeInv, TypeOK
<1>2. [inc |-> minted + 1, rev |-> 0, log |-> <<>>] \in Conversation
  BY <1>1 DEF Conversation
<1>3. QED
  BY <1>1, <1>2 DEF BuiltHandle, Mint

\* The steps of a session keep TypeInv.
LEMMA SessionType ==
  ASSUME TypeInv, NEW i \in Instance, SessionStep(i)
  PROVE  TypeInv'
<1>a. conv \in Conversation /\ NoConv \in Conversation /\ sess[i] \in Session
  BY Empties DEF TypeInv, TypeOK
<1>1. CASE OpenSession(i) \/ OpenDelete(i)
  <2>1. SessTyped'
    BY <1>1, <1>a, SessionTyped DEF OpenSession, OpenDelete, SessPC
  <2>2. CacheTyped'
    BY <1>1, ForgetTyped DEF OpenSession, OpenDelete
  <2>3. TasksTyped' /\ LedgerTyped' /\ RestTyped'
    BY <1>1, Kept DEF OpenSession, OpenDelete, store, ghost
  <2>4. QED
    BY <2>1, <2>2, <2>3, AllTyped
<1>2. CASE BuildSession(i) \/ RebuildSession(i)
  <2>1. Mint
    BY <1>2 DEF BuildSession, RebuildSession
  <2>2. SessTyped'
    BY <1>2, <2>1, BuiltTyped, SessionTyped DEF BuildSession, RebuildSession, SessPC
  <2>3. RestTyped'
    BY <1>2, <2>1, BuiltTyped DEF BuildSession, RebuildSession, store, ghost, TypeInv, TypeOK, RestTyped
  <2>4. TasksTyped' /\ LedgerTyped' /\ CacheTyped'
    BY <1>2, Kept DEF BuildSession, RebuildSession, store
  <2>5. QED
    BY <2>2, <2>3, <2>4, AllTyped
<1>3. CASE AdoptWinner(i)
  <2>1. SessTyped'
    <3>1. CASE EndSess(i)
      BY <3>1, SessionTyped
    <3>2. CASE sess' = [sess EXCEPT ![i].pc = "publish"]
      BY <3>2 DEF SessTyped, TypeInv, TypeOK, Session, SessPC
    <3>3. QED
      BY <1>3, <3>1, <3>2 DEF AdoptWinner
  <2>2. TasksTyped' /\ LedgerTyped' /\ CacheTyped' /\ RestTyped'
    BY <1>3, Kept DEF AdoptWinner, store, ghost
  <2>3. QED
    BY <2>1, <2>2, AllTyped
<1>4. CASE PersistSession(i)
  <2>1. [inc |-> sess[i].inc, rev |-> 1, log |-> sess[i].log] \in Conversation
    BY <1>a DEF Session, Conversation
  <2>2. conv' \in Conversation
    BY <1>4, <1>a, <2>1 DEF PersistSession
  <2>3. SessTyped'
    BY <1>4, <1>a, <2>1, SessionTyped DEF PersistSession, SessPC
  <2>4. RestTyped'
    BY <1>4, <2>2 DEF PersistSession, ghost, TypeInv, TypeOK, RestTyped
  <2>5. TasksTyped' /\ LedgerTyped' /\ CacheTyped'
    BY <1>4, Kept DEF PersistSession
  <2>6. QED
    BY <2>3, <2>4, <2>5, AllTyped
<1>5. CASE ReloadWinner(i) \/ AbortSession(i)
  <2>1. SessTyped'
    BY <1>5, <1>a, SessionTyped DEF ReloadWinner, AbortSession, SessPC
  <2>2. TasksTyped' /\ LedgerTyped' /\ CacheTyped' /\ RestTyped'
    BY <1>5, Kept DEF ReloadWinner, AbortSession, store, ghost
  <2>3. QED
    BY <2>1, <2>2, AllTyped
<1>6. CASE PublishSession(i)
  <2>1. [inc |-> sess[i].inc, rev |-> sess[i].rev, log |-> sess[i].log] \in Conversation
    BY <1>a DEF Session, Conversation
  <2>2. CacheTyped'
    BY <1>6, <2>1 DEF PublishSession, CacheTyped, TypeInv, TypeOK
  <2>3. SessTyped'
    BY <1>6, SessionTyped DEF PublishSession
  <2>4. TasksTyped' /\ LedgerTyped' /\ RestTyped'
    BY <1>6, Kept DEF PublishSession, store, ghost
  <2>5. QED
    BY <2>2, <2>3, <2>4, AllTyped
<1>7. CASE DeleteConversation(i)
  <2>1. conv' \in Conversation
    BY <1>7, <1>a DEF DeleteConversation
  <2>2. SessTyped'
    BY <1>7, SessionTyped DEF DeleteConversation
  <2>3. RestTyped'
    BY <1>7, <2>1 DEF DeleteConversation, ghost, TypeInv, TypeOK, RestTyped
  <2>4. TasksTyped' /\ LedgerTyped' /\ CacheTyped'
    BY <1>7, Kept DEF DeleteConversation
  <2>5. QED
    BY <2>2, <2>3, <2>4, AllTyped
<1>8. CASE Evict(i)
  <2>1. CacheTyped'
    BY <1>8, ForgetTyped DEF Evict
  <2>2. TasksTyped' /\ LedgerTyped' /\ SessTyped' /\ RestTyped'
    BY <1>8, Kept DEF Evict, store, ghost
  <2>3. QED
    BY <2>1, <2>2, AllTyped
<1>9. QED
  BY <1>1, <1>2, <1>3, <1>4, <1>5, <1>6, <1>7, <1>8 DEF SessionStep

\* The reconciler and the retention sweep keep TypeInv.
LEMMA MaintenanceType ==
  ASSUME TypeInv, Reconcile \/ Prune
  PROVE  TypeInv'
<1>a. \A k \in Key : ledger[k] \in LedgerRow /\ Named(ledger[k], k)
  BY DEF TypeInv, TypeOK, RowsNamed, Named
<1>1. CASE Reconcile
  <2>1. \A k \in Key : ledger'[k] \in LedgerRow /\ Named(ledger'[k], k)
    <3> SUFFICES ASSUME NEW k \in Key PROVE ledger'[k] \in LedgerRow /\ Named(ledger'[k], k)
      OBVIOUS
    <3>1. CASE Overdue(ledger[k])
      <4>1. ledger'[k] = Indeterminate(ledger[k]) /\ ledger[k].st # "absent"
        BY <1>1, <3>1 DEF Reconcile, Overdue, InFlight
      <4>2. QED
        BY <1>a, <4>1, IndeterminateRow DEF Named
    <3>2. CASE ~Overdue(ledger[k])
      BY <1>1, <1>a, <3>2 DEF Reconcile
    <3>3. QED
      BY <3>1, <3>2
  <2>2. LedgerTyped'
    BY <1>1, <2>1, RowsTyped DEF Reconcile
  <2>3. TasksTyped' /\ CacheTyped' /\ SessTyped' /\ RestTyped'
    BY <1>1, Kept DEF Reconcile, ghost
  <2>4. QED
    BY <2>2, <2>3, AllTyped
<1>2. CASE Prune
  <2>1. LedgerTyped'
    BY <1>2, Pruned, RowsTyped DEF Prune, Named
  <2>2. freed' \subseteq Msg
    BY <1>2, Pruned DEF Prune, TypeInv, TypeOK
  <2>3. RestTyped'
    BY <1>2, <2>2 DEF Prune, TypeInv, TypeOK, RestTyped
  <2>4. TasksTyped' /\ CacheTyped' /\ SessTyped'
    BY <1>2, Kept DEF Prune
  <2>5. QED
    BY <2>1, <2>3, <2>4, AllTyped
<1>3. QED
  BY <1>1, <1>2

\* Shutdown, a crash and the clock keep TypeInv.
LEMMA LifecycleType ==
  ASSUME TypeInv, Tick \/ \E i \in Instance : Drain(i) \/ Teardown(i) \/ Crash(i)
  PROVE  TypeInv'
<1>1. CASE Tick
  <2>1. RestTyped'
    BY <1>1, Clocks DEF Tick, store, ghost, TypeInv, TypeOK, RestTyped
  <2>2. TasksTyped' /\ LedgerTyped' /\ CacheTyped' /\ SessTyped'
    BY <1>1, Kept DEF Tick, store
  <2>3. QED
    BY <2>1, <2>2, AllTyped
<1>2. ASSUME NEW i \in Instance, Drain(i) PROVE TypeInv'
  <2>1. RestTyped'
    BY <1>2 DEF Drain, store, ghost, TypeInv, TypeOK, RestTyped, Phase
  <2>2. TasksTyped' /\ LedgerTyped' /\ CacheTyped' /\ SessTyped'
    BY <1>2, Kept DEF Drain, store
  <2>3. QED
    BY <2>1, <2>2, AllTyped
<1>3. ASSUME NEW i \in Instance, Teardown(i) PROVE TypeInv'
  <2>1. RestTyped'
    BY <1>3 DEF Teardown, store, ghost, TypeInv, TypeOK, RestTyped, Phase
  <2>2. TasksTyped'
    <3>1. \A m \in Msg : mem[m] \in TaskMemory /\ [mem[m] EXCEPT !.halt = TRUE] \in TaskMemory
      BY DEF TypeInv, TypeOK, TaskMemory
    <3>2. QED
      BY <1>3, <3>1 DEF Teardown, TasksTyped, TypeInv, TypeOK
  <2>3. CacheTyped'
    BY <1>3, ForgetTyped DEF Teardown
  <2>4. LedgerTyped' /\ SessTyped'
    BY <1>3, Kept DEF Teardown, store
  <2>5. QED
    BY <2>1, <2>2, <2>3, <2>4, AllTyped
<1>4. ASSUME NEW i \in Instance, Crash(i) PROVE TypeInv'
  <2>1. RestTyped'
    BY <1>4 DEF Crash, store, ghost, TypeInv, TypeOK, RestTyped, Phase
  <2>2. TasksTyped'
    BY <1>4, Empties DEF Crash, TasksTyped, TypeInv, TypeOK, PC
  <2>3. CacheTyped' /\ SessTyped'
    BY <1>4, ForgetTyped, SessionTyped DEF Crash
  <2>4. LedgerTyped'
    BY <1>4, Kept DEF Crash, store
  <2>5. QED
    BY <2>1, <2>2, <2>3, <2>4, AllTyped
<1>5. QED
  BY <1>1, <1>2, <1>3, <1>4

\* Every step keeps TypeInv.
LEMMA NextType == TypeInv /\ [Next]_vars => TypeInv'
<1> SUFFICES ASSUME TypeInv, [Next]_vars PROVE TypeInv'
  OBVIOUS
<1>1. CASE UNCHANGED vars
  BY <1>1, Kept, AllTyped DEF vars
<1>2. ASSUME NEW m \in Msg, Read(m) \/ Advance(m) \/ Beat(m) \/ Disconnect(m)
      PROVE  TypeInv'
  <2>1. CASE Read(m) \/ Lookup(m) \/ Replay(m) \/ TakeGate(m)
    BY <2>1, RequestType
  <2>2. CASE Claim(m)
    BY <2>2, ClaimType
  <2>3. CASE StartHeartbeat(m) \/ Beat(m)
    BY <2>3, BeatType
  <2>4. CASE \/ UseHandle(m) \/ BackOut(m) \/ ImagesFail(m) \/ BeginTurn(m) \/ TurnFails(m)
             \/ EndTurn(m) \/ ClaimLost(m) \/ CommitConflict(m) \/ Disconnect(m)
    BY <2>4, WorkType
  <2>5. CASE CommitTurn(m) \/ CommitAgain(m) \/ Publish(m)
    BY <2>5, CommitType
  <2>6. CASE Mark(m) \/ Release(m)
    BY <2>6, SettleType
  <2>7. QED
    BY <1>2, <2>1, <2>2, <2>3, <2>4, <2>5, <2>6 DEF Advance
<1>3. CASE \E i \in Instance : SessionStep(i)
  BY <1>3, SessionType
<1>4. CASE Reconcile \/ Prune
  BY <1>4, MaintenanceType
<1>5. CASE Tick \/ \E i \in Instance : Drain(i) \/ Teardown(i) \/ Crash(i)
  BY <1>5, LifecycleType
<1>6. QED
  BY <1>1, <1>2, <1>3, <1>4, <1>5 DEF Next

\* Every behaviour keeps the conversation, the ledger rows, the handles and the
\* memory of the message tasks in their shapes, and a row that is there always
\* belongs to a message on its key.
THEOREM TypeCorrect == Spec => []TypeOK
<1>1. Spec => []TypeInv
  BY InitType, NextType, PTL DEF Spec
<1>2. TypeInv => TypeOK
  BY DEF TypeInv
<1>3. QED
  BY <1>1, <1>2, PTL

-----------------------------------------------------------------------------

\* A message in flight holds its scope.
HeldScoped == \A k \in Key : InFlight(ledger[k]) => ledger[k].scoped

\* The inductive invariant.
ScopeProps == HeldScoped /\ ClaimPinsConversation /\ ScopeHeldByOneRow
ScopeInv == TypeInv /\ ScopeProps

\* A row that holds a scope, in flight or as a hazard.
Holds(row) == row.scoped /\ row.st \in {"claimed", "indeterminate"}

\* A step that puts no row in flight, moves none, and gives none a scope.
Weaker ==
    \A k \in Key :
        /\ InFlight(ledger[k])' => /\ InFlight(ledger[k])
                                   /\ ledger'[k].inc = ledger[k].inc
                                   /\ ledger'[k].base = ledger[k].base
                                   /\ ledger'[k].scoped = ledger[k].scoped
        /\ Holds(ledger[k])' => Holds(ledger[k]) /\ ledger'[k].inc = ledger[k].inc

\* Such a step keeps the scope exclusive.
LEMMA WeakerKeeps ==
  ASSUME ScopeProps, Weaker, conv' = conv
  PROVE  ScopeProps'
<1>1. HeldScoped'
  BY DEF ScopeProps, HeldScoped, Weaker
<1>2. ClaimPinsConversation'
  BY DEF ScopeProps, ClaimPinsConversation, Weaker
<1>3. ScopeHeldByOneRow'
  BY DEF ScopeProps, ScopeHeldByOneRow, Weaker, Holds
<1>4. QED
  BY <1>1, <1>2, <1>3 DEF ScopeProps

\* A step that leaves the ledger alone is one of them.
LEMMA SameLedger == ASSUME ledger' = ledger PROVE Weaker
BY DEF Weaker, InFlight, Holds

\* So is the sweep, and a row in flight that becomes a hazard.
LEMMA SweptRow ==
  ASSUME TypeInv, NEW k \in Key
  PROVE  /\ PrunedLedger[k] = ledger[k] \/ PrunedLedger[k] = NoRow
         /\ ~InFlight(NoRow) /\ ~Holds(NoRow)
         /\ ~InFlight(Indeterminate(ledger[k]))
         /\ InFlight(ledger[k]) => Holds(Indeterminate(ledger[k])) = ledger[k].scoped
         /\ Indeterminate(ledger[k]).inc = ledger[k].inc
<1>1. ledger[k] \in LedgerRow
  BY DEF TypeInv, TypeOK
<1>2. PrunedLedger[k] = ledger[k] \/ PrunedLedger[k] = NoRow
  BY DEF PrunedLedger
<1>3. ~InFlight(NoRow) /\ ~Holds(NoRow)
  BY DEF NoRow, InFlight, Holds
<1>4. ~InFlight(Indeterminate(ledger[k])) /\ Indeterminate(ledger[k]).inc = ledger[k].inc
  BY <1>1, IndeterminateRow DEF InFlight
<1>5. Holds(Indeterminate(ledger[k])) = ledger[k].scoped
  <2>1. /\ Indeterminate(ledger[k]).st = "indeterminate"
        /\ Indeterminate(ledger[k]).scoped = ledger[k].scoped
    BY <1>1, IndeterminateRow
  <2>2. ledger[k].scoped \in BOOLEAN
    BY <1>1 DEF LedgerRow
  <2>3. QED
    BY <2>1, <2>2 DEF Holds
<1>6. QED
  BY <1>2, <1>3, <1>4, <1>5

----------------------------------------------------------------------------
\* The claim.

\* A refused claim, and one that finds its key taken, only sweep and fence.
LEMMA RefusalWeaker ==
  ASSUME TypeInv, NEW m \in Msg, Claim(m), ~ClaimNew(m), HeldScoped
  PROVE  Weaker
<1> SUFFICES ASSUME NEW k \in Key
             PROVE  /\ InFlight(ledger[k])' => /\ InFlight(ledger[k])
                                               /\ ledger'[k].inc = ledger[k].inc
                                               /\ ledger'[k].base = ledger[k].base
                                               /\ ledger'[k].scoped = ledger[k].scoped
                    /\ Holds(ledger[k])' => Holds(ledger[k]) /\ ledger'[k].inc = ledger[k].inc
  BY DEF Weaker
<1>a. ledger[k] \in LedgerRow
  BY DEF TypeInv, TypeOK
<1>1. CASE ledger'[k] = PrunedLedger[k]
  BY <1>1, SweptRow DEF InFlight, Holds
<1>2. CASE InFlight(PrunedLedger[k]) /\ ledger'[k] = Indeterminate(PrunedLedger[k])
  <2>1. PrunedLedger[k] = ledger[k] /\ InFlight(ledger[k])
    BY <1>2, SweptRow
  <2>2. ~InFlight(ledger[k])' /\ ledger'[k].inc = ledger[k].inc
    BY <1>2, <2>1, SweptRow DEF InFlight
  <2>3. Holds(ledger[k])
    BY <2>1 DEF HeldScoped, Holds, InFlight
  <2>4. QED
    BY <2>2, <2>3
<1>3. QED
  BY <1>1, <1>2, ClaimLedger

\* A claim is won only when no other row holds the scope.
LEMMA NewClaimKeeps ==
  ASSUME ScopeInv, NEW m \in Msg, Claim(m), ClaimNew(m)
  PROVE  ScopeProps'
<1> USE DEF ScopeInv
<1>a. KeyOf(m) \in Key /\ conv' = conv /\ Current(m)
  BY ReqType DEF Claim, ClaimNew
<1>b. /\ ledger'[KeyOf(m)] = ClaimedRow(m)
      /\ \A k \in Key : k # KeyOf(m) =>
           ledger'[k] = IF k \in Hazards(m) THEN ClearScope(PrunedLedger[k]) ELSE PrunedLedger[k]
  BY <1>a DEF ClaimNew, ClaimedRow
<1>1. ASSUME NEW k \in Key, k # KeyOf(m)
      PROVE  ~InFlight(ledger[k])' /\ ~(Holds(ledger[k])' /\ ledger'[k].inc = mem[m].inc)
             /\ (Holds(ledger[k])' => Holds(ledger[k]) /\ ledger'[k].inc = ledger[k].inc)
  <2>1. ledger[k] \in LedgerRow /\ PrunedLedger[k] \in LedgerRow
    BY PrunedRows DEF TypeInv, TypeOK
  <2>2. CASE k \in Hazards(m)
    <3>1. ledger'[k] = ClearScope(PrunedLedger[k]) /\ PrunedLedger[k].st = "indeterminate"
      BY <1>b, <1>1, <2>2 DEF Hazards, ScopeRows
    <3>2. QED
      BY <2>1, <3>1, ClearedRow DEF InFlight, Holds
  <2>3. CASE k \notin Hazards(m)
    <3>1. ledger'[k] = PrunedLedger[k]
      BY <1>b, <1>1, <2>3
    <3>2. CASE PrunedLedger[k] = NoRow
      BY <3>1, <3>2, SweptRow DEF InFlight, Holds
    <3>3. CASE PrunedLedger[k] = ledger[k]
      <4>1. k \notin Occupants(m)
        BY DEF ClaimNew
      <4>2. ~InFlight(ledger[k])
        <5>1. SUFFICES ASSUME InFlight(ledger[k]) PROVE FALSE
          OBVIOUS
        <5>2. ledger[k].scoped /\ ledger[k].inc = conv.inc
          BY <5>1 DEF ScopeProps, HeldScoped, ClaimPinsConversation
        <5>3. QED
          BY <1>a, <1>1, <3>3, <4>1, <5>1, <5>2 DEF Occupants, ScopeRows, Current, InFlight
      <4>3. ~(Holds(ledger[k]) /\ ledger[k].inc = mem[m].inc)
        BY <1>1, <2>3, <3>3, <4>2 DEF Holds, Hazards, ScopeRows, InFlight
      <4>4. QED
        BY <3>1, <3>3, <4>2, <4>3 DEF InFlight, Holds
    <3>4. QED
      BY <3>2, <3>3, SweptRow
  <2>4. QED
    BY <2>2, <2>3
<1>2. HeldScoped'
  BY <1>b, <1>1, ClaimedRowType DEF HeldScoped
<1>3. ClaimPinsConversation'
  BY <1>a, <1>b, <1>1, ClaimedRowType DEF ClaimPinsConversation, Current
<1>4. ScopeHeldByOneRow'
  <2>1. ASSUME NEW j \in Key, NEW k \in Key, Holds(ledger[j])', Holds(ledger[k])',
               ledger'[j].inc = ledger'[k].inc
        PROVE  j = k
    <3>1. CASE j # KeyOf(m) /\ k # KeyOf(m)
      BY <1>1, <2>1, <3>1 DEF ScopeProps, ScopeHeldByOneRow, Holds
    <3>2. CASE j = KeyOf(m) \/ k = KeyOf(m)
      <4>1. ledger'[KeyOf(m)].inc = mem[m].inc
        BY <1>b, ClaimedRowType
      <4>2. QED
        BY <1>1, <2>1, <3>2, <4>1
    <3>3. QED
      BY <3>1, <3>2
  <2>2. QED
    BY <2>1 DEF ScopeHeldByOneRow, Holds
<1>5. QED
  BY <1>2, <1>3, <1>4 DEF ScopeProps

----------------------------------------------------------------------------
\* The other steps that write the store.

\* A renewed lease, a mark, a release and a reconciliation give no row a scope.
LEMMA SettleWeaker ==
  ASSUME TypeInv, HeldScoped,
         \/ Reconcile
         \/ Prune
         \/ \E m \in Msg : Heartbeat(m) \/ HeartbeatFails(m) \/ Mark(m) \/ Release(m)
  PROVE  Weaker
<1>a. \A k \in Key : ledger[k] \in LedgerRow
  BY DEF TypeInv, TypeOK
<1>b. ASSUME NEW k \in Key
      PROVE  /\ ~InFlight(Indeterminate(ledger[k])) /\ ~InFlight(NoRow) /\ ~Holds(NoRow)
             /\ Indeterminate(ledger[k]).inc = ledger[k].inc
             /\ InFlight(ledger[k]) => Holds(ledger[k])
  BY SweptRow DEF HeldScoped, Holds, InFlight
<1>1. CASE Reconcile
  <2>1. \A k \in Key : ledger'[k] = IF Overdue(ledger[k]) THEN Indeterminate(ledger[k]) ELSE ledger[k]
    BY <1>1 DEF Reconcile
  <2>2. \A k \in Key : Overdue(ledger[k]) => InFlight(ledger[k])
    BY DEF Overdue
  <2>3. QED
    BY <1>b, <2>1, <2>2 DEF Weaker, InFlight, Holds
<1>2. CASE Prune
  BY <1>2, SweptRow DEF Prune, Weaker, InFlight, Holds
<1>3. ASSUME NEW m \in Msg, Heartbeat(m) \/ HeartbeatFails(m) PROVE Weaker
  <2>1. CASE ledger' = ledger
    BY <2>1, SameLedger
  <2>2. CASE ledger' = [ledger EXCEPT ![KeyOf(m)].lease = now + LeaseTTL]
    <3>1. \A k \in Key : ledger'[k] = ledger[k] \/ ledger'[k] = [ledger[k] EXCEPT !.lease = now + LeaseTTL]
      BY <2>2 DEF TypeInv, TypeOK
    <3>2. \A k \in Key : /\ ledger'[k].st = ledger[k].st /\ ledger'[k].scoped = ledger[k].scoped
                         /\ ledger'[k].inc = ledger[k].inc /\ ledger'[k].base = ledger[k].base
      BY <1>a, <3>1 DEF LedgerRow
    <3>3. QED
      BY <3>2 DEF Weaker, InFlight, Holds
  <2>3. QED
    BY <1>3, <2>1, <2>2 DEF Heartbeat, HeartbeatFails, RenewedLedger
<1>4. ASSUME NEW m \in Msg, Mark(m) \/ Release(m) PROVE Weaker
  <2>1. CASE ledger' = ledger
    BY <2>1, SameLedger
  <2>2. CASE InFlight(Row(m)) /\ ledger' = [ledger EXCEPT ![KeyOf(m)] = Indeterminate(@)]
    <3>1. \A k \in Key : \/ ledger'[k] = ledger[k]
                         \/ InFlight(ledger[k]) /\ ledger'[k] = Indeterminate(ledger[k])
      BY <2>2 DEF TypeInv, TypeOK, Row
    <3>2. QED
      BY <1>b, <3>1 DEF Weaker, InFlight, Holds
  <2>3. CASE ledger' = [ledger EXCEPT ![KeyOf(m)] = NoRow]
    <3>1. \A k \in Key : ledger'[k] = ledger[k] \/ ledger'[k] = NoRow
      BY <2>3 DEF TypeInv, TypeOK
    <3>2. QED
      BY <1>b, <3>1 DEF Weaker, InFlight, Holds
  <2>4. QED
    BY <1>4, <2>1, <2>2, <2>3 DEF Mark, Release
<1>5. QED
  BY <1>1, <1>2, <1>3, <1>4

\* The row a message commits from is in flight.
LEMMA CommitsInFlight ==
  ASSUME TypeInv, NEW m \in Msg, CommitTurn(m)
  PROVE  InFlight(ledger[KeyOf(m)]) /\ KeyOf(m) \in Key /\ Current(m) /\ Linked(m)
<1>1. KeyOf(m) \in Key /\ ledger[KeyOf(m)] \in LedgerRow
  BY ReqType DEF TypeInv, TypeOK
<1>2. QED
  BY <1>1 DEF CommitTurn, CommitVerdict, AlreadyCommitted, InFlight, Row, LedgerRow

\* The commit moves the conversation, and no other message is in flight.
LEMMA CommitKeeps ==
  ASSUME ScopeInv, NEW m \in Msg, CommitTurn(m)
  PROVE  ScopeProps'
<1> USE DEF ScopeInv
<1>a. InFlight(ledger[KeyOf(m)]) /\ KeyOf(m) \in Key
  BY CommitsInFlight
<1>b. ledger[KeyOf(m)] \in LedgerRow
  BY <1>a DEF TypeInv, TypeOK
<1>1. ledger'[KeyOf(m)].st = "completed"
      /\ \A k \in Key : k # KeyOf(m) => ledger'[k] = ledger[k]
  <2>1. PICK fits \in BOOLEAN :
          ledger' = [ledger EXCEPT ![KeyOf(m)] =
                       [@ EXCEPT !.st = "completed", !.body = fits, !.lease = 0,
                                 !.done = now, !.exp = now + Retention]]
    BY DEF CommitTurn
  <2>2. QED
    BY <1>a, <1>b, <2>1, CompletedRow DEF TypeInv, TypeOK
<1>2. \A k \in Key : ~InFlight(ledger[k])'
  <2>1. SUFFICES ASSUME NEW k \in Key, InFlight(ledger[k])' PROVE FALSE
    OBVIOUS
  <2>2. k # KeyOf(m)
    BY <1>1, <2>1 DEF InFlight
  <2>3. InFlight(ledger[k])
    BY <1>1, <2>1, <2>2 DEF InFlight
  <2>4. /\ ledger[k].scoped /\ ledger[k].inc = conv.inc
        /\ ledger[KeyOf(m)].scoped /\ ledger[KeyOf(m)].inc = conv.inc
    BY <1>a, <2>3 DEF ScopeProps, HeldScoped, ClaimPinsConversation
  <2>5. QED
    BY <1>a, <2>2, <2>3, <2>4 DEF ScopeProps, ScopeHeldByOneRow, InFlight
<1>3. ScopeHeldByOneRow'
  <2>1. \A k \in Key : Holds(ledger[k])' => ledger'[k] = ledger[k]
    BY <1>1 DEF Holds
  <2>2. QED
    BY <2>1 DEF ScopeProps, ScopeHeldByOneRow, Holds
<1>4. QED
  BY <1>2, <1>3 DEF ScopeProps, HeldScoped, ClaimPinsConversation

\* /start and DELETE write the conversation only while no message is in flight.
LEMMA SessionKeeps ==
  ASSUME ScopeInv, NEW i \in Instance, SessionStep(i)
  PROVE  ScopeProps'
<1> USE DEF ScopeInv
<1>1. ledger' = ledger
  BY DEF SessionStep, OpenSession, BuildSession, AdoptWinner, PersistSession, ReloadWinner,
     RebuildSession, PublishSession, AbortSession, OpenDelete, DeleteConversation, Evict, store
<1>2. CASE conv' = conv
  BY <1>1, <1>2, SameLedger, WeakerKeeps
<1>3. CASE conv' # conv
  <2>1. PersistSession(i) \/ DeleteConversation(i)
    BY <1>3 DEF SessionStep, OpenSession, BuildSession, AdoptWinner, ReloadWinner,
       RebuildSession, PublishSession, AbortSession, OpenDelete, Evict, store
  <2>2. ~ActiveOperation
    BY <1>3, <2>1 DEF PersistSession, DeleteConversation
  <2>3. QED
    BY <1>1, <2>2 DEF ActiveOperation, InFlight, ScopeProps, HeldScoped, ClaimPinsConversation, ScopeHeldByOneRow
<1>4. QED
  BY <1>2, <1>3

\* Every other step leaves the store alone.
LEMMA QuietKeeps ==
  ASSUME ScopeInv, conv' = conv, ledger' = ledger
  PROVE  ScopeProps'
BY SameLedger, WeakerKeeps DEF ScopeInv

----------------------------------------------------------------------------
\* Every step keeps the scope exclusive.
LEMMA NextScope == ScopeInv /\ [Next]_vars => ScopeInv'
<1> SUFFICES ASSUME ScopeInv, [Next]_vars PROVE ScopeInv'
  OBVIOUS
<1>a. TypeInv /\ HeldScoped /\ ScopeProps
  BY DEF ScopeInv, ScopeProps
<1>b. TypeInv'
  BY <1>a, NextType
<1>1. ScopeProps'
  <2>1. CASE UNCHANGED vars
    BY <2>1, QuietKeeps DEF vars
  <2>2. ASSUME NEW m \in Msg, Claim(m) PROVE ScopeProps'
    <3>1. CASE ClaimNew(m)
      BY <2>2, <3>1, NewClaimKeeps
    <3>2. CASE ~ClaimNew(m)
      BY <1>a, <2>2, <3>2, RefusalWeaker, WeakerKeeps DEF Claim
    <3>3. QED
      BY <3>1, <3>2
  <2>3. ASSUME NEW m \in Msg, CommitTurn(m) PROVE ScopeProps'
    BY <2>3, CommitKeeps
  <2>4. CASE \/ Reconcile \/ Prune
             \/ \E m \in Msg : Heartbeat(m) \/ HeartbeatFails(m) \/ Mark(m) \/ Release(m)
    <3>1. conv' = conv
      BY <2>4 DEF Reconcile, Prune, Heartbeat, HeartbeatFails, Mark, Release
    <3>2. QED
      BY <1>a, <2>4, <3>1, SettleWeaker, WeakerKeeps
  <2>5. CASE \E i \in Instance : SessionStep(i)
    BY <2>5, SessionKeeps
  <2>6. ASSUME NEW m \in Msg,
               \/ Read(m) \/ Lookup(m) \/ Replay(m) \/ TakeGate(m) \/ StartHeartbeat(m)
               \/ UseHandle(m) \/ BackOut(m) \/ BeginTurn(m) \/ ImagesFail(m) \/ EndTurn(m)
               \/ TurnFails(m) \/ CommitAgain(m) \/ CommitConflict(m) \/ ClaimLost(m)
               \/ Publish(m) \/ SendHeartbeat(m) \/ LeaseExpires(m) \/ Disconnect(m)
        PROVE  ScopeProps'
    <3>1. conv' = conv /\ ledger' = ledger
      BY <2>6 DEF Read, Lookup, Replay, TakeGate, StartHeartbeat, UseHandle, BackOut, BeginTurn,
         ImagesFail, EndTurn, TurnFails, CommitAgain, CommitConflict, ClaimLost, Publish,
         SendHeartbeat, LeaseExpires, Disconnect, store
    <3>2. QED
      BY <3>1, QuietKeeps
  <2>7. CASE Tick \/ \E i \in Instance : Drain(i) \/ Teardown(i) \/ Crash(i)
    <3>1. conv' = conv /\ ledger' = ledger
      BY <2>7 DEF Tick, Drain, Teardown, Crash, store
    <3>2. QED
      BY <3>1, QuietKeeps
  <2>8. QED
    BY <2>1, <2>2, <2>3, <2>4, <2>5, <2>6, <2>7 DEF Next, Advance, Beat
<1>2. QED
  BY <1>b, <1>1 DEF ScopeInv

\* The inductive invariant holds in every behaviour.
LEMMA Scope == Spec => []ScopeInv
<1>1. Init => ScopeInv
  <2>1. SUFFICES ASSUME Init PROVE ScopeInv
    OBVIOUS
  <2>2. \A k \in Key : ledger[k].st = "absent"
    BY <2>1 DEF Init, NoRow
  <2>3. QED
    BY <2>1, <2>2, InitType DEF ScopeInv, ScopeProps, HeldScoped, ClaimPinsConversation, ScopeHeldByOneRow, InFlight
<1>2. QED
  BY <1>1, NextScope, PTL DEF Spec

\* A message in flight pins the conversation, whatever the number of replicas:
\* no /start, DELETE or other turn comes between its claim and its commit.
THEOREM ClaimPins == Spec => []ClaimPinsConversation
<1>1. ScopeInv => ClaimPinsConversation
  BY DEF ScopeInv, ScopeProps
<1>2. QED
  BY <1>1, Scope, PTL

\* At most one row holds the exclusive scope of an incarnation, so a recovery
\* key that names it always frees the conversation.
THEOREM ScopeExclusive == Spec => []ScopeHeldByOneRow
<1>1. ScopeInv => ScopeHeldByOneRow
  BY DEF ScopeInv, ScopeProps
<1>2. QED
  BY <1>1, Scope, PTL

----------------------------------------------------------------------------
\* Turns and their rows.

\* Where a message has run no turn yet.
Before == {"idle", "read", "missed", "gated", "replaying", "won", "claimed", "backing",
           "images", "releasing"}
\* Where it holds a claim and has not begun its turn.
Owning == {"won", "claimed", "images"}
Committed == {t.msg : t \in past}
OwnsRow(m, x) == Linked(m) /\ Row(m).st # "absent" /\ Row(m).inc = x

\* A completed row stands for a committed turn, and only a recovery key takes
\* the scope from a row.
RowsKnown ==
    \A k \in Key :
        /\ ledger[k].st = "completed" => ledger[k].msg \in Committed
        /\ ledger[k].st # "absent" /\ ~ledger[k].scoped => ledger[k].msg \in recovered

\* A claim keeps its row until the row ages out.
ClaimHeld == \A m \in Msg : pc[m] \in Owning => m \in freed \/ OwnsRow(m, mem[m].inc)
NotYetRan == \A m \in Msg : pc[m] \in Before => ran[m] = 0
\* So does a turn, whatever became of its worker.
TurnHeld == \A m \in Msg : ran[m] # 0 => m \in freed \/ OwnsRow(m, ran[m])

\* The inductive invariant, on top of ScopeInv.
TurnProps == RowsKnown /\ ClaimHeld /\ NotYetRan /\ TurnHeld
TurnInv == ScopeInv /\ TurnProps

\* A step that brings no message back before its turn or to a claim.
KeepsTasks ==
    \A n \in Msg : /\ pc'[n] \in Before => pc[n] \in Before
                   /\ pc'[n] \in Owning => pc[n] \in Owning /\ mem'[n].inc = mem[n].inc

\* Row k stays with its message, or ages out.
KeepsRow(k) ==
    ledger[k].st # "absent" =>
        \/ ledger[k].msg \in freed'
        \/ /\ ledger'[k].st # "absent" /\ ledger'[k].msg = ledger[k].msg
           /\ ledger'[k].inc = ledger[k].inc
KeepsRows == \A k \in Key : KeepsRow(k)

\* A step that keeps tasks and rows keeps the invariant.
LEMMA TurnKeeps ==
  ASSUME TypeInv, TurnProps, KeepsTasks, KeepsRows, RowsKnown', ran' = ran, freed \subseteq freed'
  PROVE  TurnProps'
<1>1. ClaimHeld'
  <2>1. SUFFICES ASSUME NEW m \in Msg, pc'[m] \in Owning
                 PROVE  m \in freed' \/ OwnsRow(m, mem[m].inc)'
    BY DEF ClaimHeld, Owning
  <2>2. pc[m] \in Owning /\ mem'[m].inc = mem[m].inc
    BY <2>1 DEF KeepsTasks
  <2>3. m \in freed \/ OwnsRow(m, mem[m].inc)
    BY <2>2 DEF TurnProps, ClaimHeld
  <2>4. KeepsRow(KeyOf(m))
    BY ReqType DEF KeepsRows
  <2>5. QED
    BY <2>2, <2>3, <2>4 DEF KeepsRow, OwnsRow, Linked, Row, KeyOf
<1>2. NotYetRan'
  BY DEF TurnProps, NotYetRan, KeepsTasks, Before
<1>3. TurnHeld'
  <2>1. SUFFICES ASSUME NEW m \in Msg, ran[m] # 0
                 PROVE  m \in freed' \/ OwnsRow(m, ran[m])'
    BY DEF TurnHeld
  <2>2. m \in freed \/ OwnsRow(m, ran[m])
    BY <2>1 DEF TurnProps, TurnHeld
  <2>3. KeepsRow(KeyOf(m))
    BY ReqType DEF KeepsRows
  <2>4. QED
    BY <2>2, <2>3 DEF KeepsRow, OwnsRow, Linked, Row, KeyOf
<1>4. QED
  BY <1>1, <1>2, <1>3 DEF TurnProps

\* A step that leaves the ledger and its history alone keeps rows known.
LEMMA SameRows ==
  ASSUME TurnProps, ledger' = ledger, past' = past, recovered' = recovered, freed' = freed
  PROVE  KeepsRows /\ RowsKnown' /\ freed \subseteq freed'
BY DEF TurnProps, KeepsRows, KeepsRow, RowsKnown, Committed

\* A message that leaves, or stops its heartbeat, keeps the tasks.
LEMMA LeaveKeeps ==
  ASSUME TypeInv, NEW m \in Msg,
         \/ Leave(m)
         \/ StopBeat(m, "marking") \/ StopBeat(m, "committed")
         \/ pc[m] \in Before /\ (StopBeat(m, "backing") \/ StopBeat(m, "releasing"))
  PROVE  KeepsTasks
<1>1. \A n \in Msg : n # m => pc'[n] = pc[n] /\ mem'[n] = mem[n]
  BY DEF Leave, StopBeat, Goto, TypeInv, TypeOK
<1>2. /\ pc'[m] \in {"done", "marking", "committed", "backing", "releasing"}
      /\ pc'[m] \in {"backing", "releasing"} => pc[m] \in Before
  BY DEF Leave, StopBeat, Goto, TypeInv, TypeOK
<1>3. QED
  BY <1>1, <1>2 DEF KeepsTasks, Before, Owning

----------------------------------------------------------------------------
\* Steps that do not write the ledger.

\* The steps before the claim, and of the heartbeat, keep the tasks.
LEMMA LocalTasks ==
  ASSUME TypeInv, NEW m \in Msg,
         \/ Read(m) \/ Lookup(m) \/ Replay(m) \/ TakeGate(m) \/ StartHeartbeat(m)
         \/ SendHeartbeat(m) \/ Heartbeat(m) \/ HeartbeatFails(m) \/ LeaseExpires(m)
         \/ UseHandle(m) \/ BackOut(m) \/ ImagesFail(m) \/ TurnFails(m) \/ EndTurn(m)
         \/ ClaimLost(m) \/ CommitConflict(m) \/ Disconnect(m) \/ CommitTurn(m)
         \/ CommitAgain(m) \/ Publish(m) \/ Mark(m) \/ Release(m)
  PROVE  KeepsTasks
<1>a. mem[m] \in TaskMemory
  BY DEF TypeInv, TypeOK
<1>1. CASE Leave(m)
  BY <1>1, LeaveKeeps
<1>2. CASE Read(m) \/ Lookup(m) \/ TakeGate(m)
  <2>1. CASE Leave(m)
    BY <2>1, LeaveKeeps
  <2>2. CASE ~Leave(m)
    <3>1. \A n \in Msg : n # m => pc'[n] = pc[n] /\ mem'[n] = mem[n]
      BY <1>2, <2>2 DEF Read, Lookup, TakeGate, Goto, TypeInv, TypeOK
    <3>2. pc'[m] \in {"read", "missed", "replaying", "gated"} /\ pc[m] \in {"idle", "read", "missed"}
      BY <1>2, <2>2 DEF Read, Lookup, TakeGate, Goto, TypeInv, TypeOK
    <3>3. QED
      BY <3>1, <3>2 DEF KeepsTasks, Before, Owning
  <2>3. QED
    BY <2>1, <2>2
<1>3. CASE StartHeartbeat(m)
  BY <1>3 DEF StartHeartbeat, Goto, KeepsTasks, Before, Owning, TypeInv, TypeOK
<1>4. CASE SendHeartbeat(m) \/ Heartbeat(m) \/ HeartbeatFails(m) \/ LeaseExpires(m)
  <2>1. pc' = pc
    BY <1>4 DEF SendHeartbeat, Heartbeat, HeartbeatFails, LeaseExpires
  <2>2. \A n \in Msg : n # m => mem'[n] = mem[n]
    BY <1>4 DEF SendHeartbeat, Heartbeat, HeartbeatFails, LeaseExpires, TypeInv, TypeOK
  <2>3. mem'[m].inc = mem[m].inc
    BY ZenonT(60), <1>4, <1>a DEF SendHeartbeat, Heartbeat, HeartbeatFails, LeaseExpires, TypeInv, TypeOK, TaskMemory
  <2>4. QED
    BY <2>1, <2>2, <2>3 DEF KeepsTasks
<1>5. CASE UseHandle(m)
  <2>1. mem' = [mem EXCEPT ![m].log = cache'[InstOf(m)].log] /\ pc' = [pc EXCEPT ![m] = "images"]
    BY <1>5 DEF UseHandle, Goto
  <2>2. \A n \in Msg : mem'[n].inc = mem[n].inc /\ (n # m => pc'[n] = pc[n])
    BY <2>1 DEF TypeInv, TypeOK, TaskMemory
  <2>3. pc[m] = "claimed"
    BY <1>5 DEF UseHandle
  <2>4. QED
    BY <2>2, <2>3 DEF KeepsTasks, Before, Owning
<1>6. CASE \/ BackOut(m) \/ ImagesFail(m) \/ TurnFails(m) \/ ClaimLost(m) \/ CommitConflict(m)
  BY <1>6, LeaveKeeps DEF BackOut, ImagesFail, TurnFails, ClaimLost, CommitConflict, Before
<1>7. CASE EndTurn(m)
  BY <1>7 DEF EndTurn, Goto, KeepsTasks, Before, Owning, TypeInv, TypeOK
<1>8. CASE CommitTurn(m)
  <2>1. CASE StopBeat(m, "committed")
    BY <2>1, LeaveKeeps
  <2>2. CASE UNCHANGED <<pc, mem>>
    BY <2>2 DEF KeepsTasks
  <2>3. QED
    BY <1>8, <2>1, <2>2 DEF CommitTurn
<1>9. QED
  BY <1>1, <1>2, <1>3, <1>4, <1>5, <1>6, <1>7, <1>8
     DEF Replay, Disconnect, CommitAgain, Publish, Mark, Release

\* So do the lifecycle of a replica and a session's steps.
LEMMA ReplicaTasks ==
  ASSUME TypeInv,
         \/ Tick
         \/ \E i \in Instance : SessionStep(i) \/ Drain(i) \/ Teardown(i) \/ Crash(i)
  PROVE  KeepsTasks
<1>1. CASE UNCHANGED <<pc, mem>>
  BY <1>1 DEF KeepsTasks
<1>2. ASSUME NEW i \in Instance, Teardown(i) PROVE KeepsTasks
  <2>1. pc' = pc /\ \A n \in Msg : mem'[n] = mem[n] \/ mem'[n] = [mem[n] EXCEPT !.halt = TRUE]
    BY <1>2 DEF Teardown
  <2>2. \A n \in Msg : mem'[n].inc = mem[n].inc
    BY ZenonT(60), <2>1 DEF TypeInv, TypeOK, TaskMemory
  <2>3. QED
    BY <2>1, <2>2 DEF KeepsTasks
<1>3. ASSUME NEW i \in Instance, Crash(i) PROVE KeepsTasks
  <2>1. \A n \in Msg : pc'[n] \in {"crashed", "done"} \/ (pc'[n] = pc[n] /\ mem'[n] = mem[n])
    BY <1>3 DEF Crash
  <2>2. QED
    BY <2>1 DEF KeepsTasks, Before, Owning
<1>4. CASE Tick \/ \E i \in Instance : SessionStep(i) \/ Drain(i)
  BY <1>4, <1>1 DEF Tick, Drain, SessionStep, OpenSession, BuildSession, AdoptWinner, PersistSession,
     ReloadWinner, RebuildSession, PublishSession, AbortSession, OpenDelete, DeleteConversation, Evict
<1>5. QED
  BY <1>2, <1>3, <1>4

\* A message begins its turn while it owns its row, or its row has aged out.
LEMMA BeginKeeps ==
  ASSUME TypeInv, TurnProps, NEW m \in Msg, BeginTurn(m)
  PROVE  TurnProps'
<1>a. pc[m] = "images" /\ pc' = [pc EXCEPT ![m] = "turn"] /\ mem' = mem /\ ledger' = ledger
      /\ freed' = freed /\ ran' = [ran EXCEPT ![m] = mem[m].inc]
  BY DEF BeginTurn, Goto, store
<1>1. RowsKnown'
  BY SameRows DEF BeginTurn, store
<1>2. ClaimHeld' /\ NotYetRan'
  BY <1>a DEF TurnProps, ClaimHeld, NotYetRan, OwnsRow, Linked, Row, Before, Owning, TypeInv, TypeOK
<1>3. TurnHeld'
  BY <1>a DEF TurnProps, ClaimHeld, TurnHeld, OwnsRow, Linked, Row, Owning, TypeInv, TypeOK
<1>4. QED
  BY <1>1, <1>2, <1>3 DEF TurnProps

----------------------------------------------------------------------------
\* Steps that write the ledger.

\* Whatever the sweep removes has aged out.
LEMMA SweptKept ==
  ASSUME TypeInv, NEW k \in Key
  PROVE  \/ PrunedLedger[k] = ledger[k]
         \/ PrunedLedger[k] = NoRow /\ ledger[k].msg \in PrunedMsgs
BY DEF PrunedLedger, PrunedMsgs, Expired

\* A row in flight that becomes a hazard stays with its message and its scope.
LEMMA FencedKept ==
  ASSUME TypeInv, NEW k \in Key, InFlight(ledger[k]), ledger'[k] = Indeterminate(ledger[k])
  PROVE  /\ KeepsRow(k)
         /\ ledger'[k].st = "indeterminate" /\ ledger'[k].scoped = ledger[k].scoped
         /\ ledger'[k].msg = ledger[k].msg
<1>1. ledger[k] \in LedgerRow
  BY DEF TypeInv, TypeOK
<1>2. QED
  BY <1>1, IndeterminateRow DEF KeepsRow

\* A claim keeps every other row, or sees it age out.
LEMMA ClaimRows ==
  ASSUME TypeInv, TurnProps, NEW m \in Msg, Claim(m)
  PROVE  KeepsRows /\ RowsKnown' /\ freed \subseteq freed'
<1>a. KeyOf(m) \in Key /\ freed' = freed \cup PrunedMsgs /\ past' = past /\ recovered \subseteq recovered'
  BY ReqType DEF Claim, ClaimExisting, ClaimStale, ClaimRefused, ClaimNew
<1>1. ASSUME NEW k \in Key
      PROVE  /\ KeepsRow(k)
             /\ ledger'[k].st = "completed" => ledger'[k].msg \in Committed
             /\ ledger'[k].st # "absent" /\ ~ledger'[k].scoped => ledger'[k].msg \in recovered'
  <2>a. PrunedLedger[k] \in LedgerRow /\ NoRow.st = "absent"
    BY PrunedRows DEF NoRow
  <2>1. CASE ledger'[k] = PrunedLedger[k]
    BY <1>a, <2>1, <2>a, SweptKept DEF KeepsRow, TurnProps, RowsKnown
  <2>2. CASE InFlight(PrunedLedger[k]) /\ ledger'[k] = Indeterminate(PrunedLedger[k])
    <3>1. InFlight(ledger[k]) /\ ledger'[k] = Indeterminate(ledger[k])
      BY <2>2, <2>a, SweptKept DEF InFlight
    <3>2. QED
      BY <1>a, <3>1, FencedKept DEF TurnProps, RowsKnown, InFlight
  <2>3. CASE ClaimNew(m) /\ k \in Hazards(m) /\ ledger'[k] = ClearScope(PrunedLedger[k])
    <3>1. PrunedLedger[k].st = "indeterminate"
      BY <2>3 DEF Hazards, ScopeRows
    <3>2. PrunedLedger[k] = ledger[k]
      BY <2>a, <3>1, SweptKept
    <3>3. ledger'[k].msg \in recovered'
      <4>1. recovered' = recovered \cup {PrunedLedger[j].msg : j \in Hazards(m)}
        BY <2>3 DEF ClaimNew
      <4>2. ledger'[k].msg = PrunedLedger[k].msg
        BY <2>3, <2>a, ClearedRow
      <4>3. QED
        BY <2>3, <4>1, <4>2
    <3>4. QED
      BY <2>3, <2>a, <3>1, <3>2, <3>3, ClearedRow DEF KeepsRow
  <2>4. CASE k = KeyOf(m) /\ ClaimNew(m) /\ ledger'[k] = ClaimedRow(m)
    <3>1. PrunedLedger[k].st = "absent"
      BY <2>4 DEF ClaimNew
    <3>2. QED
      BY <1>a, <2>4, <3>1, SweptKept, ClaimedRowType DEF KeepsRow
  <2>5. QED
    BY <2>1, <2>2, <2>3, <2>4, ClaimLedger
<1>2. QED
  BY <1>a, <1>1 DEF KeepsRows, RowsKnown, Committed

\* A claim, won or refused, keeps the invariant.
LEMMA ClaimTurn ==
  ASSUME TypeInv, TurnProps, NEW m \in Msg, Claim(m)
  PROVE  TurnProps'
<1>a. KeepsRows /\ RowsKnown' /\ freed \subseteq freed' /\ ran' = ran /\ KeyOf(m) \in Key
  BY ClaimRows, ReqType DEF Claim
<1>1. CASE Leave(m)
  BY <1>a, <1>1, LeaveKeeps, TurnKeeps
<1>2. CASE Goto(m, "replaying") /\ mem' = [mem EXCEPT ![m].replay = PrunedLedger[KeyOf(m)]]
  <2>1. KeepsTasks
    BY <1>2 DEF Claim, Goto, KeepsTasks, Before, Owning, TypeInv, TypeOK
  <2>2. QED
    BY <1>a, <2>1, TurnKeeps
<1>3. CASE ClaimNew(m) /\ Goto(m, "won") /\ mem' = mem
  <2>1. pc[m] = "gated" /\ pc' = [pc EXCEPT ![m] = "won"]
    BY <1>3 DEF Claim, Goto
  <2>2. NotYetRan'
    BY <1>a, <2>1 DEF TurnProps, NotYetRan, Before, TypeInv, TypeOK
  <2>3. ledger'[KeyOf(m)] = ClaimedRow(m)
    BY <1>a, <1>3 DEF ClaimNew, ClaimedRow
  <2>4. OwnsRow(m, mem[m].inc)'
    BY <1>3, <2>3, ClaimedRowType DEF OwnsRow, Linked, Row, KeyOf
  <2>5. ClaimHeld'
    <3>1. SUFFICES ASSUME NEW n \in Msg, n # m, pc'[n] \in Owning
                   PROVE  n \in freed' \/ OwnsRow(n, mem[n].inc)'
      BY <2>4 DEF ClaimHeld, Owning
    <3>2. n \in freed \/ OwnsRow(n, mem[n].inc)
      BY <2>1, <3>1 DEF TurnProps, ClaimHeld, TypeInv, TypeOK
    <3>3. KeepsRow(KeyOf(n))
      BY <1>a, ReqType DEF KeepsRows
    <3>4. QED
      BY <1>a, <1>3, <3>2, <3>3 DEF KeepsRow, OwnsRow, Linked, Row, KeyOf
  <2>6. TurnHeld'
    <3>1. SUFFICES ASSUME NEW n \in Msg, ran[n] # 0
                   PROVE  n \in freed' \/ OwnsRow(n, ran[n])'
      BY <1>a DEF TurnHeld
    <3>2. n \in freed \/ OwnsRow(n, ran[n])
      BY <3>1 DEF TurnProps, TurnHeld
    <3>3. KeepsRow(KeyOf(n))
      BY <1>a, ReqType DEF KeepsRows
    <3>4. QED
      BY <1>a, <3>2, <3>3 DEF KeepsRow, OwnsRow, Linked, Row, KeyOf
  <2>7. QED
    BY <1>a, <2>2, <2>5, <2>6 DEF TurnProps
<1>4. QED
  BY <1>1, <1>2, <1>3 DEF Claim, ClaimExisting, ClaimStale, ClaimRefused, ClaimNew

\* Renewals, marks, the reconciler and the sweep keep rows with their messages.
LEMMA WriteRows ==
  ASSUME TypeInv, TurnProps,
         \/ Reconcile
         \/ Prune
         \/ \E m \in Msg : Heartbeat(m) \/ HeartbeatFails(m) \/ Mark(m)
  PROVE  KeepsRows /\ RowsKnown' /\ freed \subseteq freed'
<1>a. \A k \in Key : ledger[k] \in LedgerRow
  BY DEF TypeInv, TypeOK
<1>b. past' = past /\ recovered' = recovered
  BY DEF Reconcile, Prune, Heartbeat, HeartbeatFails, Mark, ghost
<1>1. CASE Prune
  <2>1. freed' = freed \cup PrunedMsgs /\ ledger' = PrunedLedger
    BY <1>1 DEF Prune
  <2>2. QED
    BY <1>b, <2>1, SweptKept DEF KeepsRows, KeepsRow, RowsKnown, Committed, TurnProps, NoRow
<1>2. CASE freed' = freed /\ \A k \in Key :
             \/ ledger'[k] = ledger[k]
             \/ InFlight(ledger[k]) /\ ledger'[k] = Indeterminate(ledger[k])
             \/ ledger'[k] = [ledger[k] EXCEPT !.lease = now + LeaseTTL]
  <2>1. ASSUME NEW k \in Key
        PROVE  /\ KeepsRow(k)
               /\ ledger'[k].msg = ledger[k].msg /\ ledger'[k].scoped = ledger[k].scoped
               /\ ledger'[k].st = "completed" => ledger[k].st = "completed"
               /\ ledger'[k].st # "absent" => ledger[k].st # "absent"
    <3>1. CASE ledger'[k] = ledger[k]
      BY <3>1 DEF KeepsRow
    <3>2. CASE InFlight(ledger[k]) /\ ledger'[k] = Indeterminate(ledger[k])
      BY <3>2, FencedKept DEF InFlight
    <3>3. CASE ledger'[k] = [ledger[k] EXCEPT !.lease = now + LeaseTTL]
      BY <1>a, <3>3 DEF KeepsRow, LedgerRow
    <3>4. QED
      BY <1>2, <3>1, <3>2, <3>3
  <2>2. QED
    BY <1>2, <1>b, <2>1 DEF KeepsRows, RowsKnown, Committed, TurnProps
<1>3. CASE Reconcile
  BY <1>2, <1>3 DEF Reconcile, Overdue, ghost
<1>4. ASSUME NEW m \in Msg, Heartbeat(m) \/ HeartbeatFails(m) \/ Mark(m)
      PROVE  KeepsRows /\ RowsKnown' /\ freed \subseteq freed'
  <2>1. freed' = freed
    BY <1>4 DEF Heartbeat, HeartbeatFails, Mark, ghost
  <2>2. \/ ledger' = ledger
        \/ ledger' = [ledger EXCEPT ![KeyOf(m)].lease = now + LeaseTTL]
        \/ InFlight(ledger[KeyOf(m)]) /\ ledger' = [ledger EXCEPT ![KeyOf(m)] = Indeterminate(@)]
    BY <1>4 DEF Heartbeat, HeartbeatFails, Mark, RenewedLedger, Row
  <2>3. QED
    BY <1>2, <2>1, <2>2 DEF TypeInv, TypeOK
<1>5. QED
  BY <1>1, <1>3, <1>4

\* The commit completes its row and records its turn.
LEMMA CommitRows ==
  ASSUME TypeInv, TurnProps, NEW m \in Msg, CommitTurn(m)
  PROVE  KeepsRows /\ RowsKnown' /\ freed \subseteq freed'
<1>a. InFlight(ledger[KeyOf(m)]) /\ KeyOf(m) \in Key /\ ledger[KeyOf(m)] \in LedgerRow /\ Linked(m)
  BY CommitsInFlight DEF TypeInv, TypeOK
<1>1. PICK fits \in BOOLEAN :
        ledger' = [ledger EXCEPT ![KeyOf(m)] =
                     [@ EXCEPT !.st = "completed", !.body = fits, !.lease = 0,
                               !.done = now, !.exp = now + Retention]]
  BY DEF CommitTurn
<1>2. /\ ledger'[KeyOf(m)].st = "completed" /\ ledger'[KeyOf(m)].msg = m
      /\ ledger'[KeyOf(m)].inc = ledger[KeyOf(m)].inc
      /\ ledger'[KeyOf(m)].scoped = ledger[KeyOf(m)].scoped
      /\ \A k \in Key : k # KeyOf(m) => ledger'[k] = ledger[k]
  BY <1>1, <1>a DEF TypeInv, TypeOK, LedgerRow, Linked, Row
<1>3. freed' = freed /\ recovered' = recovered /\ Committed \subseteq Committed' /\ m \in Committed'
  <2> DEFINE turn == [msg |-> m, inc |-> conv.inc, at |-> Len(conv.log) + 1]
  <2>1. past' = past \cup {turn}
    BY DEF CommitTurn
  <2>2. turn.msg = m
    OBVIOUS
  <2> HIDE DEF turn
  <2>3. turn \in past' /\ past \subseteq past'
    BY <2>1
  <2>4. QED
    BY <2>2, <2>3 DEF CommitTurn, Committed
<1>4. KeepsRows
  BY <1>2, <1>a DEF KeepsRows, KeepsRow, Linked, Row
<1>5. RowsKnown'
  BY <1>2, <1>3, <1>a DEF RowsKnown, TurnProps, Linked, Row, InFlight
<1>6. QED
  BY <1>3, <1>4, <1>5

\* A released row was that of a message that ran no turn.
LEMMA ReleaseTurn ==
  ASSUME TypeInv, TurnProps, NEW m \in Msg, Release(m)
  PROVE  TurnProps'
<1>a. Leave(m) /\ pc[m] = "releasing" /\ ran' = ran /\ freed' = freed /\ past' = past /\ recovered' = recovered
  BY DEF Release, ghost
<1>b. KeepsTasks
  BY <1>a, LeaveKeeps
<1>1. CASE ledger' = ledger
  BY <1>a, <1>b, <1>1, SameRows, TurnKeeps
<1>2. CASE Linked(m) /\ ledger' = [ledger EXCEPT ![KeyOf(m)] = NoRow]
  <2>1. \A k \in Key : ledger'[k] = IF k = KeyOf(m) THEN NoRow ELSE ledger[k]
    BY <1>2 DEF TypeInv, TypeOK
  <2>2. RowsKnown'
    BY <1>a, <2>1 DEF RowsKnown, TurnProps, Committed, NoRow
  <2>3. ClaimHeld'
    <3>1. SUFFICES ASSUME NEW n \in Msg, pc'[n] \in Owning
                   PROVE  n \in freed \/ OwnsRow(n, mem[n].inc)'
      BY <1>a DEF ClaimHeld, Owning
    <3>2. pc[n] \in Owning /\ mem'[n].inc = mem[n].inc /\ n # m
      BY <1>a, <1>b, <3>1 DEF KeepsTasks, Owning
    <3>3. n \in freed \/ OwnsRow(n, mem[n].inc)
      BY <3>2 DEF TurnProps, ClaimHeld
    <3>4. CASE OwnsRow(n, mem[n].inc)
      <4>1. KeyOf(n) # KeyOf(m) /\ KeyOf(n) \in Key
        BY <1>2, <3>2, <3>4, ReqType DEF OwnsRow, Linked, Row
      <4>2. QED
        BY <2>1, <3>2, <3>4, <4>1 DEF OwnsRow, Linked, Row, KeyOf
    <3>5. QED
      BY <3>3, <3>4
  <2>4. NotYetRan'
    BY <1>a, <1>b DEF TurnProps, NotYetRan, KeepsTasks, Before
  <2>5. ran[m] = 0
    BY <1>a DEF TurnProps, NotYetRan, Before
  <2>6. TurnHeld'
    <3>1. SUFFICES ASSUME NEW n \in Msg, ran[n] # 0
                   PROVE  n \in freed \/ OwnsRow(n, ran[n])'
      BY <1>a DEF TurnHeld
    <3>2. CASE OwnsRow(n, ran[n])
      <4>1. KeyOf(n) # KeyOf(m) /\ KeyOf(n) \in Key
        BY <1>2, <2>5, <3>1, <3>2, ReqType DEF OwnsRow, Linked, Row
      <4>2. QED
        BY <1>a, <2>1, <3>2, <4>1 DEF OwnsRow, Linked, Row, KeyOf
    <3>3. QED
      BY <3>1, <3>2 DEF TurnProps, TurnHeld
  <2>7. QED
    BY <2>2, <2>3, <2>4, <2>6 DEF TurnProps
<1>3. QED
  BY <1>1, <1>2 DEF Release

----------------------------------------------------------------------------
\* Every step keeps the invariant.
LEMMA NextTurn == TurnInv /\ [Next]_vars => TurnInv'
<1> SUFFICES ASSUME TurnInv, [Next]_vars PROVE TurnInv'
  OBVIOUS
<1>a. TypeInv /\ TurnProps /\ ScopeInv
  BY DEF TurnInv, ScopeInv
<1>b. ScopeInv'
  BY <1>a, NextScope
<1>1. TurnProps'
  <2>1. CASE UNCHANGED vars
    <3>1. KeepsTasks
      BY <2>1 DEF vars, KeepsTasks
    <3>2. QED
      BY <1>a, <2>1, <3>1, SameRows, TurnKeeps DEF vars
  <2>2. ASSUME NEW m \in Msg,
               \/ Read(m) \/ Lookup(m) \/ Replay(m) \/ TakeGate(m) \/ StartHeartbeat(m)
               \/ SendHeartbeat(m) \/ LeaseExpires(m) \/ UseHandle(m) \/ BackOut(m)
               \/ ImagesFail(m) \/ TurnFails(m) \/ EndTurn(m) \/ ClaimLost(m)
               \/ CommitConflict(m) \/ Disconnect(m) \/ CommitAgain(m) \/ Publish(m)
        PROVE  TurnProps'
    <3>1. KeepsTasks
      BY <1>a, <2>2, LocalTasks
    <3>2. /\ ledger' = ledger /\ past' = past /\ recovered' = recovered
          /\ freed' = freed /\ ran' = ran
      BY <2>2 DEF Read, Lookup, Replay, TakeGate, StartHeartbeat, SendHeartbeat, LeaseExpires,
         UseHandle, BackOut, ImagesFail, TurnFails, EndTurn, ClaimLost, CommitConflict,
         Disconnect, CommitAgain, Publish, store, ghost
    <3>3. QED
      BY <1>a, <3>1, <3>2, SameRows, TurnKeeps
  <2>3. ASSUME NEW m \in Msg, Heartbeat(m) \/ HeartbeatFails(m) \/ Mark(m)
        PROVE  TurnProps'
    <3>1. KeepsTasks
      BY <1>a, <2>3, LocalTasks
    <3>2. ran' = ran
      BY <2>3 DEF Heartbeat, HeartbeatFails, Mark, ghost
    <3>3. QED
      BY <1>a, <2>3, <3>1, <3>2, WriteRows, TurnKeeps
  <2>4. CASE Reconcile \/ Prune
    <3>1. KeepsTasks /\ ran' = ran
      BY <2>4 DEF Reconcile, Prune, ghost, KeepsTasks
    <3>2. QED
      BY <1>a, <2>4, <3>1, WriteRows, TurnKeeps
  <2>5. ASSUME NEW m \in Msg, CommitTurn(m) PROVE TurnProps'
    <3>1. KeepsTasks /\ ran' = ran
      BY <1>a, <2>5, LocalTasks DEF CommitTurn
    <3>2. QED
      BY <1>a, <2>5, <3>1, CommitRows, TurnKeeps
  <2>6. ASSUME NEW m \in Msg, Claim(m) \/ BeginTurn(m) \/ Release(m) PROVE TurnProps'
    BY <1>a, <2>6, ClaimTurn, BeginKeeps, ReleaseTurn
  <2>7. CASE Tick \/ \E i \in Instance : SessionStep(i) \/ Drain(i) \/ Teardown(i) \/ Crash(i)
    <3>1. KeepsTasks
      BY <1>a, <2>7, ReplicaTasks
    <3>2. /\ ledger' = ledger /\ past' = past /\ recovered' = recovered
          /\ freed' = freed /\ ran' = ran
      BY <2>7 DEF Tick, Drain, Teardown, Crash, SessionStep, OpenSession, BuildSession, AdoptWinner,
         PersistSession, ReloadWinner, RebuildSession, PublishSession, AbortSession, OpenDelete,
         DeleteConversation, Evict, store, ghost
    <3>3. QED
      BY <1>a, <3>1, <3>2, SameRows, TurnKeeps
  <2>8. QED
    BY <2>1, <2>2, <2>3, <2>4, <2>5, <2>6, <2>7 DEF Next, Advance, Beat
<1>2. QED
  BY <1>b, <1>1 DEF TurnInv

\* The inductive invariant holds in every behaviour.
LEMMA Turns == Spec => []TurnInv
<1>1. Init => TurnInv
  <2>1. SUFFICES ASSUME Init PROVE TurnProps /\ ScopeInv
    BY DEF TurnInv
  <2>2. \A k \in Key : ledger[k].st = "absent"
    BY <2>1 DEF Init, NoRow
  <2>3. \A m \in Msg : pc[m] = "idle" /\ ran[m] = 0
    BY <2>1 DEF Init
  <2>4. TurnProps
    BY <2>2, <2>3 DEF TurnProps, RowsKnown, ClaimHeld, NotYetRan, TurnHeld, Owning
  <2>5. ScopeInv
    BY <2>1, <2>2, InitType DEF ScopeInv, ScopeProps, HeldScoped, ClaimPinsConversation, ScopeHeldByOneRow, InFlight
  <2>6. QED
    BY <2>4, <2>5
<1>2. QED
  BY <1>1, NextTurn, PTL DEF Spec

\* Retries of one key run one turn until the key's row ages out, on however many
\* replicas they arrive.
THEOREM RunsOnce == Spec => []OneTurnPerKey
<1>1. TurnInv => OneTurnPerKey
  BY DEF TurnInv, TurnProps, TurnHeld, OwnsRow, Linked, Row, OneTurnPerKey
<1>2. QED
  BY <1>1, Turns, PTL

\* Of two turns in one incarnation one was committed, given up by its client or
\* aged out.
THEOREM UnsettledBlocks == Spec => []UnsettledTurnBlocks
<1>1. ASSUME TurnInv PROVE UnsettledTurnBlocks
  <2>1. SUFFICES ASSUME NEW m \in Msg, NEW n \in Msg, m # n, ran[m] # 0, ran[n] = ran[m],
                        {m, n} \cap (Committed \cup recovered \cup freed) = {}
                 PROVE  FALSE
    BY DEF UnsettledTurnBlocks, Committed
  <2>2. OwnsRow(m, ran[m]) /\ OwnsRow(n, ran[m])
    BY <1>1, <2>1 DEF TurnInv, TurnProps, TurnHeld
  <2>3. KeyOf(m) \in Key /\ KeyOf(n) \in Key /\ ledger[KeyOf(m)] \in LedgerRow /\ ledger[KeyOf(n)] \in LedgerRow
    BY <1>1, ReqType DEF TurnInv, ScopeInv, TypeInv, TypeOK
  <2>4. Holds(ledger[KeyOf(m)]) /\ Holds(ledger[KeyOf(n)])
    BY <1>1, <2>1, <2>2, <2>3 DEF TurnInv, TurnProps, RowsKnown, OwnsRow, Linked, Row, Holds, LedgerRow
  <2>5. KeyOf(m) = KeyOf(n)
    BY <1>1, <2>2, <2>3, <2>4 DEF TurnInv, ScopeInv, ScopeProps, ScopeHeldByOneRow, Holds, OwnsRow, Row
  <2>6. QED
    BY <2>1, <2>2, <2>5 DEF OwnsRow, Linked, Row
<1>2. TurnInv => UnsettledTurnBlocks
  BY <1>1
<1>3. QED
  BY <1>2, Turns, PTL

-----------------------------------------------------------------------------

\* The turn of message n at position p of incarnation x.
TurnAt(n, x, p) == [msg |-> n, inc |-> x, at |-> p]

\* A record whose transcript consists of turns that were committed, in their
\* places: revision 1 is empty, and every turn adds one.
Known(c, turns) ==
    /\ c.inc = 0 => c.rev = 0
    /\ c.rev = 0 => c.log = <<>>
    /\ c.rev # 0 => c.rev = Len(c.log) + 1
    /\ c.rev # 0 => \A j \in 1 .. Len(c.log) : TurnAt(c.log[j], c.inc, j) \in turns

\* No two turns have one place.
Distinct(turns) == \A t, u \in turns : t.inc = u.inc /\ t.at = u.at => t = u

\* Where a message has read the conversation, where it holds no claim yet, and
\* where it works under one.
Reading == PC \ {"idle", "done", "crashed"}
Unclaimed == {"idle", "read", "missed", "gated"}
Claiming == {"won", "claimed", "images", "turn", "prepared"}

\* What a message knows: the record it read existed; the transcript it builds on,
\* the turn it committed and the turn it replays are those of the store; its row
\* is the one it claimed.
TaskKnown(m) ==
    /\ pc[m] \in Reading => mem[m].inc # 0 /\ mem[m].rev # 0
    /\ pc[m] \in Handling => Known(mem[m], past)
    /\ pc[m] = "committed" => TurnAt(m, mem[m].inc, mem[m].rev) \in past
    /\ pc[m] = "replaying" =>
         /\ mem[m].replay.msg \in Msg /\ KeyOf(mem[m].replay.msg) = KeyOf(m)
         /\ Req[mem[m].replay.msg].body = Req[m].body
         /\ TurnAt(mem[m].replay.msg, mem[m].replay.inc, mem[m].replay.base) \in past
RowLinked(m) ==
    Linked(m) /\ Row(m).st # "absent" =>
        /\ pc[m] \notin Unclaimed
        /\ pc[m] \in Claiming => Row(m).inc = mem[m].inc /\ Row(m).base = mem[m].rev

TasksKnown == \A m \in Msg : TaskKnown(m)
RowsLinked == \A m \in Msg : RowLinked(m)
RowsPast ==
    \A k \in Key : ledger[k].st = "completed" =>
        TurnAt(ledger[k].msg, ledger[k].inc, ledger[k].base) \in past
CachesKnown == \A i \in Instance : Known(cache[i], past)
SessionsKnown == \A i \in Instance : Known(sess[i], past)

\* The candidate of a fresh /start: an incarnation nobody else has.
Fresh(i) ==
    /\ sess[i].inc # 0 /\ sess[i].rev = 0 /\ sess[i].inc <= minted /\ sess[i].inc # conv.inc
    /\ \A t \in past : t.inc # sess[i].inc
    /\ \A j \in Instance : j # i /\ sess[j].pc = "persist" => sess[j].inc # sess[i].inc
CandidatesFresh == \A i \in Instance : sess[i].pc = "persist" => Fresh(i)

\* The stored record is what was committed in its incarnation, and no more.
StoreKnown ==
    /\ Known(conv, past) /\ (conv.inc # 0 => conv.rev # 0) /\ conv.inc <= minted
    /\ \A t \in past : t.inc # 0 /\ t.inc <= minted /\ (t.inc = conv.inc => t.at <= Len(conv.log))
    /\ Distinct(past)

\* The inductive invariant, on top of ScopeInv.
LogProps ==
    /\ TasksKnown /\ RowsLinked /\ RowsPast
    /\ CachesKnown /\ SessionsKnown /\ CandidatesFresh /\ StoreKnown
LogInv == ScopeInv /\ LogProps

----------------------------------------------------------------------------
\* A record that is known stays so when turns are added.
LEMMA KnownGrows ==
  ASSUME NEW c, NEW P, NEW Q, P \subseteq Q, Known(c, P)
  PROVE  Known(c, Q)
BY DEF Known

\* Two known records of one incarnation and revision have one transcript.
LEMMA KnownAgree ==
  ASSUME NEW c, NEW d, NEW P, Distinct(P), Known(c, P), Known(d, P),
         c.log \in Seq(Msg), d.log \in Seq(Msg), c.inc = d.inc, c.rev = d.rev
  PROVE  c.log = d.log
<1>1. CASE c.rev = 0
  BY <1>1 DEF Known
<1>2. CASE c.rev # 0
  <2>1. Len(c.log) = Len(d.log) /\ Len(c.log) \in Nat
    BY <1>2 DEF Known
  <2>2. ASSUME NEW j \in 1 .. Len(c.log) PROVE c.log[j] = d.log[j]
    <3>1. TurnAt(c.log[j], c.inc, j) \in P /\ TurnAt(d.log[j], c.inc, j) \in P
      BY <1>2, <2>1, <2>2 DEF Known
    <3>2. TurnAt(c.log[j], c.inc, j) = TurnAt(d.log[j], c.inc, j)
      BY <3>1 DEF Distinct, TurnAt
    <3>3. QED
      BY <3>2 DEF TurnAt
  <2>3. QED
    BY <2>1, <2>2
<1>3. QED
  BY <1>1, <1>2

\* The record after a commit is known.
LEMMA KnownAppend ==
  ASSUME NEW c, NEW d, NEW P, NEW m \in Msg, Known(c, P), c.rev # 0, c.rev \in Nat, c.inc # 0,
         c.log \in Seq(Msg), TurnAt(m, c.inc, c.rev) \in P,
         d.inc = c.inc, d.rev = c.rev + 1, d.log = Append(c.log, m)
  PROVE  Known(d, P)
<1>1. c.rev = Len(c.log) + 1 /\ Len(c.log) \in Nat
  BY DEF Known
<1>2. Len(d.log) = Len(c.log) + 1 /\ d.log[Len(c.log) + 1] = m
  OBVIOUS
<1>3. \A j \in 1 .. Len(c.log) : d.log[j] = c.log[j]
  OBVIOUS
<1>4. \A j \in 1 .. Len(d.log) : TurnAt(d.log[j], d.inc, j) \in P
  <2>1. SUFFICES ASSUME NEW j \in 1 .. Len(d.log) PROVE TurnAt(d.log[j], d.inc, j) \in P
    OBVIOUS
  <2>2. CASE j = Len(c.log) + 1
    BY <1>1, <1>2, <2>2
  <2>3. CASE j # Len(c.log) + 1
    <3>1. j \in 1 .. Len(c.log)
      BY <1>1, <1>2, <2>3
    <3>2. QED
      BY <1>3, <3>1 DEF Known
  <2>4. QED
    BY <2>2, <2>3
<1>5. QED
  BY <1>1, <1>2, <1>4 DEF Known

\* A handle that is not there is known.
LEMMA KnownEmpty ==
  ASSUME NEW P PROVE Known(NoConv, P) /\ Known(NoSess, P)
BY DEF Known, NoConv, NoSess

\* Records with the same fields are known together.
LEMMA KnownSame ==
  ASSUME NEW c, NEW d, NEW P, Known(c, P), d.inc = c.inc, d.rev = c.rev, d.log = c.log
  PROVE  Known(d, P)
BY DEF Known

----------------------------------------------------------------------------
\* Message n goes on with what it knows: it does not read the conversation or a
\* row, claim, take a handle or commit.
SameRead(n) ==
    /\ mem'[n].inc = mem[n].inc /\ mem'[n].rev = mem[n].rev
    /\ mem'[n].log = mem[n].log /\ mem'[n].replay = mem[n].replay
GoesOn(n) ==
    \/ pc'[n] \in {"done", "crashed"}
    \/ /\ SameRead(n)
       /\ pc'[n] \in Reading => pc[n] \in Reading
       /\ pc'[n] \in Handling => pc[n] \in Handling
       /\ pc'[n] \in Claiming => pc[n] \in Claiming
       /\ pc'[n] \in Unclaimed => pc[n] \in Unclaimed
       /\ pc'[n] \in {"committed", "replaying"} => pc'[n] = pc[n]
AllGoOn == \A n \in Msg : GoesOn(n)

\* No row is claimed, and none completed.
RowKept(k) ==
    ledger'[k].st # "absent" =>
        /\ ledger[k].st # "absent" /\ ledger'[k].msg = ledger[k].msg
        /\ ledger'[k].inc = ledger[k].inc /\ ledger'[k].base = ledger[k].base
RowsKept == \A k \in Key : RowKept(k)
NoneCompleted == \A k \in Key : ledger'[k].st = "completed" => ledger[k].st = "completed"

\* Such a message knows what it knew.
LEMMA TaskGoesOn ==
  ASSUME NEW n \in Msg, TaskKnown(n), GoesOn(n), past \subseteq past'
  PROVE  TaskKnown(n)'
<1>1. CASE pc'[n] \in {"done", "crashed"}
  BY <1>1 DEF TaskKnown, Reading, Handling
<1>2. CASE pc'[n] \notin {"done", "crashed"}
  <2>1. SameRead(n)
    BY <1>2 DEF GoesOn
  <2>2. pc'[n] \in Reading => mem'[n].inc # 0 /\ mem'[n].rev # 0
    BY <1>2, <2>1 DEF GoesOn, TaskKnown, SameRead
  <2>3. pc'[n] \in Handling => Known(mem'[n], past')
    BY <1>2, <2>1, KnownSame, KnownGrows DEF GoesOn, TaskKnown, SameRead
  <2>4. pc'[n] \in {"committed", "replaying"} => pc'[n] = pc[n]
    BY <1>2 DEF GoesOn
  <2>5. pc'[n] = "committed" => TurnAt(n, mem'[n].inc, mem'[n].rev) \in past'
    BY <2>1, <2>4 DEF TaskKnown, SameRead
  <2>6. pc'[n] = "replaying" =>
         /\ mem'[n].replay.msg \in Msg /\ KeyOf(mem'[n].replay.msg) = KeyOf(n)
         /\ Req[mem'[n].replay.msg].body = Req[n].body
         /\ TurnAt(mem'[n].replay.msg, mem'[n].replay.inc, mem'[n].replay.base) \in past'
    BY <2>1, <2>4 DEF TaskKnown, SameRead
  <2>7. QED
    BY <2>2, <2>3, <2>5, <2>6 DEF TaskKnown, Reading, Handling, KeyOf
<1>3. QED
  BY <1>1, <1>2

\* Its row, if it has one, is the one it claimed.
LEMMA RowGoesOn ==
  ASSUME NEW n \in Msg, RowLinked(n), GoesOn(n), RowKept(KeyOf(n))
  PROVE  RowLinked(n)'
<1>1. CASE pc'[n] \in {"done", "crashed"}
  BY <1>1 DEF RowLinked, Unclaimed, Claiming
<1>2. CASE pc'[n] \notin {"done", "crashed"}
  BY <1>2 DEF RowLinked, RowKept, GoesOn, SameRead, Linked, Row, KeyOf, Unclaimed, Claiming
<1>3. QED
  BY <1>1, <1>2

\* A completed row goes on naming its turn.
LEMMA RowsGoOn ==
  ASSUME RowsPast, RowsKept, NoneCompleted, past \subseteq past'
  PROVE  RowsPast'
BY DEF RowsPast, RowsKept, RowKept, NoneCompleted

\* A step that leaves the rows alone keeps them.
LEMMA SameLedgerKept ==
  ASSUME ledger' = ledger
  PROVE  RowsKept /\ NoneCompleted
BY DEF RowsKept, RowKept, NoneCompleted

\* Caches that only lose handles stay known.
LEMMA ForgetKnown ==
  ASSUME TypeInv, CachesKnown, past' = past, cache' = cache \/ \E i \in Instance : Forget(i)
  PROVE  CachesKnown'
<1>1. \A j \in Instance : cache'[j] = cache[j] \/ cache'[j] = NoConv
  BY DEF Forget, TypeInv, TypeOK
<1>2. QED
  BY <1>1, KnownEmpty DEF CachesKnown

\* Sessions that only end stay known, and candidates fresh.
LEMMA EndKnown ==
  ASSUME TypeInv, SessionsKnown, CandidatesFresh, UNCHANGED <<past, conv, minted>>,
         sess' = sess \/ \E i \in Instance : EndSess(i)
  PROVE  SessionsKnown' /\ CandidatesFresh'
<1>1. \A j \in Instance : sess'[j] = sess[j] \/ sess'[j] = NoSess
  BY DEF EndSess, TypeInv, TypeOK
<1>2. NoSess.pc = "idle"
  BY DEF NoSess
<1>3. SessionsKnown'
  BY <1>1, KnownEmpty DEF SessionsKnown
<1>4. CandidatesFresh'
  BY <1>1, <1>2 DEF CandidatesFresh, Fresh
<1>5. QED
  BY <1>3, <1>4

\* A step by which no message learns anything and no row is claimed or completed.
LEMMA QuietLog ==
  ASSUME LogInv, AllGoOn, RowsKept, NoneCompleted, UNCHANGED <<past, conv, minted>>,
         cache' = cache \/ \E i \in Instance : Forget(i),
         sess' = sess \/ \E i \in Instance : EndSess(i)
  PROVE  LogProps'
<1>a. LogProps /\ TypeInv
  BY DEF LogInv, ScopeInv
<1>1. TasksKnown'
  BY <1>a, TaskGoesOn DEF LogProps, TasksKnown, AllGoOn
<1>2. RowsLinked'
  BY <1>a, RowGoesOn, ReqType DEF LogProps, RowsLinked, AllGoOn, RowsKept
<1>3. RowsPast'
  BY <1>a, RowsGoOn DEF LogProps
<1>4. CachesKnown'
  BY <1>a, ForgetKnown DEF LogProps
<1>5. SessionsKnown' /\ CandidatesFresh'
  BY <1>a, EndKnown DEF LogProps
<1>6. StoreKnown'
  BY <1>a DEF LogProps, StoreKnown
<1>7. QED
  BY <1>1, <1>2, <1>3, <1>4, <1>5, <1>6 DEF LogProps

----------------------------------------------------------------------------
\* The steps of one message.

\* A message that leaves, or that stops its heartbeat to clean up, goes on; so
\* do the others.
LEMMA LeaveGoesOn ==
  ASSUME TypeInv, NEW m \in Msg,
         \/ Leave(m)
         \/ /\ pc[m] \in Reading
            /\ StopBeat(m, "marking") \/ StopBeat(m, "backing") \/ StopBeat(m, "releasing")
  PROVE  AllGoOn
<1>a. mem[m] \in TaskMemory
  BY DEF TypeInv, TypeOK
<1>1. \A n \in Msg : n # m => pc'[n] = pc[n] /\ mem'[n] = mem[n]
  BY DEF Leave, StopBeat, Goto, TypeInv, TypeOK
<1>2. \A n \in Msg : n # m => GoesOn(n)
  BY <1>1 DEF GoesOn, SameRead
<1>3. CASE Leave(m)
  <2>1. pc'[m] = "done"
    BY <1>3 DEF Leave, Goto, TypeInv, TypeOK
  <2>2. QED
    BY <1>2, <2>1 DEF GoesOn, AllGoOn
<1>4. CASE ~Leave(m)
  <2>1. pc'[m] \in {"marking", "backing", "releasing"} /\ pc[m] \in Reading
    BY <1>4 DEF StopBeat, Goto, TypeInv, TypeOK
  <2>2. mem'[m] = [mem[m] EXCEPT !.beat = FALSE, !.sent = 0]
    BY <1>4 DEF StopBeat, TypeInv, TypeOK
  <2>3. SameRead(m)
    BY <1>a, <2>2 DEF SameRead, TaskMemory
  <2>4. GoesOn(m)
    BY <2>1, <2>3 DEF GoesOn, Handling, Claiming, Unclaimed
  <2>5. QED
    BY <1>2, <2>4 DEF AllGoOn
<1>5. QED
  BY <1>3, <1>4

\* The heartbeat changes nothing a message has read.
LEMMA BeatGoesOn ==
  ASSUME TypeInv, NEW m \in Msg,
         SendHeartbeat(m) \/ Heartbeat(m) \/ HeartbeatFails(m) \/ LeaseExpires(m)
  PROVE  AllGoOn
<1>a. mem[m] \in TaskMemory /\ pc' = pc
  BY DEF TypeInv, TypeOK, SendHeartbeat, Heartbeat, HeartbeatFails, LeaseExpires
<1>1. \A n \in Msg : n # m => mem'[n] = mem[n]
  BY DEF SendHeartbeat, Heartbeat, HeartbeatFails, LeaseExpires, TypeInv, TypeOK
<1>2. SameRead(m)
  <2>1. CASE SendHeartbeat(m)
    <3>1. mem'[m] = [mem[m] EXCEPT !.beat = TRUE, !.sent = now]
      BY <2>1 DEF SendHeartbeat, TypeInv, TypeOK
    <3>2. QED
      BY <1>a, <3>1 DEF TaskMemory, SameRead
  <2>2. CASE Heartbeat(m)
    <3>1. \/ mem'[m] = [mem[m] EXCEPT !.beat = FALSE, !.sent = 0, !.deadline = RenewedDeadline(m)]
          \/ mem'[m] = [mem[m] EXCEPT !.beat = FALSE, !.sent = 0, !.lost = TRUE]
      BY <2>2 DEF Heartbeat, TypeInv, TypeOK
    <3>2. QED
      BY <1>a, <3>1 DEF TaskMemory, SameRead
  <2>3. CASE HeartbeatFails(m)
    <3>1. mem'[m] = [mem[m] EXCEPT !.beat = FALSE, !.sent = 0, !.lost = now >= mem[m].deadline]
      BY <2>3, Zenon DEF HeartbeatFails, TypeInv, TypeOK
    <3>2. QED
      BY <1>a, <3>1 DEF TaskMemory, SameRead
  <2>4. CASE LeaseExpires(m)
    <3>1. mem'[m] = [mem[m] EXCEPT !.beat = FALSE, !.sent = 0, !.lost = TRUE]
      BY <2>4 DEF LeaseExpires, TypeInv, TypeOK
    <3>2. QED
      BY <1>a, <3>1 DEF TaskMemory, SameRead
  <2>5. QED
    BY <2>1, <2>2, <2>3, <2>4
<1>3. QED
  BY <1>a, <1>1, <1>2 DEF AllGoOn, GoesOn, SameRead

\* Nor do the steps from one phase of the work to the next.
LEMMA StepGoesOn ==
  ASSUME TypeInv, NEW m \in Msg,
         StartHeartbeat(m) \/ BeginTurn(m) \/ EndTurn(m) \/ (TakeGate(m) /\ ~Leave(m))
  PROVE  AllGoOn
<1>a. mem[m] \in TaskMemory
  BY DEF TypeInv, TypeOK
<1>1. CASE TakeGate(m) /\ ~Leave(m)
  <2>1. /\ pc[m] = "missed" /\ pc' = [pc EXCEPT ![m] = "gated"]
        /\ mem' = [mem EXCEPT ![m].deadline = now + LeaseTTL]
    BY <1>1 DEF TakeGate, Goto
  <2>2. \A n \in Msg : SameRead(n)
    BY <1>a, <2>1 DEF SameRead, TypeInv, TypeOK, TaskMemory
  <2>3. QED
    BY <2>1, <2>2 DEF AllGoOn, GoesOn, Reading, Handling, Claiming, Unclaimed, PC, TypeInv, TypeOK
<1>2. CASE StartHeartbeat(m) \/ BeginTurn(m) \/ EndTurn(m)
  <2>1. mem' = mem /\ \A n \in Msg : n # m => pc'[n] = pc[n]
    BY <1>2 DEF StartHeartbeat, BeginTurn, EndTurn, Goto, TypeInv, TypeOK
  <2>2. \/ pc[m] = "won" /\ pc'[m] \in {"claimed", "releasing"}
        \/ pc[m] = "images" /\ pc'[m] = "turn"
        \/ pc[m] = "turn" /\ pc'[m] = "prepared"
    BY <1>2 DEF StartHeartbeat, BeginTurn, EndTurn, Goto, TypeInv, TypeOK
  <2>3. QED
    BY <2>1, <2>2 DEF AllGoOn, GoesOn, SameRead, Reading, Handling, Claiming, Unclaimed, PC
<1>3. QED
  BY <1>1, <1>2

\* So these steps keep the invariant.
LEMMA LocalLog ==
  ASSUME LogInv, NEW m \in Msg,
         \/ SendHeartbeat(m) \/ LeaseExpires(m) \/ StartHeartbeat(m) \/ BeginTurn(m)
         \/ EndTurn(m) \/ TakeGate(m) \/ Replay(m) \/ Disconnect(m) \/ BackOut(m)
         \/ ImagesFail(m) \/ TurnFails(m) \/ ClaimLost(m) \/ CommitAgain(m) \/ CommitConflict(m)
  PROVE  LogProps'
<1>a. TypeInv /\ InstOf(m) \in Instance
  BY ReqType DEF LogInv, ScopeInv
<1>1. AllGoOn
  <2>1. CASE SendHeartbeat(m) \/ LeaseExpires(m)
    BY <1>a, <2>1, BeatGoesOn
  <2>2. CASE StartHeartbeat(m) \/ BeginTurn(m) \/ EndTurn(m) \/ (TakeGate(m) /\ ~Leave(m))
    BY <1>a, <2>2, StepGoesOn
  <2>3. CASE Leave(m)
    BY <1>a, <2>3, LeaveGoesOn
  <2>4. CASE BackOut(m) \/ ImagesFail(m) \/ TurnFails(m) \/ ClaimLost(m) \/ CommitConflict(m)
    <3>1. pc[m] \in Reading
      BY <2>4 DEF BackOut, ImagesFail, TurnFails, ClaimLost, CommitConflict, Reading, PC
    <3>2. StopBeat(m, "marking") \/ StopBeat(m, "backing") \/ StopBeat(m, "releasing")
      BY <2>4 DEF BackOut, ImagesFail, TurnFails, ClaimLost, CommitConflict
    <3>3. QED
      BY <1>a, <3>1, <3>2, LeaveGoesOn
  <2>5. QED
    BY <2>1, <2>2, <2>3, <2>4 DEF Replay, Disconnect, CommitAgain
<1>2. ledger' = ledger /\ UNCHANGED <<past, conv, minted>> /\ sess' = sess
  BY DEF SendHeartbeat, LeaseExpires, StartHeartbeat, BeginTurn, EndTurn, TakeGate, Replay,
     Disconnect, BackOut, ImagesFail, TurnFails, ClaimLost, CommitAgain, CommitConflict, store, ghost
<1>3. cache' = cache \/ Forget(InstOf(m))
  BY DEF SendHeartbeat, LeaseExpires, StartHeartbeat, BeginTurn, EndTurn, TakeGate, Replay,
     Disconnect, BackOut, ImagesFail, TurnFails, ClaimLost, CommitAgain, CommitConflict
<1>4. QED
  BY <1>a, <1>1, <1>2, <1>3, SameLedgerKept, QuietLog

\* A message that learns something: the others go on, and it knows what it learnt.
LEMMA LearnLog ==
  ASSUME LogInv, NEW m \in Msg, \A n \in Msg : n # m => GoesOn(n),
         TaskKnown(m)', RowLinked(m)', RowsKept, NoneCompleted,
         UNCHANGED <<past, conv, minted, sess>>, CachesKnown'
  PROVE  LogProps'
<1>a. LogProps /\ TypeInv
  BY DEF LogInv, ScopeInv
<1>1. TasksKnown'
  BY <1>a, TaskGoesOn DEF LogProps, TasksKnown
<1>2. RowsLinked'
  BY <1>a, RowGoesOn, ReqType DEF LogProps, RowsLinked, RowsKept
<1>3. RowsPast'
  BY <1>a, RowsGoOn DEF LogProps
<1>4. SessionsKnown' /\ CandidatesFresh'
  BY <1>a, EndKnown DEF LogProps
<1>5. StoreKnown'
  BY <1>a DEF LogProps, StoreKnown
<1>6. QED
  BY <1>1, <1>2, <1>3, <1>4, <1>5 DEF LogProps

\* Only message m moves.
LEMMA OthersGoOn ==
  ASSUME NEW m \in Msg, \A n \in Msg : n # m => pc'[n] = pc[n] /\ mem'[n] = mem[n]
  PROVE  \A n \in Msg : n # m => GoesOn(n)
BY DEF GoesOn, SameRead

\* The conversation a message reads is there.
LEMMA ReadLog ==
  ASSUME LogInv, NEW m \in Msg, Read(m)
  PROVE  LogProps'
<1>a. TypeInv /\ LogProps /\ InstOf(m) \in Instance
  BY ReqType DEF LogInv, ScopeInv
<1>b. ledger' = ledger /\ UNCHANGED <<past, conv, minted, sess>>
  BY DEF Read, store, ghost
<1>1. CASE conv.inc = 0
  <2>1. AllGoOn
    BY <1>a, <1>1, LeaveGoesOn DEF Read
  <2>2. cache' = cache \/ Forget(InstOf(m))
    BY <1>1 DEF Read
  <2>3. QED
    BY <1>a, <1>b, <2>1, <2>2, SameLedgerKept, QuietLog
<1>2. CASE conv.inc # 0
  <2>1. /\ pc[m] = "idle" /\ pc' = [pc EXCEPT ![m] = "read"] /\ cache' = cache
        /\ mem' = [mem EXCEPT ![m] = [@ EXCEPT !.inc = conv.inc, !.rev = conv.rev]]
    BY <1>2 DEF Read, Goto
  <2>2. \A n \in Msg : n # m => GoesOn(n)
    BY <1>a, <2>1, OthersGoOn DEF TypeInv, TypeOK
  <2>3. pc'[m] = "read" /\ mem'[m].inc = conv.inc /\ mem'[m].rev = conv.rev
    BY <1>a, <2>1 DEF TypeInv, TypeOK, TaskMemory
  <2>4. TaskKnown(m)'
    BY <1>a, <1>2, <2>3 DEF TaskKnown, LogProps, StoreKnown, Handling
  <2>5. RowLinked(m)'
    BY <1>a, <1>b, <2>1, <2>3 DEF RowLinked, LogProps, RowsLinked, Linked, Row, Unclaimed, Claiming
  <2>6. CachesKnown'
    BY <1>a, <1>b, <2>1, ForgetKnown DEF LogProps
  <2>7. QED
    BY <1>b, <2>2, <2>4, <2>5, <2>6, SameLedgerKept, LearnLog
<1>3. QED
  BY <1>1, <1>2

\* A row that is replayed names a committed turn of the same request.
LEMMA ReplayKnown ==
  ASSUME LogInv, NEW m \in Msg, Row(m).st = "completed", SameRequest(m, Row(m)),
         past' = past, pc'[m] = "replaying", mem'[m] = [mem[m] EXCEPT !.replay = Row(m)],
         TaskKnown(m), pc[m] \in Reading
  PROVE  TaskKnown(m)'
<1>a. /\ TypeInv /\ LogProps /\ KeyOf(m) \in Key /\ mem[m] \in TaskMemory
  BY ReqType DEF LogInv, ScopeInv, TypeInv, TypeOK
<1>1. mem'[m].inc = mem[m].inc /\ mem'[m].rev = mem[m].rev /\ mem'[m].replay = Row(m)
  BY <1>a DEF TaskMemory
<1>2. Row(m).msg \in Msg /\ KeyOf(Row(m).msg) = KeyOf(m)
  BY <1>a DEF TypeInv, RowsNamed, Row
<1>3. Req[Row(m).msg].body = Req[m].body
  BY DEF SameRequest
<1>4. TurnAt(Row(m).msg, Row(m).inc, Row(m).base) \in past
  BY <1>a DEF LogProps, RowsPast, Row
<1>5. QED
  BY <1>1, <1>2, <1>3, <1>4 DEF TaskKnown, Handling, KeyOf

\* The lookup before the gate.
LEMMA LookupLog ==
  ASSUME LogInv, NEW m \in Msg, Lookup(m)
  PROVE  LogProps'
<1>a. TypeInv /\ LogProps /\ mem[m] \in TaskMemory
  BY DEF LogInv, ScopeInv, TypeInv, TypeOK
<1>b. ledger' = ledger /\ UNCHANGED <<past, conv, minted, sess>> /\ cache' = cache /\ pc[m] = "read"
  BY DEF Lookup, store, ghost
<1>1. CASE Leave(m)
  BY <1>a, <1>b, <1>1, LeaveGoesOn, SameLedgerKept, QuietLog
<1>2. CASE Goto(m, "missed") /\ mem' = mem
  <2>1. AllGoOn
    BY <1>a, <1>b, <1>2 DEF Goto, AllGoOn, GoesOn, SameRead, Reading, Handling, Claiming, Unclaimed, PC, TypeInv, TypeOK
  <2>2. QED
    BY <1>b, <2>1, SameLedgerKept, QuietLog
<1>3. CASE /\ Goto(m, "replaying") /\ mem' = [mem EXCEPT ![m].replay = Row(m)]
           /\ SameRequest(m, Row(m)) /\ Replayable(Row(m))
  <2>1. \A n \in Msg : n # m => GoesOn(n)
    BY <1>a, <1>3, OthersGoOn DEF Goto, TypeInv, TypeOK
  <2>2. pc'[m] = "replaying" /\ mem'[m] = [mem[m] EXCEPT !.replay = Row(m)]
    BY <1>a, <1>3 DEF Goto, TypeInv, TypeOK
  <2>3. TaskKnown(m)'
    BY <1>a, <1>b, <1>3, <2>2, ReplayKnown DEF Replayable, LogProps, TasksKnown, Reading, PC
  <2>4. RowLinked(m)'
    BY <1>a, <1>b, <2>2 DEF RowLinked, LogProps, RowsLinked, Linked, Row, Unclaimed, Claiming
  <2>5. CachesKnown'
    BY <1>a, <1>b, ForgetKnown DEF LogProps
  <2>6. QED
    BY <1>b, <2>1, <2>3, <2>4, <2>5, SameLedgerKept, LearnLog
<1>4. QED
  BY <1>1, <1>2, <1>3 DEF Lookup

\* Whatever the claim finds, it claims its own row only and completes none.
LEMMA ClaimKeeps ==
  ASSUME LogInv, NEW m \in Msg, Claim(m)
  PROVE  /\ \A k \in Key : RowKept(k) \/ (k = KeyOf(m) /\ ClaimNew(m) /\ ledger'[k] = ClaimedRow(m))
         /\ NoneCompleted
<1>a. TypeInv
  BY DEF LogInv, ScopeInv
<1>1. ASSUME NEW k \in Key
      PROVE  /\ RowKept(k) \/ (k = KeyOf(m) /\ ClaimNew(m) /\ ledger'[k] = ClaimedRow(m))
             /\ ledger'[k].st = "completed" => ledger[k].st = "completed"
  <2>a. PrunedLedger[k] \in LedgerRow /\ ledger[k] \in LedgerRow
    BY <1>a, PrunedRows DEF TypeInv, TypeOK
  <2>b. PrunedLedger[k] = ledger[k] \/ PrunedLedger[k].st = "absent"
    BY <1>a, SweptRow DEF NoRow
  <2>1. CASE ledger'[k] = PrunedLedger[k]
    BY <2>b, <2>1 DEF RowKept
  <2>2. CASE InFlight(PrunedLedger[k]) /\ ledger'[k] = Indeterminate(PrunedLedger[k])
    <3>1. PrunedLedger[k] = ledger[k]
      BY <2>b, <2>2 DEF InFlight
    <3>2. /\ Indeterminate(ledger[k]).msg = ledger[k].msg /\ Indeterminate(ledger[k]).inc = ledger[k].inc
          /\ Indeterminate(ledger[k]).base = ledger[k].base
          /\ Indeterminate(ledger[k]).st = "indeterminate"
      BY <2>a DEF Indeterminate, LedgerRow
    <3>3. QED
      BY <2>2, <3>1, <3>2 DEF RowKept, InFlight
  <2>3. CASE k \in Hazards(m) /\ ledger'[k] = ClearScope(PrunedLedger[k])
    <3>1. PrunedLedger[k].st = "indeterminate"
      BY <2>3 DEF Hazards, ScopeRows
    <3>2. PrunedLedger[k] = ledger[k]
      BY <2>b, <3>1
    <3>3. /\ ClearScope(ledger[k]).msg = ledger[k].msg /\ ClearScope(ledger[k]).inc = ledger[k].inc
          /\ ClearScope(ledger[k]).base = ledger[k].base /\ ClearScope(ledger[k]).st = ledger[k].st
      BY <2>a DEF ClearScope, LedgerRow
    <3>4. QED
      BY <2>3, <3>1, <3>2, <3>3 DEF RowKept
  <2>4. CASE k = KeyOf(m) /\ ClaimNew(m) /\ ledger'[k] = ClaimedRow(m)
    BY <1>a, <2>4, ClaimedRowType
  <2>5. QED
    BY <1>a, <2>1, <2>2, <2>3, <2>4, ClaimLedger
<1>2. QED
  BY <1>1 DEF NoneCompleted

\* A claim, won, replayed or refused.
LEMMA ClaimLog ==
  ASSUME LogInv, NEW m \in Msg, Claim(m)
  PROVE  LogProps'
<1>a. TypeInv /\ LogProps /\ mem[m] \in TaskMemory /\ KeyOf(m) \in Key /\ InstOf(m) \in Instance
  BY ReqType DEF LogInv, ScopeInv, TypeInv, TypeOK
<1>b. UNCHANGED <<past, conv, minted, sess>> /\ pc[m] = "gated"
  BY DEF Claim
<1>c. cache' = cache \/ Forget(InstOf(m))
  BY DEF Claim, ClaimExisting, ClaimStale, ClaimRefused, ClaimNew
<1>d. CachesKnown'
  BY <1>a, <1>b, <1>c, ForgetKnown DEF LogProps
<1>1. TasksKnown'
  <2>1. CASE Leave(m)
    BY <1>a, <1>b, <2>1, LeaveGoesOn, TaskGoesOn DEF LogProps, TasksKnown, AllGoOn
  <2>2. CASE Goto(m, "won") /\ mem' = mem
    <3>1. \A n \in Msg : n # m => GoesOn(n)
      BY <1>a, <2>2, OthersGoOn DEF Goto, TypeInv, TypeOK
    <3>2. pc'[m] = "won"
      BY <2>2 DEF Goto, TypeInv, TypeOK, LogInv, ScopeInv
    <3>3. TaskKnown(m)'
      BY <1>a, <1>b, <2>2, <3>2 DEF TaskKnown, LogProps, TasksKnown, Handling, Reading, PC
    <3>4. QED
      BY <1>a, <1>b, <3>1, <3>3, TaskGoesOn DEF LogProps, TasksKnown
  <2>3. CASE /\ Goto(m, "replaying") /\ mem' = [mem EXCEPT ![m].replay = PrunedLedger[KeyOf(m)]]
             /\ SameRequest(m, PrunedLedger[KeyOf(m)]) /\ Replayable(PrunedLedger[KeyOf(m)])
    <3>1. \A n \in Msg : n # m => GoesOn(n)
      BY <1>a, <2>3, OthersGoOn DEF Goto, TypeInv, TypeOK
    <3>2. PrunedLedger[KeyOf(m)] = Row(m)
      BY <1>a, <2>3, SweptRow DEF Replayable, NoRow, Row
    <3>3. pc'[m] = "replaying" /\ mem'[m] = [mem[m] EXCEPT !.replay = Row(m)]
      BY <1>a, <2>3, <3>2 DEF Goto, TypeInv, TypeOK
    <3>4. TaskKnown(m)'
      BY <1>a, <1>b, <2>3, <3>2, <3>3, ReplayKnown DEF Replayable, LogProps, TasksKnown, Reading, PC
    <3>5. QED
      BY <1>a, <1>b, <3>1, <3>4, TaskGoesOn DEF LogProps, TasksKnown
  <2>4. QED
    BY <2>1, <2>2, <2>3 DEF Claim, ClaimExisting, ClaimStale, ClaimRefused, ClaimNew
<1>2. RowsLinked'
  <2>1. SUFFICES ASSUME NEW n \in Msg PROVE RowLinked(n)'
    BY DEF RowsLinked
  <2>2. KeyOf(n) \in Key
    BY ReqType
  <2>3. CASE n # m
    <3>1. GoesOn(n)
      BY <1>a, <2>3, OthersGoOn DEF Claim, ClaimExisting, ClaimStale, ClaimRefused, ClaimNew,
         Leave, Goto, TypeInv, TypeOK
    <3>2. CASE RowKept(KeyOf(n))
      BY <1>a, <3>1, <3>2, RowGoesOn DEF LogProps, RowsLinked
    <3>3. CASE ledger'[KeyOf(n)] = ClaimedRow(m)
      BY <1>a, <2>3, <3>3, ClaimedRowType DEF RowLinked, Linked, Row, KeyOf
    <3>4. QED
      BY <2>2, <3>2, <3>3, ClaimKeeps
  <2>4. CASE n = m
    <3>1. ~(Linked(m) /\ Row(m).st # "absent")
      BY <1>a, <1>b DEF LogProps, RowsLinked, RowLinked, Unclaimed
    <3>2. CASE RowKept(KeyOf(m))
      BY <2>4, <3>1, <3>2 DEF RowKept, RowLinked, Linked, Row, KeyOf
    <3>3. CASE ClaimNew(m) /\ ledger'[KeyOf(m)] = ClaimedRow(m)
      <4>1. \/ pc'[m] = "done"
            \/ pc'[m] = "won" /\ mem' = mem
        BY <1>a, <3>3 DEF ClaimNew, Leave, Goto, TypeInv, TypeOK
      <4>2. QED
        BY <1>a, <2>4, <3>3, <4>1, ClaimedRowType DEF RowLinked, Linked, Row, KeyOf, Unclaimed, Claiming
    <3>4. QED
      BY <1>a, <3>2, <3>3, ClaimKeeps
  <2>5. QED
    BY <2>3, <2>4
<1>3. RowsPast'
  <2>1. SUFFICES ASSUME NEW k \in Key, ledger'[k].st = "completed"
                 PROVE  TurnAt(ledger'[k].msg, ledger'[k].inc, ledger'[k].base) \in past
    BY <1>b DEF RowsPast
  <2>2. ledger[k].st = "completed" /\ RowKept(k)
    BY <1>a, <2>1, ClaimKeeps, ClaimedRowType DEF NoneCompleted
  <2>3. QED
    BY <1>a, <2>1, <2>2 DEF RowKept, LogProps, RowsPast
<1>4. SessionsKnown' /\ CandidatesFresh'
  BY <1>a, <1>b, EndKnown DEF LogProps
<1>5. StoreKnown'
  BY <1>a, <1>b DEF LogProps, StoreKnown
<1>6. QED
  BY <1>d, <1>1, <1>2, <1>3, <1>4, <1>5 DEF LogProps

\* The handle a message takes is the record it read.
LEMMA UseLog ==
  ASSUME LogInv, NEW m \in Msg, UseHandle(m)
  PROVE  LogProps'
<1>a. TypeInv /\ LogProps /\ mem[m] \in TaskMemory /\ InstOf(m) \in Instance
  BY ReqType DEF LogInv, ScopeInv, TypeInv, TypeOK
<1>b. ledger' = ledger /\ UNCHANGED <<past, conv, minted, sess>> /\ pc[m] = "claimed"
  BY DEF UseHandle, store, ghost
<1>1. \A i \in Instance : cache'[i] = cache[i] \/ cache'[i] = conv
  BY <1>a DEF UseHandle, TypeInv, TypeOK
<1>2. CachesKnown'
  BY <1>a, <1>b, <1>1 DEF CachesKnown, LogProps, StoreKnown
<1>3. /\ cache'[InstOf(m)].inc = mem[m].inc /\ cache'[InstOf(m)].rev = mem[m].rev
      /\ mem' = [mem EXCEPT ![m].log = cache'[InstOf(m)].log] /\ pc' = [pc EXCEPT ![m] = "images"]
  BY <1>a DEF UseHandle, Goto, Current, TypeInv, TypeOK
<1>4. \A n \in Msg : n # m => GoesOn(n)
  BY <1>a, <1>3, OthersGoOn DEF TypeInv, TypeOK
<1>5. /\ pc'[m] = "images" /\ mem'[m].inc = mem[m].inc /\ mem'[m].rev = mem[m].rev
      /\ mem'[m].log = cache'[InstOf(m)].log
  BY <1>a, <1>3 DEF TypeInv, TypeOK, TaskMemory
<1>6. Known(mem'[m], past')
  <2>1. Known(cache'[InstOf(m)], past')
    BY <1>a, <1>2 DEF CachesKnown
  <2>2. QED
    BY <1>3, <1>5, <2>1, KnownSame
<1>7. TaskKnown(m)'
  BY <1>a, <1>b, <1>5, <1>6 DEF TaskKnown, LogProps, TasksKnown, Reading, PC
<1>8. RowLinked(m)'
  BY <1>a, <1>b, <1>5 DEF RowLinked, LogProps, RowsLinked, Linked, Row, Unclaimed, Claiming
<1>9. QED
  BY <1>b, <1>2, <1>4, <1>7, <1>8, SameLedgerKept, LearnLog

\* The handle a message publishes has the turn it committed.
LEMMA PublishLog ==
  ASSUME LogInv, NEW m \in Msg, Publish(m)
  PROVE  LogProps'
<1>a. TypeInv /\ LogProps /\ mem[m] \in TaskMemory /\ InstOf(m) \in Instance
  BY ReqType DEF LogInv, ScopeInv, TypeInv, TypeOK
<1>b. ledger' = ledger /\ UNCHANGED <<past, conv, minted, sess>> /\ pc[m] = "committed"
  BY DEF Publish, store
<1>1. AllGoOn
  BY <1>a, LeaveGoesOn DEF Publish
<1>2. Known(PublishedHandle(m), past)
  <2>1. /\ Known(mem[m], past) /\ TurnAt(m, mem[m].inc, mem[m].rev) \in past
        /\ mem[m].inc # 0 /\ mem[m].rev # 0
    BY <1>a, <1>b DEF LogProps, TasksKnown, TaskKnown, Handling, Reading, PC
  <2>2. mem[m].log \in Seq(Msg) /\ mem[m].rev \in Nat
    BY <1>a DEF TaskMemory
  <2>3. /\ PublishedHandle(m).inc = mem[m].inc /\ PublishedHandle(m).rev = mem[m].rev + 1
        /\ PublishedHandle(m).log = Append(mem[m].log, m)
    BY DEF PublishedHandle, PreparedLog
  <2>4. QED
    BY <2>1, <2>2, <2>3, KnownAppend
<1>3. \A i \in Instance : cache'[i] = cache[i] \/ cache'[i] = PublishedHandle(m)
  BY <1>a DEF Publish, TypeInv, TypeOK
<1>4. CachesKnown'
  BY <1>a, <1>b, <1>2, <1>3 DEF CachesKnown, LogProps
<1>5. TaskKnown(m)' /\ RowLinked(m)'
  BY <1>a, <1>b, <1>1, SameLedgerKept, TaskGoesOn, RowGoesOn, ReqType
     DEF LogProps, TasksKnown, RowsLinked, AllGoOn, RowsKept
<1>6. QED
  BY <1>b, <1>1, <1>4, <1>5, SameLedgerKept, LearnLog DEF AllGoOn

\* The commit appends its turn to the transcript the message built on, which is
\* the stored one.
LEMMA CommitFacts ==
  ASSUME LogInv, NEW m \in Msg, CommitTurn(m)
  PROVE  /\ conv.inc = mem[m].inc /\ conv.rev = mem[m].rev /\ conv.inc # 0 /\ conv.rev # 0
         /\ conv.log \in Seq(Msg) /\ Len(conv.log) \in Nat /\ conv.rev = Len(conv.log) + 1
         /\ mem[m].log = conv.log
         /\ past' = past \cup {TurnAt(m, conv.inc, conv.rev)}
         /\ conv' = [inc |-> conv.inc, rev |-> conv.rev + 1, log |-> Append(conv.log, m)]
<1>a. TypeInv /\ LogProps /\ mem[m] \in TaskMemory /\ conv \in Conversation
  BY DEF LogInv, ScopeInv, TypeInv, TypeOK
<1>1. conv.inc = mem[m].inc /\ conv.rev = mem[m].rev /\ pc[m] = "prepared"
  BY <1>a, CommitsInFlight DEF Current, CommitTurn
<1>2. mem[m].inc # 0 /\ mem[m].rev # 0 /\ Known(mem[m], past)
  BY <1>a, <1>1 DEF LogProps, TasksKnown, TaskKnown, Reading, Handling, PC
<1>3. conv.log \in Seq(Msg) /\ mem[m].log \in Seq(Msg) /\ Len(conv.log) \in Nat
  BY <1>a DEF Conversation, TaskMemory
<1>4. Known(conv, past) /\ Distinct(past)
  BY <1>a DEF LogProps, StoreKnown
<1>5. mem[m].log = conv.log
  BY <1>1, <1>2, <1>3, <1>4, KnownAgree
<1>6. conv.rev = Len(conv.log) + 1
  BY <1>1, <1>2, <1>4 DEF Known
<1>7. past' = past \cup {TurnAt(m, conv.inc, conv.rev)}
  BY <1>6 DEF CommitTurn, TurnAt
<1>8. conv' = [inc |-> conv.inc, rev |-> conv.rev + 1, log |-> Append(conv.log, m)]
  BY <1>5 DEF CommitTurn, PreparedLog
<1>9. QED
  BY <1>1, <1>2, <1>3, <1>5, <1>6, <1>7, <1>8

\* The stored record stays known, and its turns distinct.
LEMMA CommitStore ==
  ASSUME LogInv, NEW m \in Msg, CommitTurn(m)
  PROVE  StoreKnown'
<1> DEFINE turn == TurnAt(m, conv.inc, conv.rev)
<1>a. TypeInv /\ StoreKnown /\ minted' = minted /\ minted \in Nat /\ conv \in Conversation
  BY DEF LogInv, LogProps, ScopeInv, TypeInv, TypeOK, CommitTurn
<1>b. turn.msg = m /\ turn.inc = conv.inc /\ turn.at = conv.rev
  BY DEF TurnAt
<1>c. past' = past \cup {turn}
  BY CommitFacts
<1>d. conv'.inc = conv.inc /\ conv'.rev = conv.rev + 1 /\ conv'.log = Append(conv.log, m)
  BY CommitFacts
<1>e. conv.rev \in Nat /\ conv.rev = Len(conv.log) + 1 /\ Len(conv.log) \in Nat /\ conv.inc # 0
      /\ conv.rev # 0 /\ conv.log \in Seq(Msg)
  BY <1>a, CommitFacts DEF Conversation
<1>f. past \subseteq Turn
  BY <1>a DEF TypeInv, TypeOK
<1> HIDE DEF turn
<1>1. Known(conv', past')
  <2>1. Known(conv, past')
    BY <1>a, <1>c, KnownGrows DEF StoreKnown
  <2>2. turn = TurnAt(m, conv.inc, conv.rev)
    BY DEF turn
  <2>3. QED
    BY <1>c, <1>d, <1>e, <2>1, <2>2, KnownAppend
<1>2. \A t \in past' : t.inc # 0 /\ t.inc <= minted
  BY <1>a, <1>b, <1>c, <1>e DEF StoreKnown
<1>3. \A t \in past' : t.inc = conv'.inc => t.at <= Len(conv'.log)
  <2>1. Len(conv'.log) = Len(conv.log) + 1
    BY <1>d, <1>e
  <2>2. turn.at <= Len(conv'.log)
    BY <1>b, <1>e, <2>1
  <2>3. \A t \in past : t.inc = conv.inc => t.at <= Len(conv'.log)
    BY <1>a, <1>e, <1>f, <2>1 DEF StoreKnown, Turn
  <2>4. QED
    BY <1>c, <1>d, <2>2, <2>3
<1>4. Distinct(past')
  <2>1. \A t \in past : ~(t.inc = turn.inc /\ t.at = turn.at)
    BY <1>a, <1>b, <1>e, <1>f DEF StoreKnown, Turn
  <2>2. QED
    BY <1>a, <1>c, <2>1 DEF StoreKnown, Distinct
<1>5. QED
  BY <1>a, <1>d, <1>e, <1>1, <1>2, <1>3, <1>4 DEF StoreKnown

\* The commit keeps the invariant.
LEMMA CommitLog ==
  ASSUME LogInv, NEW m \in Msg, CommitTurn(m)
  PROVE  LogProps'
<1>a. TypeInv /\ LogProps /\ mem[m] \in TaskMemory /\ KeyOf(m) \in Key /\ ledger[KeyOf(m)] \in LedgerRow
  BY ReqType DEF LogInv, ScopeInv, TypeInv, TypeOK
<1>b. /\ cache' = cache /\ sess' = sess /\ minted' = minted /\ pc[m] = "prepared"
      /\ InFlight(Row(m)) /\ Linked(m)
  BY <1>a, CommitsInFlight DEF CommitTurn, Row
<1>c. past \subseteq past' /\ TurnAt(m, mem[m].inc, mem[m].rev) \in past'
  BY CommitFacts
<1>1. PICK fits \in BOOLEAN :
        ledger' = [ledger EXCEPT ![KeyOf(m)] =
                     [@ EXCEPT !.st = "completed", !.body = fits, !.lease = 0,
                               !.done = now, !.exp = now + Retention]]
  BY DEF CommitTurn
<1>2. /\ \A k \in Key : k # KeyOf(m) => ledger'[k] = ledger[k]
      /\ ledger'[KeyOf(m)].msg = ledger[KeyOf(m)].msg /\ ledger'[KeyOf(m)].inc = ledger[KeyOf(m)].inc
      /\ ledger'[KeyOf(m)].base = ledger[KeyOf(m)].base
  BY <1>1, <1>a DEF TypeInv, TypeOK, LedgerRow
<1>3. RowsKept
  BY <1>2, <1>b DEF RowsKept, RowKept, InFlight, Row
<1>4. \A n \in Msg : n # m => GoesOn(n)
  BY <1>a, OthersGoOn DEF CommitTurn, StopBeat, Goto, TypeInv, TypeOK
<1>5. \/ pc' = pc /\ mem' = mem
      \/ pc'[m] = "committed" /\ mem'[m] = [mem[m] EXCEPT !.beat = FALSE, !.sent = 0]
  BY <1>a DEF CommitTurn, StopBeat, Goto, TypeInv, TypeOK
<1>6. SameRead(m)
  BY <1>a, <1>5 DEF SameRead, TaskMemory
<1>7. TaskKnown(m)'
  <2>1. mem[m].inc # 0 /\ mem[m].rev # 0 /\ Known(mem[m], past)
    BY <1>a, <1>b DEF LogProps, TasksKnown, TaskKnown, Reading, Handling, PC
  <2>2. Known(mem'[m], past')
    BY <1>6, <1>c, <2>1, KnownSame, KnownGrows DEF SameRead
  <2>3. QED
    BY <1>5, <1>6, <1>b, <1>c, <2>1, <2>2 DEF TaskKnown, SameRead, Reading, Handling
<1>8. TasksKnown'
  BY <1>a, <1>4, <1>7, <1>c, TaskGoesOn DEF LogProps, TasksKnown
<1>9. RowsLinked'
  <2>1. RowLinked(m)'
    BY <1>a, <1>2, <1>5, <1>6, <1>b DEF LogProps, RowsLinked, RowLinked, SameRead, Linked, Row, KeyOf,
       Unclaimed, Claiming, InFlight
  <2>2. QED
    BY <1>a, <1>3, <1>4, <2>1, RowGoesOn, ReqType DEF LogProps, RowsLinked, RowsKept
<1>10. RowsPast'
  <2>1. TurnAt(ledger'[KeyOf(m)].msg, ledger'[KeyOf(m)].inc, ledger'[KeyOf(m)].base) \in past'
    <3>1. ledger[KeyOf(m)].msg = m /\ ledger[KeyOf(m)].inc = mem[m].inc /\ ledger[KeyOf(m)].base = mem[m].rev
      BY <1>a, <1>b DEF LogProps, RowsLinked, RowLinked, Linked, Row, InFlight, Claiming
    <3>2. QED
      BY <1>2, <1>c, <3>1
  <2>2. QED
    BY <1>2, <1>a, <1>c, <2>1 DEF RowsPast, LogProps
<1>11. CachesKnown' /\ SessionsKnown'
  BY <1>a, <1>b, <1>c, KnownGrows DEF LogProps, CachesKnown, SessionsKnown
<1>12. CandidatesFresh'
  <2>1. conv'.inc = conv.inc /\ \A t \in past' : t \in past \/ t.inc = conv.inc
    BY CommitFacts DEF TurnAt
  <2>2. QED
    BY <1>a, <1>b, <2>1 DEF LogProps, CandidatesFresh, Fresh
<1>13. QED
  BY <1>8, <1>9, <1>10, <1>11, <1>12, CommitStore DEF LogProps

----------------------------------------------------------------------------
\* The other steps that write the ledger claim and complete no row.
LEMMA SettleRows ==
  ASSUME TypeInv,
         \/ Reconcile
         \/ Prune
         \/ \E m \in Msg : Heartbeat(m) \/ HeartbeatFails(m) \/ Mark(m) \/ Release(m)
  PROVE  RowsKept /\ NoneCompleted
<1>a. \A k \in Key : ledger[k] \in LedgerRow
  BY DEF TypeInv, TypeOK
<1>1. \A k \in Key :
         \/ ledger'[k] = ledger[k] \/ ledger'[k] = NoRow
         \/ InFlight(ledger[k]) /\ ledger'[k] = Indeterminate(ledger[k])
         \/ ledger'[k] = [ledger[k] EXCEPT !.lease = now + LeaseTTL]
  <2>1. CASE Reconcile
    BY <2>1 DEF Reconcile, Overdue
  <2>2. CASE Prune
    BY <2>2, SweptRow DEF Prune
  <2>3. ASSUME NEW m \in Msg, Heartbeat(m) \/ HeartbeatFails(m)
        PROVE  \A k \in Key : ledger'[k] = ledger[k] \/ ledger'[k] = [ledger[k] EXCEPT !.lease = now + LeaseTTL]
    <3>1. ledger' = ledger \/ ledger' = [ledger EXCEPT ![KeyOf(m)].lease = now + LeaseTTL]
      BY <2>3 DEF Heartbeat, HeartbeatFails, RenewedLedger
    <3>2. ledger \in [Key -> LedgerRow]
      BY <1>a DEF TypeInv, TypeOK
    <3>3. QED
      BY <3>1, <3>2
  <2>4. ASSUME NEW m \in Msg, Mark(m) \/ Release(m)
        PROVE  \A k \in Key : \/ ledger'[k] = ledger[k] \/ ledger'[k] = NoRow
                              \/ InFlight(ledger[k]) /\ ledger'[k] = Indeterminate(ledger[k])
    BY <2>4 DEF Mark, Release, Row, TypeInv, TypeOK
  <2>5. QED
    BY <2>1, <2>2, <2>3, <2>4
<1>2. ASSUME NEW k \in Key
      PROVE  RowKept(k) /\ (ledger'[k].st = "completed" => ledger[k].st = "completed")
  <2>1. CASE ledger'[k] = ledger[k] \/ ledger'[k] = NoRow
    BY <2>1 DEF RowKept, NoRow
  <2>2. CASE InFlight(ledger[k]) /\ ledger'[k] = Indeterminate(ledger[k])
    BY <1>a, <2>2 DEF RowKept, InFlight, Indeterminate, LedgerRow
  <2>3. CASE ledger'[k] = [ledger[k] EXCEPT !.lease = now + LeaseTTL]
    BY <1>a, <2>3 DEF RowKept, LedgerRow
  <2>4. QED
    BY <1>1, <2>1, <2>2, <2>3
<1>3. QED
  BY <1>2 DEF RowsKept, NoneCompleted

\* The statements that settle rows keep them with their messages.
LEMMA SettleLog ==
  ASSUME LogInv,
         \/ Reconcile
         \/ Prune
         \/ \E m \in Msg : Heartbeat(m) \/ HeartbeatFails(m) \/ Mark(m) \/ Release(m)
  PROVE  LogProps'
<1>a. TypeInv
  BY DEF LogInv, ScopeInv
<1>1. AllGoOn
  <2>1. CASE Reconcile \/ Prune
    BY <2>1 DEF Reconcile, Prune, AllGoOn, GoesOn, SameRead
  <2>2. QED
    BY <1>a, <2>1, BeatGoesOn, LeaveGoesOn DEF Mark, Release
<1>2. cache' = cache /\ sess' = sess /\ UNCHANGED <<past, conv, minted>>
  BY DEF Reconcile, Prune, Heartbeat, HeartbeatFails, Mark, Release, ghost
<1>3. QED
  BY <1>a, <1>1, <1>2, SettleRows, QuietLog

\* Time, shutdown and crashes: messages and sessions only end.
LEMMA ReplicaLog ==
  ASSUME LogInv, Tick \/ \E i \in Instance : Drain(i) \/ Teardown(i) \/ Crash(i)
  PROVE  LogProps'
<1>a. TypeInv
  BY DEF LogInv, ScopeInv
<1>1. AllGoOn
  <2>1. CASE UNCHANGED <<pc, mem>>
    BY <2>1 DEF AllGoOn, GoesOn, SameRead
  <2>2. ASSUME NEW i \in Instance, Teardown(i) PROVE AllGoOn
    <3>1. pc' = pc /\ \A n \in Msg : mem'[n] = mem[n] \/ mem'[n] = [mem[n] EXCEPT !.halt = TRUE]
      BY <2>2 DEF Teardown
    <3>2. ASSUME NEW n \in Msg PROVE SameRead(n)
      <4>1. mem[n] \in TaskMemory
        BY <1>a DEF TypeInv, TypeOK
      <4>2. QED
        BY <3>1, <4>1 DEF TaskMemory, SameRead
    <3>3. QED
      BY <3>1, <3>2 DEF AllGoOn, GoesOn
  <2>3. ASSUME NEW i \in Instance, Crash(i) PROVE AllGoOn
    <3>1. \A n \in Msg : pc'[n] \in {"crashed", "done"} \/ (pc'[n] = pc[n] /\ mem'[n] = mem[n])
      BY <2>3 DEF Crash
    <3>2. QED
      BY <3>1 DEF AllGoOn, GoesOn, SameRead
  <2>4. QED
    BY <2>1, <2>2, <2>3 DEF Tick, Drain
<1>2. /\ ledger' = ledger /\ UNCHANGED <<past, conv, minted>>
      /\ cache' = cache \/ \E i \in Instance : Forget(i)
      /\ sess' = sess \/ \E i \in Instance : EndSess(i)
  BY DEF Tick, Drain, Teardown, Crash, store, ghost
<1>3. QED
  BY <1>1, <1>2, SameLedgerKept, QuietLog

----------------------------------------------------------------------------
\* /start and DELETE.

\* Session steps leave messages and rows alone; what they do to the store, the
\* cache and their own state decides.
LEMMA SessionLog ==
  ASSUME LogInv, UNCHANGED <<pc, mem, ledger, past>>, CachesKnown', SessionsKnown',
         CandidatesFresh', StoreKnown'
  PROVE  LogProps'
<1>a. LogProps
  BY DEF LogInv
<1>1. TasksKnown'
  BY <1>a DEF LogProps, TasksKnown, TaskKnown
<1>2. RowsLinked'
  BY <1>a DEF LogProps, RowsLinked, RowLinked, Linked, Row
<1>3. RowsPast'
  BY <1>a DEF LogProps, RowsPast
<1>4. QED
  BY <1>1, <1>2, <1>3 DEF LogProps

\* What a session is set to.
LEMMA SetFields ==
  ASSUME TypeInv, NEW i \in Instance, NEW c, NEW label, SetSess(i, label, c)
  PROVE  /\ sess'[i].pc = label /\ sess'[i].inc = c.inc /\ sess'[i].rev = c.rev /\ sess'[i].log = c.log
         /\ \A j \in Instance : j # i => sess'[j] = sess[j]
BY DEF SetSess, TypeInv, TypeOK

\* A session that takes up a known record, not as a candidate.
LEMMA SetKnown ==
  ASSUME LogInv, NEW i \in Instance, NEW c, NEW label, label # "persist", SetSess(i, label, c),
         Known(c, past), past' = past, conv' = conv, minted' \in Nat, minted <= minted'
  PROVE  SessionsKnown' /\ CandidatesFresh'
<1>a. TypeInv /\ LogProps /\ minted \in Nat /\ \A j \in Instance : sess[j].inc \in Nat
  BY DEF LogInv, ScopeInv, TypeInv, TypeOK, Session
<1>1. /\ sess'[i].pc = label /\ sess'[i].inc = c.inc /\ sess'[i].rev = c.rev /\ sess'[i].log = c.log
      /\ \A j \in Instance : j # i => sess'[j] = sess[j]
  BY <1>a, SetFields
<1>2. SessionsKnown'
  BY <1>a, <1>1, KnownSame DEF SessionsKnown, LogProps
<1>3. CandidatesFresh'
  BY <1>a, <1>1 DEF CandidatesFresh, Fresh, LogProps
<1>4. QED
  BY <1>2, <1>3

\* A handle that is built is the stored record, or has an incarnation of its own.
LEMMA BuiltKnown ==
  ASSUME LogInv, Mint
  PROVE  /\ Known(BuiltHandle, past) /\ minted' \in Nat /\ minted <= minted'
         /\ BuiltHandle.rev = 0 => /\ conv.inc = 0 /\ BuiltHandle.inc = minted + 1
                                   /\ minted' = minted + 1
<1>a. StoreKnown /\ minted \in Nat /\ conv \in Conversation
  BY DEF LogInv, LogProps, ScopeInv, TypeInv, TypeOK
<1>1. CASE conv.inc # 0
  BY <1>a, <1>1 DEF BuiltHandle, Mint, StoreKnown
<1>2. CASE conv.inc = 0
  <2>1. BuiltHandle = [inc |-> minted + 1, rev |-> 0, log |-> <<>>] /\ minted' = minted + 1
    BY <1>2 DEF BuiltHandle, Mint
  <2>2. QED
    BY <1>a, <1>2, <2>1 DEF Known
<1>3. QED
  BY <1>1, <1>2

\* The mint may go on without harm.
LEMMA MintStore ==
  ASSUME LogInv, past' = past, conv' = conv, minted' \in Nat, minted <= minted'
  PROVE  StoreKnown'
<1>1. StoreKnown /\ minted \in Nat /\ conv.inc \in Nat /\ \A t \in past : t.inc \in Nat
  BY DEF LogInv, LogProps, ScopeInv, TypeInv, TypeOK, Conversation, Turn
<1>2. QED
  BY <1>1 DEF StoreKnown

\* A build, the first or the second.
LEMMA BuildLog ==
  ASSUME LogInv, NEW i \in Instance, BuildSession(i) \/ RebuildSession(i)
  PROVE  LogProps'
<1>a. TypeInv /\ LogProps /\ minted \in Nat /\ \A j \in Instance : sess[j].inc \in Nat
  BY DEF LogInv, ScopeInv, TypeInv, TypeOK, Session
<1>b. UNCHANGED <<pc, mem, ledger, past, conv, cache>> /\ Mint
  BY DEF BuildSession, RebuildSession, store, ghost
<1>c. /\ Known(BuiltHandle, past) /\ minted' \in Nat /\ minted <= minted'
      /\ BuiltHandle.rev = 0 => /\ conv.inc = 0 /\ BuiltHandle.inc = minted + 1
                                /\ minted' = minted + 1
  BY <1>b, BuiltKnown
<1>1. CachesKnown'
  BY <1>a, <1>b DEF LogProps, CachesKnown
<1>2. StoreKnown'
  BY <1>b, <1>c, MintStore
<1>3. SessionsKnown' /\ CandidatesFresh'
  <2>1. CASE EndSess(i)
    <3>1. \A j \in Instance : sess'[j] = sess[j] \/ sess'[j] = NoSess
      BY <1>a, <2>1 DEF EndSess, TypeInv, TypeOK
    <3>2. SessionsKnown'
      BY <1>a, <1>b, <3>1, KnownEmpty DEF LogProps, SessionsKnown
    <3>3. CandidatesFresh'
      BY <1>a, <1>b, <1>c, <3>1 DEF LogProps, CandidatesFresh, Fresh, NoSess
    <3>4. QED
      BY <3>2, <3>3
  <2>2. CASE \E label \in {"publish", "adopt"} : SetSess(i, label, BuiltHandle)
    BY <1>b, <1>c, <2>2, SetKnown
  <2>3. CASE SetSess(i, "persist", BuiltHandle) /\ BuiltHandle.rev = 0
    <3>1. /\ sess'[i].pc = "persist" /\ sess'[i].inc = BuiltHandle.inc /\ sess'[i].rev = 0
          /\ sess'[i].log = BuiltHandle.log /\ sess'[i].rev = BuiltHandle.rev
          /\ \A j \in Instance : j # i => sess'[j] = sess[j]
      BY <1>a, <2>3, SetFields
    <3>2. SessionsKnown'
      BY <1>a, <1>b, <1>c, <3>1, KnownSame DEF SessionsKnown, LogProps
    <3>3. \A j \in Instance : j # i /\ sess[j].pc = "persist" => sess[j].inc # sess'[i].inc
      BY <1>a, <1>c, <2>3, <3>1 DEF LogProps, CandidatesFresh, Fresh
    <3>4. Fresh(i)'
      <4>1. \A t \in past : t.inc # minted + 1
        BY <1>a DEF LogProps, StoreKnown, TypeInv, TypeOK, Turn
      <4>2. QED
        BY <1>a, <1>b, <1>c, <2>3, <3>1, <3>3, <4>1 DEF Fresh
    <3>5. \A j \in Instance : j # i /\ sess[j].pc = "persist" => Fresh(j)'
      BY <1>a, <1>b, <1>c, <3>1, <3>3 DEF LogProps, CandidatesFresh, Fresh
    <3>6. QED
      BY <3>1, <3>2, <3>4, <3>5 DEF CandidatesFresh
  <2>4. QED
    <3>1. CASE BuildSession(i)
      BY <2>1, <2>2, <2>3, <3>1 DEF BuildSession
    <3>2. CASE RebuildSession(i)
      BY <2>2, <3>2 DEF RebuildSession
    <3>3. QED
      BY <3>1, <3>2
<1>4. QED
  BY <1>b, <1>1, <1>2, <1>3, SessionLog

\* A candidate is stored under an incarnation that no turn belongs to.
LEMMA PersistLog ==
  ASSUME LogInv, NEW i \in Instance, PersistSession(i)
  PROVE  LogProps'
<1>a. TypeInv /\ LogProps /\ minted \in Nat
  BY DEF LogInv, ScopeInv, TypeInv, TypeOK
<1>b. UNCHANGED <<pc, mem, ledger, past, cache, minted>> /\ sess[i].pc = "persist"
  BY DEF PersistSession, ghost
<1>c. CachesKnown'
  BY <1>a, <1>b DEF LogProps, CachesKnown
<1>1. CASE conv' = conv /\ SetSess(i, "reload", NoConv)
  <2>1. SessionsKnown' /\ CandidatesFresh'
    BY <1>a, <1>b, <1>1, KnownEmpty, SetKnown
  <2>2. StoreKnown'
    BY <1>a, <1>b, <1>1, MintStore
  <2>3. QED
    BY <1>b, <1>c, <2>1, <2>2, SessionLog
<1>2. CASE /\ conv' = [inc |-> sess[i].inc, rev |-> 1, log |-> sess[i].log]
           /\ SetSess(i, "publish", [inc |-> sess[i].inc, rev |-> 1, log |-> sess[i].log])
  <2>1. Fresh(i) /\ Known(sess[i], past)
    BY <1>a, <1>b DEF LogProps, CandidatesFresh, SessionsKnown
  <2>2. sess[i].log = <<>> /\ sess[i].inc # 0 /\ sess[i].inc <= minted
    BY <2>1 DEF Fresh, Known
  <2>3. conv'.inc = sess[i].inc /\ conv'.rev = 1 /\ conv'.log = <<>>
    BY <1>2, <2>2
  <2>4. Known(conv', past)
    BY <2>2, <2>3 DEF Known
  <2>5. /\ sess'[i].pc = "publish" /\ sess'[i].inc = conv'.inc /\ sess'[i].rev = conv'.rev
        /\ sess'[i].log = conv'.log /\ \A j \in Instance : j # i => sess'[j] = sess[j]
    BY <1>a, <1>2, SetFields
  <2>6. SessionsKnown'
    BY <1>a, <1>b, <2>4, <2>5, KnownSame DEF LogProps, SessionsKnown
  <2>7. CandidatesFresh'
    BY <1>a, <1>b, <2>3, <2>5 DEF LogProps, CandidatesFresh, Fresh
  <2>8. StoreKnown'
    <3>1. \A t \in past : t.inc # sess[i].inc
      BY <2>1 DEF Fresh
    <3>2. QED
      BY <1>a, <1>b, <2>2, <2>3, <2>4, <3>1 DEF LogProps, StoreKnown
  <2>9. QED
    BY <1>b, <1>c, <2>6, <2>7, <2>8, SessionLog
<1>3. QED
  BY <1>1, <1>2 DEF PersistSession

\* DELETE leaves no record; the turns of the past stay distinct.
LEMMA DeleteLog ==
  ASSUME LogInv, NEW i \in Instance, DeleteConversation(i)
  PROVE  LogProps'
<1>a. TypeInv /\ LogProps /\ minted \in Nat
  BY DEF LogInv, ScopeInv, TypeInv, TypeOK
<1>b. UNCHANGED <<pc, mem, ledger, past, cache, minted>> /\ EndSess(i)
  BY DEF DeleteConversation, ghost
<1>c. CachesKnown'
  BY <1>a, <1>b DEF LogProps, CachesKnown
<1>1. CASE conv' = conv
  BY <1>a, <1>b, <1>c, <1>1, EndKnown, MintStore, SessionLog DEF LogProps
<1>2. CASE conv' = NoConv
  <2>1. \A j \in Instance : sess'[j] = sess[j] \/ sess'[j] = NoSess
    BY <1>a, <1>b DEF EndSess, TypeInv, TypeOK
  <2>2. conv'.inc = 0 /\ conv'.rev = 0
    BY <1>2 DEF NoConv
  <2>3. SessionsKnown'
    BY <1>a, <1>b, <2>1, KnownEmpty DEF LogProps, SessionsKnown
  <2>4. CandidatesFresh'
    BY <1>a, <1>b, <2>1, <2>2 DEF LogProps, CandidatesFresh, Fresh, NoSess
  <2>5. StoreKnown'
    BY <1>a, <1>b, <1>2, <2>2, KnownEmpty DEF LogProps, StoreKnown
  <2>6. QED
    BY <1>b, <1>c, <2>3, <2>4, <2>5, SessionLog
<1>3. QED
  BY <1>1, <1>2 DEF DeleteConversation

\* The other session steps copy records that are known.
LEMMA CopyLog ==
  ASSUME LogInv, NEW i \in Instance,
         \/ OpenSession(i) \/ AdoptWinner(i) \/ ReloadWinner(i) \/ PublishSession(i)
         \/ AbortSession(i) \/ OpenDelete(i) \/ Evict(i)
  PROVE  LogProps'
<1>a. TypeInv /\ LogProps /\ minted \in Nat /\ minted <= minted
  BY DEF LogInv, ScopeInv, TypeInv, TypeOK
<1>b. UNCHANGED <<pc, mem, ledger, past, conv, minted>>
  BY DEF OpenSession, AdoptWinner, ReloadWinner, PublishSession, AbortSession, OpenDelete, Evict, store, ghost
<1>1. StoreKnown'
  BY <1>a, <1>b, MintStore
<1>2. CachesKnown'
  <2>1. CASE PublishSession(i)
    <3>1. \A j \in Instance : cache'[j] = cache[j] \/
            cache'[j] = [inc |-> sess[i].inc, rev |-> sess[i].rev, log |-> sess[i].log]
      BY <1>a, <2>1 DEF PublishSession, TypeInv, TypeOK
    <3>2. Known([inc |-> sess[i].inc, rev |-> sess[i].rev, log |-> sess[i].log], past)
      BY <1>a, KnownSame DEF LogProps, SessionsKnown
    <3>3. QED
      BY <1>a, <1>b, <3>1, <3>2 DEF LogProps, CachesKnown
  <2>2. CASE cache' = cache \/ Forget(i)
    BY <1>a, <1>b, <2>2, ForgetKnown DEF LogProps
  <2>3. QED
    BY <2>1, <2>2 DEF OpenSession, AdoptWinner, ReloadWinner, AbortSession, OpenDelete, Evict
<1>3. SessionsKnown' /\ CandidatesFresh'
  <2>1. CASE sess' = sess \/ EndSess(i)
    BY <1>a, <1>b, <2>1, EndKnown DEF LogProps
  <2>2. CASE \E label \in {"rebuild", "delete"} : SetSess(i, label, NoConv)
    BY <1>a, <1>b, <2>2, KnownEmpty, SetKnown
  <2>3. CASE SetSess(i, "build", conv)
    BY <1>a, <1>b, <2>3, SetKnown DEF LogProps, StoreKnown
  <2>4. CASE sess' = [sess EXCEPT ![i].pc = "publish"]
    <3>1. /\ sess'[i].pc = "publish" /\ sess'[i].inc = sess[i].inc /\ sess'[i].rev = sess[i].rev
          /\ sess'[i].log = sess[i].log /\ \A j \in Instance : j # i => sess'[j] = sess[j]
      BY <1>a, <2>4 DEF TypeInv, TypeOK, Session
    <3>2. SessionsKnown'
      BY <1>a, <1>b, <3>1, KnownSame DEF LogProps, SessionsKnown
    <3>3. CandidatesFresh'
      BY <1>a, <1>b, <3>1 DEF LogProps, CandidatesFresh, Fresh
    <3>4. QED
      BY <3>2, <3>3
  <2>5. QED
    BY <2>1, <2>2, <2>3, <2>4 DEF OpenSession, AdoptWinner, ReloadWinner, PublishSession,
       AbortSession, OpenDelete, Evict
<1>4. QED
  BY <1>b, <1>1, <1>2, <1>3, SessionLog

----------------------------------------------------------------------------
\* Every step keeps what is known.
LEMMA NextLog == LogInv /\ [Next]_vars => LogInv'
<1> SUFFICES ASSUME LogInv, [Next]_vars PROVE LogInv'
  OBVIOUS
<1>a. ScopeInv'
  BY NextScope DEF LogInv
<1>1. LogProps'
  <2>1. CASE UNCHANGED vars
    <3>1. AllGoOn
      BY <2>1 DEF vars, AllGoOn, GoesOn, SameRead
    <3>2. QED
      BY <2>1, <3>1, SameLedgerKept, QuietLog DEF vars
  <2>2. ASSUME NEW m \in Msg,
               Read(m) \/ Advance(m) \/ Beat(m) \/ Disconnect(m)
        PROVE  LogProps'
    BY <2>2, ReadLog, LookupLog, ClaimLog, UseLog, PublishLog, CommitLog, LocalLog, SettleLog
       DEF Advance, Beat
  <2>3. ASSUME NEW i \in Instance, SessionStep(i) PROVE LogProps'
    BY <2>3, BuildLog, PersistLog, DeleteLog, CopyLog DEF SessionStep
  <2>4. CASE Tick \/ \E i \in Instance : Drain(i) \/ Teardown(i) \/ Crash(i)
    BY <2>4, ReplicaLog
  <2>5. CASE Reconcile \/ Prune
    BY <2>5, SettleLog
  <2>6. QED
    BY <2>1, <2>2, <2>3, <2>4, <2>5 DEF Next
<1>2. QED
  BY <1>a, <1>1 DEF LogInv

\* Nothing is known in the beginning.
LEMMA InitLog == Init => LogInv
<1>1. SUFFICES ASSUME Init PROVE ScopeInv /\ LogProps
  BY DEF LogInv
<1>2. \A k \in Key : ledger[k].st = "absent"
  BY <1>1 DEF Init, NoRow
<1>3. ScopeInv
  BY <1>1, <1>2, InitType DEF ScopeInv, ScopeProps, HeldScoped, ClaimPinsConversation, ScopeHeldByOneRow, InFlight
<1>4. \A m \in Msg : pc[m] = "idle" /\ Row(m).st = "absent"
  BY <1>1, <1>2, ReqType DEF Init, Row
<1>5. TasksKnown /\ RowsLinked /\ RowsPast
  BY <1>2, <1>4 DEF TasksKnown, TaskKnown, RowsLinked, RowLinked, RowsPast, Reading, Handling
<1>6. CachesKnown /\ SessionsKnown /\ CandidatesFresh
  BY <1>1, KnownEmpty DEF Init, CachesKnown, SessionsKnown, CandidatesFresh, NoSess
<1>7. StoreKnown
  <2>1. conv.inc = 0 /\ minted = 0 /\ past = {} /\ Known(conv, past)
    BY <1>1, KnownEmpty DEF Init, NoConv
  <2>2. QED
    BY <2>1 DEF StoreKnown, Distinct
<1>8. QED
  BY <1>3, <1>5, <1>6, <1>7 DEF LogProps

\* The inductive invariant holds in every behaviour.
LEMMA Logs == Spec => []LogInv
BY InitLog, NextLog, PTL DEF Spec

\* A handle at the stored incarnation and revision has the stored transcript, on
\* every replica: a turn may be built on it without reading the store.
THEOREM CacheIsStore == Spec => []CacheAgrees
<1>1. ASSUME LogInv PROVE CacheAgrees
  <2>1. SUFFICES ASSUME NEW i \in Instance, cache[i].inc = conv.inc, cache[i].rev = conv.rev
                 PROVE  cache[i].log = conv.log
    BY DEF CacheAgrees
  <2>2. Known(cache[i], past) /\ Known(conv, past) /\ Distinct(past)
    BY <1>1 DEF LogInv, LogProps, CachesKnown, StoreKnown
  <2>3. cache[i].log \in Seq(Msg) /\ conv.log \in Seq(Msg)
    BY <1>1 DEF LogInv, ScopeInv, TypeInv, TypeOK, Conversation
  <2>4. QED
    BY <2>1, <2>2, <2>3, KnownAgree
<1>2. LogInv => CacheAgrees
  BY <1>1
<1>3. QED
  BY <1>2, Logs, PTL

----------------------------------------------------------------------------
\* The transcript that clients see.

\* A step that neither touches the stored record nor answers.
LEMMA LinearStutter ==
  ASSUME UNCHANGED <<conv, past, said>>
  PROVE  UNCHANGED Linear!vars
BY DEF Linear!vars

\* An answer names a turn of the past that was asked for by the same request.
LEMMA LinearAnswer ==
  ASSUME NEW m \in Msg, NEW n \in Msg, NEW x, NEW p, TurnAt(n, x, p) \in past,
         KeyOf(n) = KeyOf(m), Req[n].body = Req[m].body,
         said' = said \cup {[to |-> m, turn |-> TurnAt(n, x, p)]}, UNCHANGED <<conv, past>>
  PROVE  Linear!Answer
<1> DEFINE turn == TurnAt(n, x, p)
<1>1. turn.msg = n
  BY DEF TurnAt
<1>2. [key |-> Req[n].key, body |-> Req[n].body] = [key |-> Req[m].key, body |-> Req[m].body]
  BY DEF KeyOf
<1>3. turn \in past /\ said' = said \cup {[to |-> m, turn |-> turn]}
  OBVIOUS
<1> HIDE DEF turn
<1>4. QED
  BY <1>1, <1>2, <1>3 DEF Linear!Answer

\* Every step is a step of the transcript or leaves it alone.
LEMMA LinearStep == LogInv /\ [Next]_vars => [Linear!Next]_(Linear!vars)
<1> SUFFICES ASSUME LogInv, [Next]_vars PROVE Linear!Next \/ UNCHANGED Linear!vars
  OBVIOUS
<1>a. TypeInv /\ LogProps /\ conv \in Conversation
  BY DEF LogInv, ScopeInv, TypeInv, TypeOK
<1>1. CASE UNCHANGED <<conv, past, said>>
  BY <1>1, LinearStutter
<1>2. ASSUME NEW m \in Msg, CommitTurn(m) PROVE Linear!AppendTurn
  <2>1. /\ conv.inc # 0 /\ conv'.inc = conv.inc /\ conv'.log = Append(conv.log, m)
        /\ Len(conv'.log) = conv.rev
    BY <1>2, CommitFacts
  <2>2. past' = past \cup {[msg |-> m, inc |-> conv.inc, at |-> Len(conv'.log)]} /\ said' = said
    BY <1>2, <2>1, CommitFacts DEF TurnAt, CommitTurn
  <2>3. QED
    BY <2>1, <2>2 DEF Linear!AppendTurn
<1>3. ASSUME NEW m \in Msg, CommitAgain(m) \/ Publish(m) PROVE Linear!Answer
  <2>1. said' = said \cup {[to |-> m, turn |-> TurnAt(m, mem[m].inc, mem[m].rev)]}
        /\ UNCHANGED <<conv, past>>
    BY <1>3 DEF CommitAgain, Publish, Respond, TurnAt, store
  <2>2. TurnAt(m, mem[m].inc, mem[m].rev) \in past
    <3>1. CASE Publish(m)
      BY <1>a, <3>1 DEF Publish, LogProps, TasksKnown, TaskKnown
    <3>2. CASE CommitAgain(m)
      <4>1. KeyOf(m) \in Key /\ ledger[KeyOf(m)].st = "completed" /\ Linked(m) /\ pc[m] = "prepared"
        BY <3>2, ReqType DEF CommitAgain, CommitVerdict, AlreadyCommitted, Row
      <4>2. ledger[KeyOf(m)].msg = m /\ ledger[KeyOf(m)].inc = mem[m].inc /\ ledger[KeyOf(m)].base = mem[m].rev
        BY <1>a, <4>1 DEF LogProps, RowsLinked, RowLinked, Linked, Row, Claiming
      <4>3. QED
        BY <1>a, <4>1, <4>2 DEF LogProps, RowsPast
    <3>3. QED
      BY <1>3, <3>1, <3>2
  <2>3. QED
    BY <2>1, <2>2, LinearAnswer
<1>4. ASSUME NEW m \in Msg, Replay(m), said' # said PROVE Linear!Answer
  <2> DEFINE row == mem[m].replay
  <2>1. said' = said \cup {[to |-> m, turn |-> TurnAt(row.msg, row.inc, row.base)]}
        /\ UNCHANGED <<conv, past>> /\ pc[m] = "replaying"
    BY <1>4 DEF Replay, TurnAt, store
  <2>2. /\ row.msg \in Msg /\ KeyOf(row.msg) = KeyOf(m) /\ Req[row.msg].body = Req[m].body
        /\ TurnAt(row.msg, row.inc, row.base) \in past
    BY <1>a, <2>1 DEF LogProps, TasksKnown, TaskKnown
  <2> HIDE DEF row
  <2>3. QED
    BY <2>1, <2>2, LinearAnswer
<1>5. ASSUME NEW i \in Instance, PersistSession(i), conv' # conv PROVE Linear!Create
  <2>1. /\ conv.inc = 0 /\ conv' = [inc |-> sess[i].inc, rev |-> 1, log |-> sess[i].log]
        /\ sess[i].pc = "persist" /\ UNCHANGED <<past, said>>
    BY <1>5 DEF PersistSession, ghost
  <2>2. Fresh(i) /\ Known(sess[i], past) /\ Known(conv, past) /\ sess[i].inc \in Nat
    BY <1>a, <2>1 DEF LogProps, CandidatesFresh, SessionsKnown, StoreKnown, TypeInv, TypeOK, Session
  <2>3. /\ conv'.inc = sess[i].inc /\ conv'.inc \in Nat /\ conv'.inc # 0
        /\ \A t \in past : t.inc # conv'.inc
    BY <2>1, <2>2 DEF Fresh
  <2>4. conv'.log = <<>> /\ conv.log = <<>>
    BY <2>1, <2>2 DEF Fresh, Known
  <2>5. QED
    BY <2>1, <2>3, <2>4 DEF Linear!Create
<1>6. ASSUME NEW i \in Instance, DeleteConversation(i), conv' # conv
      PROVE  Linear!Delete \/ UNCHANGED Linear!vars
  <2>1. conv' = NoConv /\ UNCHANGED <<past, said>>
    BY <1>6 DEF DeleteConversation, ghost
  <2>2. conv'.inc = 0 /\ conv'.log = <<>>
    BY <2>1 DEF NoConv
  <2>3. conv.inc = 0 => conv.log = <<>>
    BY <1>a DEF LogProps, StoreKnown, Known
  <2>4. QED
    BY <2>1, <2>2, <2>3 DEF Linear!Delete, Linear!vars
<1>7. QED
  <2>1. CASE UNCHANGED vars
    BY <1>1, <2>1 DEF vars
  <2>2. ASSUME NEW m \in Msg, Read(m) \/ Advance(m) \/ Beat(m) \/ Disconnect(m)
        PROVE  Linear!Next \/ UNCHANGED Linear!vars
    <3>1. CASE CommitTurn(m) \/ CommitAgain(m) \/ Publish(m) \/ (Replay(m) /\ said' # said)
      BY <1>2, <1>3, <1>4, <3>1 DEF Linear!Next
    <3>2. CASE /\ ~(CommitTurn(m) \/ CommitAgain(m) \/ Publish(m))
               /\ ~(Replay(m) /\ said' # said)
      BY <1>1, <2>2, <3>2 DEF Read, Advance, Beat, Disconnect, Lookup, Replay, TakeGate, Claim,
         StartHeartbeat, UseHandle, BackOut, BeginTurn, ImagesFail, EndTurn, TurnFails,
         CommitConflict, ClaimLost, Mark, Release, SendHeartbeat, Heartbeat, HeartbeatFails,
         LeaseExpires, store, ghost
    <3>3. QED
      BY <3>1, <3>2
  <2>3. ASSUME NEW i \in Instance, SessionStep(i)
        PROVE  Linear!Next \/ UNCHANGED Linear!vars
    <3>1. past' = past /\ said' = said
      BY <2>3 DEF SessionStep, OpenSession, BuildSession, AdoptWinner, PersistSession, ReloadWinner,
         RebuildSession, PublishSession, AbortSession, OpenDelete, DeleteConversation, Evict, ghost
    <3>2. CASE conv' # conv
      <4>1. PersistSession(i) \/ DeleteConversation(i)
        BY <2>3, <3>2 DEF SessionStep, OpenSession, BuildSession, AdoptWinner, ReloadWinner,
           RebuildSession, PublishSession, AbortSession, OpenDelete, Evict, store
      <4>2. QED
        BY <1>5, <1>6, <3>2, <4>1 DEF Linear!Next
    <3>3. QED
      BY <1>1, <3>1, <3>2
  <2>4. CASE \/ Tick \/ Reconcile \/ Prune
             \/ \E i \in Instance : Drain(i) \/ Teardown(i) \/ Crash(i)
    BY <1>1, <2>4 DEF Tick, Reconcile, Prune, Drain, Teardown, Crash, store, ghost
  <2>5. QED
    BY <2>1, <2>2, <2>3, <2>4 DEF Next

\* Replicas, caches and ledger implement one linear transcript, and every answer,
\* replayed or not, names a turn that was appended for its request.
THEOREM ImplementsTranscript == Spec => LinearTranscript
<1>1. Init => Linear!Init
  BY DEF Init, NoConv, Linear!Init
<1>2. QED
  BY <1>1, Logs, LinearStep, PTL DEF Spec, LinearTranscript, Linear!Spec

----------------------------------------------------------------------------
\* The grace of a recovery.

\* The clock of a message: its heartbeat was sent, and its local deadline is at
\* most one lease away.
InTime(m) == mem[m].sent <= now /\ mem[m].deadline <= now + LeaseTTL

\* A message at work stops before its row may be taken from it: its deadline is
\* not after the lease of the row, nor after the instant the row became a hazard,
\* and is a lease ago once the hazard is recovered.
Warned(m) ==
    pc[m] \in Claiming =>
        /\ Linked(m) /\ Row(m).st = "claimed" => mem[m].deadline <= Row(m).lease
        /\ Linked(m) /\ Row(m).st = "indeterminate" => mem[m].deadline <= Row(m).done
        /\ m \in recovered => mem[m].deadline + LeaseTTL <= now

\* A recovered message does not get its row back.
GivenUp(m) ==
    m \in recovered => /\ pc[m] \notin Unclaimed
                       /\ ~(Linked(m) /\ Row(m).st \in {"claimed", "completed"})

\* The inductive invariant, on top of LogInv: a hazard belongs to a message that
\* has claimed, which RowsLinked says.
Grace(m) == InTime(m) /\ Warned(m) /\ GivenUp(m)
Graces == \A m \in Msg : Grace(m)
GraceInv == LogInv /\ Graces

\* Message n does not claim, and keeps its deadline while it works.
Steady(n) ==
    /\ pc'[n] \in Claiming => pc[n] \in Claiming /\ mem'[n].deadline = mem[n].deadline
    /\ pc'[n] \in Unclaimed => pc[n] \in Unclaimed
Still(n) == pc'[n] = pc[n] /\ mem'[n] = mem[n]

\* The row of n is not claimed anew, its lease is not shortened, and it becomes a
\* hazard under a working message only after its lease.
RowSteady(n) ==
    Linked(n)' =>
        /\ Row(n)'.st \in {"claimed", "completed"} => Linked(n) /\ Row(n).st \in {"claimed", "completed"}
        /\ pc'[n] \in Claiming /\ Row(n)'.st = "claimed" =>
             /\ Linked(n) /\ Row(n).st = "claimed"
             /\ Row(n).lease <= Row(n)'.lease \/ now + LeaseTTL <= Row(n)'.lease
        /\ pc'[n] \in Claiming /\ Row(n)'.st = "indeterminate" =>
             /\ Linked(n)
             /\ \/ Row(n).st = "indeterminate" /\ Row(n)'.done = Row(n).done
                \/ Row(n).st = "claimed" /\ Row(n).lease <= Row(n)'.done
RowsSteady == \A n \in Msg : RowSteady(n)

\* What the store's statements do to one row.
Onward(k) ==
    \/ ledger'[k].msg = NoMsg
    \/ /\ ledger'[k].msg = ledger[k].msg
       /\ \/ /\ ledger'[k].st = ledger[k].st /\ ledger'[k].done = ledger[k].done
             /\ ledger[k].lease <= ledger'[k].lease \/ now + LeaseTTL <= ledger'[k].lease
          \/ /\ ledger[k].st = "claimed" /\ ledger'[k].st = "indeterminate"
             /\ ledger[k].lease <= ledger'[k].done
          \/ ledger[k].st = "claimed" /\ ledger'[k].st = "completed"

\* A message whose row goes onward has a steady row.
LEMMA OnwardSteady ==
  ASSUME NEW n \in Msg, Onward(KeyOf(n))
  PROVE  RowSteady(n)
<1>1. Row(n) = ledger[KeyOf(n)] /\ Row(n)' = ledger'[KeyOf(n)]
  BY DEF Row, KeyOf
<1>2. Linked(n) <=> ledger[KeyOf(n)].msg = n
  BY <1>1 DEF Linked
<1>3. Linked(n)' <=> ledger'[KeyOf(n)].msg = n
  BY <1>1 DEF Linked
<1>4. n # NoMsg
  BY ConversationAssumption DEF ConversationAssumption
<1>5. QED
  BY <1>1, <1>2, <1>3, <1>4 DEF Onward, RowSteady

\* A step that leaves the rows alone.
LEMMA SameSteady ==
  ASSUME TypeInv, ledger' = ledger
  PROVE  RowsSteady
<1>1. \A k \in Key : ledger[k].lease \in Nat
  BY DEF TypeInv, TypeOK, LedgerRow
<1>2. \A k \in Key : Onward(k)
  BY <1>1 DEF Onward
<1>3. QED
  BY <1>2, OnwardSteady, ReqType DEF RowsSteady

\* A steady message with a steady row keeps its grace.
LEMMA GraceKeeps ==
  ASSUME TypeInv, TypeInv', NEW n \in Msg, Grace(n), InTime(n)', Steady(n), RowSteady(n),
         n \in recovered' => n \in recovered, now <= now'
  PROVE  Grace(n)'
<1>a. /\ now \in Nat /\ now' \in Nat /\ LeaseTTL \in Nat /\ KeyOf(n) \in Key
      /\ mem[n].deadline \in Nat /\ mem'[n].deadline \in Nat
  BY Clocks, ReqType DEF TypeInv, TypeOK, TaskMemory
<1>b. Row(n).lease \in Nat /\ Row(n).done \in Nat /\ Row(n)'.lease \in Nat /\ Row(n)'.done \in Nat
  <2>1. Row(n) \in LedgerRow /\ Row(n)' \in LedgerRow
    BY <1>a DEF Row, KeyOf, TypeInv, TypeOK
  <2>2. QED
    BY <2>1 DEF LedgerRow
<1>1. Warned(n)'
  <2>1. SUFFICES ASSUME pc'[n] \in Claiming
        PROVE  /\ Linked(n)' /\ Row(n)'.st = "claimed" => mem'[n].deadline <= Row(n)'.lease
               /\ Linked(n)' /\ Row(n)'.st = "indeterminate" => mem'[n].deadline <= Row(n)'.done
               /\ n \in recovered' => mem'[n].deadline + LeaseTTL <= now'
    BY DEF Warned, Claiming
  <2>2. pc[n] \in Claiming /\ mem'[n].deadline = mem[n].deadline
    BY <2>1 DEF Steady
  <2>3. /\ Linked(n) /\ Row(n).st = "claimed" => mem[n].deadline <= Row(n).lease
        /\ Linked(n) /\ Row(n).st = "indeterminate" => mem[n].deadline <= Row(n).done
        /\ n \in recovered => mem[n].deadline + LeaseTTL <= now
        /\ mem[n].deadline <= now + LeaseTTL
    BY <2>2 DEF Grace, Warned, InTime
  <2>4. Linked(n)' /\ Row(n)'.st = "claimed" => mem'[n].deadline <= Row(n)'.lease
    BY <1>a, <1>b, <2>1, <2>2, <2>3 DEF RowSteady
  <2>5. Linked(n)' /\ Row(n)'.st = "indeterminate" => mem'[n].deadline <= Row(n)'.done
    BY <1>a, <1>b, <2>1, <2>2, <2>3 DEF RowSteady
  <2>6. n \in recovered' => mem'[n].deadline + LeaseTTL <= now'
    BY <1>a, <2>2, <2>3
  <2>7. QED
    BY <2>4, <2>5, <2>6
<1>2. GivenUp(n)'
  BY DEF Grace, GivenUp, Steady, RowSteady, Unclaimed
<1>3. QED
  BY <1>1, <1>2 DEF Grace

\* A step of message m, the others being still.
LEMMA MoveGrace ==
  ASSUME GraceInv, TypeInv', NEW m \in Msg, \A n \in Msg : n # m => Still(n),
         InTime(m)', Steady(m), RowsSteady, UNCHANGED <<recovered, now>>
  PROVE  Graces'
<1>a. TypeInv /\ now \in Nat
  BY DEF GraceInv, LogInv, ScopeInv, TypeInv, TypeOK
<1>1. ASSUME NEW n \in Msg PROVE Grace(n)'
  <2>1. Grace(n) /\ RowSteady(n)
    BY DEF GraceInv, Graces, RowsSteady
  <2>2. InTime(n)' /\ Steady(n)
    <3>1. CASE n = m
      BY <3>1
    <3>2. CASE n # m
      BY <2>1, <3>2 DEF Still, Steady, InTime, Grace
    <3>3. QED
      BY <3>1, <3>2
  <2>3. QED
    BY <1>a, <2>1, <2>2, GraceKeeps
<1>2. QED
  BY <1>1 DEF Graces

\* A message that leaves, or stops its heartbeat and ends its work.
LEMMA LeaveSteady ==
  ASSUME TypeInv, NEW m \in Msg, InTime(m), UNCHANGED now,
         \/ Leave(m)
         \/ \E label \in {"committed", "marking", "backing", "releasing"} : StopBeat(m, label)
  PROVE  InTime(m)' /\ Steady(m) /\ \A n \in Msg : n # m => Still(n)
<1>a. /\ now \in Nat /\ now + LeaseTTL \in Nat /\ mem[m] \in TaskMemory
      /\ pc \in [Msg -> PC] /\ mem \in [Msg -> TaskMemory]
  BY Clocks DEF TypeInv, TypeOK
<1>1. CASE Leave(m)
  <2>1. pc' = [pc EXCEPT ![m] = "done"] /\ mem' = [mem EXCEPT ![m] = NoMem]
    BY <1>1 DEF Leave, Goto
  <2>2. pc'[m] = "done" /\ mem'[m].sent = 0 /\ mem'[m].deadline = 0
    BY <1>a, <2>1 DEF NoMem
  <2>3. InTime(m)' /\ Steady(m)
    BY <1>a, <2>2 DEF InTime, Steady, Claiming, Unclaimed
  <2>4. QED
    BY <1>a, <2>1, <2>3 DEF Still
<1>2. ASSUME NEW label \in {"committed", "marking", "backing", "releasing"}, StopBeat(m, label)
      PROVE  InTime(m)' /\ Steady(m) /\ \A n \in Msg : n # m => Still(n)
  <2>1. /\ pc' = [pc EXCEPT ![m] = label]
        /\ mem' = [mem EXCEPT ![m] = [mem[m] EXCEPT !.beat = FALSE, !.sent = 0]]
    BY <1>2 DEF StopBeat, Goto
  <2>2. pc'[m] = label /\ mem'[m].sent = 0 /\ mem'[m].deadline = mem[m].deadline
    BY <1>a, <2>1 DEF TaskMemory
  <2>3. InTime(m)' /\ Steady(m)
    BY <1>a, <2>2 DEF InTime, Steady, Claiming, Unclaimed
  <2>4. QED
    BY <1>a, <2>1, <2>3 DEF Still
<1>3. QED
  BY <1>1, <1>2

\* A message that goes on without touching its clock.
LEMMA GotoSteady ==
  ASSUME TypeInv, NEW m \in Msg, InTime(m), UNCHANGED now,
         NEW label \in PC, pc' = [pc EXCEPT ![m] = label], \A n \in Msg : n # m => mem'[n] = mem[n],
         mem'[m].sent = mem[m].sent, mem'[m].deadline = mem[m].deadline,
         label \in Claiming => pc[m] \in Claiming, label \in Unclaimed => pc[m] \in Unclaimed
  PROVE  InTime(m)' /\ Steady(m) /\ \A n \in Msg : n # m => Still(n)
<1>1. pc'[m] = label /\ \A n \in Msg : n # m => pc'[n] = pc[n]
  BY DEF TypeInv, TypeOK
<1>2. QED
  BY <1>1 DEF InTime, Steady, Still

\* The steps of a message that leave the rows alone.
LEMMA LocalGrace ==
  ASSUME GraceInv, TypeInv', NEW m \in Msg,
         \/ Read(m) \/ Lookup(m) \/ Replay(m) \/ TakeGate(m) \/ StartHeartbeat(m) \/ SendHeartbeat(m)
         \/ LeaseExpires(m) \/ UseHandle(m) \/ BackOut(m) \/ ImagesFail(m) \/ BeginTurn(m)
         \/ TurnFails(m) \/ EndTurn(m) \/ ClaimLost(m) \/ CommitAgain(m) \/ CommitConflict(m)
         \/ Publish(m) \/ Disconnect(m)
  PROVE  Graces'
<1>a. /\ TypeInv /\ mem[m] \in TaskMemory /\ mem \in [Msg -> TaskMemory] /\ pc \in [Msg -> PC]
      /\ now \in Nat /\ now + LeaseTTL \in Nat /\ now <= now + LeaseTTL /\ InTime(m)
  BY Clocks DEF GraceInv, LogInv, ScopeInv, TypeInv, TypeOK, Graces, Grace
<1>b. ledger' = ledger /\ UNCHANGED <<recovered, now>>
  BY DEF Read, Lookup, Replay, TakeGate, StartHeartbeat, SendHeartbeat, LeaseExpires, UseHandle,
     BackOut, ImagesFail, BeginTurn, TurnFails, EndTurn, ClaimLost, CommitAgain, CommitConflict,
     Publish, Disconnect, store, ghost
<1>1. InTime(m)' /\ Steady(m) /\ \A n \in Msg : n # m => Still(n)
  <2>1. CASE \/ Leave(m)
             \/ \E label \in {"committed", "marking", "backing", "releasing"} : StopBeat(m, label)
    BY <1>a, <1>b, <2>1, LeaveSteady
  <2>2. CASE Read(m) /\ conv.inc # 0
    <3>1. /\ pc[m] = "idle" /\ pc' = [pc EXCEPT ![m] = "read"]
          /\ mem' = [mem EXCEPT ![m] = [mem[m] EXCEPT !.inc = conv.inc, !.rev = conv.rev]]
      BY <2>2 DEF Read, Goto
    <3>2. /\ mem'[m].sent = mem[m].sent /\ mem'[m].deadline = mem[m].deadline
          /\ \A n \in Msg : n # m => mem'[n] = mem[n]
      BY <1>a, <3>1 DEF TaskMemory
    <3>3. "read" \in PC /\ "read" \notin Claiming /\ pc[m] \in Unclaimed
      BY <3>1 DEF PC, Claiming, Unclaimed
    <3>4. QED
      BY <1>a, <1>b, <3>1, <3>2, <3>3, GotoSteady
  <2>3. CASE Lookup(m) /\ ~Leave(m)
    <3>1. PICK label \in {"missed", "replaying"} :
            /\ pc[m] = "read" /\ pc' = [pc EXCEPT ![m] = label]
            /\ mem' = mem \/ mem' = [mem EXCEPT ![m].replay = Row(m)]
      BY <2>3 DEF Lookup, Goto
    <3>2. /\ mem'[m].sent = mem[m].sent /\ mem'[m].deadline = mem[m].deadline
          /\ \A n \in Msg : n # m => mem'[n] = mem[n]
      BY <1>a, <3>1 DEF TaskMemory
    <3>3. label \in PC /\ label \notin Claiming /\ pc[m] \in Unclaimed
      BY <3>1 DEF PC, Claiming, Unclaimed
    <3>4. QED
      BY <1>a, <1>b, <3>1, <3>2, <3>3, GotoSteady
  <2>4. CASE TakeGate(m) /\ ~Leave(m)
    <3>1. /\ pc[m] = "missed" /\ pc' = [pc EXCEPT ![m] = "gated"]
          /\ mem' = [mem EXCEPT ![m].deadline = now + LeaseTTL]
      BY <2>4 DEF TakeGate, Goto
    <3>2. /\ pc'[m] = "gated" /\ mem'[m].sent = mem[m].sent /\ mem'[m].deadline = now + LeaseTTL
          /\ \A n \in Msg : n # m => mem'[n] = mem[n] /\ pc'[n] = pc[n]
      BY <1>a, <3>1 DEF TaskMemory
    <3>3. Steady(m) /\ \A n \in Msg : n # m => Still(n)
      BY <3>1, <3>2 DEF Steady, Still, Claiming, Unclaimed
    <3>4. InTime(m)'
      BY <1>a, <1>b, <3>2 DEF InTime
    <3>5. QED
      BY <3>3, <3>4
  <2>5. CASE StartHeartbeat(m) \/ BeginTurn(m) \/ EndTurn(m)
    <3>1. PICK label \in {"claimed", "releasing", "turn", "prepared"} :
            pc[m] \in Claiming /\ pc' = [pc EXCEPT ![m] = label] /\ mem' = mem
      BY <2>5 DEF StartHeartbeat, BeginTurn, EndTurn, Goto, Claiming
    <3>2. label \in PC /\ label \notin Unclaimed
      BY DEF PC, Unclaimed
    <3>3. QED
      BY <1>a, <1>b, <3>1, <3>2, GotoSteady
  <2>6. CASE UseHandle(m)
    <3>1. /\ pc[m] = "claimed" /\ pc' = [pc EXCEPT ![m] = "images"]
          /\ mem' = [mem EXCEPT ![m].log = cache'[InstOf(m)].log]
      BY <2>6 DEF UseHandle, Goto
    <3>2. /\ mem'[m].sent = mem[m].sent /\ mem'[m].deadline = mem[m].deadline
          /\ \A n \in Msg : n # m => mem'[n] = mem[n]
      BY <1>a, <3>1 DEF TaskMemory
    <3>3. "images" \in PC /\ "images" \notin Unclaimed /\ pc[m] \in Claiming
      BY <3>1 DEF PC, Claiming, Unclaimed
    <3>4. QED
      BY <1>a, <1>b, <3>1, <3>2, <3>3, GotoSteady
  <2>7. CASE SendHeartbeat(m) \/ LeaseExpires(m)
    <3>1. /\ pc' = pc
          /\ \/ mem' = [mem EXCEPT ![m] = [mem[m] EXCEPT !.beat = TRUE, !.sent = now]]
             \/ mem' = [mem EXCEPT ![m] = [mem[m] EXCEPT !.beat = FALSE, !.sent = 0, !.lost = TRUE]]
      BY <2>7 DEF SendHeartbeat, LeaseExpires
    <3>2. /\ mem'[m].sent \in {0, now} /\ mem'[m].deadline = mem[m].deadline
          /\ \A n \in Msg : n # m => mem'[n] = mem[n]
      BY <1>a, <3>1 DEF TaskMemory
    <3>3. QED
      BY <1>a, <1>b, <3>1, <3>2 DEF InTime, Steady, Still
  <2>8. QED
    BY <2>1, <2>2, <2>3, <2>4, <2>5, <2>6, <2>7 DEF Read, Replay, BackOut, ImagesFail, TurnFails,
       ClaimLost, CommitAgain, CommitConflict, Publish, Disconnect
<1>2. RowsSteady
  BY <1>a, <1>b, SameSteady
<1>3. QED
  BY <1>b, <1>1, <1>2, MoveGrace

\* The rows after a heartbeat's transaction.
LEMMA RenewedSteady ==
  ASSUME TypeInv, NEW m \in Msg, ledger' \in {ledger, RenewedLedger(m)}
  PROVE  RowsSteady
<1>1. CASE ledger' = ledger
  BY <1>1, SameSteady
<1>2. CASE ledger' = [ledger EXCEPT ![KeyOf(m)].lease = now + LeaseTTL]
  <2>1. ASSUME NEW k \in Key PROVE Onward(k)
    <3>1. ledger[k] \in LedgerRow /\ now + LeaseTTL \in Nat
      BY Clocks DEF TypeInv, TypeOK
    <3>2. ledger'[k] = ledger[k] \/ ledger'[k] = [ledger[k] EXCEPT !.lease = now + LeaseTTL]
      BY <1>2 DEF TypeInv, TypeOK
    <3>3. QED
      BY <3>1, <3>2 DEF Onward, LedgerRow
  <2>2. QED
    BY <2>1, OnwardSteady, ReqType DEF RowsSteady
<1>3. QED
  BY <1>1, <1>2 DEF RenewedLedger

\* A heartbeat moves the deadline of a message that still owns its row to a lease
\* after it was sent, and the row's lease to a lease after now.
LEMMA HeartbeatGrace ==
  ASSUME GraceInv, TypeInv', NEW m \in Msg, Heartbeat(m) \/ HeartbeatFails(m)
  PROVE  Graces'
<1>a. /\ TypeInv /\ mem[m] \in TaskMemory /\ mem \in [Msg -> TaskMemory] /\ KeyOf(m) \in Key
      /\ now \in Nat /\ LeaseTTL \in Nat /\ now + LeaseTTL \in Nat /\ Grace(m)
  BY Clocks, ReqType DEF GraceInv, LogInv, ScopeInv, TypeInv, TypeOK, Graces
<1>b. pc' = pc /\ UNCHANGED <<recovered, now>> /\ pc[m] \in Claiming
  BY DEF Heartbeat, HeartbeatFails, ghost, Beating, Claiming
<1>c. RowsSteady
  BY <1>a, RenewedSteady DEF Heartbeat, HeartbeatFails
<1>1. CASE \E b \in BOOLEAN : mem' = [mem EXCEPT ![m] = [mem[m] EXCEPT !.beat = FALSE, !.sent = 0, !.lost = b]]
  <2>1. /\ mem'[m].sent = 0 /\ mem'[m].deadline = mem[m].deadline
        /\ \A n \in Msg : n # m => mem'[n] = mem[n]
    BY <1>a, <1>1 DEF TaskMemory
  <2>2. InTime(m)' /\ Steady(m) /\ \A n \in Msg : n # m => Still(n)
    BY <1>a, <1>b, <2>1 DEF InTime, Grace, Steady, Still
  <2>3. QED
    BY <1>b, <1>c, <2>2, MoveGrace
<1>2. CASE /\ Heartbeat(m) /\ Owned(m)
           /\ mem' = [mem EXCEPT ![m] = [mem[m] EXCEPT !.beat = FALSE, !.sent = 0, !.deadline = RenewedDeadline(m)]]
  <2>1. /\ mem'[m].sent = 0 /\ mem'[m].deadline = mem[m].sent + LeaseTTL
        /\ \A n \in Msg : n # m => mem'[n] = mem[n]
    BY <1>a, <1>2 DEF TaskMemory, RenewedDeadline
  <2>2. InTime(m)' /\ mem'[m].deadline <= now + LeaseTTL
    <3>1. mem[m].sent \in Nat /\ mem[m].sent <= now
      BY <1>a DEF TaskMemory, Grace, InTime
    <3>2. QED
      BY <1>a, <1>b, <2>1, <3>1 DEF InTime
  <2>3. m \notin recovered /\ Linked(m) /\ Row(m).st \in {"claimed", "completed"}
    BY <1>a, <1>2 DEF Owned, Grace, GivenUp
  <2>4. /\ Row(m)'.st = Row(m).st
        /\ Row(m)'.st = "claimed" => Row(m)'.lease = now + LeaseTTL
    <3>1. ledger[KeyOf(m)] \in LedgerRow
      BY <1>a DEF TypeInv, TypeOK
    <3>2. \/ ledger' = ledger /\ Row(m).st # "claimed"
          \/ ledger'[KeyOf(m)] = [ledger[KeyOf(m)] EXCEPT !.lease = now + LeaseTTL]
      BY <1>a, <1>2, <2>3 DEF Heartbeat, RenewedLedger, InFlight, TypeInv, TypeOK
    <3>3. QED
      BY <3>1, <3>2 DEF Row, KeyOf, LedgerRow
  <2>5. Warned(m)'
    BY <1>b, <2>2, <2>3, <2>4 DEF Warned, Claiming
  <2>6. GivenUp(m)'
    BY <1>b, <2>3 DEF GivenUp
  <2>7. ASSUME NEW n \in Msg, n # m PROVE Grace(n)'
    <3>1. Grace(n) /\ RowSteady(n) /\ Still(n)
      BY <1>b, <1>c, <2>1, <2>7 DEF GraceInv, Graces, RowsSteady, Still
    <3>2. InTime(n)' /\ Steady(n)
      BY <1>b, <3>1 DEF Grace, InTime, Still, Steady
    <3>3. QED
      BY <1>a, <1>b, <3>1, <3>2, GraceKeeps
  <2>8. QED
    BY <2>2, <2>5, <2>6, <2>7 DEF Graces, Grace
<1>3. QED
  <2>1. CASE HeartbeatFails(m)
    <3>1. mem' = [mem EXCEPT ![m] = [mem[m] EXCEPT !.beat = FALSE, !.sent = 0, !.lost = now >= mem[m].deadline]]
      BY <2>1, Zenon DEF HeartbeatFails
    <3>2. (now >= mem[m].deadline) \in BOOLEAN
      BY <1>a DEF TaskMemory
    <3>3. QED
      BY <1>1, <3>1, <3>2
  <2>2. CASE Heartbeat(m)
    BY <1>1, <1>2, <2>2 DEF Heartbeat
  <2>3. QED
    BY <2>1, <2>2

\* The rows after a commit, a release, a reconciliation and a sweep go onward.
LEMMA SettleSteady ==
  ASSUME TypeInv,
         Reconcile \/ Prune \/ \E m \in Msg : Release(m) \/ CommitTurn(m)
  PROVE  RowsSteady
<1>a. /\ ledger \in [Key -> LedgerRow] /\ \A k \in Key : ledger[k] \in LedgerRow
      /\ now \in Nat /\ Retention \in Nat
  BY Clocks DEF TypeInv, TypeOK
<1>b. \A k \in Key : ledger'[k] = ledger[k] => Onward(k)
  BY <1>a DEF Onward, LedgerRow
<1>c. \A k \in Key : ledger'[k] = NoRow => Onward(k)
  BY DEF Onward, NoRow
<1>1. \A k \in Key : Onward(k)
  <2>1. CASE Reconcile
    <3>1. ASSUME NEW k \in Key, Overdue(ledger[k]), ledger'[k] = Indeterminate(ledger[k])
          PROVE  Onward(k)
      <4>1. /\ ledger'[k].msg = ledger[k].msg /\ ledger'[k].st = "indeterminate" /\ ledger'[k].done = now
        BY <1>a, <3>1 DEF Indeterminate, LedgerRow
      <4>2. QED
        BY <3>1, <4>1 DEF Onward, Overdue, InFlight
    <3>2. \A k \in Key : ledger'[k] = IF Overdue(ledger[k]) THEN Indeterminate(ledger[k]) ELSE ledger[k]
      BY <2>1 DEF Reconcile
    <3>3. QED
      BY <1>b, <3>1, <3>2
  <2>2. CASE Prune
    BY <1>b, <1>c, <2>2 DEF Prune, PrunedLedger
  <2>3. ASSUME NEW m \in Msg, Release(m) PROVE \A k \in Key : Onward(k)
    BY <1>a, <1>b, <1>c, <2>3, ReqType DEF Release
  <2>4. ASSUME NEW m \in Msg, CommitTurn(m) PROVE \A k \in Key : Onward(k)
    <3>1. PICK fits \in BOOLEAN :
            ledger' = [ledger EXCEPT ![KeyOf(m)] =
                         [ledger[KeyOf(m)] EXCEPT !.st = "completed", !.body = fits, !.lease = 0,
                                                  !.done = now, !.exp = now + Retention]]
      BY <2>4 DEF CommitTurn
    <3>2. KeyOf(m) \in Key /\ ledger[KeyOf(m)].st = "claimed"
      <4>1. KeyOf(m) \in Key /\ ledger[KeyOf(m)] \in LedgerRow
        BY <1>a, ReqType
      <4>2. ledger[KeyOf(m)].st \notin {"absent", "completed", "indeterminate"}
        BY <2>4 DEF CommitTurn, CommitVerdict, AlreadyCommitted, Row
      <4>3. QED
        BY <4>1, <4>2 DEF LedgerRow
    <3>3. \A k \in Key : k # KeyOf(m) => ledger'[k] = ledger[k]
      BY <1>a, <3>1
    <3>4. ledger'[KeyOf(m)].msg = ledger[KeyOf(m)].msg /\ ledger'[KeyOf(m)].st = "completed"
      BY <1>a, <3>1, <3>2 DEF LedgerRow
    <3>5. QED
      BY <1>b, <3>2, <3>3, <3>4 DEF Onward
  <2>5. QED
    BY <2>1, <2>2, <2>3, <2>4
<1>2. QED
  BY <1>1, OnwardSteady, ReqType DEF RowsSteady

\* A message that marks its row has stopped working.
LEMMA MarkSteady ==
  ASSUME TypeInv, NEW m \in Msg, Mark(m)
  PROVE  RowsSteady
<1>a. /\ ledger \in [Key -> LedgerRow] /\ KeyOf(m) \in Key /\ ledger[KeyOf(m)] \in LedgerRow
      /\ pc'[m] = "done"
  BY ReqType DEF Mark, Leave, Goto, TypeInv, TypeOK
<1>1. CASE ledger' = ledger
  BY <1>1, SameSteady
<1>2. CASE Linked(m) /\ ledger' = [ledger EXCEPT ![KeyOf(m)] = Indeterminate(ledger[KeyOf(m)])]
  <2>1. ledger'[KeyOf(m)].msg = m /\ ledger'[KeyOf(m)].st = "indeterminate"
    BY <1>a, <1>2, IndeterminateRow DEF Linked, Row
  <2>2. ASSUME NEW n \in Msg PROVE RowSteady(n)
    <3>1. CASE n = m
      BY <1>a, <2>1, <3>1 DEF RowSteady, Row, KeyOf, Claiming
    <3>2. CASE n # m /\ KeyOf(n) = KeyOf(m)
      BY <2>1, <3>2 DEF RowSteady, Linked, Row, KeyOf
    <3>3. CASE KeyOf(n) # KeyOf(m)
      <4>1. KeyOf(n) \in Key /\ ledger'[KeyOf(n)] = ledger[KeyOf(n)]
        BY <1>a, <1>2, <3>3, ReqType
      <4>2. Onward(KeyOf(n))
        BY <1>a, <4>1 DEF Onward, LedgerRow
      <4>3. QED
        BY <4>2, OnwardSteady
    <3>4. QED
      BY <3>1, <3>2, <3>3
  <2>3. QED
    BY <2>2 DEF RowsSteady
<1>3. QED
  BY <1>1, <1>2 DEF Mark

\* The steps of a message that write its row.
LEMMA SettleGrace ==
  ASSUME GraceInv, TypeInv', NEW m \in Msg, CommitTurn(m) \/ Mark(m) \/ Release(m)
  PROVE  Graces'
<1>a. TypeInv /\ InTime(m) /\ UNCHANGED <<recovered, now>>
  BY DEF GraceInv, LogInv, ScopeInv, Graces, Grace, CommitTurn, Mark, Release, ghost
<1>1. RowsSteady
  BY <1>a, SettleSteady, MarkSteady
<1>2. InTime(m)' /\ Steady(m) /\ \A n \in Msg : n # m => Still(n)
  <2>1. CASE UNCHANGED <<pc, mem>>
    BY <1>a, <2>1 DEF InTime, Steady, Still
  <2>2. CASE \/ Leave(m)
             \/ \E label \in {"committed", "marking", "backing", "releasing"} : StopBeat(m, label)
    BY <1>a, <2>2, LeaveSteady
  <2>3. QED
    BY <2>1, <2>2 DEF CommitTurn, Mark, Release
<1>3. QED
  BY <1>a, <1>1, <1>2, MoveGrace

\* Steps of the replicas, the store and the clock.
LEMMA ReplicaGrace ==
  ASSUME GraceInv, TypeInv',
         \/ UNCHANGED vars \/ Tick \/ Reconcile \/ Prune
         \/ \E i \in Instance : SessionStep(i) \/ Drain(i) \/ Teardown(i) \/ Crash(i)
  PROVE  Graces'
<1>a. /\ TypeInv /\ now \in Nat /\ now' \in Nat /\ LeaseTTL \in Nat /\ mem \in [Msg -> TaskMemory]
      /\ pc \in [Msg -> PC]
  BY Clocks DEF GraceInv, LogInv, ScopeInv, TypeInv, TypeOK
<1>0. recovered' = recovered /\ (now' = now \/ now' = now + 1)
  BY DEF vars, Tick, Reconcile, Prune, Drain, Teardown, Crash, SessionStep, OpenSession,
     BuildSession, AdoptWinner, PersistSession, ReloadWinner, RebuildSession, PublishSession,
     AbortSession, OpenDelete, DeleteConversation, Evict, ghost
<1>1. recovered' = recovered /\ now <= now'
  BY <1>a, <1>0
<1>2. RowsSteady
  <2>1. CASE Reconcile \/ Prune
    BY <1>a, <2>1, SettleSteady
  <2>2. CASE ~(Reconcile \/ Prune)
    <3>1. ledger' = ledger
      BY <2>2 DEF vars, Tick, Drain, Teardown, Crash, SessionStep, OpenSession, BuildSession,
         AdoptWinner, PersistSession, ReloadWinner, RebuildSession, PublishSession, AbortSession,
         OpenDelete, DeleteConversation, Evict, store
    <3>2. QED
      BY <1>a, <3>1, SameSteady
  <2>3. QED
    BY <2>1, <2>2
<1>3. ASSUME NEW n \in Msg
      PROVE  /\ mem'[n].sent \in {0, mem[n].sent} /\ mem'[n].deadline \in {0, mem[n].deadline}
             /\ pc'[n] \in {"done", "crashed"} \/ (pc'[n] = pc[n] /\ mem'[n].deadline = mem[n].deadline)
  <2>1. CASE \E i \in Instance : Teardown(i)
    <3>1. pc' = pc /\ (mem'[n] = mem[n] \/ mem'[n] = [mem[n] EXCEPT !.halt = TRUE])
      BY <2>1 DEF Teardown
    <3>2. QED
      BY <1>a, <3>1 DEF TaskMemory
  <2>2. CASE \E i \in Instance : Crash(i)
    <3>1. PICK i \in Instance : Crash(i)
      BY <2>2
    <3>2. CASE InstOf(n) = i
      <4>1. pc'[n] \in {"done", "crashed"} /\ mem'[n] = NoMem
        BY <3>1, <3>2 DEF Crash
      <4>2. QED
        BY <4>1 DEF NoMem
    <3>3. CASE InstOf(n) # i
      BY <3>1, <3>3 DEF Crash
    <3>4. QED
      BY <3>2, <3>3
  <2>3. CASE ~\E i \in Instance : Teardown(i) \/ Crash(i)
    <3>1. pc' = pc /\ mem' = mem
      BY <2>3 DEF vars, Tick, Reconcile, Prune, Drain, SessionStep, OpenSession, BuildSession,
         AdoptWinner, PersistSession, ReloadWinner, RebuildSession, PublishSession, AbortSession,
         OpenDelete, DeleteConversation, Evict
    <3>2. QED
      BY <3>1
  <2>4. QED
    BY <2>1, <2>2, <2>3
<1>4. ASSUME NEW n \in Msg PROVE Grace(n)'
  <2>1. Grace(n) /\ RowSteady(n)
    BY <1>2 DEF GraceInv, Graces, RowsSteady
  <2>2. mem[n].sent \in Nat /\ mem[n].deadline \in Nat
    BY <1>a DEF TaskMemory
  <2>3. InTime(n)'
    BY <1>a, <1>1, <1>3, <2>1, <2>2 DEF Grace, InTime
  <2>4. Steady(n)
    BY <1>3 DEF Steady, Claiming, Unclaimed
  <2>5. QED
    BY <1>a, <1>1, <2>1, <2>3, <2>4, GraceKeeps
<1>5. QED
  BY <1>4 DEF Graces

\* A row that a claim turns into a hazard is past its lease.
LEMMA ClaimFences ==
  ASSUME TypeInv, NEW m \in Msg, Claim(m), NEW k \in Key
  PROVE  Onward(k) \/ (k = KeyOf(m) /\ ClaimNew(m) /\ ledger'[k] = ClaimedRow(m))
<1>a. /\ ledger[k] \in LedgerRow /\ PrunedLedger \in [Key -> LedgerRow] /\ KeyOf(m) \in Key
      /\ now \in Nat
  BY Pruned, ReqType DEF TypeInv, TypeOK
<1>b. PrunedLedger[k] = ledger[k] \/ PrunedLedger[k] = NoRow
  BY SweptRow
<1>c. ledger'[k] = PrunedLedger[k] => Onward(k)
  BY <1>a, <1>b DEF Onward, LedgerRow, NoRow
<1>d. ASSUME InFlight(PrunedLedger[k]), PrunedLedger[k].lease <= now,
             ledger'[k] = Indeterminate(PrunedLedger[k])
      PROVE  Onward(k)
  <2>1. PrunedLedger[k] = ledger[k]
    BY <1>b, <1>d DEF InFlight, NoRow
  <2>2. /\ ledger'[k].msg = ledger[k].msg /\ ledger'[k].st = "indeterminate" /\ ledger'[k].done = now
    BY <1>a, <1>d, <2>1 DEF Indeterminate, LedgerRow
  <2>3. QED
    BY <1>d, <2>1, <2>2 DEF Onward, InFlight
<1>1. CASE ClaimExisting(m)
  <2>1. \/ ledger' = PrunedLedger
        \/ /\ InFlight(PrunedLedger[KeyOf(m)]) /\ PrunedLedger[KeyOf(m)].lease <= now
           /\ ledger' = [PrunedLedger EXCEPT ![KeyOf(m)] = Indeterminate(PrunedLedger[KeyOf(m)])]
    BY <1>1 DEF ClaimExisting
  <2>2. QED
    BY <1>a, <1>c, <1>d, <2>1
<1>2. CASE ClaimStale(m)
  BY <1>c, <1>2 DEF ClaimStale
<1>3. CASE ClaimRefused(m)
  <2>1. k \in Occupants(m) => InFlight(PrunedLedger[k])
    BY DEF Occupants, ScopeRows, InFlight
  <2>2. QED
    BY <1>c, <1>d, <1>3, <2>1 DEF ClaimRefused
<1>4. CASE ClaimNew(m)
  <2>1. CASE k = KeyOf(m)
    BY <1>a, <1>4, <2>1 DEF ClaimNew, ClaimedRow
  <2>2. CASE k # KeyOf(m) /\ k \in Hazards(m)
    <3>1. ledger'[k] = ClearScope(PrunedLedger[k]) /\ PrunedLedger[k].st = "indeterminate"
      BY <1>4, <2>2 DEF ClaimNew, Hazards, ScopeRows
    <3>2. PrunedLedger[k] = ledger[k]
      BY <1>b, <3>1 DEF NoRow
    <3>3. /\ ledger'[k].msg = ledger[k].msg /\ ledger'[k].st = ledger[k].st
          /\ ledger'[k].done = ledger[k].done /\ ledger'[k].lease = ledger[k].lease
      BY <1>a, <3>1, <3>2 DEF ClearScope, LedgerRow
    <3>4. QED
      BY <1>a, <3>3 DEF Onward, LedgerRow
  <2>3. CASE k # KeyOf(m) /\ k \notin Hazards(m)
    BY <1>c, <1>4, <2>3 DEF ClaimNew
  <2>4. QED
    BY <2>1, <2>2, <2>3
<1>5. QED
  BY <1>1, <1>2, <1>3, <1>4 DEF Claim

\* Whom a claim recovers: a message that has claimed, whose row is a hazard that
\* was recorded a lease ago.
LEMMA ClaimRecovers ==
  ASSUME TypeInv, NEW m \in Msg, Claim(m), NEW n \in Msg, n \in recovered', n \notin recovered
  PROVE  /\ ClaimNew(m) /\ KeyOf(n) # KeyOf(m) /\ Linked(n)
         /\ Row(n).st = "indeterminate" /\ Row(n).done + LeaseTTL <= now
         /\ Linked(n)' /\ Row(n)'.st = "indeterminate" /\ Row(n)'.done = Row(n).done
<1>1. ClaimNew(m)
  BY DEF Claim, ClaimExisting, ClaimStale, ClaimRefused
<1>2. PICK k \in Hazards(m) : n = PrunedLedger[k].msg
  BY <1>1 DEF ClaimNew
<1>3. k \in Key /\ k # KeyOf(m) /\ PrunedLedger[k].st = "indeterminate"
  BY <1>2 DEF Hazards, ScopeRows
<1>4. PrunedLedger[k] = ledger[k] /\ ledger[k] \in LedgerRow
  BY <1>3, SweptRow DEF NoRow, TypeInv, TypeOK
<1>5. KeyOf(n) = k
  BY <1>2, <1>3, Pruned
<1>6. PrunedLedger[k].done + LeaseTTL <= now
  BY <1>1, <1>2 DEF ClaimNew, Recoverable
<1>7. ledger'[k] = ClearScope(ledger[k])
  BY <1>1, <1>2, <1>3, <1>4 DEF ClaimNew
<1>8. ledger'[k].msg = n /\ ledger'[k].st = "indeterminate" /\ ledger'[k].done = ledger[k].done
  BY <1>2, <1>3, <1>4, <1>7 DEF ClearScope, LedgerRow
<1>9. QED
  BY <1>1, <1>2, <1>3, <1>4, <1>5, <1>6, <1>8 DEF Linked, Row, KeyOf

\* A claim gives a working message whose hazard it recovers its grace.
LEMMA ClaimGrace ==
  ASSUME GraceInv, TypeInv', NEW m \in Msg, Claim(m)
  PROVE  Graces'
<1>a. /\ TypeInv /\ LogProps /\ Graces /\ now \in Nat /\ LeaseTTL \in Nat /\ now + LeaseTTL \in Nat
      /\ mem \in [Msg -> TaskMemory] /\ pc \in [Msg -> PC] /\ KeyOf(m) \in Key
  BY Clocks, ReqType DEF GraceInv, LogInv, ScopeInv, TypeInv, TypeOK
<1>b. now' = now /\ pc[m] = "gated" /\ recovered \subseteq recovered'
  BY DEF Claim, ClaimExisting, ClaimStale, ClaimRefused, ClaimNew
<1>c. \A n \in Msg : n # m => Still(n)
  BY <1>a DEF Claim, ClaimExisting, ClaimStale, ClaimRefused, ClaimNew, Leave, Goto, Still
<1>1. /\ InTime(m)' /\ pc'[m] \notin Unclaimed
      /\ pc'[m] \in Claiming => ClaimNew(m) /\ mem'[m].deadline <= now + LeaseTTL
  <2>0. InTime(m) /\ mem[m] \in TaskMemory
    BY <1>a DEF Graces, Grace
  <2>1. CASE Leave(m)
    <3>1. pc'[m] = "done" /\ mem'[m] = NoMem
      BY <1>a, <2>1 DEF Leave, Goto
    <3>2. mem'[m].sent = 0 /\ mem'[m].deadline = 0
      BY <3>1 DEF NoMem
    <3>3. QED
      BY <1>a, <1>b, <3>1, <3>2 DEF InTime, Unclaimed, Claiming
  <2>2. CASE ClaimNew(m) /\ Goto(m, "won") /\ mem' = mem
    BY <1>a, <1>b, <2>0, <2>2 DEF Goto, InTime, Unclaimed
  <2>3. CASE Goto(m, "replaying") /\ mem' = [mem EXCEPT ![m].replay = PrunedLedger[KeyOf(m)]]
    <3>1. pc'[m] = "replaying" /\ mem'[m].sent = mem[m].sent /\ mem'[m].deadline = mem[m].deadline
      BY <1>a, <2>0, <2>3 DEF Goto, TaskMemory
    <3>2. QED
      BY <1>b, <2>0, <3>1 DEF InTime, Unclaimed, Claiming
  <2>4. QED
    BY <2>1, <2>2, <2>3 DEF Claim, ClaimExisting, ClaimStale, ClaimRefused, ClaimNew
<1>2. Grace(m)'
  <2>1. m \notin recovered
    BY <1>a, <1>b DEF Graces, Grace, GivenUp, Unclaimed
  <2>2. m \notin recovered'
    BY <1>a, <2>1, ClaimRecovers
  <2>3. CASE pc'[m] \notin Claiming
    BY <1>1, <2>2, <2>3 DEF Grace, Warned, GivenUp, Claiming
  <2>4. CASE pc'[m] \in Claiming
    <3>1. ledger'[KeyOf(m)] = ClaimedRow(m)
      BY <1>a, <1>1, <2>4 DEF ClaimNew, ClaimedRow
    <3>2. ClaimedRow(m).st = "claimed" /\ ClaimedRow(m).lease = now + LeaseTTL
      BY DEF ClaimedRow, NoRow
    <3>3. Row(m)'.st = "claimed" /\ Row(m)'.lease = now + LeaseTTL
      BY <3>1, <3>2 DEF Row, KeyOf
    <3>4. Warned(m)'
      BY <1>1, <2>2, <2>4, <3>3 DEF Warned, Claiming
    <3>5. QED
      BY <1>1, <2>2, <3>4 DEF Grace, GivenUp
  <2>5. QED
    BY <2>3, <2>4
<1>3. ASSUME NEW n \in Msg, n # m PROVE Grace(n)'
  <2>a. /\ Grace(n) /\ Still(n) /\ KeyOf(n) \in Key /\ mem[n].deadline \in Nat
    BY <1>a, <1>c, <1>3, ReqType DEF Graces, TaskMemory
  <2>1. InTime(n)' /\ Steady(n)
    BY <1>b, <2>a DEF Grace, InTime, Still, Steady
  <2>2. RowSteady(n)
    <3>1. CASE Onward(KeyOf(n))
      BY <3>1, OnwardSteady
    <3>2. CASE ledger'[KeyOf(n)] = ClaimedRow(m)
      BY <1>a, <1>3, <3>2, ClaimedRowType DEF RowSteady, Linked, Row, KeyOf
    <3>3. QED
      BY <1>a, <2>a, <3>1, <3>2, ClaimFences
  <2>3. CASE n \in recovered' => n \in recovered
    BY <1>a, <1>b, <2>a, <2>1, <2>2, <2>3, GraceKeeps
  <2>4. CASE n \in recovered' /\ n \notin recovered
    <3>1. /\ Linked(n) /\ Row(n).st = "indeterminate" /\ Row(n).done + LeaseTTL <= now
          /\ Linked(n)' /\ Row(n)'.st = "indeterminate" /\ Row(n)'.done = Row(n).done
      BY <1>a, <2>4, ClaimRecovers
    <3>2. pc[n] \notin Unclaimed
      BY <1>a, <3>1 DEF LogProps, RowsLinked, RowLinked
    <3>3. pc[n] \in Claiming => mem[n].deadline <= Row(n).done
      BY <2>a, <3>1 DEF Grace, Warned
    <3>4. Row(n).done \in Nat
      BY <1>a, <2>a DEF Row, TypeInv, TypeOK, LedgerRow
    <3>5. Warned(n)'
      BY <1>a, <1>b, <2>a, <3>1, <3>3, <3>4 DEF Warned, Still, Claiming
    <3>6. GivenUp(n)'
      BY <2>a, <3>1, <3>2 DEF GivenUp, Still, Unclaimed
    <3>7. QED
      BY <2>1, <3>5, <3>6 DEF Grace
  <2>5. QED
    BY <1>b, <2>3, <2>4
<1>4. QED
  BY <1>2, <1>3 DEF Graces

\* The inductive invariant holds in every behaviour.
LEMMA Gracious == Spec => []GraceInv
<1>1. Init => GraceInv
  <2>1. SUFFICES ASSUME Init PROVE Graces
    BY InitLog DEF GraceInv
  <2>2. /\ now = 0 /\ LeaseTTL \in Nat /\ recovered = {}
        /\ \A m \in Msg : pc[m] = "idle" /\ mem[m].sent = 0 /\ mem[m].deadline = 0
    BY <2>1, ConversationAssumption DEF ConversationAssumption, Init, NoMem
  <2>3. QED
    BY <2>2 DEF Graces, Grace, InTime, Warned, GivenUp, Claiming
<1>2. GraceInv /\ [Next]_vars => GraceInv'
  <2> SUFFICES ASSUME GraceInv, [Next]_vars PROVE GraceInv'
    OBVIOUS
  <2>1. LogInv' /\ TypeInv'
    BY NextLog DEF GraceInv, LogInv, ScopeInv
  <2>2. Graces'
    <3>1. ASSUME NEW m \in Msg, Read(m) \/ Advance(m) \/ Beat(m) \/ Disconnect(m) PROVE Graces'
      BY <2>1, <3>1, LocalGrace, HeartbeatGrace, SettleGrace, ClaimGrace DEF Advance, Beat
    <3>2. CASE \/ UNCHANGED vars \/ Tick \/ Reconcile \/ Prune
               \/ \E i \in Instance : SessionStep(i) \/ Drain(i) \/ Teardown(i) \/ Crash(i)
      BY <2>1, <3>2, ReplicaGrace
    <3>3. QED
      BY <3>1, <3>2 DEF Next
  <2>3. QED
    BY <2>1, <2>2 DEF GraceInv
<1>3. QED
  BY <1>1, <1>2, PTL DEF Spec

\* A worker whose hazard a client recovered has been past its local deadline for a
\* whole lease, whatever heartbeats were lost and however the clocks ran on.
THEOREM GraceHolds == Spec => []RecoveryGrace
<1>1. ASSUME GraceInv PROVE RecoveryGrace
  <2>1. SUFFICES ASSUME NEW m \in recovered, pc[m] \in Beating
                 PROVE  now >= mem[m].deadline + LeaseTTL
    BY DEF RecoveryGrace
  <2>2. m \in Msg /\ now \in Nat /\ LeaseTTL \in Nat /\ mem[m] \in TaskMemory
    BY <1>1, <2>1, Clocks DEF GraceInv, LogInv, ScopeInv, TypeInv, TypeOK
  <2>3. mem[m].deadline + LeaseTTL <= now
    BY <1>1, <2>1, <2>2 DEF GraceInv, Graces, Grace, Warned, Beating, Claiming
  <2>4. QED
    BY <2>2, <2>3 DEF TaskMemory
<1>2. GraceInv => RecoveryGrace
  BY <1>1
<1>3. QED
  BY <1>2, Gracious, PTL

=============================================================================
