-------------------------- MODULE HumanInputProofs --------------------------
(***************************************************************************)
(* The mailbox of human input, proved for every number of replicas,        *)
(* questions and answers and for every key rotation: the first writer      *)
(* wins, the owner can read what was accepted, nothing parks on an expired *)
(* bridge, and a row that outlives its ask has a close to come.            *)
(***************************************************************************)
EXTENDS HumanInput, TLAPS

PCs == {"idle", "registering", "not_durable", "registered", "rejected", "waiting",
        "deciding", "closing", "done"}
Codes == {"none", "not_found", "unavailable", "not_durable", "draining", "queued", "delivered"}
Reply == Req \cup {Nobody}
Label == [question : Ask \cup {"none"}, owner : Replica \cup {"none"},
          purpose : {"none", "question", "answer"}]
Cipher == [fp : Fingerprint \cup {"none"}, aad : Label, payload : Ask \cup Req \cup {"none"}]

\* Where a request that has not come yet points.
AnyAsk == CHOOSE a \in Ask : TRUE

\* The types.
BridgeTypes ==
    /\ ring \in [Replica -> Keyrings]
    /\ run \in {"live", "terminal"} /\ lease \in BOOLEAN /\ expired \in BOOLEAN
    /\ pending \in [Ask -> {"none", "registering", "local", "shared"}]
    /\ chan \in [Ask -> [st : {"open", "sent", "dropped", "closed"}, by : Reply]]
AskTypes ==
    /\ pc \in [Ask -> PCs]
    /\ got \in [Ask -> [kind : {"none", "error", "timeout", "answered"}, by : Reply]]
    /\ sweep \in [Ask -> BOOLEAN]
RowTypes ==
    row \in [Ask -> [state : {"absent", "pending", "answered"}, question : Cipher,
                     answer : Cipher, exp : BOOLEAN]]
ReqTypes ==
    /\ rpc \in [Req -> {"idle", "store", "take", "send", "done"}]
    /\ dest \in [Req -> [at : Replica, ask : Ask \cup {AnyAsk}]]
    /\ out \in [Req -> Codes]
HumanTypes == BridgeTypes /\ AskTypes /\ RowTypes /\ ReqTypes

\* Request r is the accepted answer of question a; a has no accepted answer.
By(r, a) == r \in Req /\ dest[r].ask = a /\ Accepted(r)
Unanswered(a) == \A r \in Req : dest[r].ask = a => ~Accepted(r)

\* A row is sealed by the owner, answered under the key of its question by the
\* accepted request, and pending only while no request is accepted.
RowKnown(a) ==
    /\ row[a].state # "absent" =>
         /\ Durable /\ pc[a] \notin {"idle", "registering"}
         /\ row[a].question = SealQuestion(ring[Owner], a, Owner)
    /\ row[a].state = "answered" =>
         /\ row[a].answer.fp = ring[Owner].active
         /\ row[a].answer.aad = Aad(a, Owner, "answer")
         /\ By(row[a].answer.payload, a)
    /\ row[a].state = "pending" => Unanswered(a)

\* A durable question is never answered over its channel alone, and one that is
\* not durable only over it; what its coroutine holds is the accepted answer.
AskKnown(a) ==
    /\ pc[a] = "registering" => Keyed
    /\ pc[a] = "not_durable" => ~Durable
    /\ pending[a] = "local" => ~Durable
    /\ chan[a].st = "sent" => By(chan[a].by, a)
    /\ got[a].kind = "answered" => By(got[a].by, a)
    /\ Durable /\ pc[a] \in {"idle", "registering"} => Unanswered(a)
    /\ ~Durable /\ chan[a].st = "open" => Unanswered(a)

\* A request is accepted by the transaction of a durable question, before it wakes
\* the coroutine, or by the channel of any other.
ReqKnown(r) ==
    /\ rpc[r] # "idle" => dest[r].ask \in Ask
    /\ rpc[r] \in {"idle", "store"} => out[r] = "none"
    /\ rpc[r] \in {"take", "send"} => out[r] = IF Durable THEN "queued" ELSE "none"

\* No two requests are accepted for one question.
OneAccepted ==
    \A r, s \in Req : dest[r].ask = dest[s].ask /\ Accepted(r) /\ Accepted(s) => r = s

RowsKnown == \A a \in Ask : RowKnown(a)
AsksKnown == \A a \in Ask : AskKnown(a)
ReqsKnown == \A r \in Req : ReqKnown(r)

\* The inductive invariant.
HumanInv ==
    /\ HumanTypes /\ NothingParksAfterExpiry
    /\ RowsKnown /\ AsksKnown /\ ReqsKnown /\ OneAccepted

-----------------------------------------------------------------------------
\* What a step leaves of a question, and of the requests.
SameAsk(b) ==
    /\ row'[b] = row[b] /\ pc'[b] = pc[b] /\ pending'[b] = pending[b]
    /\ chan'[b] = chan[b] /\ got'[b] = got[b]

QuietReq == UNCHANGED <<ring, rpc, dest, out>>

\* A step that leaves the requests alone leaves what is accepted alone.
LEMMA QuietFacts ==
    ASSUME QuietReq, NEW a
    PROVE  /\ Durable' <=> Durable
           /\ Unanswered(a)' <=> Unanswered(a)
           /\ \A r : By(r, a)' <=> By(r, a)
  BY DEF QuietReq, Durable, Unanswered, By, Accepted

\* A question the step does not touch is known as before.
LEMMA SameKnown ==
    ASSUME HumanInv, QuietReq, NEW b \in Ask, SameAsk(b)
    PROVE  RowKnown(b)' /\ AskKnown(b)'
  <1>1. RowKnown(b) /\ AskKnown(b)
    BY DEF HumanInv, RowsKnown, AsksKnown
  <1>2. ring' = ring
    BY DEF QuietReq
  <1> QED
    BY <1>1, <1>2, QuietFacts DEF SameAsk, RowKnown, AskKnown, SealQuestion, Sealed

\* So a step of question a keeps the invariant when it keeps its types, the expiry
\* and what is known of a.
LEMMA OneAsk ==
    ASSUME HumanInv, QuietReq, NEW a \in Ask,
           BridgeTypes', AskTypes', RowTypes', NothingParksAfterExpiry',
           \A b \in Ask \ {a} : SameAsk(b), RowKnown(a)', AskKnown(a)'
    PROVE  HumanInv'
  <1>1. ReqTypes' /\ ReqsKnown' /\ OneAccepted'
    BY DEF HumanInv, HumanTypes, ReqTypes, ReqsKnown, ReqKnown, OneAccepted, Accepted,
           QuietReq, Durable
  <1>2. RowsKnown' /\ AsksKnown'
    BY SameKnown DEF RowsKnown, AsksKnown
  <1> QED
    BY <1>1, <1>2 DEF HumanInv, HumanTypes

\* The results an ask may leave with that name no request.
LEMMA Results ==
    ASSUME HumanInv, NEW a \in Ask
    PROVE  /\ Failed \in [kind : {"none", "error", "timeout", "answered"}, by : Reply]
           /\ TimedOut \in [kind : {"none", "error", "timeout", "answered"}, by : Reply]
           /\ Failed.kind # "answered" /\ TimedOut.kind # "answered"
           /\ got[a] \in [kind : {"none", "error", "timeout", "answered"}, by : Reply]
  BY DEF HumanInv, HumanTypes, AskTypes, Failed, TimedOut, Reply

\* An ask that leaves with a known result keeps the invariant.
LEMMA LeaveKeeps ==
    ASSUME HumanInv, NEW a \in Ask, NEW res, NEW armed \in BOOLEAN,
           res \in [kind : {"none", "error", "timeout", "answered"}, by : Reply],
           res.kind = "answered" => By(res.by, a),
           Leave(a, res, armed), UNCHANGED <<ring, run, lease, expired, rpc, dest, out>>,
           row' = row \/ row' = [row EXCEPT ![a] = NoRow]
    PROVE  HumanInv'
  <1> USE DEF Leave
  <1>1. BridgeTypes'
    BY DEF HumanInv, HumanTypes, BridgeTypes
  <1>2. AskTypes'
    BY DEF HumanInv, HumanTypes, AskTypes, PCs
  <1>3. NoRow \in [state : {"absent", "pending", "answered"}, question : Cipher,
                   answer : Cipher, exp : BOOLEAN]
    BY DEF NoRow, NoCipher, Sealed, Aad, Cipher, Label
  <1>4. RowTypes'
    BY <1>3 DEF HumanInv, HumanTypes, RowTypes
  <1>5. NothingParksAfterExpiry'
    BY DEF HumanInv, HumanTypes, BridgeTypes, NothingParksAfterExpiry
  <1>6. \A b \in Ask \ {a} : SameAsk(b)
    BY DEF HumanInv, HumanTypes, BridgeTypes, AskTypes, RowTypes, SameAsk
  <1>7. QuietReq
    BY DEF QuietReq
  <1>8. /\ pc'[a] = "done" /\ got'[a] = res /\ pending'[a] = "none" /\ chan'[a].st = "closed"
        /\ row'[a] = row[a] \/ row'[a].state = "absent"
    BY DEF HumanInv, HumanTypes, BridgeTypes, AskTypes, RowTypes, NoRow
  <1>9. RowKnown(a) /\ AskKnown(a)
    BY DEF HumanInv, RowsKnown, AsksKnown
  <1>10. RowKnown(a)'
    BY <1>7, <1>8, <1>9, QuietFacts DEF RowKnown, QuietReq, SealQuestion, Sealed
  <1>11. AskKnown(a)'
    BY <1>7, <1>8, <1>9, QuietFacts DEF AskKnown
  <1> QED
    BY <1>1, <1>2, <1>4, <1>5, <1>6, <1>7, <1>10, <1>11, OneAsk

\* So does one whose wait is over.
LEMMA SettleKeeps ==
    ASSUME HumanInv, NEW a \in Ask, NEW res,
           res \in [kind : {"none", "error", "timeout", "answered"}, by : Reply],
           res.kind = "answered" => By(res.by, a), pc[a] \notin {"idle", "registering"},
           Settle(a, res), UNCHANGED <<ring, run, lease, expired, row, rpc, dest, out>>
    PROVE  HumanInv'
  <1> USE DEF Settle
  <1>1. BridgeTypes'
    BY DEF HumanInv, HumanTypes, BridgeTypes
  <1>2. AskTypes'
    BY DEF HumanInv, HumanTypes, AskTypes, PCs
  <1>3. RowTypes' /\ NothingParksAfterExpiry'
    BY DEF HumanInv, HumanTypes, RowTypes, NothingParksAfterExpiry
  <1>4. \A b \in Ask \ {a} : SameAsk(b)
    BY DEF HumanInv, HumanTypes, BridgeTypes, AskTypes, SameAsk
  <1>5. QuietReq
    BY DEF QuietReq
  <1>6. /\ pc'[a] = "closing" /\ got'[a] = res /\ pending'[a] = pending[a]
        /\ chan'[a].st = "closed" /\ row'[a] = row[a]
    BY DEF HumanInv, HumanTypes, BridgeTypes, AskTypes
  <1>7. RowKnown(a) /\ AskKnown(a)
    BY DEF HumanInv, RowsKnown, AsksKnown
  <1>8. RowKnown(a)'
    BY <1>5, <1>6, <1>7, QuietFacts DEF RowKnown, QuietReq, SealQuestion, Sealed
  <1>9. AskKnown(a)'
    BY <1>5, <1>6, <1>7, QuietFacts DEF AskKnown
  <1> QED
    BY <1>1, <1>2, <1>3, <1>4, <1>5, <1>8, <1>9, OneAsk

-----------------------------------------------------------------------------
\* The steps of an ask.

\* Register: the question comes on the bridge, and is not durable without a key.
LEMMA RegisterKeeps ==
    ASSUME HumanInputAssumption, HumanInv, NEW a \in Ask, Register(a)
    PROVE  HumanInv'
  <1> USE DEF Register, fence, request, bridge, asker
  <1>1. BridgeTypes' /\ AskTypes' /\ RowTypes'
    BY DEF HumanInv, HumanTypes, BridgeTypes, AskTypes, RowTypes, PCs
  <1>2. NothingParksAfterExpiry'
    BY DEF Refuses, NothingParksAfterExpiry
  <1>3. QuietReq /\ \A b \in Ask \ {a} : SameAsk(b)
    BY DEF HumanInv, HumanTypes, BridgeTypes, AskTypes, SameAsk, QuietReq
  <1>4. /\ pc'[a] = IF Keyed THEN "registering" ELSE "waiting"
        /\ pending'[a] = IF Keyed THEN "registering" ELSE "local"
        /\ row'[a] = row[a] /\ chan'[a] = chan[a] /\ got'[a] = got[a]
    BY DEF HumanInv, HumanTypes, BridgeTypes, AskTypes
  <1>5. RowKnown(a) /\ AskKnown(a)
    BY DEF HumanInv, RowsKnown, AsksKnown
  <1>6. RowKnown(a)'
    BY <1>3, <1>4, <1>5, QuietFacts DEF RowKnown, QuietReq
  <1>7. AskKnown(a)'
    BY <1>3, <1>4, <1>5, QuietFacts DEF AskKnown, Durable
  <1> QED
    BY <1>1, <1>2, <1>3, <1>6, <1>7, OneAsk

\* RegisterHumanInput: a fresh row is sealed by the owner and has no answer.
LEMMA RegisterHumanInputKeeps ==
    ASSUME HumanInputAssumption, HumanInv, NEW a \in Ask, RegisterHumanInput(a)
    PROVE  HumanInv'
  <1> USE DEF RegisterHumanInput, fence, request, bridge
  <1> DEFINE fresh == [NoRow EXCEPT !.state = "pending",
                                    !.question = SealQuestion(ring[Owner], a, Owner)]
  <1>0. Owner \in Replica /\ ring[Owner] \in Keyrings
    BY DEF HumanInputAssumption, HumanInv, HumanTypes, BridgeTypes
  <1>1. ring[Owner] # NoKeyring => ring[Owner].active \in Fingerprint
    BY <1>0 DEF Keyrings
  <1>2. ring[Owner] # NoKeyring =>
            fresh \in [state : {"absent", "pending", "answered"}, question : Cipher,
                       answer : Cipher, exp : BOOLEAN]
    BY <1>0, <1>1 DEF NoRow, NoCipher, SealQuestion, Sealed, Aad, Cipher, Label
  <1>3. BridgeTypes' /\ AskTypes' /\ NothingParksAfterExpiry'
    BY DEF HumanInv, HumanTypes, BridgeTypes, AskTypes, PCs, NothingParksAfterExpiry
  <1>4. RowTypes'
    BY <1>2 DEF HumanInv, HumanTypes, RowTypes
  <1>5. QuietReq /\ \A b \in Ask \ {a} : SameAsk(b)
    BY DEF HumanInv, HumanTypes, AskTypes, RowTypes, SameAsk, QuietReq
  <1>6. RowKnown(a) /\ AskKnown(a)
    BY DEF HumanInv, RowsKnown, AsksKnown
  <1>7. /\ pc'[a] \in {"not_durable", "registered", "rejected"}
        /\ pc'[a] = "not_durable" => ~Durable
        /\ pending'[a] = pending[a] /\ chan'[a] = chan[a] /\ got'[a] = got[a]
    BY <1>6 DEF HumanInv, HumanTypes, AskTypes, PCs, Durable
  <1>8. \/ row'[a] = row[a]
        \/ /\ ring[Owner] # NoKeyring /\ row'[a].state = "pending"
           /\ row'[a].question = SealQuestion(ring[Owner], a, Owner)
    BY DEF HumanInv, HumanTypes, RowTypes, NoRow
  <1>9. row[a].state = "absent"
    BY <1>6 DEF RowKnown, HumanInv, HumanTypes, RowTypes
  <1>10. ring[Owner] # NoKeyring => Durable /\ Unanswered(a)
    BY <1>6 DEF AskKnown, Durable
  <1>11. RowKnown(a)'
    BY <1>5, <1>6, <1>7, <1>8, <1>9, <1>10, QuietFacts
       DEF RowKnown, QuietReq, SealQuestion, Sealed
  <1>12. AskKnown(a)'
    BY <1>5, <1>6, <1>7, QuietFacts DEF AskKnown
  <1> QED
    BY <1>3, <1>4, <1>5, <1>11, <1>12, OneAsk

\* ChooseTransport: a question becomes local only when it has no row.
LEMMA ChooseTransportKeeps ==
    ASSUME HumanInputAssumption, HumanInv, NEW a \in Ask, ChooseTransport(a)
    PROVE  HumanInv'
  <1> USE DEF ChooseTransport, fence, request
  <1>1. CASE Leave(a, Failed, Durable)
    <2>1. Durable \in BOOLEAN
      BY DEF Durable, HumanInputAssumption
    <2> QED
      BY <1>1, <2>1, Results, LeaveKeeps
  <1>2. CASE /\ pc[a] # "rejected" /\ pending[a] # "none"
             /\ pending' = [pending EXCEPT ![a] =
                               IF pc[a] = "registered" THEN "shared" ELSE "local"]
             /\ pc' = [pc EXCEPT ![a] = "waiting"]
             /\ UNCHANGED <<chan, got, sweep>>
    <2>1. BridgeTypes' /\ AskTypes' /\ RowTypes'
      BY <1>2 DEF HumanInv, HumanTypes, BridgeTypes, AskTypes, RowTypes, PCs
    <2>2. NothingParksAfterExpiry'
      BY <1>2 DEF HumanInv, NothingParksAfterExpiry
    <2>3. QuietReq /\ \A b \in Ask \ {a} : SameAsk(b)
      BY <1>2 DEF HumanInv, HumanTypes, BridgeTypes, AskTypes, SameAsk, QuietReq
    <2>4. /\ pc'[a] = "waiting"
          /\ pending'[a] = IF pc[a] = "registered" THEN "shared" ELSE "local"
          /\ row'[a] = row[a] /\ chan'[a] = chan[a] /\ got'[a] = got[a]
      BY <1>2 DEF HumanInv, HumanTypes, BridgeTypes, AskTypes
    <2>5. RowKnown(a) /\ AskKnown(a)
      BY DEF HumanInv, RowsKnown, AsksKnown
    <2>6. RowKnown(a)'
      BY <2>3, <2>4, <2>5, QuietFacts DEF RowKnown, QuietReq, SealQuestion, Sealed
    <2>7. AskKnown(a)'
      BY <1>2, <2>3, <2>4, <2>5, QuietFacts DEF AskKnown
    <2> QED
      BY <2>1, <2>2, <2>3, <2>6, <2>7, OneAsk
  <1> QED
    BY <1>1, <1>2

\* Receive: the channel holds the accepted answer.
LEMMA ReceiveKeeps ==
    ASSUME HumanInputAssumption, HumanInv, NEW a \in Ask, Receive(a)
    PROVE  HumanInv'
  <1> USE DEF Receive, fence, request
  <1> DEFINE res == [kind |-> "answered", by |-> chan[a].by]
  <1>1. CASE chan[a].st = "sent" /\ Settle(a, res)
    <2>1. By(res.by, a)
      BY <1>1 DEF HumanInv, AsksKnown, AskKnown
    <2>2. res \in [kind : {"none", "error", "timeout", "answered"}, by : Reply]
      BY <2>1 DEF By, Reply
    <2> HIDE DEF res
    <2> QED
      BY <1>1, <2>1, <2>2, SettleKeeps
  <1>2. CASE Settle(a, TimedOut)
    BY <1>2, Results, SettleKeeps
  <1> QED
    BY <1>1, <1>2

\* PollHumanInput: the row holds the accepted answer.
LEMMA PollKeeps ==
    ASSUME HumanInputAssumption, HumanInv, NEW a \in Ask, PollHumanInput(a)
    PROVE  HumanInv'
  <1> USE DEF PollHumanInput, fence, request
  <1> DEFINE res == [kind |-> "answered", by |-> row[a].answer.payload]
  <1>1. CASE Settle(a, res)
    <2>1. By(res.by, a)
      BY <1>1 DEF HumanInv, RowsKnown, RowKnown
    <2>2. res \in [kind : {"none", "error", "timeout", "answered"}, by : Reply]
      BY <2>1 DEF By, Reply
    <2> HIDE DEF res
    <2> QED
      BY <1>1, <2>1, <2>2, SettleKeeps
  <1>2. CASE Settle(a, Failed)
    BY <1>2, Results, SettleKeeps
  <1> QED
    BY <1>1, <1>2

\* A step that only moves a waiting coroutine, its sweep or the age of its row.
LEMMA MoveKeeps ==
    ASSUME HumanInv, NEW a \in Ask,
           UNCHANGED <<ring, run, lease, expired, pending, chan, got, rpc, dest, out>>,
           AskTypes', RowTypes',
           \A b \in Ask \ {a} : pc'[b] = pc[b] /\ row'[b] = row[b],
           pc'[a] \in {"idle", "registering", "not_durable"} => pc'[a] = pc[a],
           pc[a] \in {"idle", "registering"} => pc'[a] = pc[a],
           \/ row'[a].state = "absent"
           \/ /\ row'[a].state = row[a].state /\ row'[a].question = row[a].question
              /\ row'[a].answer = row[a].answer
    PROVE  HumanInv'
  <1>1. BridgeTypes' /\ NothingParksAfterExpiry'
    BY DEF HumanInv, HumanTypes, BridgeTypes, NothingParksAfterExpiry
  <1>2. QuietReq /\ \A b \in Ask \ {a} : SameAsk(b)
    BY DEF SameAsk, QuietReq
  <1>3. RowKnown(a) /\ AskKnown(a)
    BY DEF HumanInv, RowsKnown, AsksKnown
  <1>4. RowKnown(a)'
    BY <1>2, <1>3, QuietFacts DEF RowKnown, QuietReq, SealQuestion, Sealed
  <1>5. AskKnown(a)'
    BY <1>2, <1>3, QuietFacts DEF AskKnown
  <1> QED
    BY <1>1, <1>2, <1>4, <1>5, OneAsk

\* FindEmpty and Deadline.
LEMMA DeadlineKeeps ==
    ASSUME HumanInputAssumption, HumanInv, NEW a \in Ask, FindEmpty(a) \/ Deadline(a)
    PROVE  HumanInv'
  <1> USE DEF fence, request, bridge
  <1>1. CASE FindEmpty(a)
    <2> USE <1>1 DEF FindEmpty
    <2>1. AskTypes' /\ RowTypes'
      BY DEF HumanInv, HumanTypes, AskTypes, RowTypes, PCs
    <2>2. pc'[a] = "deciding" /\ \A b \in Ask \ {a} : pc'[b] = pc[b]
      BY DEF HumanInv, HumanTypes, AskTypes
    <2> QED
      BY <2>1, <2>2, MoveKeeps
  <1>2. CASE Deadline(a)
    <2> USE <1>2 DEF Deadline
    <2>1. CASE Settle(a, TimedOut)
      BY <2>1, Results, SettleKeeps
    <2>2. CASE pc' = [pc EXCEPT ![a] = "waiting"] /\ UNCHANGED <<pending, chan, got, sweep>>
      <3>1. AskTypes' /\ RowTypes'
        BY <2>2 DEF HumanInv, HumanTypes, AskTypes, RowTypes, PCs
      <3>2. pc'[a] = "waiting" /\ \A b \in Ask \ {a} : pc'[b] = pc[b]
        BY <2>2 DEF HumanInv, HumanTypes, AskTypes
      <3> QED
        BY <2>2, <3>1, <3>2, MoveKeeps
    <2> QED
      BY <2>1, <2>2
  <1> QED
    BY <1>1, <1>2

\* The steps that end an ask: RegisterRefused, CloseHumanInput and Cancel.
LEMMA EndKeeps ==
    ASSUME HumanInputAssumption, HumanInv, NEW a \in Ask,
           RegisterRefused(a) \/ CloseHumanInput(a) \/ Cancel(a)
    PROVE  HumanInv'
  <1> USE DEF fence, request
  <1>0. Durable \in BOOLEAN /\ TRUE \in BOOLEAN /\ FALSE \in BOOLEAN
    BY DEF Durable, HumanInputAssumption
  <1>1. CASE RegisterRefused(a)
    BY <1>0, <1>1, Results, LeaveKeeps DEF RegisterRefused
  <1>2. CASE CloseHumanInput(a)
    <2>1. got[a].kind = "answered" => By(got[a].by, a)
      BY DEF HumanInv, AsksKnown, AskKnown
    <2>2. CASE Leave(a, got[a], FALSE) /\ row' = [row EXCEPT ![a] = NoRow]
      BY <1>0, <1>2, <2>1, <2>2, Results, LeaveKeeps DEF CloseHumanInput
    <2>3. CASE Leave(a, got[a], TRUE) /\ UNCHANGED row
      BY <1>0, <1>2, <2>1, <2>3, Results, LeaveKeeps DEF CloseHumanInput
    <2> QED
      BY <1>2, <2>2, <2>3 DEF CloseHumanInput
  <1>3. CASE Cancel(a)
    BY <1>0, <1>3, Results, LeaveKeeps DEF Cancel
  <1> QED
    BY <1>1, <1>2, <1>3

\* DetachedClose and RowExpires: rows go or age.
LEMMA RowKeeps ==
    ASSUME HumanInputAssumption, HumanInv, NEW a \in Ask, DetachedClose(a) \/ RowExpires(a)
    PROVE  HumanInv'
  <1> USE DEF fence, request, bridge, asker
  <1>1. NoRow \in [state : {"absent", "pending", "answered"}, question : Cipher,
                   answer : Cipher, exp : BOOLEAN]
    BY DEF NoRow, NoCipher, Sealed, Aad, Cipher, Label
  <1>2. CASE DetachedClose(a)
    <2>0. row' = row \/ row' = [row EXCEPT ![a] = NoRow]
      BY <1>2 DEF DetachedClose
    <2>1. AskTypes'
      BY <1>2 DEF DetachedClose, HumanInv, HumanTypes, AskTypes
    <2>2. RowTypes'
      BY <1>1, <2>0 DEF HumanInv, HumanTypes, RowTypes
    <2>3. \A b \in Ask \ {a} : row'[b] = row[b]
      BY <2>0 DEF HumanInv, HumanTypes, RowTypes
    <2>4. row'[a] = row[a] \/ row'[a].state = "absent"
      BY <2>0 DEF HumanInv, HumanTypes, RowTypes, NoRow
    <2> QED
      BY <1>2, <2>1, <2>2, <2>3, <2>4, MoveKeeps DEF DetachedClose
  <1>3. CASE RowExpires(a)
    <2>0. AskTypes'
      BY <1>3 DEF RowExpires, HumanInv, HumanTypes, AskTypes
    <2>1. RowTypes'
      BY <1>3 DEF RowExpires, HumanInv, HumanTypes, RowTypes
    <2>2. \A b \in Ask \ {a} : row'[b] = row[b]
      BY <1>3 DEF RowExpires, HumanInv, HumanTypes, RowTypes
    <2>3. /\ row'[a].state = row[a].state /\ row'[a].question = row[a].question
          /\ row'[a].answer = row[a].answer
      BY <1>3 DEF RowExpires, HumanInv, HumanTypes, RowTypes
    <2> QED
      BY <1>3, <2>0, <2>1, <2>2, <2>3, MoveKeeps DEF RowExpires
  <1> QED
    BY <1>2, <1>3

\* Every step of an ask keeps the invariant.
LEMMA AskKeeps ==
    ASSUME HumanInputAssumption, HumanInv, NEW a \in Ask,
           AskStep(a) \/ Cancel(a) \/ RowExpires(a)
    PROVE  HumanInv'
  BY RegisterKeeps, RegisterHumanInputKeeps, ChooseTransportKeeps, ReceiveKeeps, PollKeeps,
     DeadlineKeeps, EndKeeps, RowKeeps DEF AskStep

-----------------------------------------------------------------------------
\* The steps of a request, and of the run and the store around them.

\* No request becomes accepted, and an accepted one stays with its question.
Calm ==
    /\ ring'[Owner] = ring[Owner]
    /\ \A r \in Req : /\ Accepted(r)' <=> Accepted(r)
                      /\ Accepted(r) => dest'[r].ask = dest[r].ask

\* What is left of a question fades, or its channel carries the accepted answer.
Fades(b) ==
    /\ row'[b] = row[b] \/ row'[b].state = "absent"
    /\ pending'[b] = pending[b] \/ pending'[b] = "none"
    /\ \/ chan'[b] = chan[b] \/ chan'[b].st \notin {"open", "sent"}
       \/ chan'[b].st = "sent" /\ By(chan'[b].by, b)

\* A calm step leaves what is accepted alone.
LEMMA CalmFacts ==
    ASSUME Calm, NEW a
    PROVE  /\ Durable' <=> Durable
           /\ Unanswered(a)' <=> Unanswered(a)
           /\ \A r : By(r, a)' <=> By(r, a)
  BY DEF Calm, Durable, Unanswered, By

\* A calm step in which every question fades keeps what is known of them.
LEMMA CalmKeeps ==
    ASSUME HumanInv, Calm, UNCHANGED <<pc, got>>, HumanTypes', ReqsKnown',
           NothingParksAfterExpiry', \A b \in Ask : Fades(b)
    PROVE  HumanInv'
  <1>1. RowsKnown'
    <2> SUFFICES ASSUME NEW b \in Ask PROVE RowKnown(b)'
      BY DEF RowsKnown
    <2>1. RowKnown(b) /\ Fades(b)
      BY DEF HumanInv, RowsKnown
    <2> QED
      BY <2>1, CalmFacts DEF Calm, Fades, RowKnown, SealQuestion, Sealed
  <1>2. AsksKnown'
    <2> SUFFICES ASSUME NEW b \in Ask PROVE AskKnown(b)'
      BY DEF AsksKnown
    <2>1. AskKnown(b) /\ Fades(b)
      BY DEF HumanInv, AsksKnown
    <2> QED
      BY <2>1, CalmFacts DEF Fades, AskKnown
  <1>3. OneAccepted'
    BY DEF HumanInv, OneAccepted, Calm
  <1> QED
    BY <1>1, <1>2, <1>3 DEF HumanInv

\* A step of request r that accepts nothing new: what remains to be shown of it.
LEMMA OneReq ==
    ASSUME HumanInv, NEW r \in Req, UNCHANGED <<ring, run, lease, expired, pc, got, sweep>>,
           \A s \in Req \ {r} : rpc'[s] = rpc[s] /\ dest'[s] = dest[s] /\ out'[s] = out[s],
           Accepted(r)' <=> Accepted(r), Accepted(r) => dest'[r].ask = dest[r].ask,
           BridgeTypes', RowTypes', ReqTypes', ReqKnown(r)',
           \A b \in Ask : Fades(b)
    PROVE  HumanInv'
  <1>1. Calm
    BY DEF Calm, Accepted
  <1>2. HumanTypes'
    BY DEF HumanInv, HumanTypes, AskTypes
  <1>3. ReqsKnown'
    BY DEF HumanInv, ReqsKnown, ReqKnown, Durable
  <1>4. NothingParksAfterExpiry'
    BY DEF HumanInv, NothingParksAfterExpiry, Fades
  <1> QED
    BY <1>1, <1>2, <1>3, <1>4, CalmKeeps

\* A step of request r that makes it the first accepted answer of question a.
LEMMA FirstReq ==
    ASSUME HumanInv, NEW r \in Req, NEW a \in Ask, dest[r].ask = a, Unanswered(a),
           UNCHANGED <<ring, run, lease, expired, pending, pc, got, sweep, dest>>,
           pc[a] \notin {"idle", "registering"} \/ ~Durable,
           \A s \in Req \ {r} : rpc'[s] = rpc[s] /\ out'[s] = out[s],
           Accepted(r)',
           BridgeTypes', RowTypes', ReqTypes', ReqKnown(r)',
           \A b \in Ask \ {a} : row'[b] = row[b] /\ chan'[b] = chan[b],
           RowKnown(a)',
           \/ chan'[a] = chan[a] /\ Durable
           \/ chan'[a].st = "sent" /\ chan'[a].by = r
    PROVE  HumanInv'
  <1>1. HumanTypes' /\ NothingParksAfterExpiry'
    BY DEF HumanInv, HumanTypes, AskTypes, NothingParksAfterExpiry
  <1>2. ReqsKnown'
    BY DEF HumanInv, ReqsKnown, ReqKnown, Durable
  <1>3. OneAccepted'
    BY DEF HumanInv, OneAccepted, Accepted, Unanswered
  <1>4. ASSUME NEW b \in Ask, b # a
        PROVE  /\ Durable' <=> Durable
               /\ Unanswered(b)' <=> Unanswered(b)
               /\ \A s : By(s, b)' <=> By(s, b)
    BY <1>4 DEF Durable, Unanswered, By, Accepted
  <1>5. RowsKnown'
    <2> SUFFICES ASSUME NEW b \in Ask, b # a PROVE RowKnown(b)'
      BY DEF RowsKnown
    <2>1. RowKnown(b)
      BY DEF HumanInv, RowsKnown
    <2> QED
      BY <1>4, <2>1 DEF RowKnown, SealQuestion, Sealed
  <1>6. AsksKnown'
    <2> SUFFICES ASSUME NEW b \in Ask PROVE AskKnown(b)'
      BY DEF AsksKnown
    <2>1. AskKnown(b)
      BY DEF HumanInv, AsksKnown
    <2>2. CASE b # a
      BY <1>4, <2>1, <2>2 DEF AskKnown
    <2>3. CASE b = a
      <3>1. By(r, a)' /\ (Durable' <=> Durable)
        BY DEF By, Durable
      <3>2. chan[a].st # "sent" /\ got[a].kind # "answered"
        BY <2>1, <2>3 DEF AskKnown, By, Unanswered
      <3> QED
        BY <2>1, <2>3, <3>1, <3>2 DEF AskKnown
    <2> QED
      BY <2>2, <2>3
  <1> QED
    BY <1>1, <1>2, <1>3, <1>5, <1>6 DEF HumanInv

\* Post: a request that comes has not been accepted.
LEMMA PostKeeps ==
    ASSUME HumanInputAssumption, HumanInv, NEW r \in Req, NEW i \in Replica, NEW a \in Ask,
           Post(r, i, a)
    PROVE  HumanInv'
  <1> USE DEF Post, fence, bridge, asker
  <1>1. ReqKnown(r) /\ AskKnown(a)
    BY DEF HumanInv, ReqsKnown, AsksKnown
  <1>2. out[r] = "none"
    BY <1>1 DEF ReqKnown
  <1>3. \/ rpc' = [rpc EXCEPT ![r] = "done"] /\ out' = [out EXCEPT ![r] = "not_found"]
        \/ rpc' = [rpc EXCEPT ![r] = "done"] /\ out' = [out EXCEPT ![r] = "unavailable"]
        \/ rpc' = [rpc EXCEPT ![r] = "take"] /\ out' = out /\ pending[a] = "local"
        \/ rpc' = [rpc EXCEPT ![r] = "store"] /\ out' = out
    BY DEF Respond
  <1>4. ReqTypes'
    BY <1>3 DEF HumanInv, HumanTypes, ReqTypes, Codes
  <1>5. \A s \in Req \ {r} : rpc'[s] = rpc[s] /\ dest'[s] = dest[s] /\ out'[s] = out[s]
    BY <1>3 DEF HumanInv, HumanTypes, ReqTypes
  <1>6. /\ dest'[r].ask = a /\ out'[r] \in {"none", "not_found", "unavailable"}
        /\ rpc'[r] \in {"take", "store", "done"}
        /\ rpc'[r] \in {"take", "store"} => out'[r] = "none"
        /\ rpc'[r] = "take" => pending[a] = "local"
    BY <1>2, <1>3 DEF HumanInv, HumanTypes, ReqTypes
  <1>7. ReqKnown(r)'
    BY <1>1, <1>6 DEF ReqKnown, AskKnown, Durable
  <1>8. ~Accepted(r) /\ ~Accepted(r)'
    BY <1>2, <1>6 DEF Accepted
  <1>9. BridgeTypes' /\ RowTypes' /\ \A b \in Ask : Fades(b)
    BY DEF HumanInv, HumanTypes, BridgeTypes, RowTypes, Fades
  <1> QED
    BY <1>4, <1>5, <1>7, <1>8, <1>9, OneReq

\* A request that ends without having been accepted, and may remove a stale row.
LEMMA RefusedKeeps ==
    ASSUME HumanInv, NEW r \in Req, NEW code,
           code \in {"not_found", "unavailable", "not_durable", "draining"},
           rpc[r] = "store", Respond(r, code),
           UNCHANGED <<ring, run, lease, bridge, asker, dest>>,
           row' = row \/ row' = [row EXCEPT ![dest[r].ask] = NoRow]
    PROVE  HumanInv'
  <1> USE DEF Respond, bridge, asker
  <1>1. ReqKnown(r) /\ dest[r].ask \in Ask
    BY DEF HumanInv, ReqsKnown, ReqKnown
  <1>2. ReqTypes'
    BY DEF HumanInv, HumanTypes, ReqTypes, Codes
  <1>3. rpc'[r] = "done" /\ out'[r] = code
    BY DEF HumanInv, HumanTypes, ReqTypes
  <1>4. \A s \in Req \ {r} : rpc'[s] = rpc[s] /\ dest'[s] = dest[s] /\ out'[s] = out[s]
    BY DEF HumanInv, HumanTypes, ReqTypes
  <1>5. ReqKnown(r)' /\ ~Accepted(r) /\ ~Accepted(r)'
    BY <1>1, <1>3 DEF ReqKnown, Accepted
  <1>6. NoRow \in [state : {"absent", "pending", "answered"}, question : Cipher,
                   answer : Cipher, exp : BOOLEAN]
    BY DEF NoRow, NoCipher, Sealed, Aad, Cipher, Label
  <1>7. BridgeTypes' /\ RowTypes'
    BY <1>1, <1>6 DEF HumanInv, HumanTypes, BridgeTypes, RowTypes
  <1>8. \A b \in Ask : row'[b] = row[b] \/ row'[b] = NoRow
    BY <1>1 DEF HumanInv, HumanTypes, RowTypes
  <1>9. \A b \in Ask : Fades(b)
    BY <1>8 DEF Fades, NoRow
  <1> QED
    BY <1>2, <1>4, <1>5, <1>7, <1>9, OneReq

\* AnswerHumanInput: the row of an accepted answer was pending, so no other was.
LEMMA AnswerKeeps ==
    ASSUME HumanInputAssumption, HumanInv, NEW r \in Req, AnswerHumanInput(r)
    PROVE  HumanInv'
  <1> DEFINE a == dest[r].ask
             i == dest[r].at
             sealed == SealAnswer(ring[i], row[a].question.fp, a, Owner, r)
  <1> USE DEF fence
  <1>1. rpc[r] = "store" /\ UNCHANGED <<ring, run, lease, bridge, asker, dest>>
    BY DEF AnswerHumanInput
  <1>2. CASE /\ StillPending(a)
             /\ row' = [row EXCEPT ![a].state = "answered", ![a].answer = sealed]
             /\ out' = [out EXCEPT ![r] = "queued"]
             /\ rpc' = [rpc EXCEPT ![r] = IF i = Owner THEN "take" ELSE "done"]
    <2> USE <1>1, <1>2 DEF bridge, asker
    <2>1. a \in Ask
      BY DEF HumanInv, ReqsKnown, ReqKnown
    <2>2. RowKnown(a) /\ row[a].state = "pending"
      BY <2>1 DEF HumanInv, RowsKnown, StillPending
    <2>3. /\ Durable /\ pc[a] \notin {"idle", "registering"} /\ Unanswered(a)
          /\ row[a].question = SealQuestion(ring[Owner], a, Owner)
      BY <2>2 DEF RowKnown
    <2>4. /\ sealed.fp = ring[Owner].active /\ sealed.aad = Aad(a, Owner, "answer")
          /\ sealed.payload = r
      BY <2>3 DEF SealAnswer, SealQuestion, Sealed
    <2>5. ring[Owner].active \in Fingerprint /\ Owner \in Replica
      BY <2>3 DEF HumanInputAssumption, HumanInv, HumanTypes, BridgeTypes, Keyrings, Durable
    <2>6. sealed \in Cipher
      <3>1. row[a].question.fp \in Fingerprint
        BY <2>3, <2>5 DEF SealQuestion, Sealed
      <3> QED
        BY <2>1, <2>5, <3>1 DEF SealAnswer, Sealed, Aad, Cipher, Label
    <2> HIDE DEF sealed
    <2>7. RowTypes'
      BY <2>1, <2>6 DEF HumanInv, HumanTypes, RowTypes
    <2>8. /\ \A b \in Ask \ {a} : row'[b] = row[b]
          /\ row'[a].state = "answered" /\ row'[a].answer = sealed
          /\ row'[a].question = row[a].question
      BY <2>1 DEF HumanInv, HumanTypes, RowTypes
    <2>9. BridgeTypes' /\ ReqTypes'
      BY DEF HumanInv, HumanTypes, BridgeTypes, ReqTypes, Codes
    <2>10. /\ rpc'[r] \in {"take", "done"} /\ out'[r] = "queued"
           /\ \A s \in Req \ {r} : rpc'[s] = rpc[s] /\ out'[s] = out[s]
      BY DEF HumanInv, HumanTypes, ReqTypes
    <2>11. ReqKnown(r)' /\ Accepted(r)' /\ By(r, a)'
      BY <2>1, <2>3, <2>10 DEF ReqKnown, Accepted, By, Durable
    <2>12. RowKnown(a)'
      BY <2>3, <2>4, <2>8, <2>11 DEF RowKnown, Durable, SealQuestion, Sealed
    <2> QED
      BY <2>1, <2>3, <2>7, <2>8, <2>9, <2>10, <2>11, <2>12, FirstReq
  <1>3. CASE /\ \E code \in {"not_found", "unavailable", "not_durable", "draining"} :
                    Respond(r, code)
             /\ row' = row \/ row' = [row EXCEPT ![a] = NoRow]
    BY <1>1, <1>3, RefusedKeeps
  <1> QED
    BY <1>2, <1>3 DEF AnswerHumanInput

\* Take: the question leaves the bridge, and the answer is accepted or not as before.
LEMMA TakeKeeps ==
    ASSUME HumanInputAssumption, HumanInv, NEW r \in Req, Take(r)
    PROVE  HumanInv'
  <1> DEFINE a == dest[r].ask
  <1> USE DEF Take, Respond, fence, asker
  <1>1. ReqKnown(r) /\ a \in Ask
    BY DEF HumanInv, ReqsKnown, ReqKnown
  <1>2. /\ rpc'[r] \in {"send", "done"} /\ (rpc'[r] = "send" => out'[r] = out[r])
        /\ (out[r] = "queued" => out'[r] = "queued")
        /\ (out'[r] # out[r] => out'[r] = "not_found")
        /\ \A s \in Req \ {r} : rpc'[s] = rpc[s] /\ out'[s] = out[s]
    BY DEF HumanInv, HumanTypes, ReqTypes
  <1>3. ReqTypes'
    BY DEF HumanInv, HumanTypes, ReqTypes, Codes
  <1>4. ReqKnown(r)'
    BY <1>1, <1>2 DEF ReqKnown, Durable
  <1>5. Accepted(r)' <=> Accepted(r)
    BY <1>1, <1>2 DEF ReqKnown, Accepted
  <1>6. BridgeTypes' /\ RowTypes'
    BY DEF HumanInv, HumanTypes, BridgeTypes, RowTypes
  <1>7. \A b \in Ask : Fades(b)
    BY DEF HumanInv, HumanTypes, BridgeTypes, Fades
  <1> QED
    BY <1>2, <1>3, <1>4, <1>5, <1>6, <1>7, OneReq

\* Send: on an open channel, to a durable question the accepted answer, to any
\* other the first one.
LEMMA SendKeeps ==
    ASSUME HumanInputAssumption, HumanInv, NEW r \in Req, Send(r)
    PROVE  HumanInv'
  <1> DEFINE a == dest[r].ask
  <1> USE DEF Send, Respond, fence, asker
  <1>1. /\ ReqKnown(r) /\ a \in Ask /\ AskKnown(a) /\ RowKnown(a)
        /\ out[r] = IF Durable THEN "queued" ELSE "none"
    BY DEF HumanInv, ReqsKnown, ReqKnown, AsksKnown, RowsKnown
  <1>2. /\ rpc'[r] = "done" /\ out'[r] \in {"queued", "delivered", "not_found"}
        /\ (out[r] = "queued" => out'[r] = "queued")
        /\ (out[r] # "queued" => out'[r] = IF chan[a].st = "open" THEN "delivered" ELSE "not_found")
        /\ \A s \in Req \ {r} : rpc'[s] = rpc[s] /\ out'[s] = out[s]
    BY DEF HumanInv, HumanTypes, ReqTypes
  <1>3. ReqTypes' /\ RowTypes'
    BY DEF HumanInv, HumanTypes, ReqTypes, RowTypes, Codes
  <1>4. BridgeTypes'
    BY <1>1 DEF HumanInv, HumanTypes, BridgeTypes, Reply
  <1>5. ReqKnown(r)'
    BY <1>1, <1>2 DEF ReqKnown
  <1>6. CASE chan[a].st # "open" \/ Durable
    <2>1. Accepted(r)' <=> Accepted(r)
      BY <1>1, <1>2, <1>6 DEF Accepted
    <2>2. Durable => By(r, a)
      BY <1>1 DEF By, Accepted
    <2>3. \A b \in Ask : \/ chan'[b] = chan[b]
                         \/ b = a /\ Durable /\ chan'[b].st = "sent" /\ chan'[b].by = r
      BY <1>1, <1>6 DEF HumanInv, HumanTypes, BridgeTypes
    <2>4. \A b \in Ask : Fades(b)
      BY <2>2, <2>3 DEF Fades
    <2> QED
      BY <1>2, <1>3, <1>4, <1>5, <2>1, <2>4, OneReq
  <1>7. CASE chan[a].st = "open" /\ ~Durable
    <2>1. Unanswered(a) /\ Accepted(r)'
      BY <1>1, <1>2, <1>7 DEF AskKnown, Accepted
    <2>2. /\ chan'[a].st = "sent" /\ chan'[a].by = r
          /\ \A b \in Ask \ {a} : chan'[b] = chan[b]
      BY <1>1, <1>7 DEF HumanInv, HumanTypes, BridgeTypes
    <2>3. row[a].state = "absent"
      BY <1>1, <1>7 DEF RowKnown
    <2>4. RowKnown(a)'
      BY <2>3 DEF RowKnown
    <2> QED
      BY <1>1, <1>2, <1>3, <1>4, <1>5, <1>7, <2>1, <2>2, <2>4, FirstReq
  <1> QED
    BY <1>6, <1>7

\* The steps of the run and the store only take questions away, and a peer that is
\* rolled is not the owner.
LEMMA StoreKeeps ==
    ASSUME HumanInputAssumption, HumanInv,
           \/ ExpireAll \/ CompleteRun \/ Reconcile \/ DeleteExpired
           \/ BeginDrain \/ LeaseExpires \/ OwnerCrash
           \/ \E i \in Replica, k \in PeerRings : Roll(i, k)
    PROVE  HumanInv'
  <1> USE DEF ExpireAll, CompleteRun, Reconcile, DeleteExpired, BeginDrain, LeaseExpires,
              OwnerCrash, Roll, fence, bridge, asker, request
  <1>1. UNCHANGED <<pc, got, sweep, rpc, dest, out>>
    OBVIOUS
  <1>2. ring' \in [Replica -> Keyrings] /\ ring'[Owner] = ring[Owner]
    BY DEF HumanInputAssumption, HumanInv, HumanTypes, BridgeTypes
  <1>3. NoRow \in [state : {"absent", "pending", "answered"}, question : Cipher,
                   answer : Cipher, exp : BOOLEAN]
    BY DEF NoRow, NoCipher, Sealed, Aad, Cipher, Label
  <1>4. RowTypes' /\ \A b \in Ask : row'[b] = row[b] \/ row'[b] = NoRow
    <2> HIDE DEF NoRow
    <2> QED
      BY <1>3 DEF HumanInv, HumanTypes, RowTypes
  <1>5. /\ chan' \in [Ask -> [st : {"open", "sent", "dropped", "closed"}, by : Reply]]
        /\ \A b \in Ask : chan'[b] = chan[b] \/ chan'[b].st = "dropped"
    <2>1. \/ chan' = chan
          \/ chan' = [b \in Ask |-> IF pending[b] # "none" /\ chan[b].st = "open"
                                   THEN [chan[b] EXCEPT !.st = "dropped"] ELSE chan[b]]
      OBVIOUS
    <2>2. chan \in [Ask -> [st : {"open", "sent", "dropped", "closed"}, by : Reply]]
      BY DEF HumanInv, HumanTypes, BridgeTypes
    <2>3. ASSUME NEW b \in Ask
          PROVE  [chan[b] EXCEPT !.st = "dropped"]
                     \in [st : {"open", "sent", "dropped", "closed"}, by : Reply]
      BY <2>2
    <2> QED
      BY <2>1, <2>2, <2>3
  <1>6. /\ pending' \in [Ask -> {"none", "registering", "local", "shared"}]
        /\ \A b \in Ask : pending'[b] = pending[b] \/ pending'[b] = "none"
        /\ expired' => \A b \in Ask : pending'[b] = "none"
    BY DEF HumanInv, HumanTypes, BridgeTypes, NothingParksAfterExpiry
  <1>7. run' \in {"live", "terminal"} /\ lease' \in BOOLEAN /\ expired' \in BOOLEAN
    BY DEF HumanInv, HumanTypes, BridgeTypes
  <1>8. HumanTypes' /\ NothingParksAfterExpiry'
    BY <1>1, <1>2, <1>4, <1>5, <1>6, <1>7
       DEF HumanInv, HumanTypes, BridgeTypes, AskTypes, ReqTypes, NothingParksAfterExpiry
  <1>9. Calm
    BY <1>1, <1>2 DEF Calm, Accepted
  <1>10. ReqsKnown'
    BY <1>1, <1>2 DEF HumanInv, ReqsKnown, ReqKnown, Durable
  <1>11. \A b \in Ask : Fades(b)
    BY <1>4, <1>5, <1>6 DEF Fades, NoRow
  <1> QED
    BY <1>1, <1>8, <1>9, <1>10, <1>11, CalmKeeps

-----------------------------------------------------------------------------
\* The invariant holds at the start.
LEMMA HumanStart ==
    ASSUME HumanInputAssumption, Init
    PROVE  HumanInv
  <1> USE DEF Init
  <1>1. ring \in [Replica -> Keyrings]
    BY DEF HumanInputAssumption
  <1>2. NoRow \in [state : {"absent", "pending", "answered"}, question : Cipher,
                   answer : Cipher, exp : BOOLEAN]
    BY DEF NoRow, NoCipher, Sealed, Aad, Cipher, Label
  <1>3. BridgeTypes /\ AskTypes /\ RowTypes
    BY <1>1, <1>2 DEF BridgeTypes, AskTypes, RowTypes, PCs, Open, NoAnswer, Reply
  <1>4. ReqTypes
    BY DEF ReqTypes, HumanInputAssumption, Codes, AnyAsk
  <1>5. RowsKnown /\ AsksKnown
    BY DEF RowsKnown, RowKnown, AsksKnown, AskKnown, Unanswered, Accepted, NoRow, Open, NoAnswer
  <1>6. ReqsKnown /\ OneAccepted /\ NothingParksAfterExpiry
    BY DEF ReqsKnown, ReqKnown, OneAccepted, Accepted, NothingParksAfterExpiry
  <1> QED
    BY <1>3, <1>4, <1>5, <1>6 DEF HumanInv, HumanTypes

\* Every step keeps it.
LEMMA HumanStep ==
    ASSUME HumanInputAssumption, HumanInv, [Next]_vars
    PROVE  HumanInv'
  <1>1. CASE \E a \in Ask : AskStep(a) \/ Cancel(a) \/ RowExpires(a)
    BY <1>1, AskKeeps
  <1>2. CASE \E r \in Req : ReqStep(r)
    BY <1>2, AnswerKeeps, TakeKeeps, SendKeeps DEF ReqStep
  <1>3. CASE \E r \in Req, i \in Replica, a \in Ask : Post(r, i, a)
    BY <1>3, PostKeeps
  <1>4. CASE \/ ExpireAll \/ CompleteRun \/ Reconcile \/ DeleteExpired
             \/ BeginDrain \/ LeaseExpires \/ OwnerCrash
             \/ \E i \in Replica, k \in PeerRings : Roll(i, k)
    BY <1>4, StoreKeeps
  <1>5. CASE UNCHANGED vars
    BY <1>5 DEF vars, HumanInv, HumanTypes, BridgeTypes, AskTypes, RowTypes, ReqTypes,
                NothingParksAfterExpiry, RowsKnown, RowKnown, AsksKnown, AskKnown, ReqsKnown,
                ReqKnown, OneAccepted, Accepted, By, Unanswered, Durable, SealQuestion, Sealed
  <1> QED
    BY <1>1, <1>2, <1>3, <1>4, <1>5 DEF Next

\* The inductive invariant holds of every behaviour.
LEMMA HumanInvariant == ASSUME HumanInputAssumption PROVE Spec => []HumanInv
  BY HumanStart, HumanStep, PTL DEF Spec

\* First writer wins, whichever replicas the answers reach, whether the question is
\* kept in the mailbox or on the bridge alone (answer_human_input, answer): at most
\* one answer to a question is accepted, and the coroutine resumes with no other.
THEOREM FirstWriter == ASSUME HumanInputAssumption PROVE Spec => []FirstWriterWins
  <1>1. HumanInv => FirstWriterWins
    <2> SUFFICES ASSUME HumanInv, NEW r \in Req, NEW s \in Req,
                        dest[r].ask = dest[s].ask, Accepted(r)
                 PROVE  /\ Accepted(s) => r = s
                        /\ got[dest[r].ask].kind = "answered" => got[dest[r].ask].by = r
      BY DEF FirstWriterWins
    <2>1. Accepted(s) => r = s
      BY DEF HumanInv, OneAccepted
    <2>2. dest[r].ask \in Ask
      BY DEF HumanInv, ReqsKnown, ReqKnown, Accepted
    <2>3. got[dest[r].ask].kind = "answered" => By(got[dest[r].ask].by, dest[r].ask)
      BY <2>2 DEF HumanInv, AsksKnown, AskKnown
    <2> QED
      BY <2>1, <2>3 DEF By, HumanInv, OneAccepted
  <1> QED
    BY <1>1, HumanInvariant, PTL

\* The owner opens every accepted answer, however the keyrings of its peers are
\* rolled (answer_human_input seals under the key of the question).
THEOREM OwnerReads == ASSUME HumanInputAssumption PROVE Spec => []OwnerReadsAnswer
  <1>1. HumanInv => OwnerReadsAnswer
    <2> SUFFICES ASSUME HumanInv, NEW a \in Ask, row[a].state = "answered"
                 PROVE  Opens(ring[Owner], row[a].answer, Aad(a, Owner, "answer"))
      BY DEF OwnerReadsAnswer
    <2>1. /\ Durable /\ row[a].answer.fp = ring[Owner].active
          /\ row[a].answer.aad = Aad(a, Owner, "answer")
      BY DEF HumanInv, RowsKnown, RowKnown
    <2>2. ring[Owner].active \in ring[Owner].keys
      BY <2>1 DEF Durable, HumanInv, HumanTypes, BridgeTypes, Keyrings, ValidKeyring,
                  HumanInputAssumption
    <2> QED
      BY <2>1, <2>2 DEF Opens
  <1> QED
    BY <1>1, HumanInvariant, PTL

\* No question is on the bridge after expire_all, at whatever stage of its
\* registration that caught it.
THEOREM NothingParks == ASSUME HumanInputAssumption PROVE Spec => []NothingParksAfterExpiry
  <1>1. HumanInv => NothingParksAfterExpiry
    BY DEF HumanInv
  <1> QED
    BY <1>1, HumanInvariant, PTL

\* An ask that ends with its row in the mailbox leaves a detached close armed
\* (MailboxCleanup), wherever it was cancelled.
THEOREM CleanupIsArmed == ASSUME HumanInputAssumption PROVE Spec => [][CleanupArmed]_vars
  <1>1. ASSUME HumanInv, Next PROVE CleanupArmed
    <2> SUFFICES ASSUME NEW a \in Ask, pc[a] # "done", pc'[a] = "done", row'[a].state # "absent"
                 PROVE  sweep'[a]
      BY DEF CleanupArmed
    <2>1. RowKnown(a)
      BY <1>1 DEF HumanInv, RowsKnown
    <2>2. PICK b \in Ask :
              RegisterRefused(b) \/ ChooseTransport(b) \/ CloseHumanInput(b) \/ Cancel(b)
      <3>1. CASE \E b \in Ask : \/ Register(b) \/ RegisterHumanInput(b) \/ Receive(b)
                                \/ PollHumanInput(b) \/ FindEmpty(b) \/ Deadline(b)
        <4>1. PICK b \in Ask, v \in PCs \ {"done"} : pc' = [pc EXCEPT ![b] = v]
          BY <3>1 DEF Register, RegisterHumanInput, Receive, PollHumanInput, Settle, FindEmpty,
                      Deadline, PCs
        <4> QED
          BY <1>1, <4>1 DEF HumanInv, HumanTypes, AskTypes
      <3>2. CASE \E b \in Ask : DetachedClose(b) \/ RowExpires(b)
        BY <3>2 DEF DetachedClose, RowExpires, asker
      <3>3. CASE \E r \in Req : ReqStep(r) \/ \E i \in Replica, c \in Ask : Post(r, i, c)
        BY <3>3 DEF ReqStep, AnswerHumanInput, Take, Send, Post, asker
      <3>4. CASE \/ ExpireAll \/ CompleteRun \/ Reconcile \/ DeleteExpired
                 \/ BeginDrain \/ LeaseExpires \/ OwnerCrash
                 \/ \E i \in Replica, k \in PeerRings : Roll(i, k)
        BY <3>4 DEF ExpireAll, CompleteRun, Reconcile, DeleteExpired, BeginDrain, LeaseExpires,
                    OwnerCrash, Roll, asker
      <3> QED
        BY <1>1, <3>1, <3>2, <3>3, <3>4 DEF Next, AskStep
    <2>3. b = a
      BY <1>1, <2>2 DEF HumanInv, HumanTypes, AskTypes, RegisterRefused, ChooseTransport,
                        CloseHumanInput, Cancel, Leave
    <2>4. sweep \in [Ask -> BOOLEAN] /\ row \in [Ask -> [state : {"absent", "pending", "answered"},
                     question : Cipher, answer : Cipher, exp : BOOLEAN]]
      BY <1>1 DEF HumanInv, HumanTypes, AskTypes, RowTypes
    <2>5. CASE RegisterRefused(a)
      BY <2>1, <2>5 DEF RegisterRefused, RowKnown
    <2>6. CASE ChooseTransport(a)
      BY <1>1, <2>1, <2>4, <2>6 DEF ChooseTransport, RowKnown, Leave, HumanInv, HumanTypes, AskTypes
    <2>7. CASE CloseHumanInput(a)
      BY <2>4, <2>7 DEF CloseHumanInput, Leave, NoRow
    <2>8. CASE Cancel(a)
      BY <2>1, <2>4, <2>8 DEF Cancel, Leave, RowKnown
    <2> QED
      BY <2>2, <2>3, <2>5, <2>6, <2>7, <2>8
  <1> QED
    BY <1>1, HumanInvariant, PTL DEF Spec

\* The promises of the bridge and the mailbox together, for any questions, answers,
\* replicas and keyrings (input_bridge.rs, human_input.rs).
THEOREM HumanInputHolds == ASSUME HumanInputAssumption PROVE Spec => HumanInputSound
  <1>1. Spec => [](FirstWriterWins /\ OwnerReadsAnswer /\ NothingParksAfterExpiry)
    BY FirstWriter, OwnerReads, NothingParks, PTL
  <1> QED
    BY <1>1, CleanupIsArmed DEF HumanInputSound
=============================================================================
