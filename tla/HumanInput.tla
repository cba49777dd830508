----------------------------- MODULE HumanInput -----------------------------
(***************************************************************************)
(* Human input for one run: the questions its coroutines ask, the bridge   *)
(* of the owning process on which they park, the encrypted mailbox that    *)
(* lets any replica answer, and the requests that bring answers.           *)
(*                                                                         *)
(* Each ask draws a fresh question id, so an ask and its question are one  *)
(* thing.  A request's answer is the request itself.  The run's ledger row *)
(* and run record appear as the four facts the mailbox statements read:    *)
(* the run is live, its lease is unexpired, its owner drains, and the      *)
(* owner's process is up.  Time is the expiry of rows and deadlines.       *)
(***************************************************************************)
EXTENDS FiniteSets, Naturals

CONSTANTS
    Fingerprint, \* the digests of the key material
    MaxKeys,     \* MAX_KEYS
    Replica,     \* instances that share the store
    Owner,       \* the one that runs the coroutines
    Ask,         \* questions asked in the run
    Req,         \* answers posted
    Nobody,      \* no request
    MaxPending,  \* IRONCREW_ASK_HUMAN_MAX_PENDING
    Keyed,       \* the run has an idempotency key: the bridge is durable
    OwnerRings,  \* bound: the keyrings the owner may start with
    PeerRings    \* bound: the keyrings the other replicas may be rolled to

-----------------------------------------------------------------------------
(* The key set that protects questions and answers in the shared mailbox.  A *)
(* ciphertext is the record of the key it was made with, the identity it is  *)
(* bound to and its payload: it opens only under that key and that identity. *)

\* No keyring is configured: the process keeps its questions to itself.
NoKeyring == [keys |-> {}, active |-> "none"]

\* read_env and parse_json: a keyring has between one and MaxKeys keys of distinct
\* material, and names one of them as active.
ValidKeyring(k) ==
    /\ k.keys \subseteq Fingerprint
    /\ Cardinality(k.keys) \in 1 .. MaxKeys
    /\ k.active \in k.keys

Keyrings == {NoKeyring} \cup
    {k \in [keys : SUBSET Fingerprint, active : Fingerprint] : ValidKeyring(k)}

\* What a ciphertext is bound to: the question, its owner, and its purpose.
Aad(question, owner, purpose) ==
    [question |-> question, owner |-> owner, purpose |-> purpose]

Sealed(fp, aad, payload) == [fp |-> fp, aad |-> aad, payload |-> payload]

NoCipher == Sealed("none", Aad("none", "none", "none"), "none")

\* seal_question uses the active key; an answer uses the key of its question.
SealQuestion(k, question, owner) ==
    Sealed(k.active, Aad(question, owner, "question"), question)

SealAnswer(k, fp, question, owner, answer) ==
    Sealed(fp, Aad(question, owner, "answer"), answer)

\* open_serialized: the key is held and the identity is the one sealed.
Opens(k, c, aad) == c.fp \in k.keys /\ c.aad = aad
-----------------------------------------------------------------------------
HumanInputAssumption ==
    /\ Owner \in Replica /\ Nobody \notin Req /\ Keyed \in BOOLEAN
    /\ MaxPending \in Nat \ {0} /\ MaxKeys \in Nat
    /\ OwnerRings \subseteq Keyrings /\ PeerRings \subseteq Keyrings

VARIABLES
    ring,     \* ring[i]: the keyring replica i started with
    up,       \* the owner's process is alive
    run,      \* "live" or "terminal": the status of the run record
    lease,    \* the run's lease is unexpired
    draining, \* owner_draining_at is set
    expired,  \* the bridge was expired as a whole
    pending,  \* pending[a]: the transport of question a on the bridge
    chan,     \* chan[a]: the oneshot channel the coroutine waits on
    pc,       \* pc[a]: where the coroutine is
    got,      \* got[a]: what ask_http returned
    sweep,    \* sweep[a]: a detached close of a's row is to run
    row,      \* row[a]: the mailbox row of a
    rpc,      \* rpc[r]: where request r is
    dest,     \* dest[r]: the replica and the question of request r
    out       \* out[r]: the response of request r

bridge == <<expired, pending, chan>>
asker == <<pc, got, sweep>>
request == <<rpc, dest, out>>
fence == <<up, run, lease, draining>>
vars == <<ring, up, run, lease, draining, expired, pending, chan, pc, got, sweep, row,
          rpc, dest, out>>

NoRow == [state |-> "absent", question |-> NoCipher, answer |-> NoCipher, exp |-> FALSE]
NoAnswer == [kind |-> "none", by |-> Nobody]
Open == [st |-> "open", by |-> Nobody]

\* The statements of the mailbox all ask for a live run with an unexpired lease.
OwnsFence == run = "live" /\ lease

\* An unanswered row past its expires_at.
Lapsed(a) == row[a].state = "pending" /\ row[a].exp

\* Rows that count against the mailbox's capacity.
Waiting == {a \in Ask : row[a].state = "pending" /\ ~row[a].exp}

Init ==
    /\ \E k \in OwnerRings : \E f \in [Replica \ {Owner} -> PeerRings] :
           ring = [i \in Replica |-> IF i = Owner THEN k ELSE f[i]]
    /\ up = TRUE /\ run = "live" /\ lease = TRUE /\ draining = FALSE
    /\ expired = FALSE
    /\ pending = [a \in Ask |-> "none"]
    /\ chan = [a \in Ask |-> Open]
    /\ pc = [a \in Ask |-> "idle"]
    /\ got = [a \in Ask |-> NoAnswer]
    /\ sweep = [a \in Ask |-> FALSE]
    /\ row = [a \in Ask |-> NoRow]
    /\ rpc = [r \in Req |-> "idle"]
    /\ dest = [r \in Req |-> [at |-> Owner, ask |-> CHOOSE a \in Ask : TRUE]]
    /\ out = [r \in Req |-> "none"]

-----------------------------------------------------------------------------
(* The coroutine: ask_when_ready and ask_http. *)

\* The ask is over: its guards drop, which takes the question off the bridge and
\* leaves a detached close of its row when its mailbox cleanup is still armed.
Leave(a, result, armed) ==
    /\ pc' = [pc EXCEPT ![a] = "done"]
    /\ got' = [got EXCEPT ![a] = result]
    /\ pending' = [pending EXCEPT ![a] = "none"]
    /\ chan' = [chan EXCEPT ![a].st = "closed"]
    /\ sweep' = [sweep EXCEPT ![a] = armed]

\* The registration goes to the mailbox, and its cleanup is armed.
Durable == Keyed /\ ring[Owner] # NoKeyring

Failed == [kind |-> "error", by |-> Nobody]
TimedOut == [kind |-> "timeout", by |-> Nobody]

\* register refuses on an expired bridge and on a full one.
Refuses == expired \/ Cardinality({a \in Ask : pending[a] # "none"}) >= MaxPending

\* The bridge takes the question unless the run is over or the bridge is full.
RegisterRefused(a) ==
    /\ up /\ pc[a] = "idle"
    /\ Refuses
    /\ Leave(a, Failed, FALSE)
    /\ UNCHANGED <<ring, fence, expired, row, request>>

Register(a) ==
    /\ up /\ pc[a] = "idle"
    /\ ~Refuses
    /\ pending' = [pending EXCEPT ![a] = IF Keyed THEN "registering" ELSE "local"]
    /\ pc' = [pc EXCEPT ![a] = IF Keyed THEN "registering" ELSE "waiting"]
    /\ UNCHANGED <<ring, fence, expired, chan, got, sweep, row, request>>

\* The registration transaction commits: the store has no keyring, the owner
\* drains, the attempt lost its fence, the mailbox is full, or the row is in.
RegisterHumanInput(a) ==
    /\ up /\ pc[a] = "registering"
    /\ \/ /\ ring[Owner] = NoKeyring
          /\ pc' = [pc EXCEPT ![a] = "not_durable"]
          /\ UNCHANGED row
       \/ /\ ring[Owner] # NoKeyring
          /\ draining \/ ~OwnsFence \/ Cardinality(Waiting) >= MaxPending
          /\ pc' = [pc EXCEPT ![a] = "rejected"]
          /\ UNCHANGED row
       \/ /\ ring[Owner] # NoKeyring
          /\ ~draining /\ OwnsFence /\ Cardinality(Waiting) < MaxPending
          /\ pc' = [pc EXCEPT ![a] = "registered"]
          /\ row' = [row EXCEPT ![a] = [NoRow EXCEPT
                        !.state = "pending", !.question = SealQuestion(ring[Owner], a, Owner)]]
    /\ UNCHANGED <<ring, fence, bridge, got, sweep, request>>

\* Back from the store: the question may have been expired meanwhile.  Otherwise
\* its transport is chosen and it becomes visible.
ChooseTransport(a) ==
    /\ up /\ pc[a] \in {"not_durable", "registered", "rejected"}
    /\ \/ /\ pc[a] = "rejected" \/ pending[a] = "none"
          /\ Leave(a, Failed, Durable)
       \/ /\ pc[a] # "rejected" /\ pending[a] # "none"
          /\ pending' = [pending EXCEPT ![a] = IF pc[a] = "registered" THEN "shared" ELSE "local"]
          /\ pc' = [pc EXCEPT ![a] = "waiting"]
          /\ UNCHANGED <<chan, got, sweep>>
    /\ UNCHANGED <<ring, fence, expired, row, request>>

\* The wait is over with a result; a shared question still has its row to close.
Settle(a, result) ==
    /\ pc' = [pc EXCEPT ![a] = "closing"]
    /\ got' = [got EXCEPT ![a] = result]
    /\ chan' = [chan EXCEPT ![a].st = "closed"]
    /\ UNCHANGED <<pending, sweep>>

\* The oneshot is ready: an answer, or its sender dropped without one.
Receive(a) ==
    /\ up /\ pc[a] = "waiting"
    /\ \/ chan[a].st = "sent" /\ Settle(a, [kind |-> "answered", by |-> chan[a].by])
       \/ chan[a].st = "dropped" /\ Settle(a, TimedOut)
    /\ UNCHANGED <<ring, fence, expired, row, request>>

\* A poll of the mailbox finds an answer and authenticates it.  A pending or
\* missing row, a failed read and a read that times out leave the wait as it is.
PollHumanInput(a) ==
    /\ up /\ pc[a] = "waiting"
    /\ row[a].state = "answered" /\ OwnsFence
    /\ IF Opens(ring[Owner], row[a].answer, Aad(a, Owner, "answer"))
       THEN Settle(a, [kind |-> "answered", by |-> row[a].answer.payload])
       ELSE Settle(a, Failed)
    /\ UNCHANGED <<ring, fence, expired, row, request>>

\* One pass of the select finds the channel empty and goes on to the deadline ...
FindEmpty(a) ==
    /\ up /\ pc[a] = "waiting" /\ chan[a].st = "open"
    /\ pc' = [pc EXCEPT ![a] = "deciding"]
    /\ UNCHANGED <<ring, fence, bridge, got, sweep, row, request>>

\* ... which has passed, and the channel is dropped, or has not.
Deadline(a) ==
    /\ up /\ pc[a] = "deciding"
    /\ \/ Settle(a, TimedOut)
       \/ pc' = [pc EXCEPT ![a] = "waiting"] /\ UNCHANGED <<pending, chan, got, sweep>>
    /\ UNCHANGED <<ring, fence, expired, row, request>>

\* close: the row goes; a failed close is left to a detached retry.
CloseHumanInput(a) ==
    /\ up /\ pc[a] = "closing"
    /\ \/ Leave(a, got[a], FALSE) /\ row' = [row EXCEPT ![a] = NoRow]
       \/ Durable /\ Leave(a, got[a], TRUE) /\ UNCHANGED row
    /\ UNCHANGED <<ring, fence, expired, request>>

\* The detached close, which may fail as well.
DetachedClose(a) ==
    /\ up /\ sweep[a]
    /\ sweep' = [sweep EXCEPT ![a] = FALSE]
    /\ row' \in {row, [row EXCEPT ![a] = NoRow]}
    /\ UNCHANGED <<ring, fence, bridge, pc, got, request>>

\* The coroutine is dropped: a sibling branch failed, or the run is aborted.
Cancel(a) ==
    /\ up /\ pc[a] \notin {"idle", "done"}
    /\ Leave(a, Failed, Durable)
    /\ UNCHANGED <<ring, fence, expired, row, request>>

-----------------------------------------------------------------------------
(* Answers: answer_question, answer_http and answer_human_input. *)

Respond(r, code) ==
    /\ rpc' = [rpc EXCEPT ![r] = "done"]
    /\ out' = [out EXCEPT ![r] = code]

\* A request reaches a replica.  The owner looks the question up on the bridge
\* of the active run; any other replica goes to the store.
Post(r, i, a) ==
    /\ rpc[r] = "idle" /\ (i = Owner => up)
    /\ dest' = [dest EXCEPT ![r] = [at |-> i, ask |-> a]]
    /\ IF i = Owner
       THEN CASE pending[a] = "none"        -> Respond(r, "not_found")
              [] pending[a] = "registering" -> Respond(r, "unavailable")
              [] pending[a] = "local"       -> rpc' = [rpc EXCEPT ![r] = "take"] /\ UNCHANGED out
              [] OTHER                      -> rpc' = [rpc EXCEPT ![r] = "store"] /\ UNCHANGED out
       ELSE rpc' = [rpc EXCEPT ![r] = "store"] /\ UNCHANGED out
    /\ UNCHANGED <<ring, fence, bridge, asker, row>>

\* Mutant of StillPending: the update does not ask for a pending row.
AnyState(a) == TRUE

\* The compare-and-set of the answer.
StillPending(a) == row[a].state = "pending"

\* The answer transaction, on the replica that took the request.
AnswerHumanInput(r) ==
    LET a == dest[r].ask
        i == dest[r].at
    IN
    /\ rpc[r] = "store" /\ (i = Owner => up)
    /\ \/ ring[i] = NoKeyring /\ Respond(r, "not_durable") /\ UNCHANGED row
       \/ /\ ring[i] # NoKeyring
          /\ \/ row[a].state = "absent" /\ Respond(r, "not_found") /\ UNCHANGED row
             \/ row[a].state # "absent" /\ run = "live" /\ draining
                /\ Respond(r, "draining") /\ UNCHANGED row
             \/ /\ row[a].state # "absent" /\ ~(run = "live" /\ draining)
                /\ ~OwnsFence \/ Lapsed(a)
                /\ Respond(r, "not_found")
                /\ row' = [row EXCEPT ![a] = NoRow]
             \/ /\ OwnsFence /\ ~draining
                /\ row[a].state # "absent" /\ ~Lapsed(a)
                /\ \/ /\ ~Opens(ring[i], row[a].question, Aad(a, Owner, "question"))
                      /\ Respond(r, "unavailable") /\ UNCHANGED row
                   \/ /\ Opens(ring[i], row[a].question, Aad(a, Owner, "question"))
                      /\ ~StillPending(a)
                      /\ Respond(r, "not_found") /\ UNCHANGED row
                   \/ /\ Opens(ring[i], row[a].question, Aad(a, Owner, "question"))
                      /\ StillPending(a)
                      /\ row' = [row EXCEPT ![a].state = "answered",
                                    ![a].answer = SealAnswer(ring[i], row[a].question.fp, a, Owner, r)]
                      /\ out' = [out EXCEPT ![r] = "queued"]
                      /\ rpc' = [rpc EXCEPT ![r] = IF i = Owner THEN "take" ELSE "done"]
    /\ UNCHANGED <<ring, fence, bridge, asker, dest>>

\* answer: take the question off the bridge ...
Take(r) ==
    LET a == dest[r].ask
        answered == out[r] = "queued"   \* a best-effort wake-up: its failure is dropped
    IN
    /\ up /\ rpc[r] = "take"
    /\ \/ /\ pending[a] = "none"
          /\ Respond(r, IF answered THEN out[r] ELSE "not_found")
          /\ UNCHANGED pending
       \/ /\ pending[a] # "none"
          /\ pending' = [pending EXCEPT ![a] = "none"]
          /\ rpc' = [rpc EXCEPT ![r] = "send"] /\ UNCHANGED out
    /\ UNCHANGED <<ring, fence, expired, chan, asker, row, dest>>

\* ... and send on its channel, unless the coroutine has dropped it.
Send(r) ==
    LET a == dest[r].ask IN
    /\ up /\ rpc[r] = "send"
    /\ \/ /\ chan[a].st = "open"
          /\ chan' = [chan EXCEPT ![a] = [st |-> "sent", by |-> r]]
          /\ Respond(r, IF out[r] = "queued" THEN "queued" ELSE "delivered")
       \/ /\ chan[a].st # "open"
          /\ Respond(r, IF out[r] = "queued" THEN "queued" ELSE "not_found")
          /\ UNCHANGED chan
    /\ UNCHANGED <<ring, fence, expired, pending, asker, row, dest>>

-----------------------------------------------------------------------------
(* The run and the store around them. *)

\* expire_all, when the run ends or is aborted: every sender is dropped.
ExpireAll ==
    /\ up /\ ~expired
    /\ expired' = TRUE
    /\ chan' = [a \in Ask |-> IF pending[a] # "none" /\ chan[a].st = "open"
                              THEN [chan[a] EXCEPT !.st = "dropped"] ELSE chan[a]]
    /\ pending' = [a \in Ask |-> "none"]
    /\ UNCHANGED <<ring, fence, asker, row, request>>

\* The terminal transition of the run deletes its mailbox.
CompleteRun ==
    /\ up /\ expired /\ run = "live"
    /\ run' = "terminal"
    /\ row' = [a \in Ask |-> NoRow]
    /\ UNCHANGED <<ring, up, lease, draining, bridge, asker, request>>

\* The reconciler ends a run whose lease is over; maintenance removes its rows.
Reconcile ==
    /\ run = "live" /\ ~lease
    /\ run' = "terminal"
    /\ UNCHANGED <<ring, up, lease, draining, bridge, asker, row, request>>

Stale(a) == row[a].state # "absent" /\ (run = "terminal" \/ Lapsed(a))

DeleteExpired ==
    /\ \E a \in Ask : Stale(a)
    /\ row' = [a \in Ask |-> IF Stale(a) THEN NoRow ELSE row[a]]
    /\ UNCHANGED <<ring, fence, bridge, asker, request>>

BeginDrain ==
    /\ up /\ run = "live" /\ ~draining
    /\ draining' = TRUE
    /\ UNCHANGED <<ring, up, run, lease, bridge, asker, row, request>>

RowExpires(a) ==
    /\ row[a].state = "pending" /\ ~row[a].exp
    /\ row' = [row EXCEPT ![a].exp = TRUE]
    /\ UNCHANGED <<ring, fence, bridge, asker, request>>

LeaseExpires ==
    /\ lease /\ run = "live"
    /\ lease' = FALSE
    /\ UNCHANGED <<ring, up, run, draining, bridge, asker, row, request>>

OwnerCrash ==
    /\ up
    /\ up' = FALSE
    /\ UNCHANGED <<ring, run, lease, draining, bridge, asker, row, request>>

\* A peer restarts under another keyring if it covers every retained ciphertext.
CoversMailbox(k) ==
    \A a \in Ask : row[a].state # "absent" =>
        /\ row[a].question.fp \in k.keys
        /\ row[a].state = "answered" => row[a].answer.fp \in k.keys

Roll(i, k) ==
    /\ i # Owner /\ k # ring[i] /\ CoversMailbox(k)
    /\ \A r \in Req : rpc[r] \in {"store", "take", "send"} => dest[r].at # i
    /\ ring' = [ring EXCEPT ![i] = k]
    /\ UNCHANGED <<fence, bridge, asker, row, request>>

AskStep(a) ==
    \/ RegisterRefused(a) \/ Register(a) \/ RegisterHumanInput(a) \/ ChooseTransport(a)
    \/ Receive(a) \/ PollHumanInput(a) \/ FindEmpty(a) \/ Deadline(a)
    \/ CloseHumanInput(a) \/ DetachedClose(a)

ReqStep(r) == AnswerHumanInput(r) \/ Take(r) \/ Send(r)

Next ==
    \/ \E a \in Ask : AskStep(a) \/ Cancel(a) \/ RowExpires(a)
    \/ \E r \in Req : ReqStep(r) \/ \E i \in Replica, a \in Ask : Post(r, i, a)
    \/ ExpireAll \/ CompleteRun \/ Reconcile \/ DeleteExpired
    \/ BeginDrain \/ LeaseExpires \/ OwnerCrash
    \/ \E i \in Replica, k \in PeerRings : Roll(i, k)

Spec == Init /\ [][Next]_vars

-----------------------------------------------------------------------------
Accepted(r) == out[r] \in {"queued", "delivered"}

\* First writer wins: of the answers posted to one question, at whatever replica
\* and in whatever order, at most one is accepted, and the coroutine is resumed
\* with no other (answer_human_input's compare-and-set, answer's removal).
FirstWriterWins ==
    \A r, s \in Req :
        dest[r].ask = dest[s].ask /\ Accepted(r) =>
            /\ Accepted(s) => r = s
            /\ got[dest[r].ask].kind = "answered" => got[dest[r].ask].by = r

\* An answer is sealed with the key of its question, so the owner opens it even
\* when the replica that accepted it has moved to another active key.
OwnerReadsAnswer ==
    \A a \in Ask : row[a].state = "answered" =>
        Opens(ring[Owner], row[a].answer, Aad(a, Owner, "answer"))

\* Once the bridge has been expired no question is on it: no coroutine parks
\* after the run has ended, whatever stage its registration was at.
NothingParksAfterExpiry == expired => \A a \in Ask : pending[a] = "none"

\* A row outlives its ask only when a close failed, a close is still to run, or
\* the owner died: cancelling an ask at any point of its registration leaves no
\* row that nothing will close before the mailbox sweep.
CleanupArmed ==
    \A a \in Ask : pc[a] # "done" /\ pc'[a] = "done" /\ row'[a].state # "absent"
         => sweep'[a]

\* What the bridge and the mailbox promise together.
HumanInputSound ==
    /\ [](FirstWriterWins /\ OwnerReadsAnswer /\ NothingParksAfterExpiry)
    /\ [][CleanupArmed]_vars

\* Every ask returns, while its process lives.
AskReturns == \A a \in Ask : (pc[a] = "registering" \/ pc[a] = "waiting") ~> (pc[a] = "done" \/ ~up)

\* Whatever fails or dies, the mailbox of the run is emptied in the end.
MailboxDrains == \A a \in Ask : row[a].state # "absent" ~> row[a].state = "absent"
=============================================================================
