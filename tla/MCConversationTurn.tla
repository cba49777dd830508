------------------------- MODULE MCConversationTurn -------------------------
\* A small instance of ConversationTurn for TLC: a message, its retry on another replica,
\* and a message under its own key that names the first as its recovery key.
EXTENDS ConversationTurn, TLC

CONSTANTS i1, i2, k1, k2, b1, m1, m2, m3

Message(k, i, r) == [key |-> k, body |-> b1, inst |-> i, recovers |-> r]

Requests == m1 :> Message(k1, i1, NoKey) @@ m2 :> Message(k1, i2, NoKey)
            @@ m3 :> Message(k2, i2, k1)

\* Bound: beside the first message there is its retry, while the conversation is deleted
\* and created again, or the recovery, while a replica stops or crashes and more time
\* passes.
Retrying == pc[m2] # "idle" \/ minted > 1
Recovering == pc[m3] # "idle" \/ \E i \in Instance : phase[i] # "accepting"
OneAtATime ==
    /\ ~(Retrying /\ Recovering)
    /\ Retrying => now <= 2
    /\ Recovering => \A i \in Instance : sess[i].pc # "delete"
=============================================================================
