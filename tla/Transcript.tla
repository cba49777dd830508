----------------------------- MODULE Transcript -----------------------------
(***************************************************************************)
(* What keyed messages promise of one conversation, without replicas,      *)
(* caches, ledgers or clocks: a conversation that exists has one linear    *)
(* transcript, which only grows; a deleted and recreated conversation is   *)
(* another one; and an answer names a turn that really was appended, for   *)
(* the request it answers.                                                 *)
(***************************************************************************)
EXTENDS Naturals, Sequences

CONSTANTS
    Msg,   \* message requests
    Ask    \* Ask[m]: what request m asks for; its retries ask for the same

VARIABLES
    inc,   \* the incarnation of the conversation, 0 when there is none
    log,   \* its transcript: the messages whose turns were appended
    past,  \* every turn ever appended
    said   \* the answers given: to whom, and the turn they name

vars == <<inc, log, past, said>>

Init == inc = 0 /\ log = <<>> /\ past = {} /\ said = {}

\* A conversation begins under an incarnation that no turn belongs to.
Create ==
    /\ inc = 0 /\ inc' \in Nat \ ({0} \cup {t.inc : t \in past})
    /\ UNCHANGED <<log, past, said>>

AppendTurn ==
    /\ inc # 0
    /\ \E m \in Msg :
         /\ log' = Append(log, m)
         /\ past' = past \cup {[msg |-> m, inc |-> inc, at |-> Len(log')]}
    /\ UNCHANGED <<inc, said>>

Delete ==
    /\ inc # 0 /\ inc' = 0 /\ log' = <<>>
    /\ UNCHANGED <<past, said>>

\* An answer, possibly to a retry, names a turn of the past.
Answer ==
    /\ \E m \in Msg, t \in past :
         /\ Ask[t.msg] = Ask[m]
         /\ said' = said \cup {[to |-> m, turn |-> t]}
    /\ UNCHANGED <<inc, log, past>>

Next == Create \/ AppendTurn \/ Delete \/ Answer

Spec == Init /\ [][Next]_vars
=============================================================================
