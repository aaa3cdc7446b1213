------------------------------ MODULE RunContract ------------------------------
(***************************************************************************)
(* What the execution of a run promises to those who see only the board    *)
(* and the status of the run.  There are no processes, rows, cursors,      *)
(* contexts or labels here, and of the event log only what it settles:     *)
(* which cards have reported, and with which verdict.                      *)
(*                                                                         *)
(* A card is created at most once, for a reason, may be suspended if it is *)
(* a human's, and is closed once.  The run changes status only for a       *)
(* reason as well.                                                         *)
(***************************************************************************)
EXTENDS Pipeline

CONSTANT Attempts

Card == Nodes \X Attempts

VARIABLES status,   \* RunStatus
          cards,    \* the state of each card on the board
          reports   \* the cards that have reported, and whether they passed

cvars == <<status, cards, reports>>

Init ==
    /\ status = "NONE"
    /\ cards = [k \in Card |-> "none"]
    /\ reports = {}

-----------------------------------------------------------------------------
(***************************************************************************)
(* The reasons.                                                            *)
(***************************************************************************)
HasReported(n) == \E r \in reports : r.card[1] = n

\* The entry, or the successor of a node that has reported.
HasCause(n) ==
    \/ \E e \in Out(Start) : e.dst = n
    \/ \E r \in reports : LeadsTo(r.card[1], n)

\* The first card of a join waits for all its branches.
MayOpen(k) ==
    /\ HasCause(k[1])
    /\ Join(k) => \A n \in Predecessors(k[1]) : HasReported(n)

MayBecome(s) ==
    /\ s = "PAUSED_HUMAN" => \E r \in reports : AsksHuman(r.card[1])
    /\ s = "SUCCEEDED" => \E r \in reports : /\ EndsAt(r.card[1])
                                            /\ r.card[1] \in Gates => r.pass
    /\ s = "BLOCKED" => \E r \in reports :
                           /\ r.card[1] \in Gates /\ ~r.pass
                           /\ r.card[2] >= GateLimit[r.card[1]]

-----------------------------------------------------------------------------
Begin ==
    /\ status = "NONE"
    /\ status' = "RUNNING"
    /\ UNCHANGED <<cards, reports>>

Open(k) ==
    /\ status # "NONE"
    /\ cards[k] = "none" /\ MayOpen(k)
    /\ cards' = [cards EXCEPT ![k] = "open"]
    /\ UNCHANGED <<status, reports>>

\* The board notes the suspension as if the card had reported.
Suspend(k) ==
    /\ cards[k] = "open" /\ Shape[k[1]] = "HUMAN"
    /\ cards' = [cards EXCEPT ![k] = "blocked"]
    /\ reports' = reports \union {[card |-> k, pass |-> FALSE]}
    /\ UNCHANGED status

Close(k) ==
    /\ cards[k] \in {"open", "blocked"}
    /\ cards' = [cards EXCEPT ![k] = "done"]
    /\ \E pass \in BOOLEAN :
          reports' = reports \union {[card |-> k, pass |-> pass]}
    /\ UNCHANGED status

Decide(s) ==
    /\ status # "NONE"
    /\ MayBecome(s)
    /\ status' = s
    /\ UNCHANGED <<cards, reports>>

Next ==
    \/ Begin
    \/ \E k \in Card : Open(k) \/ Suspend(k) \/ Close(k)
    \/ \E s \in {"RUNNING", "PAUSED_HUMAN", "SUCCEEDED", "BLOCKED"} : Decide(s)

Spec == Init /\ [][Next]_cvars
=============================================================================
