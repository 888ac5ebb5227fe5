--------------------------- MODULE ApprovalCards ---------------------------
(***************************************************************************)
(* What an approval promises, without handlers, sweeps, mailboxes or       *)
(* crashes: a card is decided once; an approved card is in one hand at a   *)
(* time; the hand may send once; and a card under which something was sent *)
(* is never laid back for another hand to take.                            *)
(***************************************************************************)
EXTENDS Naturals

CONSTANT Cards

VARIABLES word,         \* absent, pending, approved, rejected or deleted
          hand,         \* free, taken, or kept: out of reach for good
          sent

Init ==
    /\ word = [c \in Cards |-> "absent"]
    /\ hand = [c \in Cards |-> "free"]
    /\ sent = [c \in Cards |-> 0]

Raise(c) ==
    /\ word[c] = "absent"
    /\ word' = [word EXCEPT ![c] = "pending"]
    /\ UNCHANGED <<hand, sent>>

Decide(c) ==
    /\ word[c] = "pending"
    /\ \E w \in {"approved", "rejected"} : word' = [word EXCEPT ![c] = w]
    /\ UNCHANGED <<hand, sent>>

\* A card may be deleted at any time; the hand that has it is not told.
Delete(c) ==
    /\ word[c] \in {"pending", "approved", "rejected"}
    /\ word' = [word EXCEPT ![c] = "deleted"]
    /\ hand' = [hand EXCEPT ![c] = IF @ = "kept" THEN "free" ELSE @]
    /\ UNCHANGED sent

Take(c) ==
    /\ word[c] = "approved" /\ hand[c] = "free"
    /\ hand' = [hand EXCEPT ![c] = "taken"]
    /\ UNCHANGED <<word, sent>>

Send(c) ==
    /\ hand[c] = "taken" /\ sent[c] = 0
    /\ sent' = [sent EXCEPT ![c] = 1]
    /\ UNCHANGED <<word, hand>>

\* Done with, or abandoned.
Keep(c) ==
    /\ word[c] = "approved" /\ hand[c] = "taken"
    /\ hand' = [hand EXCEPT ![c] = "kept"]
    /\ UNCHANGED <<word, sent>>

LayBack(c) ==
    /\ hand[c] = "taken" /\ (sent[c] = 0 \/ word[c] = "deleted")
    /\ hand' = [hand EXCEPT ![c] = "free"]
    /\ UNCHANGED <<word, sent>>

Next == \E c \in Cards : \/ Raise(c) \/ Decide(c) \/ Delete(c)
                         \/ Take(c) \/ Send(c) \/ Keep(c) \/ LayBack(c)

Spec == Init /\ [][Next]_<<word, hand, sent>>
=============================================================================
