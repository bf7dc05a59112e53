----------------------------- MODULE MessageChannel -----------------------------
(***************************************************************************)
(* What the receive path of a connection promises: a channel that hands    *)
(* over the messages sent on it, in order and each once, until it breaks.  *)
(* From then on it may hand over anything.  Renewing it empties it, and    *)
(* may break it.                                                           *)
(***************************************************************************)
EXTENDS Naturals, Sequences

CONSTANT Message

VARIABLES
    sent,       \* the messages sent
    delivered,  \* the messages handed over
    broken

channelVars == <<sent, delivered, broken>>

Init == sent = <<>> /\ delivered = <<>> /\ broken = FALSE

Send(m) ==
    /\ sent' = Append(sent, m)
    /\ UNCHANGED <<delivered, broken>>

Deliver ==
    /\ ~broken /\ Len(delivered) < Len(sent)
    /\ delivered' = Append(delivered, sent[Len(delivered) + 1])
    /\ UNCHANGED <<sent, broken>>

DeliverAnything == broken /\ UNCHANGED <<sent, broken>>

Break == broken' = TRUE /\ UNCHANGED <<sent, delivered>>

Renew ==
    /\ sent' = <<>> /\ delivered' = <<>>
    /\ broken' \in BOOLEAN /\ (broken => broken')

Next == (\E m \in Message : Send(m)) \/ Deliver \/ DeliverAnything \/ Break \/ Renew

Spec == Init /\ [][Next]_channelVars
=============================================================================
