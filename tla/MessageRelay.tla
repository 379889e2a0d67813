---------------------------- MODULE MessageRelay ----------------------------
(***************************************************************************)
(* What a subscription promises: the texts the server has relayed to it    *)
(* reach the handler complete, once each and in their order.               *)
(***************************************************************************)
EXTENDS Naturals, Sequences

CONSTANT Text  \* the texts that may be relayed

VARIABLES
  relayed,   \* the texts the server has sent to the subscriber
  delivered  \* the texts the handler was called with

relayVars == <<relayed, delivered>>

RelayInit == relayed = <<>> /\ delivered = <<>>

Relay(text) ==
  /\ relayed' = Append(relayed, text)
  /\ UNCHANGED delivered

\* One read may complete several messages.
Deliver(n) ==
  /\ n \in Len(delivered) + 1..Len(relayed)
  /\ delivered' = SubSeq(relayed, 1, n)
  /\ UNCHANGED relayed

RelayNext ==
  \/ \E text \in Text : Relay(text)
  \/ \E n \in 1..Len(relayed) : Deliver(n)

RelaySpec == RelayInit /\ [][RelayNext]_relayVars

=============================================================================
