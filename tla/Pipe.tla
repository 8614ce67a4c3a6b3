-------------------------------- MODULE Pipe --------------------------------
(***************************************************************************)
(* What an aggregated connection promises its users (alc/sender.rs,        *)
(* alc/receiver.rs): per direction a pipe that hands the sent messages to  *)
(* the receiver in order, each once, and reports end of stream only after  *)
(* the last of them.  Messages are identified by their position.           *)
(***************************************************************************)
EXTENDS Naturals, Sequences

CONSTANTS EP, Peer, Lens

VARIABLES
  sent,       \* what the user of each endpoint has sent
  open,       \* its Sender has not been dropped
  listening,  \* its Receiver has not been dropped
  delivered,  \* positions of the messages its Receiver was given
  ended       \* its Receiver was given end of stream

pipeVars == <<sent, open, listening, delivered, ended>>

Init ==
  /\ sent = [e \in EP |-> <<>>] /\ delivered = [e \in EP |-> <<>>]
  /\ open = [e \in EP |-> TRUE] /\ listening = [e \in EP |-> TRUE]
  /\ ended = [e \in EP |-> FALSE]

\* Sender::send
Send(e) ==
  /\ open[e]
  /\ \E n \in Lens : sent' = [sent EXCEPT ![e] = Append(@, n)]
  /\ UNCHANGED <<open, listening, delivered, ended>>

DropSender(e) ==
  /\ open' = [open EXCEPT ![e] = FALSE]
  /\ UNCHANGED <<sent, listening, delivered, ended>>

DropReceiver(e) ==
  /\ listening' = [listening EXCEPT ![e] = FALSE]
  /\ UNCHANGED <<sent, open, delivered, ended>>

\* Receiver::recv returns the next message.
Deliver(e) ==
  /\ ~ended[e] /\ listening[e]
  /\ Len(delivered[e]) < Len(sent[Peer[e]])
  /\ delivered' = [delivered EXCEPT ![e] = Append(@, Len(delivered[e]) + 1)]
  /\ UNCHANGED <<sent, open, listening, ended>>

\* Receiver::recv returns end of stream; nobody sees it on a dropped Receiver.
End(e) ==
  /\ ~open[Peer[e]]
  /\ listening[e] => Len(delivered[e]) = Len(sent[Peer[e]])
  /\ ended' = [ended EXCEPT ![e] = TRUE]
  /\ UNCHANGED <<sent, open, listening, delivered>>

Next == \E e \in EP : Send(e) \/ DropSender(e) \/ DropReceiver(e) \/ Deliver(e) \/ End(e)

Spec == Init /\ [][Next]_pipeVars
=============================================================================
