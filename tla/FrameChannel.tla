---------------------------- MODULE FrameChannel ----------------------------
(***************************************************************************)
(* What the line stream, the line assembler and the codec together promise  *)
(* the router: a queue of switch messages, each handed over once, in order  *)
(* and unchanged.  Messages are lost only with a connection, and then the   *)
(* last ones first; nothing is handed over that was not sent.               *)
(***************************************************************************)
EXTENDS Integers, Sequences

CONSTANTS
  Frames,         \* the messages
  MaxConnections  \* bound: how many connections are tried

VARIABLES
  connections, \* tried so far
  open,        \* the latest one exists
  queue,       \* sent on it, not yet handed over
  delivered    \* handed over, ever

vars == <<connections, open, queue, delivered>>

Init == connections = 0 /\ open = FALSE /\ queue = <<>> /\ delivered = <<>>

\* A new connection starts with nothing: what was not read of the last is lost.
Connect ==
  /\ connections < MaxConnections
  /\ connections' = connections + 1
  /\ open' \in BOOLEAN
  /\ queue' = <<>>
  /\ UNCHANGED delivered

Send(frame) ==
  /\ open
  /\ queue' = Append(queue, frame)
  /\ UNCHANGED <<connections, open, delivered>>

\* What arrived before the connection broke is still handed over.
Break ==
  /\ open
  /\ open' = FALSE
  /\ \E kept \in 0..Len(queue) : queue' = SubSeq(queue, 1, kept)
  /\ UNCHANGED <<connections, delivered>>

Deliver ==
  /\ queue # <<>>
  /\ delivered' = Append(delivered, Head(queue))
  /\ queue' = Tail(queue)
  /\ UNCHANGED <<connections, open>>

Next == Connect \/ Break \/ Deliver \/ \E frame \in Frames : Send(frame)

Safety == Init /\ [][Next]_vars

Spec == Safety /\ WF_vars(Deliver)
=============================================================================
