---------------------------- MODULE ChunkedStream ----------------------------
(***************************************************************************)
(* The gRPC stream: GrpcChunkedBidiStream (src/fcp/protocol) at the client *)
(* and at the server, which splits messages into chunks that the other end *)
(* acknowledges, and GrpcBidiStream (src/fcp/client), which puts the one   *)
(* of the client under a mutex and lets another thread Close it.  A thread *)
(* at each end alternates between Send and Receive as it likes.  gRPC      *)
(* itself (external) carries packets in order until the stream ends.       *)
(***************************************************************************)
EXTENDS Integers, Sequences, SequencesExt, FiniteSets, FiniteSetsExt

CONSTANTS Script,    \* by end: the messages that it will send, [id, size]
          Chunk,     \* chunk_size_for_upload, of the server and its response
          Window     \* max_pending_chunks

ASSUME StreamOptions == Chunk \in Nat \ {0} /\ Window \in Nat \ {0}

Ends == {"client", "server"}
Peer(e) == IF e = "client" THEN "server" ELSE "client"

VARIABLES
  transit,  \* by end: what it has written and the peer has not read
  out,      \* by end: outgoing_.deque
  pending,  \* by end: outgoing_.pending_chunks
  chunked,  \* by end: whether it knows the options for chunking
  inc,      \* by end: incoming_ [started, chunks]
  sent, got,\* by end: messages sent and received
  user,     \* by end: "idle", "receiving", or why it ended: "failed", "error"
  closer,   \* the thread that closes the client's stream: "none", "waiting", "done"
  broken    \* the stream has ended or is cancelled

bidiVars == <<user, closer, broken>>
streamVars == <<transit, out, pending, chunked, inc, sent, got, bidiVars>>

NotStarted == [started |-> FALSE, chunks |-> <<>>]

\* The client has no options until a check-in response brings them.
StreamInit ==
  /\ transit = [e \in Ends |-> <<>>] /\ out = [e \in Ends |-> <<>>]
  /\ pending = [e \in Ends |-> 0] /\ chunked = [e \in Ends |-> e = "server"]
  /\ inc = [e \in Ends |-> NotStarted]
  /\ sent = [e \in Ends |-> <<>>] /\ got = [e \in Ends |-> <<>>]
  /\ user = [e \in Ends |-> "idle"] /\ closer = "none" /\ broken = FALSE

-----------------------------------------------------------------------------
(* Chunks.                                                                 *)

Packet(kind, n, bytes) == [kind |-> kind, n |-> n, bytes |-> bytes]
Ack(n) == Packet("ack", n, <<>>)

\* The serialized message.
Blob(m) == [i \in 1..m.size |-> <<m.id, i>>]

\* An empty message has one empty chunk.
ChunkMessage(m) ==
  LET count == Max({1, (m.size + Chunk - 1) \div Chunk}) IN
  <<Packet("start", Max({1, m.size}), <<>>)>>
    \o [k \in 1..count |-> Packet("data", k - 1,
          SubSeq(Blob(m), (k - 1) * Chunk + 1, Min({k * Chunk, m.size})))]
    \o <<Packet("end", count, <<>>)>>

DataIn(packets) == Len(SelectSeq(packets, LAMBDA p : p.kind = "data"))

\* How far TrySendPending gets with the queue q.
Sendable(q, unacked) ==
  Min({k \in 0..Len(q) : k = Len(q) \/ unacked + DataIn(SubSeq(q, 1, k)) >= Window})

\* TrySendPending, of the queue q and the count left after an acknowledgement.
TrySendPending(e, q, unacked) ==
  LET n == Sendable(q, unacked) IN
  /\ transit' = [transit EXCEPT ![e] = @ \o SubSeq(q, 1, n)]
  /\ out' = [out EXCEPT ![e] = SubSeq(q, n + 1, Len(q))]
  /\ pending' = [pending EXCEPT ![e] = unacked + DataIn(SubSeq(q, 1, n))]

\* The concatenated chunks parse if they are the bytes of a message.
Parses(chunks, m) == FlattenSeq(chunks) = Blob(m)

-----------------------------------------------------------------------------
(* Send and Receive of the chunking layer.                                 *)

Open(e) == user[e] \notin {"failed", "error"} /\ (e = "client" => closer # "done")

\* Whatever the error, GrpcBidiStream closes the stream, which ends it for the
\* server as well; a server does the same.
Fail(e) ==
  /\ user' = [user EXCEPT ![e] = IF broken THEN "failed" ELSE "error"] /\ broken' = TRUE
  /\ UNCHANGED <<transit, out, pending, chunked, inc, sent, got, closer>>

SendRaw(e, p) == transit' = [transit EXCEPT ![e] = Append(@, p)]

\* Without options the message goes as it is.
TrySend(e, m) ==
  IF chunked[e] THEN TrySendPending(e, out[e] \o ChunkMessage(m), pending[e])
  ELSE SendRaw(e, Packet("raw", 0, Blob(m))) /\ UNCHANGED <<out, pending>>

StreamSend(e) ==
  LET m == Script[e][Len(sent[e]) + 1] IN
  /\ Open(e) /\ user[e] = "idle" /\ ~(e = "client" /\ closer = "waiting")
  /\ Len(sent[e]) < Len(Script[e])
  /\ IF broken THEN Fail(e)
     ELSE /\ sent' = [sent EXCEPT ![e] = Append(@, m)]
          /\ TrySend(e, m)
          /\ UNCHANGED <<chunked, inc, got, user, closer, broken>>

\* Receive takes the lock and reads until it has a message.
Receive(e) ==
  /\ Open(e) /\ user[e] = "idle" /\ ~(e = "client" /\ closer = "waiting")
  /\ user' = [user EXCEPT ![e] = "receiving"]
  /\ UNCHANGED <<transit, out, pending, chunked, inc, sent, got, closer, broken>>

\* The message is the next one of the peer; TrySnoopCheckinResponse takes the
\* options from a response.
Deliver(e) ==
  /\ got' = [got EXCEPT ![e] = Append(@, sent[Peer(e)][Len(@) + 1])]
  /\ user' = [user EXCEPT ![e] = "idle"]
  /\ chunked' = [chunked EXCEPT ![e] = TRUE]
  /\ inc' = [inc EXCEPT ![e] = NotStarted]

\* Mutant: an acknowledgement does not have the queue sent on.
ReceivedAckOnly(e) ==
  /\ Head(transit[Peer(e)]).kind = "ack"
  /\ transit' = [transit EXCEPT ![Peer(e)] = Tail(@)]
  /\ pending' = [pending EXCEPT ![e] = @ - 1]
  /\ UNCHANGED <<out, chunked, inc, sent, got, user, closer, broken>>

ReceivedAck(e) ==
  /\ Head(transit[Peer(e)]).kind = "ack"
  /\ LET n == Sendable(out[e], pending[e] - 1) IN
     /\ transit' = [transit EXCEPT ![e] = @ \o SubSeq(out[e], 1, n), ![Peer(e)] = Tail(@)]
     /\ out' = [out EXCEPT ![e] = SubSeq(@, n + 1, Len(@))]
     /\ pending' = [pending EXCEPT ![e] = @ - 1 + DataIn(SubSeq(out[e], 1, n))]
  /\ UNCHANGED <<chunked, inc, sent, got, user, closer, broken>>

ReceivedStart(e) ==
  /\ Head(transit[Peer(e)]).kind = "start"
  /\ IF inc[e].started \/ inc[e].chunks # <<>> THEN Fail(e)
     ELSE /\ transit' = [transit EXCEPT ![Peer(e)] = Tail(@)]
          /\ inc' = [inc EXCEPT ![e].started = TRUE]
          /\ UNCHANGED <<out, pending, chunked, sent, got, user, closer, broken>>

\* Data is acknowledged at once.  That a Start came before is not checked.
ReceivedData(e) ==
  LET p == Head(transit[Peer(e)]) IN
  /\ p.kind = "data"
  /\ IF p.n # Len(inc[e].chunks) THEN Fail(e)
     ELSE /\ transit' = [transit EXCEPT ![Peer(e)] = Tail(@), ![e] = Append(@, Ack(p.n))]
          /\ inc' = [inc EXCEPT ![e].chunks = Append(@, p.bytes)]
          /\ UNCHANGED <<out, pending, chunked, sent, got, user, closer, broken>>

\* AssemblePending
ReceivedEnd(e) ==
  LET p == Head(transit[Peer(e)])
      chunks == inc[e].chunks IN
  /\ p.kind = "end"
  /\ IF \/ chunks = <<>> \/ p.n # Len(chunks)
        \/ ~Parses(chunks, sent[Peer(e)][Len(got[e]) + 1])
     THEN Fail(e)
     ELSE /\ Deliver(e)
          /\ transit' = [transit EXCEPT ![Peer(e)] = Tail(@)]
          /\ UNCHANGED <<out, pending, sent, closer, broken>>

ReceivedRaw(e) ==
  /\ Head(transit[Peer(e)]).kind = "raw"
  /\ IF inc[e].started THEN Fail(e)
     ELSE /\ Deliver(e)
          /\ transit' = [transit EXCEPT ![Peer(e)] = Tail(@)]
          /\ UNCHANGED <<out, pending, sent, closer, broken>>

\* One turn of the loop of Receive.  A stream that has ended may still have
\* packets to read.
ReceiveRaw(e) ==
  /\ user[e] = "receiving"
  /\ \/ broken /\ Fail(e)
     \/ /\ transit[Peer(e)] # <<>>
        /\ \/ ReceivedAck(e) \/ ReceivedStart(e) \/ ReceivedData(e)
           \/ ReceivedEnd(e) \/ ReceivedRaw(e)

-----------------------------------------------------------------------------
(* Close, of GrpcBidiStream, and the end of the stream.                    *)

\* The lock is free, or the call that holds it is cancelled.
Close ==
  /\ closer = "none"
  /\ broken' = TRUE
  /\ closer' = IF user["client"] = "receiving" THEN "waiting" ELSE "done"
  /\ UNCHANGED <<transit, out, pending, chunked, inc, sent, got, user>>

CloseLocked ==
  /\ closer = "waiting" /\ user["client"] # "receiving"
  /\ closer' = "done" /\ broken' = TRUE
  /\ UNCHANGED <<transit, out, pending, chunked, inc, sent, got, user>>

\* The server ends the stream, the deadline passes or the network fails.
EndOfStream ==
  /\ ~broken /\ broken' = TRUE
  /\ UNCHANGED <<transit, out, pending, chunked, inc, sent, got, user, closer>>

Threads == CloseLocked \/ \E e \in Ends : StreamSend(e) \/ Receive(e) \/ ReceiveRaw(e)

StreamNext == Threads \/ Close \/ EndOfStream

\* The threads of the ends run: a user of the stream that has nothing left to
\* send waits in Receive.  Nobody has to close the stream.
StreamSpec ==
  /\ StreamInit /\ [][StreamNext]_streamVars
  /\ WF_streamVars(CloseLocked)
  /\ \A e \in Ends : WF_streamVars(StreamSend(e)) /\ WF_streamVars(Receive(e)) /\ WF_streamVars(ReceiveRaw(e))

-----------------------------------------------------------------------------
(* Properties.                                                             *)

\* Flow control: pending_chunks is what travels, as data one way or as its
\* acknowledgement the other way, and never exceeds max_pending_chunks.
WindowKept ==
  ~broken => \A e \in Ends :
    LET acks == SelectSeq(transit[Peer(e)], LAMBDA p : p.kind = "ack")
    IN  pending[e] = DataIn(transit[e]) + Len(acks) /\ pending[e] \in 0..Window

\* Each message that was sent arrives, unless the stream ends: chunks that wait
\* in the queue are sent while the sender is in Receive, the window is kept, and
\* no end meets a packet that it does not expect.  Close "releases any blocked
\* readers": it returns, and so does a Receive that was waiting for a packet.
StreamDelivers ==
  /\ []WindowKept /\ [](\A e \in Ends : user[e] # "error")
  /\ \A e \in Ends : \A k \in 1..Len(Script[e]) :
       (Len(sent[e]) >= k) ~> (broken \/ Len(got[Peer(e)]) >= k)
  /\ (closer = "waiting") ~> (closer = "done" /\ user["client"] # "receiving")
=============================================================================
