------------------------------- MODULE Tunnel -------------------------------
(***************************************************************************)
(* One connection through a tunnel (pkg/tunnel).  The client end is either *)
(* the CLI's connect, with a local TCP connection, or the tunnelConn of    *)
(* the link proxy, used by an HTTP transport; the server end is the        *)
(* handler Tunnel or ExposedTunnel of the node controller, with a TCP      *)
(* connection to the service.  Between them is a gRPC stream.              *)
(*                                                                         *)
(* streamBidirectional runs two goroutines per end, tunnelToStream and     *)
(* streamToTunnel, and the latter a third, asyncReadStream, which fills    *)
(* the one buffer the two share.  Data are numbered units; a read returns  *)
(* one or more of them.  The empty message that a read at the end of the   *)
(* stream makes is left out: it adds nothing.                              *)
(***************************************************************************)
EXTENDS Naturals, Sequences

CONSTANTS
    ClientUnits, \* units that the client's program sends
    ServerUnits, \* units that the service sends
    MaxQueue     \* messages in one direction before Send blocks

ASSUME TunnelAssumption == ClientUnits \in Nat /\ ServerUnits \in Nat /\ MaxQueue \in Nat \ {0}

Ends == {"client", "server"}
Peer(e) == IF e = "client" THEN "server" ELSE "client"

\* The message TunnelMsg_Eof; any other has at least one unit.
Eof == <<>>

VARIABLES
    kind,        \* the client: "cli" or "proxy"
    program,     \* program[e]: the program at e: "open", "half" closed, "closed"
    stalled,     \* programs that do not read
    sent,        \* sent[e]: what the program has sent
    got,         \* got[e]: what it has received
    stream,      \* stream[e]: the connection to the program, "open" or "closed"
    rpc,         \* "none", "open", "returned" by the handler, "cancelled" by the
                 \* client, "broken" by the network
    queue,       \* queue[e]: messages that e has sent
    handler,     \* the handler: "none", "header", "serving" or "returned"
    end,         \* end[e]: the goroutines of e, see Working
    writeFailed  \* history: ends that could not write to their program

progVars == <<kind, program, stalled, sent>>
vars == <<progVars, got, stream, rpc, queue, handler, end, writeFailed>>

\* The goroutines' places.  taken counts the units read from the program, buf is
\* the shared buffer, eof the error with which a read came back, and hold what
\* tunnelToStream writes (in the proxy: pendingData).
NotWorking ==
    [s2t |-> "off", reader |-> "off", t2s |-> "off", taken |-> 0,
     buf |-> <<>>, eof |-> FALSE, hold |-> <<>>]
Working == [NotWorking EXCEPT !.s2t = "give", !.reader = "idle", !.t2s = "recv"]
ProxyWorking == [NotWorking EXCEPT !.s2t = "write", !.reader = "ended", !.t2s = "recv"]

Init ==
    /\ kind \in {"cli", "proxy"}
    /\ program = [e \in Ends |-> "open"]
    /\ stalled \in {{}, {"server"}} \cup (IF kind = "cli" THEN {{"client"}} ELSE {})
    /\ sent = [e \in Ends |-> <<>>]
    /\ got = [e \in Ends |-> <<>>]
    /\ stream = [e \in Ends |-> "open"]
    /\ rpc = "none"
    /\ queue = [e \in Ends |-> <<>>]
    /\ handler = "none"
    /\ end = [e \in Ends |-> NotWorking]
    /\ writeFailed = {}

-----------------------------------------------------------------------------
(* The programs and the network                                            *)

IsProxy(e) == e = "client" /\ kind = "proxy"
\* The programs are of interest once their connections are in use.
InUse(e) == end[e] # NotWorking
Outside == UNCHANGED <<kind, stalled, got, stream, queue, handler, end, writeFailed>>

ProgramSends(e) ==
    /\ program[e] = "open" /\ InUse(e)
    /\ Len(sent[e]) < IF e = "client" THEN ClientUnits ELSE ServerUnits
    /\ sent' = [sent EXCEPT ![e] = Append(@, Len(@) + 1)]
    /\ Outside /\ UNCHANGED <<program, rpc>>

\* A program ends what it sends, or closes the connection.  The proxy's HTTP
\* transport only does the latter.
ProgramCloses(e) ==
    /\ InUse(e)
    /\ \/ /\ program[e] = "open" /\ ~IsProxy(e)
          /\ program' = [program EXCEPT ![e] = "half"]
       \/ program[e] # "closed" /\ program' = [program EXCEPT ![e] = "closed"]
    /\ Outside /\ UNCHANGED <<sent, rpc>>

NetworkBreaks ==
    /\ rpc = "open"
    /\ rpc' = "broken"
    /\ Outside /\ UNCHANGED <<program, sent>>

-----------------------------------------------------------------------------
(* Establishing the tunnel                                                 *)

\* connect or dialTunnelContext: the RPC is opened and the header sent.
Connect ==
    /\ rpc = "none" /\ stream["client"] = "open"
    /\ \/ /\ rpc' = "open" /\ handler' = "header"
          /\ end' = [end EXCEPT !["client"] = IF kind = "cli" THEN Working ELSE ProxyWorking]
          /\ UNCHANGED stream
       \/ /\ stream' = [stream EXCEPT !["client"] = "closed"]
          /\ UNCHANGED <<rpc, handler, end>>
    /\ UNCHANGED <<progVars, got, queue, writeFailed>>

\* Tunnel or ExposedTunnel: the header is received, and the destination is
\* looked up and dialled; or one of that fails and the handler returns.
AcceptTunnel ==
    /\ handler = "header"
    /\ \/ /\ handler' = "serving"
          /\ end' = [end EXCEPT !["server"] = Working]
          /\ UNCHANGED <<stream, rpc>>
       \/ /\ handler' = "returned"
          /\ stream' = [stream EXCEPT !["server"] = "closed"]
          /\ rpc' = IF rpc = "open" THEN "returned" ELSE rpc
          /\ UNCHANGED end
    /\ UNCHANGED <<progVars, got, queue, writeFailed>>

-----------------------------------------------------------------------------
(* The goroutines of an end                                                *)

At(e, new) == end' = [end EXCEPT ![e] = new]
Goroutine == UNCHANGED <<progVars, handler>>

\* streamToTunnel hands the buffer to asyncReadStream.
GiveBuf(e) ==
    /\ end[e].s2t = "give" /\ end[e].reader = "idle"
    /\ At(e, [end[e] EXCEPT !.s2t = "select", !.reader = "reading"])
    /\ Goroutine /\ UNCHANGED <<got, stream, rpc, queue, writeFailed>>

\* Fault: a read that comes back with data and the end of the stream counts as
\* the end only.
ReadStreamEndFirst(e) ==
    LET unread == Len(sent[e]) - end[e].taken
    IN  /\ end[e].reader = "reading" /\ stream[e] = "open"
        /\ unread > 0 \/ program[e] # "open"
        /\ At(e, [end[e] EXCEPT !.reader = "result", !.taken = @ + unread,
                                !.eof = program[e] # "open",
                                !.buf = SubSeq(sent[e], end[e].taken + 1, end[e].taken + unread)])
        /\ Goroutine /\ UNCHANGED <<got, stream, rpc, queue, writeFailed>>

\* asyncReadStream reads units, or the end of the stream.
ReadStream(e) ==
    LET unread == Len(sent[e]) - end[e].taken
    IN  /\ end[e].reader = "reading" /\ stream[e] = "open"
        /\ \/ \E n \in 1..unread :
                At(e, [end[e] EXCEPT !.reader = "result", !.taken = @ + n,
                         !.buf = SubSeq(sent[e], end[e].taken + 1, end[e].taken + n)])
           \/ /\ unread = 0 /\ program[e] # "open"
              /\ At(e, [end[e] EXCEPT !.reader = "result", !.eof = TRUE])
        /\ Goroutine /\ UNCHANGED <<got, stream, rpc, queue, writeFailed>>

\* Fault: the reader reads on into the buffer that is being sent.
TakeResultReadsOn(e) ==
    /\ end[e].s2t = "select" /\ end[e].reader = "result"
    /\ At(e, [end[e] EXCEPT !.reader = IF end[e].eof THEN "ended" ELSE "reading",
                            !.s2t = IF end[e].eof THEN "eof" ELSE "send"])
    /\ Goroutine /\ UNCHANGED <<got, stream, rpc, queue, writeFailed>>

\* The result is handed over; the reader waits for the buffer, or ends.
TakeResult(e) ==
    /\ end[e].s2t = "select" /\ end[e].reader = "result"
    /\ At(e, [end[e] EXCEPT !.reader = IF end[e].eof THEN "ended" ELSE "idle",
                            !.s2t = IF end[e].eof THEN "eof" ELSE "send"])
    /\ Goroutine /\ UNCHANGED <<got, stream, rpc, queue, writeFailed>>

\* Fault: the client's streamToTunnel does not look at done.
DoneSelectedByServer(e) ==
    /\ e = "server" /\ end[e].s2t = "select" /\ end[e].t2s = "ended"
    /\ At(e, [end[e] EXCEPT !.s2t = "eof"])
    /\ Goroutine /\ UNCHANGED <<got, stream, rpc, queue, writeFailed>>

\* <-done: tunnelToStream has ended.
DoneSelected(e) ==
    /\ end[e].s2t = "select" /\ end[e].t2s = "ended"
    /\ At(e, [end[e] EXCEPT !.s2t = "eof"])
    /\ Goroutine /\ UNCHANGED <<got, stream, rpc, queue, writeFailed>>

\* After streamToTunnel the client cancels the RPC.
Cancel(e) == rpc' = IF e = "client" /\ rpc \in {"open", "returned"} THEN "cancelled" ELSE rpc

\* Send of the buffer; an error ends streamToTunnel.
SendBuf(e) ==
    /\ end[e].s2t = "send"
    /\ \/ /\ rpc = "open" /\ Len(queue[e]) < MaxQueue
          /\ queue' = [queue EXCEPT ![e] = Append(@, end[e].buf)]
          /\ At(e, [end[e] EXCEPT !.s2t = "give", !.buf = <<>>])
          /\ UNCHANGED rpc
       \/ /\ rpc # "open"
          /\ At(e, [end[e] EXCEPT !.s2t = "ended"])
          /\ Cancel(e) /\ UNCHANGED queue
    /\ Goroutine /\ UNCHANGED <<got, stream, writeFailed>>

\* Send of Eof, with which streamToTunnel ends whatever comes of it.
SendEof(e) ==
    /\ end[e].s2t = "eof"
    /\ IF rpc = "open"
         THEN Len(queue[e]) < MaxQueue /\ queue' = [queue EXCEPT ![e] = Append(@, Eof)]
         ELSE UNCHANGED queue
    /\ At(e, [end[e] EXCEPT !.s2t = "ended"])
    /\ Cancel(e)
    /\ Goroutine /\ UNCHANGED <<got, stream, writeFailed>>

\* asyncReadStream ends after streamToTunnel: it finds bufChan closed, its
\* context done, or the stream closed.
ReaderEnds(e) ==
    /\ end[e].s2t = "ended"
    /\ end[e].reader \in {"idle", "result"} \/ (end[e].reader = "reading" /\ stream[e] = "closed")
    /\ At(e, [end[e] EXCEPT !.reader = "ended"])
    /\ Goroutine /\ UNCHANGED <<got, stream, rpc, queue, writeFailed>>

Inbox(e) == queue[Peer(e)]
RecvFails(e) == rpc \in {"cancelled", "broken"} \/ (rpc = "returned" /\ Inbox(e) = <<>>)

\* tunnelToStream receives: data, Eof, or an error.  Of a cancelled or broken
\* stream what is queued may still be received or not.
RecvMsg(e) ==
    /\ end[e].t2s = "recv" /\ end[e].hold = <<>>
    /\ \/ /\ Inbox(e) # <<>>
          /\ queue' = [queue EXCEPT ![Peer(e)] = Tail(@)]
          /\ IF Head(Inbox(e)) = Eof
               THEN At(e, [end[e] EXCEPT !.t2s = "ended"])
               ELSE At(e, [end[e] EXCEPT !.t2s = IF IsProxy(e) THEN @ ELSE "write", !.hold = Head(Inbox(e))])
       \/ /\ RecvFails(e)
          /\ At(e, [end[e] EXCEPT !.t2s = "ended"])
          /\ UNCHANGED queue
    /\ Goroutine /\ UNCHANGED <<got, stream, rpc, writeFailed>>

\* It writes all of it, which takes until the program reads.
WriteStream(e) ==
    /\ end[e].t2s = "write"
    /\ \/ /\ program[e] # "closed" /\ e \notin stalled
          /\ got' = [got EXCEPT ![e] = @ \o end[e].hold]
          /\ At(e, [end[e] EXCEPT !.t2s = "recv", !.hold = <<>>])
          /\ UNCHANGED writeFailed
       \/ /\ program[e] = "closed"
          /\ At(e, [end[e] EXCEPT !.t2s = "ended", !.hold = <<>>])
          /\ writeFailed' = writeFailed \cup {e}
          /\ UNCHANGED got
    /\ Goroutine /\ UNCHANGED <<stream, rpc, queue>>

\* Both are done: the connection is closed and, at the server, the handler
\* returns.
Finish(e) ==
    /\ end[e].s2t = "ended" /\ end[e].t2s = "ended" /\ stream[e] = "open"
    /\ stream' = [stream EXCEPT ![e] = "closed"]
    /\ handler' = IF e = "server" THEN "returned" ELSE handler
    /\ rpc' = IF e = "server" /\ rpc = "open" THEN "returned" ELSE rpc
    /\ UNCHANGED <<progVars, got, queue, end, writeFailed>>

-----------------------------------------------------------------------------
(* tunnelConn of the link proxy                                            *)

\* Close: Eof and CloseSend.  The RPC's context is never cancelled.
CloseTunnelConn ==
    /\ IF rpc = "open"
         THEN /\ Len(queue["client"]) < MaxQueue
              /\ queue' = [queue EXCEPT !["client"] = Append(@, Eof)]
         ELSE UNCHANGED queue
    /\ At("client", [end["client"] EXCEPT !.s2t = "ended", !.t2s = "ended", !.hold = <<>>])
    /\ stream' = [stream EXCEPT !["client"] = "closed"]

\* Write: a message with all that the transport writes; on an error, Close.
ProxyWrite ==
    LET e == end["client"]
        unread == Len(sent["client"]) - e.taken
    IN  /\ e.s2t = "write" /\ unread > 0
        /\ \/ /\ rpc = "open" /\ Len(queue["client"]) < MaxQueue
              /\ queue' = [queue EXCEPT !["client"] =
                             Append(@, SubSeq(sent["client"], e.taken + 1, e.taken + unread))]
              /\ At("client", [e EXCEPT !.taken = @ + unread])
              /\ UNCHANGED stream
           \/ rpc # "open" /\ CloseTunnelConn
        /\ Goroutine /\ UNCHANGED <<got, rpc, writeFailed>>

\* Read: as much of pendingData as fits the transport's buffer.
ProxyRead ==
    LET hold == end["client"].hold
    IN  /\ hold # <<>> /\ kind = "proxy"
        /\ \E n \in 1..Len(hold) :
             /\ got' = [got EXCEPT !["client"] = @ \o SubSeq(hold, 1, n)]
             /\ At("client", [end["client"] EXCEPT !.hold = SubSeq(hold, n + 1, Len(hold))])
        /\ Goroutine /\ UNCHANGED <<stream, rpc, queue, writeFailed>>

\* The transport closes the connection, of itself or because Read returned an
\* error or the end.
ProxyClose ==
    /\ end["client"].s2t = "write"
    /\ program["client"] = "closed" \/ end["client"].t2s = "ended"
    /\ CloseTunnelConn
    /\ Goroutine /\ UNCHANGED <<got, rpc, writeFailed>>

-----------------------------------------------------------------------------

EndOf(e) ==
    \/ GiveBuf(e) \/ ReadStream(e) \/ TakeResult(e) \/ DoneSelected(e)
    \/ SendBuf(e) \/ SendEof(e) \/ ReaderEnds(e)
    \/ RecvMsg(e) \/ WriteStream(e) \/ Finish(e)

Proxy == ProxyWrite \/ ProxyRead \/ ProxyClose

Next ==
    \/ \E e \in Ends : ProgramSends(e) \/ ProgramCloses(e) \/ EndOf(e)
    \/ NetworkBreaks \/ Connect \/ AcceptTunnel \/ Proxy

Spec == Init /\ [][Next]_vars

\* Every goroutine runs.  Nothing is assumed of the programs and the network.
Fairness ==
    /\ WF_vars(AcceptTunnel) /\ WF_vars(ProxyWrite) /\ WF_vars(ProxyRead) /\ WF_vars(ProxyClose)
    /\ \A e \in Ends :
         /\ WF_vars(GiveBuf(e)) /\ WF_vars(ReadStream(e))
         /\ WF_vars(TakeResult(e) \/ DoneSelected(e))
         /\ WF_vars(SendBuf(e)) /\ WF_vars(SendEof(e)) /\ WF_vars(ReaderEnds(e))
         /\ WF_vars(RecvMsg(e)) /\ WF_vars(WriteStream(e)) /\ WF_vars(Finish(e))

FairSpec == Spec /\ Fairness

-----------------------------------------------------------------------------
(* Properties                                                              *)

ThePipe == INSTANCE Pipe WITH closed <- {e \in Ends : stream[e] = "closed"}

\* A tunnel is a connection: each program receives a prefix of what the other
\* sent, in order and nothing twice, although one buffer is shared by the
\* goroutine that reads and the one that sends, and messages are split on the
\* way out.
ImplementsPipe == ThePipe!Spec

AllEnded ==
    \A e \in Ends :
        /\ stream[e] = "closed"
        /\ {end[e].s2t, end[e].reader, end[e].t2s} \subseteq {"off", "ended"}

\* Once either program, the handler or the network has ended the connection, all
\* goroutines of both ends end and both connections are closed.  Two waits have
\* no end: a write to a program that does not read, and a Send of the handler to
\* a proxy that has closed -- the proxy reads no more and never cancels the RPC.
EndsTogether ==
    (rpc # "none" /\ (program # [e \in Ends |-> "open"] \/ rpc # "open")) ~>
        \/ AllEnded
        \/ \E e \in stalled : end[e].t2s = "write"
        \/ /\ kind = "proxy" /\ stream["client"] = "closed"
           /\ end["server"].s2t \in {"send", "eof"} /\ Len(queue["server"]) = MaxQueue

\* A client that keeps its side open receives all that the service sent before
\* it closed, unless the network fails -- or the service could not be written
\* to: tunnelToStream then ends, and <-done may be selected although there is
\* more to read from the service.
ReplyComplete ==
    (/\ end["client"].t2s = "ended" /\ program["client"] = "open"
     /\ end["server"].s2t # "off" /\ rpc # "broken" /\ "server" \notin writeFailed)
        => got["client"] \o end["client"].hold = sent["server"]

EndStates ==
    [s2t : {"off", "give", "select", "send", "eof", "write", "ended"},
     reader : {"off", "idle", "reading", "result", "ended"},
     t2s : {"off", "recv", "write", "ended"},
     taken : Nat, buf : Seq(Nat), eof : BOOLEAN, hold : Seq(Nat)]

\* Type of the state.
TypeOK ==
    /\ kind \in {"cli", "proxy"} /\ stalled \subseteq Ends
    /\ program \in [Ends -> {"open", "half", "closed"}]
    /\ sent \in [Ends -> Seq(Nat)] /\ got \in [Ends -> Seq(Nat)]
    /\ stream \in [Ends -> {"open", "closed"}]
    /\ rpc \in {"none", "open", "returned", "cancelled", "broken"}
    /\ queue \in [Ends -> Seq(Seq(Nat))]
    /\ \A e \in Ends : Len(queue[e]) <= MaxQueue
    /\ handler \in {"none", "header", "serving", "returned"}
    /\ end \in [Ends -> EndStates]
    /\ writeFailed \subseteq Ends

=============================================================================
