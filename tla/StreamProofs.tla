---------------------------- MODULE StreamProofs ----------------------------
(* Proofs about the two streams that the CLI keeps open.                   *)
(*                                                                         *)
(* Tunnels: one connection, for any number of units and any room in the    *)
(* gRPC stream.  The two programs see the connection that Pipe describes,  *)
(* and a client that stays receives the whole answer.                      *)
(*                                                                         *)
(* Logs: `blimp logs` of any services, lines and failures.  A line is      *)
(* printed once and in order, none is skipped, and nothing is left         *)
(* unprinted, under the conditions of the three properties of Logs.        *)
EXTENDS Tunnel, Logs, FiniteSetTheorems, SequenceTheorems, TLAPS

-----------------------------------------------------------------------------
(* Tunnels: the inductive invariant                                        *)

\* The units after the a-th up to the b-th, in order.
Units(a, b) == [i \in 1..(b - a) |-> a + i]

\* The messages of q hold the units after the a-th up to the b-th: c[i] units
\* are gone by after the i-th message.
Run(q, a, b) ==
    \E c \in [0..Len(q) -> Nat] :
        /\ c[0] = a /\ c[Len(q)] = b
        /\ \A i, j \in 0..Len(q) : i <= j => c[i] <= c[j]
        /\ \A i \in 1..Len(q) : q[i] = Units(c[i - 1], c[i])

\* How many units arrived at e.
Arrived(e) == Len(got[e]) + Len(end[e].hold)

\* streamToTunnel of e goes on: what is read will be sent.
GoesOn(e) == end[e].s2t \notin {"eof", "ended"}

\* Nothing excuses an answer that is cut off.
Refused == handler = "returned" /\ end["server"].s2t = "off"
Undisturbed ==
    /\ program["client"] = "open" /\ rpc # "broken"
    /\ "server" \notin writeFailed /\ ~Refused

\* The ends come into use in order.
StartInv ==
    /\ rpc = "none" => end["client"] = NotWorking
    /\ handler \in {"none", "header"} => end["server"] = NotWorking /\ stream["server"] = "open"
    /\ handler = "none" <=> rpc = "none"
    /\ end["server"].s2t # "write"
    /\ \A e \in Ends : end[e].s2t = "off" => end[e] = NotWorking
    /\ kind = "proxy" => end["client"].s2t \in {"off", "write", "ended"}
    /\ kind = "proxy" => end["client"].reader \in {"off", "ended"}
    /\ kind = "proxy" => end["client"].t2s # "write"
    /\ kind = "cli" => end["client"].s2t # "write"

\* The shared buffer is never in the hands of both goroutines.
BufferInv(e) ==
    /\ end[e].taken <= Len(sent[e])
    /\ end[e].eof => end[e].taken = Len(sent[e]) /\ program[e] # "open"
    /\ end[e].s2t \in {"off", "give", "write"} => end[e].buf = <<>>
    /\ end[e].s2t \in {"give", "send"} => end[e].reader = "idle" /\ ~end[e].eof
    /\ end[e].s2t = "send" => end[e].buf # <<>>
    /\ end[e].s2t = "select" => end[e].reader \in {"reading", "result"}
    /\ end[e].s2t = "select" /\ end[e].reader = "reading"
         => end[e].buf = <<>> /\ ~end[e].eof
    /\ end[e].s2t = "select" /\ end[e].reader = "result"
         => (end[e].eof <=> end[e].buf = <<>>)

\* Units are numbered in the order in which they are sent, and those that arrived
\* are the first ones.
ArrivedInv(e) ==
    /\ sent[e] = Units(0, Len(sent[e]))
    /\ got[e] = Units(0, Len(got[e]))
    /\ end[e].hold = Units(Len(got[e]), Arrived(e))
    /\ Arrived(e) <= end[Peer(e)].taken
    /\ end[e].t2s = "write" => end[e].hold # <<>>
    /\ end[e].t2s \in {"off", "ended"} => end[e].hold = <<>>
    /\ end[e].t2s = "recv" /\ end[e].hold # <<>> => e = "client" /\ kind = "proxy"
    /\ stream[e] = "closed" => end[e].t2s \in {"off", "ended"}

\* What is queued follows on what arrived, and the buffer on what is queued.
TransitInv(e) ==
    end[Peer(e)].t2s # "ended" =>
        \E b \in 0..end[e].taken :
            /\ Run(queue[e], Arrived(Peer(e)), b)
            /\ GoesOn(e) \/ (e = "server" /\ Undisturbed)
                 => end[e].buf = Units(b, end[e].taken)

\* Nothing follows Eof.
EofInv(e) ==
    \A i \in 1..Len(queue[e]) :
        queue[e][i] = Eof => i = Len(queue[e]) /\ end[e].s2t = "ended"

\* Until the client has the whole answer, nobody ends anything.
ReplyInv ==
    Undisturbed =>
        /\ end["client"].t2s # "ended" =>
             /\ GoesOn("client") /\ rpc \in {"none", "open"}
             /\ end["server"].t2s # "ended"
        /\ end["client"].t2s = "ended" =>
             end["server"].s2t = "ended" /\ Len(got["client"]) = end["server"].taken
        /\ ~GoesOn("server") =>
             end["server"].eof /\ end["server"].reader = "ended" /\ end["server"].buf = <<>>

TunnelInv ==
    /\ TypeOK
    /\ StartInv
    /\ \A e \in Ends : BufferInv(e) /\ ArrivedInv(e) /\ TransitInv(e) /\ EofInv(e)
    /\ ReplyInv

-----------------------------------------------------------------------------
(* Units and messages                                                      *)

\* Units(a, b) is a sequence of b - a units.
LEMMA UnitsSeq ==
    ASSUME NEW a \in Nat, NEW b \in Nat, a <= b
    PROVE  /\ Units(a, b) \in Seq(Nat) /\ Len(Units(a, b)) = b - a
           /\ \A i \in 1..(b - a) : Units(a, b)[i] = a + i
           /\ Units(a, b) = <<>> <=> a = b
<1>1. Units(a, b) \in [1..(b - a) -> Nat]
  BY DEF Units
<1>2. b - a \in Nat
  OBVIOUS
<1>3. Units(a, b) \in Seq(Nat) /\ Len(Units(a, b)) = b - a
  BY <1>1, <1>2, SeqDef, LenProperties
<1>4. \A i \in 1..(b - a) : Units(a, b)[i] = a + i
  BY DEF Units
<1>5. Units(a, b) = <<>> <=> Len(Units(a, b)) = 0
  BY <1>3, EmptySeq
<1> QED
  BY <1>3, <1>4, <1>5

\* No units.
LEMMA NoUnits == \A n \in Nat : Units(n, n) = <<>>
BY UnitsSeq

\* What a sequence is that has the right length and the right units.
LEMMA IsUnits ==
    ASSUME NEW a \in Nat, NEW b \in Nat, a <= b, NEW s \in Seq(Nat),
           Len(s) = b - a, \A i \in 1..(b - a) : s[i] = a + i
    PROVE  s = Units(a, b)
<1>1. Units(a, b) \in Seq(Nat) /\ Len(Units(a, b)) = b - a
      /\ \A i \in 1..(b - a) : Units(a, b)[i] = a + i
  BY UnitsSeq
<1>2. \A i \in 1..Len(s) : s[i] = Units(a, b)[i]
  BY <1>1
<1> QED
  BY <1>1, <1>2, SeqEqual

\* A program sends the next unit.
LEMMA UnitsAppend ==
    ASSUME NEW n \in Nat
    PROVE  Append(Units(0, n), n + 1) = Units(0, n + 1)
<1> DEFINE s == Append(Units(0, n), n + 1)
<1>1. Units(0, n) \in Seq(Nat) /\ Len(Units(0, n)) = n /\ \A i \in 1..n : Units(0, n)[i] = i
  BY UnitsSeq
<1>2. s \in Seq(Nat) /\ Len(s) = n + 1 /\ (\A i \in 1..n : s[i] = Units(0, n)[i]) /\ s[n + 1] = n + 1
  BY <1>1, AppendProperties
<1>3. ASSUME NEW i \in 1..(n + 1) PROVE s[i] = i
  BY <1>1, <1>2
<1> HIDE DEF s
<1>4. s = Units(0, n + 1)
  BY <1>2, <1>3, IsUnits
<1> QED
  BY <1>4 DEF s

\* A part of some units.
LEMMA UnitsSub ==
    ASSUME NEW a \in Nat, NEW b \in Nat, NEW m \in Nat, NEW n \in Nat,
           m <= n, a + n <= b
    PROVE  SubSeq(Units(a, b), m + 1, n) = Units(a + m, a + n)
<1> DEFINE u == Units(a, b)
           s == SubSeq(u, m + 1, n)
<1>1. u \in Seq(Nat) /\ Len(u) = b - a /\ \A i \in 1..(b - a) : u[i] = a + i
  BY UnitsSeq
<1>2. \A i \in (m + 1)..n : u[i] \in Nat
  BY <1>1
<1> HIDE DEF u
<1>3. s \in Seq(Nat) /\ Len(s) = n - m /\ \A i \in 1..(n - m) : s[i] = u[m + 1 + i - 1]
  BY <1>1, SubSeqProperties
<1>4. ASSUME NEW i \in 1..(n - m) PROVE s[i] = a + m + i
  BY <1>1, <1>3
<1> HIDE DEF s
<1>5. a + m \in Nat /\ a + n \in Nat /\ a + m <= a + n /\ (a + n) - (a + m) = n - m
  OBVIOUS
<1>6. s = Units(a + m, a + n)
  BY <1>3, <1>4, <1>5, IsUnits
<1> QED
  BY <1>6 DEF s, u

\* The first n of some units.
LEMMA UnitsFirst ==
    ASSUME NEW a \in Nat, NEW b \in Nat, NEW n \in Nat, a + n <= b
    PROVE  SubSeq(Units(a, b), 1, n) = Units(a, a + n)
<1>1. \A m \in Nat : m <= n => SubSeq(Units(a, b), m + 1, n) = Units(a + m, a + n)
  BY UnitsSub
<1>2. 0 \in Nat /\ 0 <= n /\ 0 + 1 = 1 /\ a + 0 = a
  OBVIOUS
<1>3. SubSeq(Units(a, b), 0 + 1, n) = Units(a + 0, a + n)
  BY <1>1, <1>2, Zenon
<1> QED
  BY <1>2, <1>3, Zenon

\* What a read returns that finds k units after the m-th.
LEMMA UnitsRead ==
    ASSUME NEW n \in Nat, NEW m \in Nat, NEW k \in Nat, k >= 1, m + k <= n
    PROVE  /\ SubSeq(Units(0, n), m + 1, m + k) = Units(m, m + k)
           /\ Units(m, m + k) \in Seq(Nat) /\ Units(m, m + k) # <<>>
<1>1. SubSeq(Units(0, n), m + 1, m + k) = Units(m, m + k)
  <2> DEFINE j == m + k
  <2>1. j \in Nat /\ m <= j /\ 0 + j <= n
    OBVIOUS
  <2> HIDE DEF j
  <2>2. SubSeq(Units(0, n), m + 1, j) = Units(0 + m, 0 + j)
    BY <2>1, UnitsSub
  <2>3. 0 + m = m /\ 0 + j = j
    BY <2>1
  <2>4. SubSeq(Units(0, n), m + 1, j) = Units(m, j)
    BY <2>2, <2>3
  <2> QED
    BY <2>4 DEF j
<1>2. Units(m, m + k) \in Seq(Nat) /\ Units(m, m + k) # <<>>
  BY UnitsSeq
<1> QED
  BY <1>1, <1>2

\* Units that follow on one another.
LEMMA UnitsConcat ==
    ASSUME NEW a \in Nat, NEW b \in Nat, NEW c \in Nat, a <= b, b <= c
    PROVE  Units(a, b) \o Units(b, c) = Units(a, c)
<1> DEFINE u == Units(a, b)
           w == Units(b, c)
           s == u \o w
<1>1. u \in Seq(Nat) /\ Len(u) = b - a /\ \A i \in 1..(b - a) : u[i] = a + i
  BY UnitsSeq
<1>2. w \in Seq(Nat) /\ Len(w) = c - b /\ \A i \in 1..(c - b) : w[i] = b + i
  BY UnitsSeq
<1> HIDE DEF u, w
<1>3. s \in Seq(Nat) /\ Len(s) = c - a
      /\ \A i \in 1..(c - a) : s[i] = IF i <= b - a THEN u[i] ELSE w[i - (b - a)]
  <2>1. u \o w \in Seq(Nat) /\ Len(u \o w) = Len(u) + Len(w)
        /\ \A i \in 1..(Len(u) + Len(w)) :
             (u \o w)[i] = IF i <= Len(u) THEN u[i] ELSE w[i - Len(u)]
    BY <1>1, <1>2, ConcatProperties
  <2>2. Len(u) + Len(w) = c - a
    BY <1>1, <1>2
  <2> QED
    BY ONLY <1>1, <2>1, <2>2
<1>4. ASSUME NEW i \in 1..(c - a) PROVE s[i] = a + i
  BY <1>1, <1>2, <1>3
<1> HIDE DEF s
<1>5. s = Units(a, c)
  BY <1>3, <1>4, IsUnits
<1> QED
  BY <1>5 DEF s, u, w

\* No message, no units.
LEMMA RunEmpty ==
    ASSUME NEW a \in Nat
    PROVE  Run(<<>>, a, a)
<1> DEFINE c == [i \in 0..0 |-> a]
<1>1. c \in [0..Len(<<>>) -> Nat] /\ c[0] = a /\ c[Len(<<>>)] = a
  OBVIOUS
<1>2. \A i, j \in 0..Len(<<>>) : i <= j => c[i] <= c[j]
  OBVIOUS
<1>3. \A i \in 1..Len(<<>>) : <<>>[i] = Units(c[i - 1], c[i])
  OBVIOUS
<1> QED
  BY <1>1, <1>2, <1>3 DEF Run

\* The units of a queue are in order.
LEMMA RunOrder ==
    ASSUME NEW q \in Seq(Seq(Nat)), NEW a, NEW b, Run(q, a, b)
    PROVE  a \in Nat /\ b \in Nat /\ a <= b /\ (q = <<>> => a = b)
BY DEF Run

\* A message that follows on the queue.
LEMMA RunAppend ==
    ASSUME NEW q \in Seq(Seq(Nat)), NEW a, NEW b, NEW d \in Nat, Run(q, a, b), b <= d
    PROVE  Run(Append(q, Units(b, d)), a, d)
<1> DEFINE n == Len(q)
           p == Append(q, Units(b, d))
<1>1. PICK c \in [0..n -> Nat] :
        /\ c[0] = a /\ c[n] = b
        /\ \A i, j \in 0..n : i <= j => c[i] <= c[j]
        /\ \A i \in 1..n : q[i] = Units(c[i - 1], c[i])
  BY DEF Run
<1>2. n \in Nat /\ b \in Nat /\ Units(b, d) \in Seq(Nat)
  <2>1. n \in Nat /\ b \in Nat
    BY <1>1
  <2> QED
    BY <2>1, UnitsSeq
<1>3. Len(p) = n + 1 /\ (\A i \in 1..n : p[i] = q[i]) /\ p[n + 1] = Units(b, d)
  BY <1>2, AppendProperties
<1> HIDE DEF p, n
<1> DEFINE e == [i \in 0..(n + 1) |-> IF i <= n THEN c[i] ELSE d]
<1>4. e \in [0..(n + 1) -> Nat] /\ e[0] = a /\ e[n + 1] = d /\ (\A i \in 0..n : e[i] = c[i])
  BY <1>1, <1>2
<1> HIDE DEF e
<1>5. ASSUME NEW i \in 0..(n + 1), NEW j \in 0..(n + 1), i <= j PROVE e[i] <= e[j]
  <2>1. CASE j <= n
    <3>1. i \in 0..n /\ j \in 0..n
      BY <1>2, <1>5, <2>1
    <3> QED
      BY <1>1, <1>4, <1>5, <3>1
  <2>2. CASE j = n + 1 /\ i <= n
    <3>1. c[i] <= c[n] /\ c[i] \in Nat
      BY <1>1, <1>2, <2>2
    <3> QED
      BY <1>1, <1>2, <1>4, <2>2, <3>1
  <2>3. CASE i = n + 1 /\ j = n + 1
    BY <1>4, <2>3
  <2> QED
    BY <1>2, <2>1, <2>2, <2>3
<1>6. ASSUME NEW i \in 1..(n + 1) PROVE p[i] = Units(e[i - 1], e[i])
  <2>1. CASE i <= n
    BY <1>1, <1>2, <1>3, <1>4, <2>1
  <2>2. CASE i = n + 1
    BY <1>1, <1>2, <1>3, <1>4, <2>2
  <2> QED
    BY <1>2, <2>1, <2>2
<1>7. Run(p, a, d)
  BY <1>3, <1>4, <1>5, <1>6 DEF Run
<1> QED
  BY <1>7 DEF p

\* A message that is received.
LEMMA RunTail ==
    ASSUME NEW q \in Seq(Seq(Nat)), NEW a, NEW b, Run(q, a, b), q # <<>>
    PROVE  \E d \in Nat : a <= d /\ d <= b /\ Head(q) = Units(a, d) /\ Run(Tail(q), d, b)
<1> DEFINE n == Len(q)
           p == Tail(q)
<1>1. PICK c \in [0..n -> Nat] :
        /\ c[0] = a /\ c[n] = b
        /\ \A i, j \in 0..n : i <= j => c[i] <= c[j]
        /\ \A i \in 1..n : q[i] = Units(c[i - 1], c[i])
  BY DEF Run
<1>2. n \in Nat /\ n >= 1
  BY EmptySeq, LenProperties
<1>3. Len(p) = n - 1 /\ (\A i \in 1..(n - 1) : p[i] = q[i + 1]) /\ Head(q) = q[1]
  BY HeadTailProperties
<1> HIDE DEF p, n
<1> DEFINE e == [i \in 0..(n - 1) |-> c[i + 1]]
<1>4. e \in [0..(n - 1) -> Nat] /\ e[0] = c[1] /\ e[n - 1] = b /\ (\A i \in 0..(n - 1) : e[i] = c[i + 1])
  BY <1>1, <1>2
<1> HIDE DEF e
<1>5. ASSUME NEW i \in 0..(n - 1), NEW j \in 0..(n - 1), i <= j PROVE e[i] <= e[j]
  BY <1>1, <1>2, <1>4, <1>5
<1>6. ASSUME NEW i \in 1..(n - 1) PROVE p[i] = Units(e[i - 1], e[i])
  BY <1>1, <1>2, <1>3, <1>4
<1>7. Run(p, c[1], b)
  BY <1>2, <1>3, <1>4, <1>5, <1>6 DEF Run
<1>8. c[1] \in Nat /\ a <= c[1] /\ c[1] <= b /\ Head(q) = Units(a, c[1])
  BY <1>1, <1>2, <1>3
<1> QED
  BY <1>7, <1>8 DEF p

-----------------------------------------------------------------------------
(* Helpers                                                                 *)

\* The two ends of a tunnel.
LEMMA TwoEnds ==
    /\ \A e \in Ends : Peer(e) \in Ends /\ Peer(e) # e /\ Peer(Peer(e)) = e
    /\ \A e, x \in Ends : x = e \/ x = Peer(e)
    /\ "client" \in Ends /\ "server" \in Ends
    /\ Peer("client") = "server" /\ Peer("server") = "client"
BY DEF Ends, Peer

\* The states in which the goroutines of an end begin.
LEMMA FirstStates ==
    /\ NotWorking \in EndStates /\ Working \in EndStates /\ ProxyWorking \in EndStates
    /\ NotWorking.s2t = "off" /\ NotWorking.reader = "off" /\ NotWorking.t2s = "off"
    /\ NotWorking.taken = 0 /\ NotWorking.buf = <<>> /\ ~NotWorking.eof /\ NotWorking.hold = <<>>
    /\ Working.s2t = "give" /\ Working.reader = "idle" /\ Working.t2s = "recv"
    /\ Working.taken = 0 /\ Working.buf = <<>> /\ ~Working.eof /\ Working.hold = <<>>
    /\ ProxyWorking.s2t = "write" /\ ProxyWorking.reader = "ended" /\ ProxyWorking.t2s = "recv"
    /\ ProxyWorking.taken = 0 /\ ProxyWorking.buf = <<>> /\ ~ProxyWorking.eof
    /\ ProxyWorking.hold = <<>>
<1>1. <<>> \in Seq(Nat)
  BY EmptySeq
<1> QED
  BY <1>1 DEF NotWorking, Working, ProxyWorking, EndStates

\* A step of the goroutines of one end.
LEMMA EndChange ==
    ASSUME TypeOK, NEW e \in Ends, NEW new \in EndStates, At(e, new)
    PROVE  /\ end' \in [Ends -> EndStates]
           /\ end'[e] = new
           /\ \A x \in Ends : x # e => end'[x] = end[x]
BY DEF TypeOK, At

\* A part of a sequence of units.
LEMMA PartOfSeq ==
    ASSUME NEW s \in Seq(Nat), NEW m \in Nat, NEW n \in Nat, m <= n, n <= Len(s)
    PROVE  SubSeq(s, m + 1, n) \in Seq(Nat) /\ Len(SubSeq(s, m + 1, n)) = n - m
<1>1. \A i \in (m + 1)..n : s[i] \in Nat
  BY LenProperties, ElementOfSeq
<1> QED
  BY <1>1, SubSeqProperties

\* The types of what belongs to x.
LEMMA Typed ==
    ASSUME TypeOK, NEW x \in Ends
    PROVE  /\ end[x] \in EndStates
           /\ end[x].taken \in Nat /\ end[x].buf \in Seq(Nat) /\ end[x].hold \in Seq(Nat)
           /\ sent[x] \in Seq(Nat) /\ got[x] \in Seq(Nat) /\ queue[x] \in Seq(Seq(Nat))
           /\ Len(sent[x]) \in Nat /\ Len(got[x]) \in Nat /\ Len(end[x].hold) \in Nat
           /\ Len(end[x].buf) \in Nat /\ Len(queue[x]) \in Nat /\ Arrived(x) \in Nat
<1>1. end[x] \in EndStates /\ sent[x] \in Seq(Nat) /\ got[x] \in Seq(Nat)
      /\ queue[x] \in Seq(Seq(Nat))
  BY DEF TypeOK
<1>2. end[x].taken \in Nat /\ end[x].buf \in Seq(Nat) /\ end[x].hold \in Seq(Nat)
  BY <1>1 DEF EndStates
<1>3. Len(sent[x]) \in Nat /\ Len(got[x]) \in Nat /\ Len(end[x].hold) \in Nat
      /\ Len(end[x].buf) \in Nat /\ Len(queue[x]) \in Nat
  BY <1>1, <1>2, LenProperties
<1>4. \A m, n \in Nat : m + n \in Nat
  OBVIOUS
<1>5. Arrived(x) \in Nat
  BY <1>3, <1>4, Zenon DEF Arrived
<1> QED
  BY <1>1, <1>2, <1>3, <1>5

\* What arrived at x is not touched.
LEMMA ArrivedKept ==
    ASSUME TunnelInv, NEW x \in Ends,
           sent' = sent, got'[x] = got[x], kind' = kind,
           end'[x].hold = end[x].hold,
           end'[x].t2s = end[x].t2s \/ (end'[x].t2s \in {"off", "recv", "ended"} /\ end[x].hold = <<>>),
           stream'[x] = "closed" => end'[x].t2s \in {"off", "ended"},
           end'[Peer(x)].taken \in Nat, end[Peer(x)].taken <= end'[Peer(x)].taken
    PROVE  ArrivedInv(x)'
<1>1. ArrivedInv(x)
  BY DEF TunnelInv
<1>2. Arrived(x)' = Arrived(x)
  BY DEF Arrived
<1>3. Arrived(x) \in Nat /\ end[Peer(x)].taken \in Nat
  BY TwoEnds, Typed DEF TunnelInv
<1>4. Arrived(x)' <= end'[Peer(x)].taken
  BY <1>1, <1>2, <1>3 DEF ArrivedInv
<1>5. end'[x].hold = Units(Len(got[x]), Arrived(x))' /\ got'[x] = Units(0, Len(got[x]))'
      /\ sent'[x] = Units(0, Len(sent[x]))'
  BY <1>1, <1>2 DEF ArrivedInv
<1>6. /\ end'[x].t2s = "write" => end'[x].hold # <<>>
      /\ end'[x].t2s \in {"off", "ended"} => end'[x].hold = <<>>
      /\ end'[x].t2s = "recv" /\ end'[x].hold # <<>> => x = "client" /\ kind' = "proxy"
  BY <1>1 DEF ArrivedInv
<1> QED
  BY <1>4, <1>5, <1>6 DEF ArrivedInv

\* What is on the way from x is not touched.
LEMMA TransitKept ==
    ASSUME TunnelInv, NEW x \in Ends,
           queue'[x] = queue[x], got'[Peer(x)] = got[Peer(x)],
           end'[Peer(x)].hold = end[Peer(x)].hold,
           end'[Peer(x)].t2s # "ended" => end[Peer(x)].t2s # "ended",
           end'[x].taken = end[x].taken, end'[x].buf = end[x].buf,
           end'[x].s2t \notin {"eof", "ended"} => end[x].s2t \notin {"eof", "ended"},
           Undisturbed' => Undisturbed
    PROVE  TransitInv(x)'
<1>1. TransitInv(x)
  BY DEF TunnelInv
<1>2. Arrived(Peer(x))' = Arrived(Peer(x))
  BY DEF Arrived
<1> SUFFICES ASSUME end'[Peer(x)].t2s # "ended"
             PROVE  \E b \in 0..end'[x].taken :
                        /\ Run(queue'[x], Arrived(Peer(x))', b)
                        /\ GoesOn(x)' \/ (x = "server" /\ Undisturbed')
                             => end'[x].buf = Units(b, end'[x].taken)
  BY DEF TransitInv
<1>3. PICK b \in 0..end[x].taken :
        /\ Run(queue[x], Arrived(Peer(x)), b)
        /\ GoesOn(x) \/ (x = "server" /\ Undisturbed) => end[x].buf = Units(b, end[x].taken)
  BY <1>1 DEF TransitInv
<1>4. GoesOn(x)' => GoesOn(x)
  BY DEF GoesOn
<1> QED
  BY <1>2, <1>3, <1>4

\* A message is sent.
LEMMA QueueAppend ==
    ASSUME TypeOK, NEW e \in Ends, NEW m \in Seq(Nat), Len(queue[e]) < MaxQueue,
           queue' = [queue EXCEPT ![e] = Append(@, m)]
    PROVE  /\ queue' \in [Ends -> Seq(Seq(Nat))]
           /\ \A x \in Ends : Len(queue'[x]) <= MaxQueue
           /\ queue'[e] = Append(queue[e], m)
           /\ \A x \in Ends : x # e => queue'[x] = queue[x]
           /\ Len(queue'[e]) = Len(queue[e]) + 1
           /\ \A i \in 1..Len(queue[e]) : queue'[e][i] = queue[e][i]
           /\ queue'[e][Len(queue[e]) + 1] = m
<1>1. queue[e] \in Seq(Seq(Nat)) /\ Len(queue[e]) \in Nat /\ queue \in [Ends -> Seq(Seq(Nat))]
  BY Typed DEF TypeOK
<1> DEFINE q == Append(queue[e], m)
<1>2. q \in Seq(Seq(Nat)) /\ Len(q) = Len(queue[e]) + 1
      /\ (\A i \in 1..Len(queue[e]) : q[i] = queue[e][i]) /\ q[Len(queue[e]) + 1] = m
  BY <1>1, AppendProperties
<1>3. queue' = [queue EXCEPT ![e] = q]
  OBVIOUS
<1> HIDE DEF q
<1>4. queue' \in [Ends -> Seq(Seq(Nat))] /\ queue'[e] = q
      /\ \A x \in Ends : x # e => queue'[x] = queue[x]
  BY <1>1, <1>2, <1>3
<1>5. ASSUME NEW x \in Ends PROVE Len(queue'[x]) <= MaxQueue
  BY <1>1, <1>2, <1>4, TunnelAssumption DEF TypeOK, TunnelAssumption
<1> QED
  BY <1>2, <1>4, <1>5 DEF q

\* A message is received.
LEMMA QueueTail ==
    ASSUME TypeOK, NEW p \in Ends, queue[p] # <<>>, queue' = [queue EXCEPT ![p] = Tail(@)]
    PROVE  /\ queue' \in [Ends -> Seq(Seq(Nat))]
           /\ \A x \in Ends : Len(queue'[x]) <= MaxQueue
           /\ queue'[p] = Tail(queue[p])
           /\ \A x \in Ends : x # p => queue'[x] = queue[x]
           /\ Len(queue'[p]) = Len(queue[p]) - 1 /\ Len(queue[p]) >= 1
           /\ \A i \in 1..(Len(queue[p]) - 1) : queue'[p][i] = queue[p][i + 1]
           /\ Head(queue[p]) \in Seq(Nat) /\ Head(queue[p]) = queue[p][1]
<1>1. queue[p] \in Seq(Seq(Nat)) /\ Len(queue[p]) \in Nat /\ queue \in [Ends -> Seq(Seq(Nat))]
  BY Typed DEF TypeOK
<1> DEFINE q == Tail(queue[p])
<1>2. q \in Seq(Seq(Nat)) /\ Len(q) = Len(queue[p]) - 1
      /\ (\A i \in 1..Len(q) : q[i] = queue[p][i + 1]) /\ Head(queue[p]) \in Seq(Nat)
  BY <1>1, HeadTailProperties
<1>3. queue' = [queue EXCEPT ![p] = q]
  OBVIOUS
<1>4. Len(queue[p]) >= 1 /\ Head(queue[p]) = queue[p][1]
  BY <1>1, EmptySeq
<1> HIDE DEF q
<1>5. queue' \in [Ends -> Seq(Seq(Nat))] /\ queue'[p] = q
      /\ \A x \in Ends : x # p => queue'[x] = queue[x]
  BY <1>1, <1>2, <1>3
<1>6. ASSUME NEW x \in Ends PROVE Len(queue'[x]) <= MaxQueue
  BY <1>1, <1>2, <1>5, TunnelAssumption DEF TypeOK, TunnelAssumption
<1> QED
  BY <1>2, <1>4, <1>5, <1>6 DEF q

\* What follows on the queue of e is sent.
LEMMA TransitAppend ==
    ASSUME TypeOK, NEW e \in Ends, NEW b \in Nat, NEW d \in Nat, b <= d,
           Run(queue[e], Arrived(Peer(e)), b),
           queue'[e] = Append(queue[e], Units(b, d)),
           Arrived(Peer(e))' = Arrived(Peer(e)),
           end'[e].taken \in Nat, d <= end'[e].taken,
           GoesOn(e)' \/ (e = "server" /\ Undisturbed') => end'[e].buf = Units(d, end'[e].taken)
    PROVE  TransitInv(e)'
<1>1. queue[e] \in Seq(Seq(Nat))
  BY Typed
<1>2. Run(queue'[e], Arrived(Peer(e))', d)
  BY <1>1, RunAppend
<1>3. d \in 0..end'[e].taken
  OBVIOUS
<1> QED
  BY <1>2, <1>3 DEF TransitInv

\* Some of what arrived at e is handed to the program.
LEMMA GotMore ==
    ASSUME TypeOK, NEW e \in Ends, ArrivedInv(e), NEW k \in Nat,
           Len(got[e]) <= k,
           got' = [got EXCEPT ![e] = @ \o Units(Len(got[e]), k)]
    PROVE  /\ got' \in [Ends -> Seq(Nat)]
           /\ got'[e] = Units(0, k) /\ Len(got'[e]) = k
           /\ \A x \in Ends : x # e => got'[x] = got[x]
<1>1. got[e] = Units(0, Len(got[e])) /\ Len(got[e]) \in Nat /\ got \in [Ends -> Seq(Nat)]
  BY Typed DEF ArrivedInv, TypeOK
<1>2. Units(0, Len(got[e])) \o Units(Len(got[e]), k) = Units(0, k)
  <2>1. 0 \in Nat /\ 0 <= Len(got[e])
    BY <1>1
  <2> QED
    BY <1>1, <2>1, UnitsConcat, Zenon
<1>3. got' = [got EXCEPT ![e] = Units(0, k)]
  BY <1>1, <1>2
<1>4. Units(0, k) \in Seq(Nat) /\ Len(Units(0, k)) = k
  <2>1. 0 \in Nat /\ 0 <= k /\ k - 0 = k
    OBVIOUS
  <2>2. Units(0, k) \in Seq(Nat) /\ Len(Units(0, k)) = k - 0
    BY <2>1, UnitsSeq, Zenon
  <2> QED
    BY <2>1, <2>2
<1> QED
  BY <1>1, <1>3, <1>4

\* What excuses a cut answer is not taken back.
LEMMA DisturbedStays ==
    ASSUME TypeOK, StartInv, [Next]_vars, Undisturbed'
    PROVE  Undisturbed
<1>1. program'["client"] = "open" => program["client"] = "open"
  BY DEF Next, EndOf, Proxy, ProgramSends, ProgramCloses, NetworkBreaks, Connect,
     AcceptTunnel, GiveBuf, ReadStream, TakeResult, DoneSelected, SendBuf, SendEof,
     ReaderEnds, RecvMsg, WriteStream, Finish, ProxyWrite, ProxyRead, ProxyClose,
     Goroutine, Outside, vars, progVars, TypeOK, Ends
<1>2. rpc' # "broken" => rpc # "broken"
  BY DEF Next, EndOf, Proxy, ProgramSends, ProgramCloses, NetworkBreaks, Connect,
     AcceptTunnel, GiveBuf, ReadStream, TakeResult, DoneSelected, SendBuf, SendEof, Cancel,
     ReaderEnds, RecvMsg, WriteStream, Finish, ProxyWrite, ProxyRead, ProxyClose,
     CloseTunnelConn, Goroutine, Outside, vars, progVars
<1>3. "server" \notin writeFailed' => "server" \notin writeFailed
  BY DEF Next, EndOf, Proxy, ProgramSends, ProgramCloses, NetworkBreaks, Connect,
     AcceptTunnel, GiveBuf, ReadStream, TakeResult, DoneSelected, SendBuf, SendEof,
     ReaderEnds, RecvMsg, WriteStream, Finish, ProxyWrite, ProxyRead, ProxyClose,
     Goroutine, Outside, vars, progVars
<1>4. ASSUME Refused PROVE Refused'
  <2>1. end["server"] = NotWorking /\ handler = "returned" /\ end \in [Ends -> EndStates]
    BY <1>4, TwoEnds DEF Refused, StartInv, TypeOK
  <2>2. ASSUME NEW e \in Ends, EndOf(e)
        PROVE  end'["server"] = end["server"] /\ handler' = handler
    <3>1. e = "client"
      BY <2>1, <2>2, FirstStates DEF EndOf, GiveBuf, ReadStream, TakeResult, DoneSelected,
         SendBuf, SendEof, ReaderEnds, RecvMsg, WriteStream, Finish, Ends
    <3>2. handler' = handler
      BY <2>2, <3>1 DEF EndOf, GiveBuf, ReadStream, TakeResult, DoneSelected,
         SendBuf, SendEof, ReaderEnds, RecvMsg, WriteStream, Finish, Goroutine
    <3>3. UNCHANGED end \/ \E new : At("client", new)
      BY <2>2, <3>1 DEF EndOf, GiveBuf, ReadStream, TakeResult, DoneSelected,
         SendBuf, SendEof, ReaderEnds, RecvMsg, WriteStream, Finish
    <3> QED
      BY <2>1, <3>2, <3>3, TwoEnds DEF At
  <2>3. ASSUME Proxy PROVE end'["server"] = end["server"] /\ handler' = handler
    <3>1. \E new : At("client", new)
      BY <2>3 DEF Proxy, ProxyWrite, ProxyRead, ProxyClose, CloseTunnelConn
    <3>2. handler' = handler
      BY <2>3 DEF Proxy, ProxyWrite, ProxyRead, ProxyClose, Goroutine
    <3> QED
      BY <2>1, <3>1, <3>2, TwoEnds DEF At
  <2>4. ~Connect /\ ~AcceptTunnel
    BY <2>1 DEF Connect, AcceptTunnel, StartInv
  <2>5. end'["server"] = end["server"] /\ handler' = handler
    BY <2>2, <2>3, <2>4 DEF Next, ProgramSends, ProgramCloses, NetworkBreaks, Outside, vars
  <2> QED
    BY <2>1, <2>5, FirstStates DEF Refused
<1> QED
  BY <1>1, <1>2, <1>3, <1>4 DEF Undisturbed

-----------------------------------------------------------------------------
(* The invariant is kept by every step                                     *)

\* streamToTunnel hands the buffer to asyncReadStream.
LEMMA GiveBufStep ==
    ASSUME TunnelInv, NEW e \in Ends, GiveBuf(e), Undisturbed' => Undisturbed
    PROVE  TunnelInv'
<1> DEFINE new == [end[e] EXCEPT !.s2t = "select", !.reader = "reading"]
<1>0. TypeOK /\ end[e] \in EndStates
  BY DEF TunnelInv, TypeOK
<1>1. new \in EndStates /\ new.s2t = "select" /\ new.reader = "reading" /\ new.t2s = end[e].t2s
      /\ new.taken = end[e].taken /\ new.buf = end[e].buf /\ new.eof = end[e].eof
      /\ new.hold = end[e].hold
  BY <1>0 DEF EndStates
<1>2. At(e, new)
  BY DEF GiveBuf
<1> HIDE DEF new
<1>3. /\ end' \in [Ends -> EndStates] /\ end'[e] = new
      /\ \A x \in Ends : x # e => end'[x] = end[x]
  BY <1>0, <1>1, <1>2, EndChange
<1>4. /\ UNCHANGED <<kind, program, stalled, sent, handler, got, stream, rpc, queue, writeFailed>>
      /\ end[e].s2t = "give" /\ end[e].reader = "idle"
  BY DEF GiveBuf, Goroutine, progVars
<1>5. TypeOK'
  BY <1>0, <1>3, <1>4 DEF TypeOK
<1>6. StartInv'
  BY <1>1, <1>3, <1>4, FirstStates DEF TunnelInv, StartInv, Ends
<1>7. ASSUME NEW x \in Ends PROVE BufferInv(x)'
  BY <1>1, <1>3, <1>4 DEF TunnelInv, BufferInv
<1>8. ASSUME NEW x \in Ends PROVE ArrivedInv(x)'
  <2>1. end'[x].hold = end[x].hold /\ end'[x].t2s = end[x].t2s
        /\ end'[Peer(x)].taken = end[Peer(x)].taken /\ end[Peer(x)].taken \in Nat
    BY <1>0, <1>1, <1>3, TwoEnds, Typed
  <2>2. stream[x] = "closed" => end[x].t2s \in {"off", "ended"}
    BY DEF TunnelInv, ArrivedInv
  <2> QED
    BY <1>4, <2>1, <2>2, ArrivedKept
<1>9. ASSUME NEW x \in Ends PROVE TransitInv(x)'
  BY <1>1, <1>3, <1>4, TwoEnds, TransitKept
<1>10. ASSUME NEW x \in Ends PROVE EofInv(x)'
  BY <1>1, <1>3, <1>4 DEF TunnelInv, EofInv
<1>11. ReplyInv'
  BY <1>1, <1>3, <1>4, TwoEnds DEF TunnelInv, ReplyInv, GoesOn
<1> QED
  BY <1>5, <1>6, <1>7, <1>8, <1>9, <1>10, <1>11 DEF TunnelInv

\* The result of a read is handed over.
LEMMA TakeResultStep ==
    ASSUME TunnelInv, NEW e \in Ends, TakeResult(e), Undisturbed' => Undisturbed
    PROVE  TunnelInv'
<1> DEFINE new == [end[e] EXCEPT !.reader = IF end[e].eof THEN "ended" ELSE "idle",
                              !.s2t = IF end[e].eof THEN "eof" ELSE "send"]
<1>0. TypeOK /\ end[e] \in EndStates
  BY DEF TunnelInv, TypeOK
<1>1. new \in EndStates /\ new.s2t = (IF end[e].eof THEN "eof" ELSE "send")
      /\ new.reader = (IF end[e].eof THEN "ended" ELSE "idle") /\ new.t2s = end[e].t2s
      /\ new.taken = end[e].taken /\ new.buf = end[e].buf /\ new.eof = end[e].eof
      /\ new.hold = end[e].hold
  BY <1>0 DEF EndStates
<1>2. At(e, new)
  BY DEF TakeResult
<1> HIDE DEF new
<1>3. /\ end' \in [Ends -> EndStates] /\ end'[e] = new
      /\ \A x \in Ends : x # e => end'[x] = end[x]
  BY <1>0, <1>1, <1>2, EndChange
<1>4. /\ UNCHANGED <<kind, program, stalled, sent, handler, got, stream, rpc, queue, writeFailed>>
      /\ end[e].s2t = "select" /\ end[e].reader = "result"
  BY DEF TakeResult, Goroutine, progVars
<1>5. TypeOK'
  BY <1>0, <1>3, <1>4 DEF TypeOK
<1>6. StartInv'
  BY <1>1, <1>3, <1>4, FirstStates DEF TunnelInv, StartInv, Ends
<1>7. ASSUME NEW x \in Ends PROVE BufferInv(x)'
  BY <1>1, <1>3, <1>4 DEF TunnelInv, BufferInv
<1>8. ASSUME NEW x \in Ends PROVE ArrivedInv(x)'
  <2>1. end'[x].hold = end[x].hold /\ end'[x].t2s = end[x].t2s
        /\ end'[Peer(x)].taken = end[Peer(x)].taken /\ end[Peer(x)].taken \in Nat
    BY <1>0, <1>1, <1>3, TwoEnds, Typed
  <2>2. stream[x] = "closed" => end[x].t2s \in {"off", "ended"}
    BY DEF TunnelInv, ArrivedInv
  <2> QED
    BY <1>4, <2>1, <2>2, ArrivedKept
<1>9. ASSUME NEW x \in Ends PROVE TransitInv(x)'
  BY <1>1, <1>3, <1>4, TwoEnds, TransitKept
<1>10. ASSUME NEW x \in Ends PROVE EofInv(x)'
  BY <1>1, <1>3, <1>4 DEF TunnelInv, EofInv
<1>11. ReplyInv'
  <2>1. CASE e = "client"
    BY <1>1, <1>3, <1>4, <2>1, TwoEnds DEF TunnelInv, ReplyInv, GoesOn, BufferInv, Undisturbed
  <2>2. CASE e = "server"
    BY <1>1, <1>3, <1>4, <2>2, TwoEnds DEF TunnelInv, ReplyInv, GoesOn, BufferInv, Undisturbed
  <2> QED
    BY <2>1, <2>2 DEF Ends
<1> QED
  BY <1>5, <1>6, <1>7, <1>8, <1>9, <1>10, <1>11 DEF TunnelInv

\* <-done is selected.
LEMMA DoneSelectedStep ==
    ASSUME TunnelInv, NEW e \in Ends, DoneSelected(e), Undisturbed' => Undisturbed
    PROVE  TunnelInv'
<1> DEFINE new == [end[e] EXCEPT !.s2t = "eof"]
<1>0. TypeOK /\ end[e] \in EndStates
  BY DEF TunnelInv, TypeOK
<1>1. new \in EndStates /\ new.s2t = "eof" /\ new.reader = end[e].reader /\ new.t2s = end[e].t2s
      /\ new.taken = end[e].taken /\ new.buf = end[e].buf /\ new.eof = end[e].eof
      /\ new.hold = end[e].hold
  BY <1>0 DEF EndStates
<1>2. At(e, new)
  BY DEF DoneSelected
<1> HIDE DEF new
<1>3. /\ end' \in [Ends -> EndStates] /\ end'[e] = new
      /\ \A x \in Ends : x # e => end'[x] = end[x]
  BY <1>0, <1>1, <1>2, EndChange
<1>4. /\ UNCHANGED <<kind, program, stalled, sent, handler, got, stream, rpc, queue, writeFailed>>
      /\ end[e].s2t = "select" /\ end[e].t2s = "ended"
  BY DEF DoneSelected, Goroutine, progVars
<1>5. TypeOK'
  BY <1>0, <1>3, <1>4 DEF TypeOK
<1>6. StartInv'
  BY <1>1, <1>3, <1>4, FirstStates DEF TunnelInv, StartInv, Ends
<1>7. ASSUME NEW x \in Ends PROVE BufferInv(x)'
  BY <1>1, <1>3, <1>4 DEF TunnelInv, BufferInv
<1>8. ASSUME NEW x \in Ends PROVE ArrivedInv(x)'
  <2>1. end'[x].hold = end[x].hold /\ end'[x].t2s = end[x].t2s
        /\ end'[Peer(x)].taken = end[Peer(x)].taken /\ end[Peer(x)].taken \in Nat
    BY <1>0, <1>1, <1>3, TwoEnds, Typed
  <2>2. stream[x] = "closed" => end[x].t2s \in {"off", "ended"}
    BY DEF TunnelInv, ArrivedInv
  <2> QED
    BY <1>4, <2>1, <2>2, ArrivedKept
<1>9. ASSUME NEW x \in Ends PROVE TransitInv(x)'
  BY <1>1, <1>3, <1>4, TwoEnds, TransitKept
<1>10. ASSUME NEW x \in Ends PROVE EofInv(x)'
  BY <1>1, <1>3, <1>4 DEF TunnelInv, EofInv
<1>11. ReplyInv'
  <2>1. CASE e = "client"
    BY <1>1, <1>3, <1>4, <2>1, TwoEnds DEF TunnelInv, ReplyInv, GoesOn
  <2>2. CASE e = "server"
    BY <1>1, <1>3, <1>4, <2>2, TwoEnds DEF TunnelInv, ReplyInv, GoesOn
  <2> QED
    BY <2>1, <2>2 DEF Ends
<1> QED
  BY <1>5, <1>6, <1>7, <1>8, <1>9, <1>10, <1>11 DEF TunnelInv

\* asyncReadStream ends.
LEMMA ReaderEndsStep ==
    ASSUME TunnelInv, NEW e \in Ends, ReaderEnds(e), Undisturbed' => Undisturbed
    PROVE  TunnelInv'
<1> DEFINE new == [end[e] EXCEPT !.reader = "ended"]
<1>0. TypeOK /\ end[e] \in EndStates
  BY DEF TunnelInv, TypeOK
<1>1. new \in EndStates /\ new.s2t = end[e].s2t /\ new.reader = "ended" /\ new.t2s = end[e].t2s
      /\ new.taken = end[e].taken /\ new.buf = end[e].buf /\ new.eof = end[e].eof
      /\ new.hold = end[e].hold
  BY <1>0 DEF EndStates
<1>2. At(e, new)
  BY DEF ReaderEnds
<1> HIDE DEF new
<1>3. /\ end' \in [Ends -> EndStates] /\ end'[e] = new
      /\ \A x \in Ends : x # e => end'[x] = end[x]
  BY <1>0, <1>1, <1>2, EndChange
<1>4. /\ UNCHANGED <<kind, program, stalled, sent, handler, got, stream, rpc, queue, writeFailed>>
      /\ end[e].s2t = "ended"
  BY DEF ReaderEnds, Goroutine, progVars
<1>5. TypeOK'
  BY <1>0, <1>3, <1>4 DEF TypeOK
<1>6. StartInv'
  BY <1>1, <1>3, <1>4, FirstStates DEF TunnelInv, StartInv, Ends
<1>7. ASSUME NEW x \in Ends PROVE BufferInv(x)'
  BY <1>1, <1>3, <1>4 DEF TunnelInv, BufferInv
<1>8. ASSUME NEW x \in Ends PROVE ArrivedInv(x)'
  <2>1. end'[x].hold = end[x].hold /\ end'[x].t2s = end[x].t2s
        /\ end'[Peer(x)].taken = end[Peer(x)].taken /\ end[Peer(x)].taken \in Nat
    BY <1>0, <1>1, <1>3, TwoEnds, Typed
  <2>2. stream[x] = "closed" => end[x].t2s \in {"off", "ended"}
    BY DEF TunnelInv, ArrivedInv
  <2> QED
    BY <1>4, <2>1, <2>2, ArrivedKept
<1>9. ASSUME NEW x \in Ends PROVE TransitInv(x)'
  BY <1>1, <1>3, <1>4, TwoEnds, TransitKept
<1>10. ASSUME NEW x \in Ends PROVE EofInv(x)'
  BY <1>1, <1>3, <1>4 DEF TunnelInv, EofInv
<1>11. ReplyInv'
  BY <1>1, <1>3, <1>4, TwoEnds DEF TunnelInv, ReplyInv, GoesOn
<1> QED
  BY <1>5, <1>6, <1>7, <1>8, <1>9, <1>10, <1>11 DEF TunnelInv

\* asyncReadStream reads n units.
LEMMA ReadUnits ==
    ASSUME TunnelInv, NEW e \in Ends, NEW n \in 1..(Len(sent[e]) - end[e].taken),
           end[e].reader = "reading",
           At(e, [end[e] EXCEPT !.reader = "result", !.taken = @ + n,
                    !.buf = SubSeq(sent[e], end[e].taken + 1, end[e].taken + n)]),
           UNCHANGED <<kind, program, stalled, sent, handler, got, stream, rpc, queue,
                       writeFailed>>,
           Undisturbed' => Undisturbed
    PROVE  TunnelInv'
<1> DEFINE new == [end[e] EXCEPT !.reader = "result", !.taken = @ + n,
              !.buf = SubSeq(sent[e], end[e].taken + 1, end[e].taken + n)]
<1>0. TypeOK /\ end[e] \in EndStates
  BY DEF TunnelInv, TypeOK
<1> DEFINE read == SubSeq(sent[e], end[e].taken + 1, end[e].taken + n)
<1>a. /\ n \in Nat /\ n >= 1 /\ end[e].taken \in Nat /\ end[e].taken + n \in Nat
      /\ end[e].taken + n <= Len(sent[e]) /\ Len(sent[e]) \in Nat
  BY <1>0, Typed
<1>b. read = Units(end[e].taken, end[e].taken + n)
  <2>1. sent[e] = Units(0, Len(sent[e]))
    BY DEF TunnelInv, ArrivedInv
  <2>2. SubSeq(Units(0, Len(sent[e])), end[e].taken + 1, end[e].taken + n)
          = Units(end[e].taken, end[e].taken + n)
    BY <1>a, UnitsRead, Zenon
  <2> QED
    BY <2>1, <2>2
<1>c. read \in Seq(Nat) /\ read # <<>>
  BY <1>a, <1>b, UnitsRead, Zenon
<1>d. end[e].s2t \in {"select", "eof", "ended"} /\ ~end[e].eof
  <2>1. end[e].s2t \in {"select", "eof", "ended"}
    BY <1>0, FirstStates DEF TunnelInv, StartInv, BufferInv, TypeOK, EndStates, Ends
  <2>2. end[e].eof => end[e].taken = Len(sent[e])
    BY DEF TunnelInv, BufferInv
  <2>3. end[e].taken # Len(sent[e])
    BY <1>a
  <2> QED
    BY <2>1, <2>2, <2>3
<1>1. new \in EndStates /\ new.s2t = end[e].s2t /\ new.reader = "result" /\ new.t2s = end[e].t2s
      /\ new.taken = end[e].taken + n /\ new.buf = Units(end[e].taken, end[e].taken + n)
      /\ new.eof = end[e].eof /\ new.hold = end[e].hold
  <2> HIDE DEF read
  <2>1. new = [end[e] EXCEPT !.reader = "result", !.taken = end[e].taken + n, !.buf = read]
    BY DEF read
  <2> HIDE DEF new
  <2> QED
    BY <1>0, <1>a, <1>b, <1>c, <2>1 DEF EndStates
<1>2. At(e, new)
  OBVIOUS
<1> HIDE DEF new
<1>3. /\ end' \in [Ends -> EndStates] /\ end'[e] = new
      /\ \A x \in Ends : x # e => end'[x] = end[x]
  BY <1>0, <1>1, <1>2, EndChange
<1>4. /\ UNCHANGED <<kind, program, stalled, sent, handler, got, stream, rpc, queue, writeFailed>>
      /\ end[e].reader = "reading"
  BY DEF At, Goroutine, progVars
<1>5. TypeOK'
  BY <1>0, <1>3, <1>4 DEF TypeOK
<1>6. StartInv'
  BY <1>1, <1>3, <1>4, FirstStates DEF TunnelInv, StartInv, Ends
<1>7. ASSUME NEW x \in Ends PROVE BufferInv(x)'
  BY <1>a, <1>b, <1>c, <1>d, <1>1, <1>3, <1>4 DEF TunnelInv, BufferInv
<1>8. ASSUME NEW x \in Ends PROVE ArrivedInv(x)'
  <2>1. end'[x].hold = end[x].hold /\ end'[x].t2s = end[x].t2s
        /\ end'[Peer(x)].taken \in Nat /\ end[Peer(x)].taken <= end'[Peer(x)].taken
    <3>1. end'[x].hold = end[x].hold /\ end'[x].t2s = end[x].t2s
      BY <1>1, <1>3
    <3>2. CASE x = e
      <4>1. end'[Peer(x)] = end[Peer(x)] /\ end[Peer(x)].taken \in Nat
        BY <1>0, <1>3, <3>2, TwoEnds, Typed
      <4> QED
        BY <3>1, <4>1
    <3>3. CASE x # e
      <4>1. Peer(x) = e
        BY <3>3, TwoEnds
      <4> QED
        BY <1>a, <1>1, <1>3, <3>1, <4>1
    <3> QED
      BY <3>2, <3>3
  <2>2. stream[x] = "closed" => end[x].t2s \in {"off", "ended"}
    BY DEF TunnelInv, ArrivedInv
  <2> QED
    BY <1>4, <2>1, <2>2, ArrivedKept
<1>9. ASSUME NEW x \in Ends PROVE TransitInv(x)'
  <2>1. CASE x # e
    BY <1>1, <1>3, <1>4, <2>1, TwoEnds, TransitKept
  <2>2. CASE x = e
    <3> SUFFICES ASSUME end'[Peer(e)].t2s # "ended"
                 PROVE  \E b \in 0..end'[e].taken :
                            /\ Run(queue'[e], Arrived(Peer(e))', b)
                            /\ GoesOn(e)' \/ (e = "server" /\ Undisturbed')
                                 => end'[e].buf = Units(b, end'[e].taken)
      BY <2>2 DEF TransitInv
    <3>1. end'[Peer(e)] = end[Peer(e)] /\ Arrived(Peer(e))' = Arrived(Peer(e))
      BY <1>3, <1>4, TwoEnds DEF Arrived
    <3>2. PICK b \in 0..end[e].taken :
            /\ Run(queue[e], Arrived(Peer(e)), b)
            /\ GoesOn(e) \/ (e = "server" /\ Undisturbed) => end[e].buf = Units(b, end[e].taken)
      BY <3>1 DEF TunnelInv, TransitInv
    <3>3. b \in 0..end'[e].taken
      BY <1>a, <1>1, <1>3
    <3>4. ASSUME GoesOn(e)' PROVE end'[e].buf = Units(b, end'[e].taken)
      <4>1. end[e].buf = <<>> /\ end[e].buf = Units(b, end[e].taken)
        BY <1>1, <1>3, <1>4, <1>d, <3>2, <3>4 DEF GoesOn, TunnelInv, BufferInv
      <4>2. b = end[e].taken
        BY <1>a, <4>1, UnitsSeq
      <4> QED
        BY <1>1, <1>3, <4>2
    <3>5. ~GoesOn(e)' => ~(e = "server" /\ Undisturbed')
      BY <1>1, <1>3, <1>4, <1>d DEF GoesOn, TunnelInv, ReplyInv
    <3> QED
      BY <1>4, <3>1, <3>2, <3>3, <3>4, <3>5
  <2> QED
    BY <2>1, <2>2
<1>10. ASSUME NEW x \in Ends PROVE EofInv(x)'
  BY <1>1, <1>3, <1>4 DEF TunnelInv, EofInv
<1>11. ReplyInv'
  <2>1. CASE e = "client"
    BY <1>1, <1>3, <1>4, <2>1, TwoEnds DEF TunnelInv, ReplyInv, GoesOn
  <2>2. CASE e = "server"
    BY <1>1, <1>3, <1>4, <1>d, <2>2, TwoEnds DEF TunnelInv, ReplyInv, GoesOn
  <2> QED
    BY <2>1, <2>2 DEF Ends
<1> QED
  BY <1>5, <1>6, <1>7, <1>8, <1>9, <1>10, <1>11 DEF TunnelInv

\* asyncReadStream finds the end of the stream.
LEMMA ReadEnd ==
    ASSUME TunnelInv, NEW e \in Ends, end[e].reader = "reading",
           Len(sent[e]) - end[e].taken = 0, program[e] # "open",
           At(e, [end[e] EXCEPT !.reader = "result", !.eof = TRUE]),
           UNCHANGED <<kind, program, stalled, sent, handler, got, stream, rpc, queue,
                       writeFailed>>,
           Undisturbed' => Undisturbed
    PROVE  TunnelInv'
<1> DEFINE new == [end[e] EXCEPT !.reader = "result", !.eof = TRUE]
<1>0. TypeOK /\ end[e] \in EndStates
  BY DEF TunnelInv, TypeOK
<1>a. end[e].taken = Len(sent[e])
  BY <1>0, Typed
<1>d. end[e].s2t \in {"select", "eof", "ended"}
  BY <1>0, FirstStates DEF TunnelInv, StartInv, BufferInv, TypeOK, EndStates, Ends
<1>1. new \in EndStates /\ new.s2t = end[e].s2t /\ new.reader = "result" /\ new.t2s = end[e].t2s
      /\ new.taken = end[e].taken /\ new.buf = end[e].buf /\ new.eof = TRUE
      /\ new.hold = end[e].hold
  BY <1>0 DEF EndStates
<1>2. At(e, new)
  OBVIOUS
<1> HIDE DEF new
<1>3. /\ end' \in [Ends -> EndStates] /\ end'[e] = new
      /\ \A x \in Ends : x # e => end'[x] = end[x]
  BY <1>0, <1>1, <1>2, EndChange
<1>4. /\ UNCHANGED <<kind, program, stalled, sent, handler, got, stream, rpc, queue, writeFailed>>
      /\ end[e].reader = "reading"
  BY DEF At, Goroutine, progVars
<1>5. TypeOK'
  BY <1>0, <1>3, <1>4 DEF TypeOK
<1>6. StartInv'
  BY <1>1, <1>3, <1>4, FirstStates DEF TunnelInv, StartInv, Ends
<1>7. ASSUME NEW x \in Ends PROVE BufferInv(x)'
  BY <1>a, <1>d, <1>1, <1>3, <1>4 DEF TunnelInv, BufferInv
<1>8. ASSUME NEW x \in Ends PROVE ArrivedInv(x)'
  <2>1. end'[x].hold = end[x].hold /\ end'[x].t2s = end[x].t2s
        /\ end'[Peer(x)].taken = end[Peer(x)].taken /\ end[Peer(x)].taken \in Nat
    BY <1>0, <1>1, <1>3, TwoEnds, Typed
  <2>2. stream[x] = "closed" => end[x].t2s \in {"off", "ended"}
    BY DEF TunnelInv, ArrivedInv
  <2> QED
    BY <1>4, <2>1, <2>2, ArrivedKept
<1>9. ASSUME NEW x \in Ends PROVE TransitInv(x)'
  BY <1>1, <1>3, <1>4, TwoEnds, TransitKept
<1>10. ASSUME NEW x \in Ends PROVE EofInv(x)'
  BY <1>1, <1>3, <1>4 DEF TunnelInv, EofInv
<1>11. ReplyInv'
  <2>1. CASE e = "client"
    BY <1>1, <1>3, <1>4, <2>1, TwoEnds DEF TunnelInv, ReplyInv, GoesOn
  <2>2. CASE e = "server"
    BY <1>1, <1>3, <1>4, <2>2, TwoEnds DEF TunnelInv, ReplyInv, GoesOn
  <2> QED
    BY <2>1, <2>2 DEF Ends
<1> QED
  BY <1>5, <1>6, <1>7, <1>8, <1>9, <1>10, <1>11 DEF TunnelInv

\* asyncReadStream reads units, or the end of the stream.
LEMMA ReadStreamStep ==
    ASSUME TunnelInv, NEW e \in Ends, ReadStream(e), Undisturbed' => Undisturbed
    PROVE  TunnelInv'
<1>1. /\ UNCHANGED <<kind, program, stalled, sent, handler, got, stream, rpc, queue, writeFailed>>
      /\ end[e].reader = "reading"
  BY DEF ReadStream, Goroutine, progVars
<1>2. \/ \E n \in 1..(Len(sent[e]) - end[e].taken) :
           At(e, [end[e] EXCEPT !.reader = "result", !.taken = @ + n,
                    !.buf = SubSeq(sent[e], end[e].taken + 1, end[e].taken + n)])
      \/ /\ Len(sent[e]) - end[e].taken = 0 /\ program[e] # "open"
         /\ At(e, [end[e] EXCEPT !.reader = "result", !.eof = TRUE])
  BY DEF ReadStream
<1> QED
  BY <1>1, <1>2, ReadUnits, ReadEnd

\* Send of the buffer succeeds.
LEMMA SendOk ==
    ASSUME TunnelInv, NEW e \in Ends, end[e].s2t = "send", rpc = "open", Len(queue[e]) < MaxQueue,
           queue' = [queue EXCEPT ![e] = Append(@, end[e].buf)],
           At(e, [end[e] EXCEPT !.s2t = "give", !.buf = <<>>]),
           UNCHANGED <<kind, program, stalled, sent, handler, got, stream, rpc, writeFailed>>,
           Undisturbed' => Undisturbed
    PROVE  TunnelInv'
<1> DEFINE new == [end[e] EXCEPT !.s2t = "give", !.buf = <<>>]
<1>0. TypeOK /\ end[e] \in EndStates
  BY DEF TunnelInv, TypeOK
<1>a. end[e].buf \in Seq(Nat) /\ <<>> \in Seq(Nat) /\ end[e].taken \in Nat
  BY <1>0, Typed, EmptySeq
<1>b. /\ queue' \in [Ends -> Seq(Seq(Nat))]
      /\ \A x \in Ends : Len(queue'[x]) <= MaxQueue
      /\ queue'[e] = Append(queue[e], end[e].buf)
      /\ \A x \in Ends : x # e => queue'[x] = queue[x]
      /\ Len(queue'[e]) = Len(queue[e]) + 1
      /\ \A i \in 1..Len(queue[e]) : queue'[e][i] = queue[e][i]
      /\ queue'[e][Len(queue[e]) + 1] = end[e].buf
  BY <1>0, <1>a, QueueAppend
<1>1. new \in EndStates /\ new.s2t = "give" /\ new.reader = end[e].reader /\ new.t2s = end[e].t2s
      /\ new.taken = end[e].taken /\ new.buf = <<>> /\ new.eof = end[e].eof
      /\ new.hold = end[e].hold
  BY <1>0, <1>a DEF EndStates
<1>2. At(e, new)
  OBVIOUS
<1> HIDE DEF new
<1>3. /\ end' \in [Ends -> EndStates] /\ end'[e] = new
      /\ \A x \in Ends : x # e => end'[x] = end[x]
  BY <1>0, <1>1, <1>2, EndChange
<1>4. /\ UNCHANGED <<kind, program, stalled, sent, handler, got, stream, rpc, writeFailed>>
      /\ end[e].s2t = "send" /\ end[e].buf # <<>>
  BY DEF TunnelInv, BufferInv, Goroutine, progVars
<1>5. TypeOK'
  BY <1>0, <1>b, <1>3, <1>4 DEF TypeOK
<1>6. StartInv'
  BY <1>1, <1>3, <1>4, FirstStates DEF TunnelInv, StartInv, Ends
<1>7. ASSUME NEW x \in Ends PROVE BufferInv(x)'
  BY <1>1, <1>3, <1>4 DEF TunnelInv, BufferInv
<1>8. ASSUME NEW x \in Ends PROVE ArrivedInv(x)'
  <2>1. end'[x].hold = end[x].hold /\ end'[x].t2s = end[x].t2s
        /\ end'[Peer(x)].taken = end[Peer(x)].taken /\ end[Peer(x)].taken \in Nat
    BY <1>0, <1>1, <1>3, TwoEnds, Typed
  <2>2. stream[x] = "closed" => end[x].t2s \in {"off", "ended"}
    BY DEF TunnelInv, ArrivedInv
  <2> QED
    BY <1>4, <2>1, <2>2, ArrivedKept
<1>9. ASSUME NEW x \in Ends PROVE TransitInv(x)'
  <2>1. CASE x # e
    <3>1. Peer(x) = e /\ queue'[x] = queue[x] /\ end'[x] = end[x] /\ got' = got
          /\ end'[e].hold = end[e].hold /\ end'[e].t2s = end[e].t2s
      BY <1>b, <1>1, <1>3, <1>4, <2>1, TwoEnds
    <3> QED
      BY <3>1, TransitKept
  <2>2. CASE x = e
    <3> SUFFICES ASSUME end'[Peer(e)].t2s # "ended" PROVE TransitInv(e)'
      BY <2>2 DEF TransitInv
    <3>1. end'[Peer(e)] = end[Peer(e)] /\ Arrived(Peer(e))' = Arrived(Peer(e))
      BY <1>3, <1>4, TwoEnds DEF Arrived
    <3>2. PICK b \in 0..end[e].taken :
            /\ Run(queue[e], Arrived(Peer(e)), b)
            /\ GoesOn(e) \/ (e = "server" /\ Undisturbed) => end[e].buf = Units(b, end[e].taken)
      BY <3>1 DEF TunnelInv, TransitInv
    <3>t. end[e].taken \in Nat /\ b \in Nat /\ b <= end[e].taken
      BY <1>0, Typed
    <3>3. end[e].buf = Units(b, end[e].taken)
      BY <1>4, <3>2 DEF GoesOn
    <3>4. end'[e].buf = Units(end[e].taken, end'[e].taken) /\ end'[e].taken \in Nat
          /\ end[e].taken <= end'[e].taken
      BY <1>a, <1>1, <1>3, UnitsSeq
    <3> QED
      BY <1>0, <1>a, <1>b, <3>t, <3>1, <3>2, <3>3, <3>4, TransitAppend, Zenon
  <2> QED
    BY <2>1, <2>2
<1>10. ASSUME NEW x \in Ends PROVE EofInv(x)'
  <2>1. CASE x # e
    BY <1>b, <1>1, <1>3, <1>4, <2>1 DEF TunnelInv, EofInv
  <2>2. CASE x = e
    <3>1. \A i \in 1..Len(queue[e]) : queue[e][i] # Eof
      BY <1>4 DEF TunnelInv, EofInv
    <3>2. Len(queue[e]) \in Nat
      BY <1>0, Typed
    <3>3. ASSUME NEW i \in 1..Len(queue'[e]) PROVE queue'[e][i] # Eof
      <4>1. i \in 1..Len(queue[e]) \/ i = Len(queue[e]) + 1
        BY <1>b, <3>2
      <4> QED
        BY <1>b, <1>4, <3>1, <4>1 DEF Eof
    <3> QED
      BY <2>2, <3>3 DEF EofInv
  <2> QED
    BY <2>1, <2>2
<1>11. ReplyInv'
  <2>1. CASE e = "client"
    BY <1>1, <1>3, <1>4, <2>1, TwoEnds DEF TunnelInv, ReplyInv, GoesOn
  <2>2. CASE e = "server"
    BY <1>1, <1>3, <1>4, <2>2, TwoEnds DEF TunnelInv, ReplyInv, GoesOn
  <2> QED
    BY <2>1, <2>2 DEF Ends
<1> QED
  BY <1>5, <1>6, <1>7, <1>8, <1>9, <1>10, <1>11 DEF TunnelInv

\* Send of the buffer fails: streamToTunnel ends.
LEMMA SendFails ==
    ASSUME TunnelInv, NEW e \in Ends, end[e].s2t = "send", rpc # "open", Cancel(e),
           At(e, [end[e] EXCEPT !.s2t = "ended"]),
           UNCHANGED <<kind, program, stalled, sent, handler, got, stream, queue, writeFailed>>,
           Undisturbed' => Undisturbed
    PROVE  TunnelInv'
<1> DEFINE new == [end[e] EXCEPT !.s2t = "ended"]
<1>0. TypeOK /\ end[e] \in EndStates
  BY DEF TunnelInv, TypeOK
<1>1. new \in EndStates /\ new.s2t = "ended" /\ new.reader = end[e].reader /\ new.t2s = end[e].t2s
      /\ new.taken = end[e].taken /\ new.buf = end[e].buf /\ new.eof = end[e].eof
      /\ new.hold = end[e].hold
  BY <1>0 DEF EndStates
<1>2. At(e, new)
  OBVIOUS
<1> HIDE DEF new
<1>3. /\ end' \in [Ends -> EndStates] /\ end'[e] = new
      /\ \A x \in Ends : x # e => end'[x] = end[x]
  BY <1>0, <1>1, <1>2, EndChange
<1>4. /\ UNCHANGED <<kind, program, stalled, sent, handler, got, stream, queue, writeFailed>>
      /\ end[e].s2t = "send" /\ rpc # "open"
      /\ (rpc' = IF e = "client" /\ rpc \in {"open", "returned"} THEN "cancelled" ELSE rpc)
  BY DEF At, Cancel, Goroutine, progVars
<1>5. TypeOK'
  BY <1>0, <1>3, <1>4 DEF TypeOK
<1>6. StartInv'
  BY <1>1, <1>3, <1>4, FirstStates DEF TunnelInv, StartInv, Ends
<1>7. ASSUME NEW x \in Ends PROVE BufferInv(x)'
  BY <1>1, <1>3, <1>4 DEF TunnelInv, BufferInv
<1>8. ASSUME NEW x \in Ends PROVE ArrivedInv(x)'
  <2>1. end'[x].hold = end[x].hold /\ end'[x].t2s = end[x].t2s
        /\ end'[Peer(x)].taken = end[Peer(x)].taken /\ end[Peer(x)].taken \in Nat
    BY <1>0, <1>1, <1>3, TwoEnds, Typed
  <2>2. stream[x] = "closed" => end[x].t2s \in {"off", "ended"}
    BY DEF TunnelInv, ArrivedInv
  <2> QED
    BY <1>4, <2>1, <2>2, ArrivedKept
<1>9. ASSUME NEW x \in Ends PROVE TransitInv(x)'
  BY <1>1, <1>3, <1>4, TwoEnds, TransitKept
<1>10. ASSUME NEW x \in Ends PROVE EofInv(x)'
  BY <1>1, <1>3, <1>4 DEF TunnelInv, EofInv
<1>11. ReplyInv'
  <2>0. rpc # "none"
    BY <1>4, TwoEnds, FirstStates DEF TunnelInv, StartInv, Ends
  <2>1. CASE e = "client"
    BY <1>1, <1>3, <1>4, <2>0, <2>1, TwoEnds DEF TunnelInv, ReplyInv, GoesOn
  <2>2. CASE e = "server"
    BY <1>1, <1>3, <1>4, <2>0, <2>2, TwoEnds DEF TunnelInv, ReplyInv, GoesOn
  <2> QED
    BY <2>1, <2>2 DEF Ends
<1> QED
  BY <1>5, <1>6, <1>7, <1>8, <1>9, <1>10, <1>11 DEF TunnelInv

\* Send of the buffer.
LEMMA SendBufStep ==
    ASSUME TunnelInv, NEW e \in Ends, SendBuf(e), Undisturbed' => Undisturbed
    PROVE  TunnelInv'
<1>1. /\ UNCHANGED <<kind, program, stalled, sent, handler, got, stream, writeFailed>>
      /\ end[e].s2t = "send"
  BY DEF SendBuf, Goroutine, progVars
<1>2. CASE /\ rpc = "open" /\ Len(queue[e]) < MaxQueue
           /\ queue' = [queue EXCEPT ![e] = Append(@, end[e].buf)]
           /\ At(e, [end[e] EXCEPT !.s2t = "give", !.buf = <<>>])
           /\ UNCHANGED rpc
  BY <1>1, <1>2, SendOk
<1>3. CASE /\ rpc # "open"
           /\ At(e, [end[e] EXCEPT !.s2t = "ended"])
           /\ Cancel(e) /\ UNCHANGED queue
  BY <1>1, <1>3, SendFails
<1> QED
  BY <1>2, <1>3 DEF SendBuf

\* Eof is sent.
LEMMA SendEofOk ==
    ASSUME TunnelInv, NEW e \in Ends, end[e].s2t = "eof", Cancel(e), Len(queue[e]) < MaxQueue,
           queue' = [queue EXCEPT ![e] = Append(@, Eof)],
           At(e, [end[e] EXCEPT !.s2t = "ended"]),
           UNCHANGED <<kind, program, stalled, sent, handler, got, stream, writeFailed>>,
           Undisturbed' => Undisturbed
    PROVE  TunnelInv'
<1> DEFINE new == [end[e] EXCEPT !.s2t = "ended"]
<1>0. TypeOK /\ end[e] \in EndStates
  BY DEF TunnelInv, TypeOK
<1>a. Eof \in Seq(Nat) /\ Eof = <<>> /\ Len(queue[e]) \in Nat /\ end[e].taken \in Nat
  BY <1>0, Typed, EmptySeq DEF Eof
<1>b. /\ queue' \in [Ends -> Seq(Seq(Nat))]
      /\ \A x \in Ends : Len(queue'[x]) <= MaxQueue
      /\ queue'[e] = Append(queue[e], Eof)
      /\ \A x \in Ends : x # e => queue'[x] = queue[x]
      /\ Len(queue'[e]) = Len(queue[e]) + 1
      /\ \A i \in 1..Len(queue[e]) : queue'[e][i] = queue[e][i]
      /\ queue'[e][Len(queue[e]) + 1] = Eof
  BY <1>0, <1>a, QueueAppend
<1>1. new \in EndStates /\ new.s2t = "ended" /\ new.reader = end[e].reader /\ new.t2s = end[e].t2s
      /\ new.taken = end[e].taken /\ new.buf = end[e].buf /\ new.eof = end[e].eof
      /\ new.hold = end[e].hold
  BY <1>0 DEF EndStates
<1>2. At(e, new)
  OBVIOUS
<1> HIDE DEF new
<1>3. /\ end' \in [Ends -> EndStates] /\ end'[e] = new
      /\ \A x \in Ends : x # e => end'[x] = end[x]
  BY <1>0, <1>1, <1>2, EndChange
<1>4. /\ UNCHANGED <<kind, program, stalled, sent, handler, got, stream, writeFailed>>
      /\ end[e].s2t = "eof"
      /\ (rpc' = IF e = "client" /\ rpc \in {"open", "returned"} THEN "cancelled" ELSE rpc)
  BY DEF Cancel, Goroutine, progVars
<1>5. TypeOK'
  BY <1>0, <1>b, <1>3, <1>4 DEF TypeOK
<1>6. StartInv'
  BY <1>1, <1>3, <1>4, FirstStates DEF TunnelInv, StartInv, Ends
<1>7. ASSUME NEW x \in Ends PROVE BufferInv(x)'
  BY <1>1, <1>3, <1>4 DEF TunnelInv, BufferInv
<1>8. ASSUME NEW x \in Ends PROVE ArrivedInv(x)'
  <2>1. end'[x].hold = end[x].hold /\ end'[x].t2s = end[x].t2s
        /\ end'[Peer(x)].taken = end[Peer(x)].taken /\ end[Peer(x)].taken \in Nat
    BY <1>0, <1>1, <1>3, TwoEnds, Typed
  <2>2. stream[x] = "closed" => end[x].t2s \in {"off", "ended"}
    BY DEF TunnelInv, ArrivedInv
  <2> QED
    BY <1>4, <2>1, <2>2, ArrivedKept
<1>9. ASSUME NEW x \in Ends PROVE TransitInv(x)'
  <2>1. CASE x # e
    <3>1. Peer(x) = e /\ queue'[x] = queue[x] /\ end'[x] = end[x] /\ got' = got
          /\ end'[e].hold = end[e].hold /\ end'[e].t2s = end[e].t2s
      BY <1>b, <1>1, <1>3, <1>4, <2>1, TwoEnds
    <3> QED
      BY <3>1, TransitKept
  <2>2. CASE x = e
    <3> SUFFICES ASSUME end'[Peer(e)].t2s # "ended" PROVE TransitInv(e)'
      BY <2>2 DEF TransitInv
    <3>1. end'[Peer(e)] = end[Peer(e)] /\ Arrived(Peer(e))' = Arrived(Peer(e))
      BY <1>3, <1>4, TwoEnds DEF Arrived
    <3>2. PICK b \in 0..end[e].taken :
            /\ Run(queue[e], Arrived(Peer(e)), b)
            /\ GoesOn(e) \/ (e = "server" /\ Undisturbed) => end[e].buf = Units(b, end[e].taken)
      BY <3>1 DEF TunnelInv, TransitInv
    <3>t. end[e].taken \in Nat /\ b \in Nat /\ b <= end[e].taken
      BY <1>0, Typed
    <3>3. Eof = Units(b, b)
      BY <1>a, <3>t, UnitsSeq
    <3>4. /\ end'[e].taken \in Nat /\ b <= end'[e].taken /\ b <= b
          /\ GoesOn(e)' \/ (e = "server" /\ Undisturbed') => end'[e].buf = Units(b, end'[e].taken)
      BY <1>a, <1>1, <1>3, <3>t, <3>2 DEF GoesOn
    <3> QED
      BY <1>0, <1>b, <3>t, <3>1, <3>2, <3>3, <3>4, TransitAppend, Zenon
  <2> QED
    BY <2>1, <2>2
<1>10. ASSUME NEW x \in Ends PROVE EofInv(x)'
  <2>1. CASE x # e
    BY <1>b, <1>1, <1>3, <1>4, <2>1 DEF TunnelInv, EofInv
  <2>2. CASE x = e
    <3>1. \A i \in 1..Len(queue[e]) : queue[e][i] # Eof
      BY <1>4 DEF TunnelInv, EofInv
    <3>2. ASSUME NEW i \in 1..Len(queue'[e]), queue'[e][i] = Eof PROVE i = Len(queue'[e])
      <4>1. i \in 1..Len(queue[e]) \/ i = Len(queue[e]) + 1
        BY <1>a, <1>b
      <4> QED
        BY <1>b, <3>1, <3>2, <4>1
    <3>3. end'[e].s2t = "ended"
      BY <1>1, <1>3
    <3> QED
      BY <2>2, <3>2, <3>3 DEF EofInv
  <2> QED
    BY <2>1, <2>2
<1>11. ReplyInv'
  <2>1. CASE e = "client"
    BY <1>1, <1>3, <1>4, <2>1, TwoEnds DEF TunnelInv, ReplyInv, GoesOn
  <2>2. CASE e = "server"
    BY <1>1, <1>3, <1>4, <2>2, TwoEnds DEF TunnelInv, ReplyInv, GoesOn
  <2> QED
    BY <2>1, <2>2 DEF Ends
<1> QED
  BY <1>5, <1>6, <1>7, <1>8, <1>9, <1>10, <1>11 DEF TunnelInv

\* Eof cannot be sent.
LEMMA SendEofFails ==
    ASSUME TunnelInv, NEW e \in Ends, end[e].s2t = "eof", Cancel(e),
           At(e, [end[e] EXCEPT !.s2t = "ended"]),
           UNCHANGED <<kind, program, stalled, sent, handler, got, stream, queue, writeFailed>>,
           Undisturbed' => Undisturbed
    PROVE  TunnelInv'
<1> DEFINE new == [end[e] EXCEPT !.s2t = "ended"]
<1>0. TypeOK /\ end[e] \in EndStates
  BY DEF TunnelInv, TypeOK
<1>1. new \in EndStates /\ new.s2t = "ended" /\ new.reader = end[e].reader /\ new.t2s = end[e].t2s
      /\ new.taken = end[e].taken /\ new.buf = end[e].buf /\ new.eof = end[e].eof
      /\ new.hold = end[e].hold
  BY <1>0 DEF EndStates
<1>2. At(e, new)
  OBVIOUS
<1> HIDE DEF new
<1>3. /\ end' \in [Ends -> EndStates] /\ end'[e] = new
      /\ \A x \in Ends : x # e => end'[x] = end[x]
  BY <1>0, <1>1, <1>2, EndChange
<1>4. /\ UNCHANGED <<kind, program, stalled, sent, handler, got, stream, queue, writeFailed>>
      /\ end[e].s2t = "eof"
      /\ (rpc' = IF e = "client" /\ rpc \in {"open", "returned"} THEN "cancelled" ELSE rpc)
  BY DEF Cancel, Goroutine, progVars
<1>5. TypeOK'
  BY <1>0, <1>3, <1>4 DEF TypeOK
<1>6. StartInv'
  BY <1>1, <1>3, <1>4, FirstStates DEF TunnelInv, StartInv, Ends
<1>7. ASSUME NEW x \in Ends PROVE BufferInv(x)'
  BY <1>1, <1>3, <1>4 DEF TunnelInv, BufferInv
<1>8. ASSUME NEW x \in Ends PROVE ArrivedInv(x)'
  <2>1. end'[x].hold = end[x].hold /\ end'[x].t2s = end[x].t2s
        /\ end'[Peer(x)].taken = end[Peer(x)].taken /\ end[Peer(x)].taken \in Nat
    BY <1>0, <1>1, <1>3, TwoEnds, Typed
  <2>2. stream[x] = "closed" => end[x].t2s \in {"off", "ended"}
    BY DEF TunnelInv, ArrivedInv
  <2> QED
    BY <1>4, <2>1, <2>2, ArrivedKept
<1>9. ASSUME NEW x \in Ends PROVE TransitInv(x)'
  BY <1>1, <1>3, <1>4, TwoEnds, TransitKept
<1>10. ASSUME NEW x \in Ends PROVE EofInv(x)'
  BY <1>1, <1>3, <1>4 DEF TunnelInv, EofInv
<1>11. ReplyInv'
  <2>1. CASE e = "client"
    BY <1>1, <1>3, <1>4, <2>1, TwoEnds DEF TunnelInv, ReplyInv, GoesOn
  <2>2. CASE e = "server"
    BY <1>1, <1>3, <1>4, <2>2, TwoEnds DEF TunnelInv, ReplyInv, GoesOn
  <2> QED
    BY <2>1, <2>2 DEF Ends
<1> QED
  BY <1>5, <1>6, <1>7, <1>8, <1>9, <1>10, <1>11 DEF TunnelInv

\* Send of Eof, with which streamToTunnel ends.
LEMMA SendEofStep ==
    ASSUME TunnelInv, NEW e \in Ends, SendEof(e), Undisturbed' => Undisturbed
    PROVE  TunnelInv'
<1>1. /\ UNCHANGED <<kind, program, stalled, sent, handler, got, stream, writeFailed>>
      /\ end[e].s2t = "eof" /\ Cancel(e) /\ At(e, [end[e] EXCEPT !.s2t = "ended"])
  BY DEF SendEof, Goroutine, progVars
<1>2. CASE rpc = "open"
  <2>1. Len(queue[e]) < MaxQueue /\ queue' = [queue EXCEPT ![e] = Append(@, Eof)]
    BY <1>2 DEF SendEof
  <2> QED
    BY <1>1, <2>1, SendEofOk
<1>3. CASE rpc # "open"
  <2>1. UNCHANGED queue
    BY <1>3 DEF SendEof
  <2> QED
    BY <1>1, <2>1, SendEofFails
<1> QED
  BY <1>2, <1>3

\* tunnelToStream receives Eof and ends.
LEMMA RecvEof ==
    ASSUME TunnelInv, NEW e \in Ends, end[e].t2s = "recv", end[e].hold = <<>>, queue[Peer(e)] # <<>>,
           queue' = [queue EXCEPT ![Peer(e)] = Tail(@)], Head(queue[Peer(e)]) = Eof,
           At(e, [end[e] EXCEPT !.t2s = "ended"]),
           UNCHANGED <<kind, program, stalled, sent, handler, got, stream, rpc, writeFailed>>,
           Undisturbed' => Undisturbed
    PROVE  TunnelInv'
<1> DEFINE new == [end[e] EXCEPT !.t2s = "ended"]
<1>0. TypeOK /\ end[e] \in EndStates
  BY DEF TunnelInv, TypeOK
<1>p. Peer(e) \in Ends /\ Peer(e) # e /\ Peer(Peer(e)) = e
  BY TwoEnds
<1>b. /\ queue' \in [Ends -> Seq(Seq(Nat))]
      /\ \A x \in Ends : Len(queue'[x]) <= MaxQueue
      /\ queue'[Peer(e)] = Tail(queue[Peer(e)])
      /\ \A x \in Ends : x # Peer(e) => queue'[x] = queue[x]
      /\ Len(queue'[Peer(e)]) = Len(queue[Peer(e)]) - 1 /\ Len(queue[Peer(e)]) >= 1
      /\ \A i \in 1..(Len(queue[Peer(e)]) - 1) : queue'[Peer(e)][i] = queue[Peer(e)][i + 1]
      /\ Head(queue[Peer(e)]) \in Seq(Nat) /\ Head(queue[Peer(e)]) = queue[Peer(e)][1]
  BY <1>0, <1>p, QueueTail
<1>l. Len(queue[Peer(e)]) \in Nat
  BY <1>0, <1>p, Typed
<1>c. queue[Peer(e)] \in Seq(Seq(Nat)) /\ Len(got[e]) \in Nat /\ Arrived(e) = Len(got[e])
      /\ end[Peer(e)].taken \in Nat
  <2>1. queue[Peer(e)] \in Seq(Seq(Nat)) /\ Len(got[e]) \in Nat /\ end[Peer(e)].taken \in Nat
    BY <1>0, <1>p, Typed
  <2>2. Len(end[e].hold) = 0
    BY EmptySeq
  <2> QED
    BY <2>1, <2>2 DEF Arrived
<1>r. PICK b \in 0..end[Peer(e)].taken :
        /\ Run(queue[Peer(e)], Len(got[e]), b)
        /\ GoesOn(Peer(e)) \/ (Peer(e) = "server" /\ Undisturbed)
             => end[Peer(e)].buf = Units(b, end[Peer(e)].taken)
  BY <1>p, <1>c DEF TunnelInv, TransitInv
<1>s. PICK d \in Nat :
        /\ Len(got[e]) <= d /\ d <= b /\ Head(queue[Peer(e)]) = Units(Len(got[e]), d)
        /\ Run(Tail(queue[Peer(e)]), d, b)
  BY <1>c, <1>r, RunTail
<1>e. d = Len(got[e]) /\ Len(queue[Peer(e)]) = 1 /\ end[Peer(e)].s2t = "ended" /\ b = d
  <2>1. d = Len(got[e])
    BY <1>c, <1>s, UnitsSeq DEF Eof
  <2>2. queue[Peer(e)][1] = Eof /\ 1 \in 1..Len(queue[Peer(e)])
    BY <1>b, <1>l
  <2>3. Len(queue[Peer(e)]) = 1 /\ end[Peer(e)].s2t = "ended"
    BY <1>p, <2>2 DEF TunnelInv, EofInv
  <2>4. Tail(queue[Peer(e)]) = <<>> /\ Tail(queue[Peer(e)]) \in Seq(Seq(Nat))
    <3>1. queue'[Peer(e)] \in Seq(Seq(Nat)) /\ Len(queue'[Peer(e)]) = 0
      BY <1>b, <1>p, <2>3
    <3> QED
      BY <1>b, <3>1, EmptySeq
  <2> QED
    <3>1. d = b
      BY <1>s, <2>4, RunOrder, Zenon
    <3> QED
      BY <2>1, <2>3, <3>1
<1>1. new \in EndStates /\ new.s2t = end[e].s2t /\ new.reader = end[e].reader /\ new.t2s = "ended"
      /\ new.taken = end[e].taken /\ new.buf = end[e].buf /\ new.eof = end[e].eof
      /\ new.hold = end[e].hold
  BY <1>0 DEF EndStates
<1>2. At(e, new)
  OBVIOUS
<1> HIDE DEF new
<1>3. /\ end' \in [Ends -> EndStates] /\ end'[e] = new
      /\ \A x \in Ends : x # e => end'[x] = end[x]
  BY <1>0, <1>1, <1>2, EndChange
<1>4. /\ UNCHANGED <<kind, program, stalled, sent, handler, got, stream, rpc, writeFailed>>
      /\ end[e].t2s = "recv" /\ end[e].hold = <<>> /\ Head(queue[Peer(e)]) = Eof
  BY DEF At, Goroutine, progVars
<1>5. TypeOK'
  BY <1>0, <1>b, <1>3, <1>4 DEF TypeOK
<1>6. StartInv'
  BY <1>1, <1>3, <1>4, FirstStates DEF TunnelInv, StartInv, Ends
<1>7. ASSUME NEW x \in Ends PROVE BufferInv(x)'
  BY <1>1, <1>3, <1>4 DEF TunnelInv, BufferInv
<1>8. ASSUME NEW x \in Ends PROVE ArrivedInv(x)'
  <2>1. end'[x].hold = end[x].hold
       /\ (end'[x].t2s = end[x].t2s \/ (end'[x].t2s = "ended" /\ end[x].hold = <<>>))
        /\ end'[Peer(x)].taken = end[Peer(x)].taken /\ end[Peer(x)].taken \in Nat
    BY <1>0, <1>1, <1>3, TwoEnds, Typed
  <2>2. stream[x] = "closed" => end'[x].t2s \in {"off", "ended"}
    BY <1>1, <1>3 DEF TunnelInv, ArrivedInv
  <2> QED
    BY <1>4, <2>1, <2>2, ArrivedKept
<1>9. ASSUME NEW x \in Ends PROVE TransitInv(x)'
  <2>1. CASE x = e
    <3>1. queue'[e] = queue[e] /\ end'[Peer(e)] = end[Peer(e)]
      BY <1>b, <1>p, <1>3
    <3> QED
      BY <1>1, <1>3, <1>4, <2>1, <3>1, TransitKept
  <2>2. CASE x = Peer(e)
    BY <1>p, <1>1, <1>3, <2>2 DEF TransitInv
  <2> QED
    BY <2>1, <2>2, TwoEnds
<1>10. ASSUME NEW x \in Ends PROVE EofInv(x)'
  <2>1. CASE x = e
    BY <1>b, <1>p, <1>1, <1>3, <1>4, <2>1 DEF TunnelInv, EofInv
  <2>2. CASE x = Peer(e)
    <3>1. end'[x] = end[x]
      BY <1>p, <1>3, <2>2
    <3>2. ASSUME NEW i \in 1..Len(queue'[x]), queue'[x][i] = Eof
          PROVE  i = Len(queue'[x]) /\ end'[x].s2t = "ended"
      <4>1. i + 1 \in 1..Len(queue[x]) /\ i \in 1..(Len(queue[x]) - 1)
        BY <1>b, <1>l, <2>2
      <4>2. queue[x][i + 1] = Eof
        BY <1>b, <2>2, <3>2, <4>1
      <4>3. i + 1 = Len(queue[x]) /\ end[x].s2t = "ended"
        BY <4>1, <4>2 DEF TunnelInv, EofInv
      <4> QED
        BY <1>b, <1>l, <2>2, <3>1, <4>3
    <3> QED
      BY <3>2 DEF EofInv
  <2> QED
    BY <2>1, <2>2, TwoEnds
<1>11. ReplyInv'
  <2>1. CASE e = "client"
    <3> SUFFICES ASSUME Undisturbed' PROVE /\ end'["server"].s2t = "ended"
                                           /\ Len(got'["client"]) = end'["server"].taken
                                           /\ end'["server"].eof /\ end'["server"].reader = "ended"
                                           /\ end'["server"].buf = <<>>
      BY <1>1, <1>3, <2>1 DEF ReplyInv
    <3>1. Peer(e) = "server" /\ end'["server"] = end["server"] /\ end["server"].s2t = "ended"
      BY <1>e, <1>p, <1>3, <2>1, TwoEnds
    <3>2. end["server"].eof /\ end["server"].reader = "ended" /\ end["server"].buf = <<>>
      BY <1>4, <2>1, <3>1 DEF TunnelInv, ReplyInv, GoesOn
    <3>3. <<>> = Units(b, end["server"].taken)
      BY <1>r, <3>1, <3>2
    <3>4. b = end["server"].taken
      BY <1>c, <3>1, <3>3, UnitsSeq
    <3> QED
      BY <1>e, <1>4, <2>1, <3>1, <3>2, <3>4
  <2>2. CASE e = "server"
    BY <1>e, <1>1, <1>3, <1>4, <2>2, TwoEnds DEF TunnelInv, ReplyInv, GoesOn
  <2> QED
    BY <2>1, <2>2 DEF Ends
<1> QED
  BY <1>5, <1>6, <1>7, <1>8, <1>9, <1>10, <1>11 DEF TunnelInv

\* tunnelToStream receives units.
LEMMA RecvData ==
    ASSUME TunnelInv, NEW e \in Ends, end[e].t2s = "recv", end[e].hold = <<>>, queue[Peer(e)] # <<>>,
           queue' = [queue EXCEPT ![Peer(e)] = Tail(@)], Head(queue[Peer(e)]) # Eof,
           At(e, [end[e] EXCEPT !.t2s = IF IsProxy(e) THEN @ ELSE "write",
                                !.hold = Head(queue[Peer(e)])]),
           UNCHANGED <<kind, program, stalled, sent, handler, got, stream, rpc, writeFailed>>,
           Undisturbed' => Undisturbed
    PROVE  TunnelInv'
<1> DEFINE new == [end[e] EXCEPT !.t2s = IF IsProxy(e) THEN @ ELSE "write",
                              !.hold = Head(queue[Peer(e)])]
<1>0. TypeOK /\ end[e] \in EndStates
  BY DEF TunnelInv, TypeOK
<1>p. Peer(e) \in Ends /\ Peer(e) # e /\ Peer(Peer(e)) = e
  BY TwoEnds
<1>b. /\ queue' \in [Ends -> Seq(Seq(Nat))]
      /\ \A x \in Ends : Len(queue'[x]) <= MaxQueue
      /\ queue'[Peer(e)] = Tail(queue[Peer(e)])
      /\ \A x \in Ends : x # Peer(e) => queue'[x] = queue[x]
      /\ Len(queue'[Peer(e)]) = Len(queue[Peer(e)]) - 1 /\ Len(queue[Peer(e)]) >= 1
      /\ \A i \in 1..(Len(queue[Peer(e)]) - 1) : queue'[Peer(e)][i] = queue[Peer(e)][i + 1]
      /\ Head(queue[Peer(e)]) \in Seq(Nat) /\ Head(queue[Peer(e)]) = queue[Peer(e)][1]
  BY <1>0, <1>p, QueueTail
<1>l. Len(queue[Peer(e)]) \in Nat
  BY <1>0, <1>p, Typed
<1>c. queue[Peer(e)] \in Seq(Seq(Nat)) /\ Len(got[e]) \in Nat /\ Arrived(e) = Len(got[e])
      /\ end[Peer(e)].taken \in Nat
  <2>1. queue[Peer(e)] \in Seq(Seq(Nat)) /\ Len(got[e]) \in Nat /\ end[Peer(e)].taken \in Nat
    BY <1>0, <1>p, Typed
  <2>2. Len(end[e].hold) = 0
    BY EmptySeq
  <2> QED
    BY <2>1, <2>2 DEF Arrived
<1>r. PICK b \in 0..end[Peer(e)].taken :
        /\ Run(queue[Peer(e)], Len(got[e]), b)
        /\ GoesOn(Peer(e)) \/ (Peer(e) = "server" /\ Undisturbed)
             => end[Peer(e)].buf = Units(b, end[Peer(e)].taken)
  BY <1>p, <1>c DEF TunnelInv, TransitInv
<1>s. PICK d \in Nat :
        /\ Len(got[e]) <= d /\ d <= b /\ Head(queue[Peer(e)]) = Units(Len(got[e]), d)
        /\ Run(Tail(queue[Peer(e)]), d, b)
  BY <1>c, <1>r, RunTail
<1>1. new \in EndStates /\ new.s2t = end[e].s2t /\ new.reader = end[e].reader
      /\ new.t2s = (IF IsProxy(e) THEN "recv" ELSE "write") /\ new.taken = end[e].taken
      /\ new.buf = end[e].buf /\ new.eof = end[e].eof /\ new.hold = Units(Len(got[e]), d)
  BY <1>0, <1>b, <1>s DEF EndStates
<1>2. At(e, new)
  OBVIOUS
<1> HIDE DEF new
<1>3. /\ end' \in [Ends -> EndStates] /\ end'[e] = new
      /\ \A x \in Ends : x # e => end'[x] = end[x]
  BY <1>0, <1>1, <1>2, EndChange
<1>4. /\ UNCHANGED <<kind, program, stalled, sent, handler, got, stream, rpc, writeFailed>>
      /\ end[e].t2s = "recv" /\ end[e].hold = <<>> /\ Head(queue[Peer(e)]) # Eof
  BY DEF At, Goroutine, progVars
<1>5. TypeOK'
  BY <1>0, <1>b, <1>3, <1>4 DEF TypeOK
<1>6. StartInv'
  <2>1. kind = "proxy" /\ e = "client" => new.t2s # "write"
    BY <1>1 DEF IsProxy
  <2> QED
    BY <1>1, <1>3, <1>4, <2>1, FirstStates DEF TunnelInv, StartInv, Ends
<1>7. ASSUME NEW x \in Ends PROVE BufferInv(x)'
  BY <1>1, <1>3, <1>4 DEF TunnelInv, BufferInv
<1>8. ASSUME NEW x \in Ends PROVE ArrivedInv(x)'
  <2>1. CASE x # e
    <3>1. end'[x] = end[x] /\ end'[Peer(x)].taken = end[Peer(x)].taken /\ end[Peer(x)].taken \in Nat
      BY <1>0, <1>1, <1>3, <2>1, TwoEnds, Typed
    <3>2. stream[x] = "closed" => end[x].t2s \in {"off", "ended"}
      BY DEF TunnelInv, ArrivedInv
    <3> QED
      BY <1>4, <3>1, <3>2, ArrivedKept
  <2>2. CASE x = e
    <3>1. Arrived(e)' = d /\ end'[e].hold # <<>>
      <4>1. Len(Units(Len(got[e]), d)) = d - Len(got[e])
        BY <1>c, <1>s, UnitsSeq
      <4>2. Len(got'[e]) + Len(end'[e].hold) = d
        <5>1. got'[e] = got[e] /\ end'[e].hold = Units(Len(got[e]), d)
          BY <1>1, <1>3, <1>4
        <5>2. \A n \in Nat : n + (d - n) = d
          OBVIOUS
        <5> QED
          BY <1>c, <4>1, <5>1, <5>2, Zenon
      <4> QED
        BY <1>s, <1>1, <1>3, <1>4, <4>2 DEF Arrived, Eof
    <3>2. d <= end'[Peer(e)].taken
      BY <1>c, <1>p, <1>r, <1>s, <1>3
    <3>3. sent'[e] = Units(0, Len(sent[e]))' /\ got'[e] = Units(0, Len(got[e]))'
      BY <1>4 DEF TunnelInv, ArrivedInv
    <3>4. end'[e].t2s = "recv" => e = "client" /\ kind' = "proxy"
      BY <1>1, <1>3, <1>4 DEF IsProxy
    <3>5. stream'[e] # "closed"
      BY <1>4 DEF TunnelInv, ArrivedInv
    <3>6. end'[e].t2s \in {"recv", "write"} /\ end'[e].hold = Units(Len(got[e]), Arrived(e))'
      BY <1>1, <1>3, <1>4, <3>1
    <3> QED
      BY <2>2, <3>1, <3>2, <3>3, <3>4, <3>5, <3>6 DEF ArrivedInv
  <2> QED
    BY <2>1, <2>2
<1>9. ASSUME NEW x \in Ends PROVE TransitInv(x)'
  <2>1. CASE x = e
    <3>1. queue'[e] = queue[e] /\ end'[Peer(e)] = end[Peer(e)]
      BY <1>b, <1>p, <1>3
    <3> QED
      BY <1>1, <1>3, <1>4, <2>1, <3>1, TransitKept
  <2>2. CASE x = Peer(e)
    <3>1. Arrived(e)' = d
      <4>1. Len(Units(Len(got[e]), d)) = d - Len(got[e])
        BY <1>c, <1>s, UnitsSeq
      <4>2. Len(got'[e]) + Len(end'[e].hold) = d
        <5>1. got'[e] = got[e] /\ end'[e].hold = Units(Len(got[e]), d)
          BY <1>1, <1>3, <1>4
        <5>2. \A n \in Nat : n + (d - n) = d
          OBVIOUS
        <5> QED
          BY <1>c, <4>1, <5>1, <5>2, Zenon
      <4> QED
        BY <4>2 DEF Arrived
    <3>2. end'[x] = end[x] /\ Peer(x) = e
      BY <1>p, <1>3, <2>2
    <3>3. Run(queue'[x], Arrived(Peer(x))', b)
      BY <1>b, <1>s, <2>2, <3>1, <3>2
    <3>4. GoesOn(x)' \/ (x = "server" /\ Undisturbed') => end'[x].buf = Units(b, end'[x].taken)
      BY <1>r, <2>2, <3>2 DEF GoesOn
    <3>5. b \in 0..end'[x].taken
      BY <2>2, <3>2
    <3> QED
      BY <3>3, <3>4, <3>5 DEF TransitInv
  <2> QED
    BY <2>1, <2>2, TwoEnds
<1>10. ASSUME NEW x \in Ends PROVE EofInv(x)'
  <2>1. CASE x = e
    BY <1>b, <1>p, <1>1, <1>3, <1>4, <2>1 DEF TunnelInv, EofInv
  <2>2. CASE x = Peer(e)
    <3>1. end'[x] = end[x]
      BY <1>p, <1>3, <2>2
    <3>2. ASSUME NEW i \in 1..Len(queue'[x]), queue'[x][i] = Eof
          PROVE  i = Len(queue'[x]) /\ end'[x].s2t = "ended"
      <4>1. i + 1 \in 1..Len(queue[x]) /\ i \in 1..(Len(queue[x]) - 1)
        BY <1>b, <1>l, <2>2
      <4>2. queue[x][i + 1] = Eof
        BY <1>b, <2>2, <3>2, <4>1
      <4>3. i + 1 = Len(queue[x]) /\ end[x].s2t = "ended"
        BY <4>1, <4>2 DEF TunnelInv, EofInv
      <4> QED
        BY <1>b, <1>l, <2>2, <3>1, <4>3
    <3> QED
      BY <3>2 DEF EofInv
  <2> QED
    BY <2>1, <2>2, TwoEnds
<1>11. ReplyInv'
  <2>0. new.t2s # "ended"
    BY <1>1
  <2>1. CASE e = "client"
    BY <1>1, <1>3, <1>4, <2>0, <2>1, TwoEnds DEF TunnelInv, ReplyInv, GoesOn
  <2>2. CASE e = "server"
    BY <1>1, <1>3, <1>4, <2>0, <2>2, TwoEnds DEF TunnelInv, ReplyInv, GoesOn
  <2> QED
    BY <2>1, <2>2 DEF Ends
<1> QED
  BY <1>5, <1>6, <1>7, <1>8, <1>9, <1>10, <1>11 DEF TunnelInv

\* tunnelToStream receives an error and ends.
LEMMA RecvError ==
    ASSUME TunnelInv, NEW e \in Ends, end[e].t2s = "recv", end[e].hold = <<>>, RecvFails(e),
           At(e, [end[e] EXCEPT !.t2s = "ended"]),
           UNCHANGED <<kind, program, stalled, sent, handler, got, stream, rpc, queue,
                       writeFailed>>,
           Undisturbed' => Undisturbed
    PROVE  TunnelInv'
<1> DEFINE new == [end[e] EXCEPT !.t2s = "ended"]
<1>0. TypeOK /\ end[e] \in EndStates
  BY DEF TunnelInv, TypeOK
<1>1. new \in EndStates /\ new.s2t = end[e].s2t /\ new.reader = end[e].reader /\ new.t2s = "ended"
      /\ new.taken = end[e].taken /\ new.buf = end[e].buf /\ new.eof = end[e].eof
      /\ new.hold = end[e].hold
  BY <1>0 DEF EndStates
<1>2. At(e, new)
  OBVIOUS
<1> HIDE DEF new
<1>3. /\ end' \in [Ends -> EndStates] /\ end'[e] = new
      /\ \A x \in Ends : x # e => end'[x] = end[x]
  BY <1>0, <1>1, <1>2, EndChange
<1>4. /\ UNCHANGED <<kind, program, stalled, sent, handler, got, stream, rpc, queue, writeFailed>>
      /\ end[e].t2s = "recv" /\ end[e].hold = <<>> /\ rpc \in {"cancelled", "broken", "returned"}
  BY DEF RecvFails, Goroutine, progVars
<1>5. TypeOK'
  BY <1>0, <1>3, <1>4 DEF TypeOK
<1>6. StartInv'
  BY <1>1, <1>3, <1>4, FirstStates DEF TunnelInv, StartInv, Ends
<1>7. ASSUME NEW x \in Ends PROVE BufferInv(x)'
  BY <1>1, <1>3, <1>4 DEF TunnelInv, BufferInv
<1>8. ASSUME NEW x \in Ends PROVE ArrivedInv(x)'
  <2>1. end'[x].hold = end[x].hold
       /\ (end'[x].t2s = end[x].t2s \/ (end'[x].t2s = "ended" /\ end[x].hold = <<>>))
        /\ end'[Peer(x)].taken = end[Peer(x)].taken /\ end[Peer(x)].taken \in Nat
    BY <1>0, <1>1, <1>3, <1>4, TwoEnds, Typed
  <2>2. stream[x] = "closed" => end'[x].t2s \in {"off", "ended"}
    BY <1>1, <1>3 DEF TunnelInv, ArrivedInv
  <2> QED
    BY <1>4, <2>1, <2>2, ArrivedKept
<1>9. ASSUME NEW x \in Ends PROVE TransitInv(x)'
  BY <1>1, <1>3, <1>4, TwoEnds, TransitKept
<1>10. ASSUME NEW x \in Ends PROVE EofInv(x)'
  BY <1>1, <1>3, <1>4 DEF TunnelInv, EofInv
<1>11. ReplyInv'
  <2>1. CASE e = "client"
    BY <1>1, <1>3, <1>4, <2>1, TwoEnds DEF TunnelInv, ReplyInv, GoesOn, Undisturbed
  <2>2. CASE e = "server"
    BY <1>1, <1>3, <1>4, <2>2, TwoEnds DEF TunnelInv, ReplyInv, GoesOn, Undisturbed
  <2> QED
    BY <2>1, <2>2 DEF Ends
<1> QED
  BY <1>5, <1>6, <1>7, <1>8, <1>9, <1>10, <1>11 DEF TunnelInv

\* tunnelToStream receives a message or an error.
LEMMA RecvMsgStep ==
    ASSUME TunnelInv, NEW e \in Ends, RecvMsg(e), Undisturbed' => Undisturbed
    PROVE  TunnelInv'
<1>1. /\ UNCHANGED <<kind, program, stalled, sent, handler, got, stream, rpc, writeFailed>>
      /\ end[e].t2s = "recv" /\ end[e].hold = <<>>
  BY DEF RecvMsg, Goroutine, progVars
<1>2. CASE /\ queue[Peer(e)] # <<>>
           /\ queue' = [queue EXCEPT ![Peer(e)] = Tail(@)]
           /\ IF Head(queue[Peer(e)]) = Eof
                THEN At(e, [end[e] EXCEPT !.t2s = "ended"])
                ELSE At(e, [end[e] EXCEPT !.t2s = IF IsProxy(e) THEN @ ELSE "write",
                                          !.hold = Head(queue[Peer(e)])])
  BY <1>1, <1>2, RecvEof, RecvData
<1>3. CASE RecvFails(e) /\ At(e, [end[e] EXCEPT !.t2s = "ended"]) /\ UNCHANGED queue
  BY <1>1, <1>3, RecvError
<1> QED
  BY <1>2, <1>3 DEF RecvMsg, Inbox

\* tunnelToStream writes what it holds.
LEMMA WriteOk ==
    ASSUME TunnelInv, NEW e \in Ends, end[e].t2s = "write",
           got' = [got EXCEPT ![e] = @ \o end[e].hold],
           At(e, [end[e] EXCEPT !.t2s = "recv", !.hold = <<>>]),
           UNCHANGED <<kind, program, stalled, sent, handler, stream, rpc, queue, writeFailed>>,
           Undisturbed' => Undisturbed
    PROVE  TunnelInv'
<1> DEFINE new == [end[e] EXCEPT !.t2s = "recv", !.hold = <<>>]
<1>0. TypeOK /\ end[e] \in EndStates
  BY DEF TunnelInv, TypeOK
<1>a. /\ ArrivedInv(e) /\ Len(got[e]) \in Nat /\ Arrived(e) \in Nat
      /\ Len(got[e]) <= Arrived(e) /\ end[e].hold = Units(Len(got[e]), Arrived(e))
      /\ Arrived(e) - Len(got[e]) = Len(end[e].hold) /\ Len(end[e].hold) \in Nat
  <2>1. /\ ArrivedInv(e) /\ Len(got[e]) \in Nat /\ Arrived(e) \in Nat
        /\ Len(end[e].hold) \in Nat /\ end[e].hold = Units(Len(got[e]), Arrived(e))
    BY <1>0, Typed DEF TunnelInv, ArrivedInv
  <2>2. \A m, n \in Nat : m <= m + n /\ (m + n) - m = n
    OBVIOUS
  <2>3. Len(got[e]) <= Arrived(e) /\ Arrived(e) - Len(got[e]) = Len(end[e].hold)
    BY <2>1, <2>2, Zenon DEF Arrived
  <2> QED
    BY <2>1, <2>3
<1>b. /\ got' \in [Ends -> Seq(Nat)]
      /\ got'[e] = Units(0, Arrived(e)) /\ Len(got'[e]) = Arrived(e)
      /\ \A x \in Ends : x # e => got'[x] = got[x]
  BY <1>0, <1>a, GotMore
<1>h. <<>> \in Seq(Nat) /\ Len(<<>>) = 0 /\ Units(Arrived(e), Arrived(e)) = <<>>
  BY <1>a, EmptySeq, UnitsSeq
<1>1. new \in EndStates /\ new.s2t = end[e].s2t /\ new.reader = end[e].reader /\ new.t2s = "recv"
      /\ new.taken = end[e].taken /\ new.buf = end[e].buf /\ new.eof = end[e].eof
      /\ new.hold = <<>>
  BY <1>0, <1>h DEF EndStates
<1>2. At(e, new)
  OBVIOUS
<1> HIDE DEF new
<1>3. /\ end' \in [Ends -> EndStates] /\ end'[e] = new
      /\ \A x \in Ends : x # e => end'[x] = end[x]
  BY <1>0, <1>1, <1>2, EndChange
<1>4. /\ UNCHANGED <<kind, program, stalled, sent, handler, stream, rpc, queue, writeFailed>>
      /\ end[e].t2s = "write"
  BY DEF At, Goroutine, progVars
<1>c. Arrived(e)' = Arrived(e)
  <2>1. end'[e].hold = <<>>
    BY <1>1, <1>3
  <2> QED
    BY <1>a, <1>b, <1>h, <2>1 DEF Arrived
<1>5. TypeOK'
  BY <1>0, <1>b, <1>3, <1>4 DEF TypeOK
<1>6. StartInv'
  BY <1>1, <1>3, <1>4, FirstStates DEF TunnelInv, StartInv, Ends
<1>7. ASSUME NEW x \in Ends PROVE BufferInv(x)'
  BY <1>1, <1>3, <1>4 DEF TunnelInv, BufferInv
<1>8. ASSUME NEW x \in Ends PROVE ArrivedInv(x)'
  <2>1. CASE x # e
    <3>1. end'[x] = end[x] /\ end'[Peer(x)].taken = end[Peer(x)].taken /\ end[Peer(x)].taken \in Nat
          /\ got'[x] = got[x]
      BY <1>0, <1>b, <1>1, <1>3, <2>1, TwoEnds, Typed
    <3>2. stream[x] = "closed" => end[x].t2s \in {"off", "ended"}
      BY DEF TunnelInv, ArrivedInv
    <3> QED
      BY <1>4, <3>1, <3>2, ArrivedKept
  <2>2. CASE x = e
    <3>1. sent'[e] = Units(0, Len(sent[e]))'
      BY <1>4 DEF TunnelInv, ArrivedInv
    <3>2. got'[e] = Units(0, Len(got[e]))' /\ Arrived(e)' <= end'[Peer(e)].taken
      <4>1. end'[Peer(e)] = end[Peer(e)]
        BY <1>3, TwoEnds
      <4>2. Arrived(e) <= end[Peer(e)].taken
        BY <1>a DEF ArrivedInv
      <4> QED
        BY <1>b, <1>c, <4>1, <4>2
    <3>3. stream'[e] # "closed"
      BY <1>4 DEF TunnelInv, ArrivedInv
    <3>4. end'[e].t2s = "recv" /\ end'[e].hold = Units(Len(got[e]), Arrived(e))'
          /\ (end'[e].hold # <<>> => e = "client" /\ kind' = "proxy")
      BY <1>b, <1>c, <1>h, <1>1, <1>3, <1>4
    <3> QED
      BY <2>2, <3>1, <3>2, <3>3, <3>4 DEF ArrivedInv
  <2> QED
    BY <2>1, <2>2
<1>9. ASSUME NEW x \in Ends PROVE TransitInv(x)'
  <2>1. CASE x = e
    <3>1. end'[Peer(e)] = end[Peer(e)] /\ got'[Peer(e)] = got[Peer(e)]
      BY <1>b, <1>3, TwoEnds
    <3> QED
      BY <1>1, <1>3, <1>4, <2>1, <3>1, TransitKept
  <2>2. CASE x = Peer(e)
    <3>1. end'[x] = end[x] /\ Peer(x) = e
      BY <1>3, <2>2, TwoEnds
    <3>2. end[e].t2s # "ended"
      BY <1>4
    <3>3. PICK b \in 0..end[x].taken :
            /\ Run(queue[x], Arrived(e), b)
            /\ GoesOn(x) \/ (x = "server" /\ Undisturbed) => end[x].buf = Units(b, end[x].taken)
      BY <3>1, <3>2 DEF TunnelInv, TransitInv
    <3>4. Run(queue'[x], Arrived(Peer(x))', b) /\ b \in 0..end'[x].taken
      BY <1>c, <1>4, <3>1, <3>3
    <3>5. GoesOn(x)' \/ (x = "server" /\ Undisturbed') => end'[x].buf = Units(b, end'[x].taken)
      BY <3>1, <3>3 DEF GoesOn
    <3> QED
      BY <3>4, <3>5 DEF TransitInv
  <2> QED
    BY <2>1, <2>2, TwoEnds
<1>10. ASSUME NEW x \in Ends PROVE EofInv(x)'
  BY <1>1, <1>3, <1>4 DEF TunnelInv, EofInv
<1>11. ReplyInv'
  <2>1. CASE e = "client"
    BY <1>1, <1>3, <1>4, <2>1, TwoEnds DEF TunnelInv, ReplyInv, GoesOn
  <2>2. CASE e = "server"
    BY <1>b, <1>1, <1>3, <1>4, <2>2, TwoEnds DEF TunnelInv, ReplyInv, GoesOn
  <2> QED
    BY <2>1, <2>2 DEF Ends
<1> QED
  BY <1>5, <1>6, <1>7, <1>8, <1>9, <1>10, <1>11 DEF TunnelInv

\* tunnelToStream cannot write and ends.
LEMMA WriteFails ==
    ASSUME TunnelInv, NEW e \in Ends, end[e].t2s = "write", program[e] = "closed",
           At(e, [end[e] EXCEPT !.t2s = "ended", !.hold = <<>>]),
           writeFailed' = writeFailed \cup {e},
           UNCHANGED <<kind, program, stalled, sent, handler, got, stream, rpc, queue>>,
           Undisturbed' => Undisturbed
    PROVE  TunnelInv'
<1> DEFINE new == [end[e] EXCEPT !.t2s = "ended", !.hold = <<>>]
<1>0. TypeOK /\ end[e] \in EndStates
  BY DEF TunnelInv, TypeOK
<1>a. /\ ArrivedInv(e) /\ Len(got[e]) \in Nat /\ Arrived(e) \in Nat
      /\ Len(got[e]) <= Arrived(e) /\ end[e].hold = Units(Len(got[e]), Arrived(e))
      /\ Arrived(e) - Len(got[e]) = Len(end[e].hold) /\ Len(end[e].hold) \in Nat
  <2>1. /\ ArrivedInv(e) /\ Len(got[e]) \in Nat /\ Arrived(e) \in Nat
        /\ Len(end[e].hold) \in Nat /\ end[e].hold = Units(Len(got[e]), Arrived(e))
    BY <1>0, Typed DEF TunnelInv, ArrivedInv
  <2>2. \A m, n \in Nat : m <= m + n /\ (m + n) - m = n
    OBVIOUS
  <2>3. Len(got[e]) <= Arrived(e) /\ Arrived(e) - Len(got[e]) = Len(end[e].hold)
    BY <2>1, <2>2, Zenon DEF Arrived
  <2> QED
    BY <2>1, <2>3
<1>h. <<>> \in Seq(Nat) /\ Len(<<>>) = 0 /\ Units(Len(got[e]), Len(got[e])) = <<>>
  BY <1>a, EmptySeq, NoUnits
<1>1. new \in EndStates /\ new.s2t = end[e].s2t /\ new.reader = end[e].reader /\ new.t2s = "ended"
      /\ new.taken = end[e].taken /\ new.buf = end[e].buf /\ new.eof = end[e].eof
      /\ new.hold = <<>>
  BY <1>0, <1>h DEF EndStates
<1>2. At(e, new)
  OBVIOUS
<1> HIDE DEF new
<1>3. /\ end' \in [Ends -> EndStates] /\ end'[e] = new
      /\ \A x \in Ends : x # e => end'[x] = end[x]
  BY <1>0, <1>1, <1>2, EndChange
<1>4. /\ UNCHANGED <<kind, program, stalled, sent, handler, got, stream, rpc, queue>>
      /\ end[e].t2s = "write" /\ program[e] = "closed" /\ writeFailed' = writeFailed \cup {e}
  BY DEF At, Goroutine, progVars
<1>5. TypeOK'
  BY <1>0, <1>3, <1>4 DEF TypeOK
<1>6. StartInv'
  BY <1>1, <1>3, <1>4, FirstStates DEF TunnelInv, StartInv, Ends
<1>7. ASSUME NEW x \in Ends PROVE BufferInv(x)'
  BY <1>1, <1>3, <1>4 DEF TunnelInv, BufferInv
<1>8. ASSUME NEW x \in Ends PROVE ArrivedInv(x)'
  <2>1. CASE x # e
    <3>1. end'[x] = end[x] /\ end'[Peer(x)].taken = end[Peer(x)].taken /\ end[Peer(x)].taken \in Nat
      BY <1>0, <1>1, <1>3, <2>1, TwoEnds, Typed
    <3>2. stream[x] = "closed" => end[x].t2s \in {"off", "ended"}
      BY DEF TunnelInv, ArrivedInv
    <3> QED
      BY <1>4, <3>1, <3>2, ArrivedKept
  <2>2. CASE x = e
    <3>1. sent'[e] = Units(0, Len(sent[e]))' /\ got'[e] = Units(0, Len(got[e]))'
      BY <1>4 DEF TunnelInv, ArrivedInv
    <3>2. end'[e].hold = <<>> /\ end'[e].t2s = "ended" /\ end'[Peer(e)].taken = end[Peer(e)].taken
      BY <1>1, <1>3, TwoEnds
    <3>3. Arrived(e)' = Len(got[e])
      BY <1>a, <1>h, <1>4, <3>2 DEF Arrived
    <3>4. end[Peer(e)].taken \in Nat /\ Arrived(e) <= end[Peer(e)].taken
      BY <1>0, <1>a, TwoEnds, Typed DEF ArrivedInv
    <3>5. Arrived(e)' <= end'[Peer(e)].taken
      BY <1>a, <3>2, <3>3, <3>4
    <3>6. end'[e].hold = Units(Len(got[e]), Arrived(e))'
      BY <1>h, <1>4, <3>2, <3>3
    <3> QED
      BY <2>2, <3>1, <3>2, <3>5, <3>6 DEF ArrivedInv
  <2> QED
    BY <2>1, <2>2
<1>9. ASSUME NEW x \in Ends PROVE TransitInv(x)'
  <2>1. CASE x = e
    <3>1. end'[Peer(e)] = end[Peer(e)]
      BY <1>3, TwoEnds
    <3> QED
      BY <1>1, <1>3, <1>4, <2>1, <3>1, TransitKept
  <2>2. CASE x = Peer(e)
    BY <1>1, <1>3, <2>2, TwoEnds DEF TransitInv
  <2> QED
    BY <2>1, <2>2, TwoEnds
<1>10. ASSUME NEW x \in Ends PROVE EofInv(x)'
  BY <1>1, <1>3, <1>4 DEF TunnelInv, EofInv
<1>11. ReplyInv'
  <2>1. ~Undisturbed'
    BY <1>4, TwoEnds DEF Undisturbed, Ends
  <2> QED
    BY <2>1 DEF ReplyInv
<1> QED
  BY <1>5, <1>6, <1>7, <1>8, <1>9, <1>10, <1>11 DEF TunnelInv

\* tunnelToStream writes to its program.
LEMMA WriteStreamStep ==
    ASSUME TunnelInv, NEW e \in Ends, WriteStream(e), Undisturbed' => Undisturbed
    PROVE  TunnelInv'
<1>1. /\ UNCHANGED <<kind, program, stalled, sent, handler, stream, rpc, queue>>
      /\ end[e].t2s = "write"
  BY DEF WriteStream, Goroutine, progVars
<1>2. CASE /\ got' = [got EXCEPT ![e] = @ \o end[e].hold]
           /\ At(e, [end[e] EXCEPT !.t2s = "recv", !.hold = <<>>])
           /\ UNCHANGED writeFailed
  BY <1>1, <1>2, WriteOk
<1>3. CASE /\ program[e] = "closed"
           /\ At(e, [end[e] EXCEPT !.t2s = "ended", !.hold = <<>>])
           /\ writeFailed' = writeFailed \cup {e}
           /\ UNCHANGED got
  BY <1>1, <1>3, WriteFails
<1> QED
  BY <1>2, <1>3 DEF WriteStream

\* A program sends a unit.
LEMMA ProgramSendsStep ==
    ASSUME TunnelInv, NEW e \in Ends, ProgramSends(e), Undisturbed' => Undisturbed
    PROVE  TunnelInv'
<1>0. TypeOK
  BY DEF TunnelInv
<1>1. /\ UNCHANGED <<kind, program, stalled, got, stream, rpc, queue, handler, end, writeFailed>>
      /\ sent' = [sent EXCEPT ![e] = Append(@, Len(@) + 1)] /\ program[e] = "open"
  BY DEF ProgramSends, Outside
<1>5. TypeOK'
  <2>1. sent \in [Ends -> Seq(Nat)] /\ sent[e] \in Seq(Nat) /\ Len(sent[e]) + 1 \in Nat
    BY <1>0, Typed DEF TypeOK
  <2>2. Append(sent[e], Len(sent[e]) + 1) \in Seq(Nat)
    BY <2>1, AppendProperties
  <2>3. sent' \in [Ends -> Seq(Nat)]
    BY <1>1, <2>1, <2>2
  <2> QED
    BY <1>0, <1>1, <2>3 DEF TypeOK
<1>6. StartInv'
  BY <1>1 DEF TunnelInv, StartInv
<1>7. ASSUME NEW x \in Ends PROVE BufferInv(x)'
  <2>1. sent[x] \in Seq(Nat) /\ Len(sent[x]) \in Nat /\ end[x].taken \in Nat /\ sent \in [Ends -> Seq(Nat)]
    BY <1>0, Typed DEF TypeOK
  <2>2. BufferInv(x)
    BY DEF TunnelInv
  <2>3. CASE x = e
    <3>1. sent'[x] = Append(sent[x], Len(sent[x]) + 1)
      BY <1>1, <2>1, <2>3
    <3>2. Len(sent'[x]) = Len(sent[x]) + 1
      BY <2>1, <3>1, AppendProperties
    <3>3. end'[x].taken <= Len(sent'[x]) /\ ~end'[x].eof
      BY <1>1, <2>1, <2>2, <2>3, <3>2 DEF BufferInv
    <3> QED
      BY <1>1, <2>2, <3>3 DEF BufferInv
  <2>4. CASE x # e
    <3>1. sent'[x] = sent[x]
      BY <1>1, <2>1, <2>4
    <3> QED
      BY <1>1, <2>2, <3>1 DEF BufferInv
  <2> QED
    BY <2>3, <2>4
<1>8. ASSUME NEW x \in Ends PROVE ArrivedInv(x)'
  <2>1. sent[x] \in Seq(Nat) /\ Len(sent[x]) \in Nat /\ sent \in [Ends -> Seq(Nat)]
    BY <1>0, Typed DEF TypeOK
  <2>2. ArrivedInv(x) /\ Arrived(x)' = Arrived(x)
    BY <1>1 DEF TunnelInv, Arrived
  <2>3. sent'[x] = Units(0, Len(sent'[x]))
    <3>1. CASE x = e
      <4>1. sent'[x] = Append(sent[x], Len(sent[x]) + 1) /\ sent[x] = Units(0, Len(sent[x]))
        BY <1>1, <2>1, <2>2, <3>1 DEF ArrivedInv
      <4>2. Append(Units(0, Len(sent[x])), Len(sent[x]) + 1) = Units(0, Len(sent[x]) + 1)
        BY <2>1, UnitsAppend
      <4>3. Len(sent'[x]) = Len(sent[x]) + 1
        BY <2>1, <4>1, AppendProperties
      <4> QED
        BY <4>1, <4>2, <4>3
    <3>2. CASE x # e
      BY <1>1, <2>1, <2>2, <3>2 DEF ArrivedInv
    <3> QED
      BY <3>1, <3>2
  <2> QED
    BY <1>1, <2>2, <2>3 DEF ArrivedInv
<1>9. ASSUME NEW x \in Ends PROVE TransitInv(x)'
  BY <1>1, TransitKept
<1>10. ASSUME NEW x \in Ends PROVE EofInv(x)'
  BY <1>1 DEF TunnelInv, EofInv
<1>11. ReplyInv'
  BY <1>1 DEF TunnelInv, ReplyInv, GoesOn
<1> QED
  BY <1>5, <1>6, <1>7, <1>8, <1>9, <1>10, <1>11 DEF TunnelInv

\* A program ends what it sends, or closes.
LEMMA ProgramClosesStep ==
    ASSUME TunnelInv, NEW e \in Ends, ProgramCloses(e), Undisturbed' => Undisturbed
    PROVE  TunnelInv'
<1>0. TypeOK
  BY DEF TunnelInv
<1>1. /\ UNCHANGED <<kind, stalled, sent, got, stream, rpc, queue, handler, end, writeFailed>>
      /\ program[e] # "closed"
      /\ program' = [program EXCEPT ![e] = "half"] \/ program' = [program EXCEPT ![e] = "closed"]
  BY DEF ProgramCloses, Outside
<1>5. TypeOK'
  BY <1>0, <1>1 DEF TypeOK
<1>6. StartInv'
  BY <1>1 DEF TunnelInv, StartInv
<1>7. ASSUME NEW x \in Ends PROVE BufferInv(x)'
  <2>1. program[x] # "open" => program'[x] # "open"
    BY <1>0, <1>1 DEF TypeOK
  <2> QED
    BY <1>1, <2>1 DEF TunnelInv, BufferInv
<1>8. ASSUME NEW x \in Ends PROVE ArrivedInv(x)'
  <2>1. end[Peer(x)].taken \in Nat /\ (stream'[x] = "closed" => end'[x].t2s \in {"off", "ended"})
    BY <1>0, <1>1, TwoEnds, Typed DEF TunnelInv, ArrivedInv
  <2> QED
    BY <1>1, <2>1, ArrivedKept
<1>9. ASSUME NEW x \in Ends PROVE TransitInv(x)'
  BY <1>1, TransitKept
<1>10. ASSUME NEW x \in Ends PROVE EofInv(x)'
  BY <1>1 DEF TunnelInv, EofInv
<1>11. ReplyInv'
  BY <1>1 DEF TunnelInv, ReplyInv, GoesOn
<1> QED
  BY <1>5, <1>6, <1>7, <1>8, <1>9, <1>10, <1>11 DEF TunnelInv

\* The network breaks.
LEMMA NetworkBreaksStep ==
    ASSUME TunnelInv, NetworkBreaks, Undisturbed' => Undisturbed
    PROVE  TunnelInv'
<1>0. TypeOK
  BY DEF TunnelInv
<1>1. /\ UNCHANGED <<kind, program, stalled, sent, got, stream, queue, handler, end, writeFailed>>
      /\ rpc = "open" /\ rpc' = "broken"
  BY DEF NetworkBreaks, Outside
<1>5. TypeOK'
  BY <1>0, <1>1 DEF TypeOK
<1>6. StartInv'
  BY <1>1 DEF TunnelInv, StartInv
<1>7. ASSUME NEW x \in Ends PROVE BufferInv(x)'
  BY <1>1 DEF TunnelInv, BufferInv
<1>8. ASSUME NEW x \in Ends PROVE ArrivedInv(x)'
  <2>1. end[Peer(x)].taken \in Nat /\ (stream'[x] = "closed" => end'[x].t2s \in {"off", "ended"})
    BY <1>0, <1>1, TwoEnds, Typed DEF TunnelInv, ArrivedInv
  <2> QED
    BY <1>1, <2>1, ArrivedKept
<1>9. ASSUME NEW x \in Ends PROVE TransitInv(x)'
  BY <1>1, TransitKept
<1>10. ASSUME NEW x \in Ends PROVE EofInv(x)'
  BY <1>1 DEF TunnelInv, EofInv
<1>11. ReplyInv'
  BY <1>1 DEF ReplyInv, Undisturbed
<1> QED
  BY <1>5, <1>6, <1>7, <1>8, <1>9, <1>10, <1>11 DEF TunnelInv

\* Both goroutines of e are done.
LEMMA FinishStep ==
    ASSUME TunnelInv, NEW e \in Ends, Finish(e), Undisturbed' => Undisturbed
    PROVE  TunnelInv'
<1>0. TypeOK
  BY DEF TunnelInv
<1>1. /\ UNCHANGED <<kind, program, stalled, sent, got, queue, end, writeFailed>>
      /\ end[e].s2t = "ended" /\ end[e].t2s = "ended"
      /\ stream' = [stream EXCEPT ![e] = "closed"]
      /\ handler' = (IF e = "server" THEN "returned" ELSE handler)
      /\ rpc' = (IF e = "server" /\ rpc = "open" THEN "returned" ELSE rpc)
  BY DEF Finish, progVars
<1>5. TypeOK'
  BY <1>0, <1>1 DEF TypeOK
<1>6. StartInv'
  BY <1>1, FirstStates, TwoEnds DEF TunnelInv, StartInv
<1>7. ASSUME NEW x \in Ends PROVE BufferInv(x)'
  BY <1>1 DEF TunnelInv, BufferInv
<1>8. ASSUME NEW x \in Ends PROVE ArrivedInv(x)'
  <2>1. end[Peer(x)].taken \in Nat
    BY <1>0, TwoEnds, Typed
  <2>2. stream'[x] = "closed" => end'[x].t2s \in {"off", "ended"}
    BY <1>0, <1>1 DEF TunnelInv, ArrivedInv, TypeOK
  <2> QED
    BY <1>1, <2>1, <2>2, ArrivedKept
<1>9. ASSUME NEW x \in Ends PROVE TransitInv(x)'
  BY <1>1, TransitKept
<1>10. ASSUME NEW x \in Ends PROVE EofInv(x)'
  BY <1>1 DEF TunnelInv, EofInv
<1>11. ReplyInv'
  <2>1. CASE e = "client"
    BY <1>1, <2>1 DEF TunnelInv, ReplyInv, GoesOn
  <2>2. CASE e = "server"
    BY <1>1, <2>2 DEF TunnelInv, ReplyInv, GoesOn
  <2> QED
    BY <2>1, <2>2 DEF Ends
<1> QED
  BY <1>5, <1>6, <1>7, <1>8, <1>9, <1>10, <1>11 DEF TunnelInv

\* The RPC cannot be opened.
LEMMA ConnectFails ==
    ASSUME TunnelInv, Connect, UNCHANGED end, Undisturbed' => Undisturbed
    PROVE  TunnelInv'
<1>0. TypeOK
  BY DEF TunnelInv
<1>1. /\ UNCHANGED <<kind, program, stalled, sent, got, queue, rpc, handler, end, writeFailed>>
      /\ stream' = [stream EXCEPT !["client"] = "closed"] /\ end["client"].t2s = "off"
  <2>1. rpc = "none" /\ end["client"] = NotWorking /\ NotWorking # Working /\ NotWorking # ProxyWorking
    BY FirstStates DEF Connect, TunnelInv, StartInv
  <2>2. end \in [Ends -> EndStates]
    BY <1>0 DEF TypeOK
  <2>3. end' # [end EXCEPT !["client"] = IF kind = "cli" THEN Working ELSE ProxyWorking]
    BY <2>1, <2>2, TwoEnds
  <2> QED
    BY <2>1, <2>3, FirstStates DEF Connect, progVars
<1>5. TypeOK'
  BY <1>0, <1>1 DEF TypeOK
<1>6. StartInv'
  BY <1>1 DEF TunnelInv, StartInv
<1>7. ASSUME NEW x \in Ends PROVE BufferInv(x)'
  BY <1>1 DEF TunnelInv, BufferInv
<1>8. ASSUME NEW x \in Ends PROVE ArrivedInv(x)'
  <2>1. end[Peer(x)].taken \in Nat
    BY <1>0, TwoEnds, Typed
  <2>2. stream'[x] = "closed" => end'[x].t2s \in {"off", "ended"}
    BY <1>0, <1>1 DEF TunnelInv, ArrivedInv, TypeOK
  <2> QED
    BY <1>1, <2>1, <2>2, ArrivedKept
<1>9. ASSUME NEW x \in Ends PROVE TransitInv(x)'
  BY <1>1, TransitKept
<1>10. ASSUME NEW x \in Ends PROVE EofInv(x)'
  BY <1>1 DEF TunnelInv, EofInv
<1>11. ReplyInv'
  BY <1>1 DEF TunnelInv, ReplyInv, GoesOn
<1> QED
  BY <1>5, <1>6, <1>7, <1>8, <1>9, <1>10, <1>11 DEF TunnelInv

\* The client opens the RPC.
LEMMA ConnectOpens ==
    ASSUME TunnelInv, NEW e \in Ends, e = "client", rpc = "none", stream[e] = "open",
           At(e, IF kind = "cli" THEN Working ELSE ProxyWorking),
           rpc' = "open", handler' = "header",
           UNCHANGED <<kind, program, stalled, sent, got, stream, queue, writeFailed>>,
           Undisturbed' => Undisturbed
    PROVE  TunnelInv'
<1> DEFINE new == IF kind = "cli" THEN Working ELSE ProxyWorking
<1>0. TypeOK /\ end[e] \in EndStates
  BY DEF TunnelInv, TypeOK
<1>n. /\ end[e].s2t = "off" /\ end[e].reader = "off" /\ end[e].t2s = "off"
      /\ end[e].taken = 0 /\ end[e].buf = <<>> /\ ~end[e].eof /\ end[e].hold = <<>>
      /\ handler = "none" /\ end["server"] = NotWorking
  BY FirstStates DEF TunnelInv, StartInv
<1>1. /\ new \in EndStates /\ new.t2s = "recv"
      /\ kind = "cli" => new.s2t = "give" /\ new.reader = "idle"
      /\ kind # "cli" => new.s2t = "write" /\ new.reader = "ended"
      /\ new.s2t \in {"give", "write"} /\ (new.s2t = "give" => new.reader = "idle")
      /\ new.taken = 0 /\ new.buf = <<>> /\ ~new.eof /\ new.hold = <<>>
  BY FirstStates
<1>2. At(e, new)
  OBVIOUS
<1> HIDE DEF new
<1>3. /\ end' \in [Ends -> EndStates] /\ end'[e] = new
      /\ \A x \in Ends : x # e => end'[x] = end[x]
  BY <1>0, <1>1, <1>2, EndChange
<1>4. /\ UNCHANGED <<kind, program, stalled, sent, got, stream, queue, writeFailed>>
      /\ e = "client" /\ stream[e] = "open" /\ rpc = "none" /\ rpc' = "open"
      /\ handler' = "header"
  BY DEF TunnelInv, Goroutine, progVars
<1>5. TypeOK'
  BY <1>0, <1>3, <1>4 DEF TypeOK
<1>6. StartInv'
  BY <1>0, <1>n, <1>1, <1>3, <1>4, FirstStates DEF TunnelInv, StartInv, Ends, TypeOK
<1>7. ASSUME NEW x \in Ends PROVE BufferInv(x)'
  BY <1>0, <1>n, <1>1, <1>3, <1>4, Typed DEF TunnelInv, BufferInv
<1>8. ASSUME NEW x \in Ends PROVE ArrivedInv(x)'
  <2>1. /\ end'[x].hold = end[x].hold
        /\ end'[x].t2s = end[x].t2s \/ (end'[x].t2s = "recv" /\ end[x].hold = <<>>)
        /\ end'[Peer(x)].taken = end[Peer(x)].taken /\ end[Peer(x)].taken \in Nat
    BY <1>0, <1>n, <1>1, <1>3, TwoEnds, Typed
  <2>2. stream'[x] = "closed" => end'[x].t2s \in {"off", "ended"}
    <3>1. stream[e] = "open"
      BY <1>4 DEF TunnelInv, StartInv
    <3>2. x # e => end'[x] = end[x]
      BY <1>3
    <3> QED
      BY <1>4, <3>1, <3>2 DEF TunnelInv, ArrivedInv
  <2> QED
    BY <1>4, <2>1, <2>2, ArrivedKept
<1>9. ASSUME NEW x \in Ends PROVE TransitInv(x)'
  <2>1. /\ end'[x].taken = end[x].taken /\ end'[x].buf = end[x].buf
        /\ end'[Peer(x)].hold = end[Peer(x)].hold
        /\ end[Peer(x)].t2s # "ended" \/ end'[Peer(x)] = end[Peer(x)]
        /\ end[x].s2t \notin {"eof", "ended"} \/ end'[x] = end[x]
    <3>1. CASE x = e
      <4>1. end'[Peer(x)] = end[Peer(x)]
        BY <1>3, <3>1, TwoEnds
      <4> QED
        BY <1>n, <1>1, <1>3, <3>1, <4>1
    <3>2. CASE x # e
      <4>1. end'[x] = end[x] /\ Peer(x) = e
        BY <1>3, <3>2, TwoEnds
      <4> QED
        BY <1>n, <1>1, <1>3, <4>1
    <3> QED
      BY <3>1, <3>2
  <2> QED
    BY <1>4, <2>1, TransitKept
<1>10. ASSUME NEW x \in Ends PROVE EofInv(x)'
  BY <1>n, <1>1, <1>3, <1>4 DEF TunnelInv, EofInv
<1>11. ReplyInv'
  <2>1. end'["server"] = end["server"]
    BY <1>3, <1>4, TwoEnds
  <2> QED
    BY <1>n, <1>1, <1>3, <1>4, <2>1, FirstStates DEF TunnelInv, ReplyInv, GoesOn
<1> QED
  BY <1>5, <1>6, <1>7, <1>8, <1>9, <1>10, <1>11 DEF TunnelInv

\* The destination is dialled and the handler serves.
LEMMA AcceptServes ==
    ASSUME TunnelInv, NEW e \in Ends, e = "server", handler = "header", At(e, Working),
           handler' = "serving",
           UNCHANGED <<kind, program, stalled, sent, got, stream, rpc, queue, writeFailed>>,
           Undisturbed' => Undisturbed
    PROVE  TunnelInv'
<1> DEFINE new == Working
<1>0. TypeOK /\ end[e] \in EndStates
  BY DEF TunnelInv, TypeOK
<1>n. /\ end[e].s2t = "off" /\ end[e].reader = "off" /\ end[e].t2s = "off"
      /\ end[e].taken = 0 /\ end[e].buf = <<>> /\ ~end[e].eof /\ end[e].hold = <<>>
  BY FirstStates DEF TunnelInv, StartInv
<1>1. /\ new \in EndStates /\ new.t2s = "recv" /\ new.s2t = "give" /\ new.reader = "idle"
      /\ new.taken = 0 /\ new.buf = <<>> /\ ~new.eof /\ new.hold = <<>>
  BY FirstStates
<1>2. At(e, new)
  OBVIOUS
<1> HIDE DEF new
<1>3. /\ end' \in [Ends -> EndStates] /\ end'[e] = new
      /\ \A x \in Ends : x # e => end'[x] = end[x]
  BY <1>0, <1>1, <1>2, EndChange
<1>4. /\ UNCHANGED <<kind, program, stalled, sent, got, stream, rpc, queue, writeFailed>>
      /\ e = "server" /\ handler = "header" /\ handler' = "serving"
  BY DEF TunnelInv, Goroutine, progVars
<1>5. TypeOK'
  BY <1>0, <1>3, <1>4 DEF TypeOK
<1>6. StartInv'
  BY <1>1, <1>3, <1>4, FirstStates DEF TunnelInv, StartInv, Ends
<1>7. ASSUME NEW x \in Ends PROVE BufferInv(x)'
  BY <1>0, <1>n, <1>1, <1>3, <1>4, Typed DEF TunnelInv, BufferInv
<1>8. ASSUME NEW x \in Ends PROVE ArrivedInv(x)'
  <2>1. /\ end'[x].hold = end[x].hold
        /\ end'[x].t2s = end[x].t2s \/ (end'[x].t2s = "recv" /\ end[x].hold = <<>>)
        /\ end'[Peer(x)].taken = end[Peer(x)].taken /\ end[Peer(x)].taken \in Nat
    BY <1>0, <1>n, <1>1, <1>3, TwoEnds, Typed
  <2>2. stream'[x] = "closed" => end'[x].t2s \in {"off", "ended"}
    <3>1. stream[e] = "open"
      BY <1>4 DEF TunnelInv, StartInv
    <3>2. x # e => end'[x] = end[x]
      BY <1>3
    <3> QED
      BY <1>4, <3>1, <3>2 DEF TunnelInv, ArrivedInv
  <2> QED
    BY <1>4, <2>1, <2>2, ArrivedKept
<1>9. ASSUME NEW x \in Ends PROVE TransitInv(x)'
  <2>1. /\ end'[x].taken = end[x].taken /\ end'[x].buf = end[x].buf
        /\ end'[Peer(x)].hold = end[Peer(x)].hold
        /\ end[Peer(x)].t2s # "ended" \/ end'[Peer(x)] = end[Peer(x)]
        /\ end[x].s2t \notin {"eof", "ended"} \/ end'[x] = end[x]
    <3>1. CASE x = e
      <4>1. end'[Peer(x)] = end[Peer(x)]
        BY <1>3, <3>1, TwoEnds
      <4> QED
        BY <1>n, <1>1, <1>3, <3>1, <4>1
    <3>2. CASE x # e
      <4>1. end'[x] = end[x] /\ Peer(x) = e
        BY <1>3, <3>2, TwoEnds
      <4> QED
        BY <1>n, <1>1, <1>3, <4>1
    <3> QED
      BY <3>1, <3>2
  <2> QED
    BY <1>4, <2>1, TransitKept
<1>10. ASSUME NEW x \in Ends PROVE EofInv(x)'
  BY <1>n, <1>1, <1>3, <1>4 DEF TunnelInv, EofInv
<1>11. ReplyInv'
  <2>1. end'["client"] = end["client"]
    BY <1>3, <1>4, TwoEnds
  <2> QED
    BY <1>n, <1>1, <1>3, <1>4, <2>1 DEF TunnelInv, ReplyInv, GoesOn
<1> QED
  BY <1>5, <1>6, <1>7, <1>8, <1>9, <1>10, <1>11 DEF TunnelInv

\* The handler refuses the tunnel.
LEMMA AcceptRefuses ==
    ASSUME TunnelInv, handler = "header", handler' = "returned",
           stream' = [stream EXCEPT !["server"] = "closed"],
           rpc' = IF rpc = "open" THEN "returned" ELSE rpc,
           UNCHANGED <<kind, program, stalled, sent, got, queue, end, writeFailed>>,
           Undisturbed' => Undisturbed
    PROVE  TunnelInv'
<1>0. TypeOK
  BY DEF TunnelInv
<1>1. /\ UNCHANGED <<kind, program, stalled, sent, got, queue, end, writeFailed>>
      /\ end["server"].s2t = "off" /\ end["server"].t2s = "off" /\ handler' = "returned"
      /\ handler = "header" /\ rpc' = (IF rpc = "open" THEN "returned" ELSE rpc)
      /\ stream' = [stream EXCEPT !["server"] = "closed"]
  BY FirstStates DEF TunnelInv, StartInv
<1>5. TypeOK'
  BY <1>0, <1>1 DEF TypeOK
<1>6. StartInv'
  BY <1>1 DEF TunnelInv, StartInv
<1>7. ASSUME NEW x \in Ends PROVE BufferInv(x)'
  BY <1>1 DEF TunnelInv, BufferInv
<1>8. ASSUME NEW x \in Ends PROVE ArrivedInv(x)'
  <2>1. end[Peer(x)].taken \in Nat
    BY <1>0, TwoEnds, Typed
  <2>2. stream'[x] = "closed" => end'[x].t2s \in {"off", "ended"}
    BY <1>0, <1>1 DEF TunnelInv, ArrivedInv, TypeOK
  <2> QED
    BY <1>1, <2>1, <2>2, ArrivedKept
<1>9. ASSUME NEW x \in Ends PROVE TransitInv(x)'
  BY <1>1, TransitKept
<1>10. ASSUME NEW x \in Ends PROVE EofInv(x)'
  BY <1>1 DEF TunnelInv, EofInv
<1>11. ReplyInv'
  BY <1>1 DEF ReplyInv, Undisturbed, Refused
<1> QED
  BY <1>5, <1>6, <1>7, <1>8, <1>9, <1>10, <1>11 DEF TunnelInv

\* The client opens the RPC, or fails to.
LEMMA ConnectStep ==
    ASSUME TunnelInv, Connect, Undisturbed' => Undisturbed
    PROVE  TunnelInv'
<1>1. UNCHANGED <<kind, program, stalled, sent, got, queue, writeFailed>>
      /\ rpc = "none" /\ stream["client"] = "open"
  BY DEF Connect, progVars
<1>2. CASE UNCHANGED end
  BY <1>2, ConnectFails
<1>3. CASE ~UNCHANGED end
  <2>1. /\ rpc' = "open" /\ handler' = "header" /\ UNCHANGED stream
        /\ At("client", IF kind = "cli" THEN Working ELSE ProxyWorking)
    BY <1>3 DEF Connect, At
  <2> QED
    BY <1>1, <2>1, ConnectOpens, TwoEnds
<1> QED
  BY <1>2, <1>3

\* The handler serves the tunnel or refuses it.
LEMMA AcceptTunnelStep ==
    ASSUME TunnelInv, AcceptTunnel, Undisturbed' => Undisturbed
    PROVE  TunnelInv'
<1>1. UNCHANGED <<kind, program, stalled, sent, got, queue, writeFailed>> /\ handler = "header"
  BY DEF AcceptTunnel, progVars
<1>2. CASE handler' = "serving"
  <2>1. At("server", Working) /\ UNCHANGED <<stream, rpc>>
    BY <1>2 DEF AcceptTunnel, At
  <2> QED
    BY <1>1, <1>2, <2>1, AcceptServes, TwoEnds
<1>3. CASE handler' = "returned"
  <2>1. /\ stream' = [stream EXCEPT !["server"] = "closed"] /\ UNCHANGED end
        /\ rpc' = IF rpc = "open" THEN "returned" ELSE rpc
    BY <1>3 DEF AcceptTunnel
  <2> QED
    BY <1>1, <1>3, <2>1, AcceptRefuses
<1> QED
  BY <1>2, <1>3 DEF AcceptTunnel

\* The link proxy sends all that its transport wrote.
LEMMA ProxySends ==
    ASSUME TunnelInv, NEW e \in Ends, e = "client", NEW n \in Nat, n = Len(sent[e]) - end[e].taken, n > 0,
           end[e].s2t = "write", rpc = "open", Len(queue[e]) < MaxQueue,
           queue' = [queue EXCEPT ![e] = Append(@, SubSeq(sent[e], end[e].taken + 1, end[e].taken + n))],
           At(e, [end[e] EXCEPT !.taken = @ + n]),
           UNCHANGED <<kind, program, stalled, sent, handler, got, stream, rpc, writeFailed>>,
           Undisturbed' => Undisturbed
    PROVE  TunnelInv'
<1> DEFINE new == [end[e] EXCEPT !.taken = @ + n]
<1>0. TypeOK /\ end[e] \in EndStates
  BY DEF TunnelInv, TypeOK
<1> DEFINE m == SubSeq(sent[e], end[e].taken + 1, end[e].taken + n)
<1>a. /\ n \in Nat /\ n >= 1 /\ end[e].taken \in Nat /\ end[e].taken + n \in Nat
      /\ end[e].taken + n = Len(sent[e]) /\ Len(sent[e]) \in Nat /\ end[e].taken + n <= Len(sent[e])
      /\ end[e].taken <= end[e].taken + n
  BY <1>0, Typed
<1>c. m = Units(end[e].taken, end[e].taken + n) /\ m \in Seq(Nat) /\ m # <<>>
  <2>1. sent[e] = Units(0, Len(sent[e]))
    BY DEF TunnelInv, ArrivedInv
  <2>2. /\ SubSeq(Units(0, Len(sent[e])), end[e].taken + 1, end[e].taken + n)
             = Units(end[e].taken, end[e].taken + n)
        /\ Units(end[e].taken, end[e].taken + n) \in Seq(Nat)
        /\ Units(end[e].taken, end[e].taken + n) # <<>>
    BY ONLY <1>a, UnitsRead, Zenon
  <2> QED
    BY <2>1, <2>2
<1>m. queue' = [queue EXCEPT ![e] = Append(@, m)]
  OBVIOUS
<1> HIDE DEF m
<1>b. /\ queue' \in [Ends -> Seq(Seq(Nat))]
      /\ \A x \in Ends : Len(queue'[x]) <= MaxQueue
      /\ queue'[e] = Append(queue[e], m)
      /\ \A x \in Ends : x # e => queue'[x] = queue[x]
      /\ Len(queue'[e]) = Len(queue[e]) + 1
      /\ \A i \in 1..Len(queue[e]) : queue'[e][i] = queue[e][i]
      /\ queue'[e][Len(queue[e]) + 1] = m
  BY <1>0, <1>c, <1>m, QueueAppend
<1>1. new \in EndStates /\ new.s2t = end[e].s2t /\ new.reader = end[e].reader /\ new.t2s = end[e].t2s
      /\ new.taken = end[e].taken + n /\ new.buf = end[e].buf /\ new.eof = end[e].eof
      /\ new.hold = end[e].hold
  BY <1>0, <1>a DEF EndStates
<1>2. At(e, new)
  OBVIOUS
<1> HIDE DEF new
<1>3. /\ end' \in [Ends -> EndStates] /\ end'[e] = new
      /\ \A x \in Ends : x # e => end'[x] = end[x]
  BY <1>0, <1>1, <1>2, EndChange
<1>4. /\ UNCHANGED <<kind, program, stalled, sent, handler, got, stream, rpc, writeFailed>>
      /\ e = "client" /\ end[e].s2t = "write" /\ end[e].buf = <<>>
  BY DEF TunnelInv, BufferInv, Goroutine, progVars
<1>5. TypeOK'
  BY <1>0, <1>b, <1>3, <1>4 DEF TypeOK
<1>6. StartInv'
  BY <1>1, <1>3, <1>4, FirstStates DEF TunnelInv, StartInv, Ends
<1>7. ASSUME NEW x \in Ends PROVE BufferInv(x)'
  <2>1. CASE x # e
    BY <1>3, <1>4, <2>1 DEF TunnelInv, BufferInv
  <2>2. CASE x = e
    <3>1. BufferInv(e)
      BY DEF TunnelInv
    <3>2. end'[e].taken = Len(sent'[e]) /\ Len(sent'[e]) \in Nat
      BY <1>a, <1>1, <1>3, <1>4
    <3>3. end'[e].s2t = "write" /\ end'[e].buf = <<>> /\ end'[e].eof = end[e].eof
      BY <1>1, <1>3, <1>4
    <3> QED
      BY <1>4, <2>2, <3>1, <3>2, <3>3 DEF BufferInv
  <2> QED
    BY <2>1, <2>2
<1>8. ASSUME NEW x \in Ends PROVE ArrivedInv(x)'
  <2>1. end'[x].hold = end[x].hold /\ end'[x].t2s = end[x].t2s
        /\ end'[Peer(x)].taken \in Nat /\ end[Peer(x)].taken <= end'[Peer(x)].taken
    <3>1. end'[x].hold = end[x].hold /\ end'[x].t2s = end[x].t2s
      BY <1>1, <1>3
    <3>2. CASE x = e
      <4>1. end'[Peer(x)] = end[Peer(x)] /\ end[Peer(x)].taken \in Nat
        BY <1>0, <1>3, <3>2, TwoEnds, Typed
      <4> QED
        BY <3>1, <4>1
    <3>3. CASE x # e
      <4>1. Peer(x) = e
        BY <3>3, TwoEnds
      <4> QED
        BY <1>a, <1>1, <1>3, <3>1, <4>1
    <3> QED
      BY <3>2, <3>3
  <2>2. stream[x] = "closed" => end[x].t2s \in {"off", "ended"}
    BY DEF TunnelInv, ArrivedInv
  <2> QED
    BY <1>4, <2>1, <2>2, ArrivedKept
<1>9. ASSUME NEW x \in Ends PROVE TransitInv(x)'
  <2>1. CASE x # e
    <3>1. Peer(x) = e /\ queue'[x] = queue[x] /\ end'[x] = end[x] /\ got' = got
          /\ end'[e].hold = end[e].hold /\ end'[e].t2s = end[e].t2s
      BY <1>b, <1>1, <1>3, <1>4, <2>1, TwoEnds
    <3> QED
      BY <3>1, TransitKept
  <2>2. CASE x = e
    <3> SUFFICES ASSUME end'[Peer(e)].t2s # "ended" PROVE TransitInv(e)'
      BY <2>2 DEF TransitInv
    <3>1. end'[Peer(e)] = end[Peer(e)] /\ Arrived(Peer(e))' = Arrived(Peer(e))
      BY <1>3, <1>4, TwoEnds DEF Arrived
    <3>2. PICK b \in 0..end[e].taken :
            /\ Run(queue[e], Arrived(Peer(e)), b)
            /\ GoesOn(e) \/ (e = "server" /\ Undisturbed) => end[e].buf = Units(b, end[e].taken)
      BY <3>1 DEF TunnelInv, TransitInv
    <3>t. end[e].taken \in Nat /\ b \in Nat /\ b <= end[e].taken
      BY <1>0, Typed
    <3>3. b = end[e].taken
      <4>1. <<>> = Units(b, end[e].taken)
        BY <1>4, <3>2 DEF GoesOn
      <4> QED
        BY <3>t, <4>1, UnitsSeq
    <3>4. end'[e].buf = Units(end[e].taken + n, end'[e].taken) /\ end'[e].taken \in Nat
          /\ end[e].taken + n <= end'[e].taken
      BY <1>a, <1>1, <1>3, <1>4, NoUnits
    <3> QED
      <4>1. Run(queue[e], Arrived(Peer(e)), end[e].taken)
        BY <3>2, <3>3
      <4>2. queue'[e] = Append(queue[e], Units(end[e].taken, end[e].taken + n))
        BY <1>b, <1>c
      <4> QED
        BY <1>0, <1>a, <3>1, <3>4, <4>1, <4>2, TransitAppend, Zenon
  <2> QED
    BY <2>1, <2>2
<1>10. ASSUME NEW x \in Ends PROVE EofInv(x)'
  <2>1. CASE x # e
    BY <1>b, <1>1, <1>3, <1>4, <2>1 DEF TunnelInv, EofInv
  <2>2. CASE x = e
    <3>1. \A i \in 1..Len(queue[e]) : queue[e][i] # Eof
      BY <1>4 DEF TunnelInv, EofInv
    <3>2. Len(queue[e]) \in Nat
      BY <1>0, Typed
    <3>3. ASSUME NEW i \in 1..Len(queue'[e]) PROVE queue'[e][i] # Eof
      <4>1. i \in 1..Len(queue[e]) \/ i = Len(queue[e]) + 1
        BY <1>b, <3>2
      <4> QED
        BY <1>b, <1>c, <3>1, <4>1 DEF Eof
    <3> QED
      BY <2>2, <3>3 DEF EofInv
  <2> QED
    BY <2>1, <2>2
<1>11. ReplyInv'
  <2>1. CASE e = "client"
    BY <1>1, <1>3, <1>4, <2>1, TwoEnds DEF TunnelInv, ReplyInv, GoesOn
  <2>2. CASE e = "server"
    BY <1>1, <1>3, <1>4, <2>2, TwoEnds DEF TunnelInv, ReplyInv, GoesOn
  <2> QED
    BY <2>1, <2>2 DEF Ends
<1> QED
  BY <1>5, <1>6, <1>7, <1>8, <1>9, <1>10, <1>11 DEF TunnelInv

\* tunnelConn is closed: Eof is sent.
LEMMA CloseSends ==
    ASSUME TunnelInv, NEW e \in Ends, e = "client", end[e].s2t = "write",
           rpc # "open" \/ program[e] = "closed" \/ end[e].t2s = "ended",
           At(e, [end[e] EXCEPT !.s2t = "ended", !.t2s = "ended", !.hold = <<>>]),
           stream' = [stream EXCEPT ![e] = "closed"],
           Len(queue[e]) < MaxQueue, queue' = [queue EXCEPT ![e] = Append(@, Eof)],
           UNCHANGED <<kind, program, stalled, sent, handler, got, rpc, writeFailed>>,
           Undisturbed' => Undisturbed
    PROVE  TunnelInv'
<1> DEFINE new == [end[e] EXCEPT !.s2t = "ended", !.t2s = "ended", !.hold = <<>>]
<1>0. TypeOK /\ end[e] \in EndStates
  BY DEF TunnelInv, TypeOK
<1>a. Eof \in Seq(Nat) /\ Eof = <<>> /\ Len(queue[e]) \in Nat /\ end[e].taken \in Nat
  BY <1>0, Typed, EmptySeq DEF Eof
<1>b. /\ queue' \in [Ends -> Seq(Seq(Nat))]
      /\ \A x \in Ends : Len(queue'[x]) <= MaxQueue
      /\ queue'[e] = Append(queue[e], Eof)
      /\ \A x \in Ends : x # e => queue'[x] = queue[x]
      /\ Len(queue'[e]) = Len(queue[e]) + 1
      /\ \A i \in 1..Len(queue[e]) : queue'[e][i] = queue[e][i]
      /\ queue'[e][Len(queue[e]) + 1] = Eof
  BY <1>0, <1>a, QueueAppend
<1>g. /\ ArrivedInv(e) /\ Len(got[e]) \in Nat /\ Arrived(e) \in Nat
      /\ Len(got[e]) <= Arrived(e) /\ end[e].hold = Units(Len(got[e]), Arrived(e))
      /\ Arrived(e) - Len(got[e]) = Len(end[e].hold) /\ Len(end[e].hold) \in Nat
  <2>1. /\ ArrivedInv(e) /\ Len(got[e]) \in Nat /\ Arrived(e) \in Nat
        /\ Len(end[e].hold) \in Nat /\ end[e].hold = Units(Len(got[e]), Arrived(e))
    BY <1>0, Typed DEF TunnelInv, ArrivedInv
  <2>2. \A m, n \in Nat : m <= m + n /\ (m + n) - m = n
    OBVIOUS
  <2>3. Len(got[e]) <= Arrived(e) /\ Arrived(e) - Len(got[e]) = Len(end[e].hold)
    BY <2>1, <2>2, Zenon DEF Arrived
  <2> QED
    BY <2>1, <2>3
<1>h. <<>> \in Seq(Nat) /\ Len(<<>>) = 0 /\ Units(Len(got[e]), Len(got[e])) = <<>>
  BY <1>g, EmptySeq, NoUnits
<1>1. new \in EndStates /\ new.s2t = "ended" /\ new.reader = end[e].reader /\ new.t2s = "ended"
      /\ new.taken = end[e].taken /\ new.buf = end[e].buf /\ new.eof = end[e].eof
      /\ new.hold = <<>>
  BY <1>0, <1>h DEF EndStates
<1>2. At(e, new)
  OBVIOUS
<1> HIDE DEF new
<1>3. /\ end' \in [Ends -> EndStates] /\ end'[e] = new
      /\ \A x \in Ends : x # e => end'[x] = end[x]
  BY <1>0, <1>1, <1>2, EndChange
<1>4. /\ UNCHANGED <<kind, program, stalled, sent, handler, got, rpc, writeFailed>>
      /\ e = "client" /\ end[e].s2t = "write"
      /\ (rpc # "open" \/ program[e] = "closed" \/ end[e].t2s = "ended")
      /\ stream' = [stream EXCEPT ![e] = "closed"]
  BY DEF At, Goroutine, progVars
<1>5. TypeOK'
  <2>1. stream' \in [Ends -> {"open", "closed"}]
    BY <1>0, <1>4 DEF TypeOK
  <2> QED
    BY <1>0, <1>b, <1>3, <1>4, <2>1 DEF TypeOK
<1>6. StartInv'
  BY <1>1, <1>3, <1>4, FirstStates DEF TunnelInv, StartInv, Ends
<1>7. ASSUME NEW x \in Ends PROVE BufferInv(x)'
  BY <1>1, <1>3, <1>4 DEF TunnelInv, BufferInv
<1>8. ASSUME NEW x \in Ends PROVE ArrivedInv(x)'
  <2>0. end[Peer(x)].taken \in Nat /\ end'[Peer(x)].taken = end[Peer(x)].taken
    BY <1>0, <1>1, <1>3, TwoEnds, Typed
  <2>1. CASE x # e
    <3>1. end'[x] = end[x] /\ stream'[x] = stream[x]
      BY <1>0, <1>3, <1>4, <2>1 DEF TypeOK
    <3>2. stream[x] = "closed" => end[x].t2s \in {"off", "ended"}
      BY DEF TunnelInv, ArrivedInv
    <3> QED
      BY <1>4, <2>0, <3>1, <3>2, ArrivedKept
  <2>2. CASE x = e
    <3>1. sent'[e] = Units(0, Len(sent[e]))' /\ got'[e] = Units(0, Len(got[e]))'
      BY <1>4 DEF TunnelInv, ArrivedInv
    <3>2. end'[e].hold = <<>> /\ end'[e].t2s = "ended"
      BY <1>1, <1>3
    <3>3. Arrived(e)' = Len(got[e])
      BY <1>g, <1>h, <1>4, <3>2 DEF Arrived
    <3>4. Arrived(e) <= end[Peer(e)].taken
      BY <1>g DEF ArrivedInv
    <3>5. Arrived(e)' <= end'[Peer(e)].taken
      BY <1>g, <2>0, <2>2, <3>3, <3>4
    <3>6. end'[e].hold = Units(Len(got[e]), Arrived(e))'
      BY <1>h, <1>4, <3>2, <3>3
    <3> QED
      BY <2>2, <3>1, <3>2, <3>5, <3>6 DEF ArrivedInv
  <2> QED
    BY <2>1, <2>2
<1>9. ASSUME NEW x \in Ends PROVE TransitInv(x)'
  <2>1. CASE x # e
    BY <1>1, <1>3, <2>1, TwoEnds DEF TransitInv
  <2>2. CASE x = e
    <3> SUFFICES ASSUME end'[Peer(e)].t2s # "ended" PROVE TransitInv(e)'
      BY <2>2 DEF TransitInv
    <3>1. end'[Peer(e)] = end[Peer(e)] /\ Arrived(Peer(e))' = Arrived(Peer(e))
      BY <1>3, <1>4, TwoEnds DEF Arrived
    <3>2. PICK b \in 0..end[e].taken :
            /\ Run(queue[e], Arrived(Peer(e)), b)
            /\ GoesOn(e) \/ (e = "server" /\ Undisturbed) => end[e].buf = Units(b, end[e].taken)
      BY <3>1 DEF TunnelInv, TransitInv
    <3>t. end[e].taken \in Nat /\ b \in Nat /\ b <= end[e].taken
      BY <1>0, Typed
    <3>3. Eof = Units(b, b)
      BY <1>a, <3>t, UnitsSeq
    <3>4. /\ end'[e].taken \in Nat /\ b <= end'[e].taken /\ b <= b
          /\ GoesOn(e)' \/ (e = "server" /\ Undisturbed') => end'[e].buf = Units(b, end'[e].taken)
      BY <1>a, <1>1, <1>3, <3>t, <3>2 DEF GoesOn
    <3> QED
      BY <1>0, <1>b, <3>t, <3>1, <3>2, <3>3, <3>4, TransitAppend, Zenon
  <2> QED
    BY <2>1, <2>2
<1>10. ASSUME NEW x \in Ends PROVE EofInv(x)'
  <2>1. CASE x # e
    BY <1>b, <1>1, <1>3, <1>4, <2>1 DEF TunnelInv, EofInv
  <2>2. CASE x = e
    <3>1. \A i \in 1..Len(queue[e]) : queue[e][i] # Eof
      BY <1>4 DEF TunnelInv, EofInv
    <3>2. ASSUME NEW i \in 1..Len(queue'[e]), queue'[e][i] = Eof PROVE i = Len(queue'[e])
      <4>1. i \in 1..Len(queue[e]) \/ i = Len(queue[e]) + 1
        BY <1>a, <1>b
      <4> QED
        BY <1>b, <3>1, <3>2, <4>1
    <3>3. end'[e].s2t = "ended"
      BY <1>1, <1>3
    <3> QED
      BY <2>2, <3>2, <3>3 DEF EofInv
  <2> QED
    BY <2>1, <2>2
<1>11. ReplyInv'
  <2>1. end'["server"] = end["server"]
    BY <1>3, <1>4, TwoEnds
  <2> SUFFICES ASSUME Undisturbed' PROVE end["client"].t2s = "ended"
    BY <1>1, <1>3, <1>4, <2>1 DEF TunnelInv, ReplyInv, GoesOn
  <2>2. rpc # "none"
    BY <1>4, FirstStates DEF TunnelInv, StartInv
  <2> QED
    BY <1>4, <2>2 DEF TunnelInv, ReplyInv, Undisturbed
<1> QED
  BY <1>5, <1>6, <1>7, <1>8, <1>9, <1>10, <1>11 DEF TunnelInv

\* tunnelConn is closed when nothing can be sent.
LEMMA CloseSilently ==
    ASSUME TunnelInv, NEW e \in Ends, e = "client", end[e].s2t = "write",
           rpc # "open" \/ program[e] = "closed" \/ end[e].t2s = "ended",
           At(e, [end[e] EXCEPT !.s2t = "ended", !.t2s = "ended", !.hold = <<>>]),
           stream' = [stream EXCEPT ![e] = "closed"],
           UNCHANGED <<kind, program, stalled, sent, handler, got, rpc, queue, writeFailed>>,
           Undisturbed' => Undisturbed
    PROVE  TunnelInv'
<1> DEFINE new == [end[e] EXCEPT !.s2t = "ended", !.t2s = "ended", !.hold = <<>>]
<1>0. TypeOK /\ end[e] \in EndStates
  BY DEF TunnelInv, TypeOK
<1>g. /\ ArrivedInv(e) /\ Len(got[e]) \in Nat /\ Arrived(e) \in Nat
      /\ Len(got[e]) <= Arrived(e) /\ end[e].hold = Units(Len(got[e]), Arrived(e))
      /\ Arrived(e) - Len(got[e]) = Len(end[e].hold) /\ Len(end[e].hold) \in Nat
  <2>1. /\ ArrivedInv(e) /\ Len(got[e]) \in Nat /\ Arrived(e) \in Nat
        /\ Len(end[e].hold) \in Nat /\ end[e].hold = Units(Len(got[e]), Arrived(e))
    BY <1>0, Typed DEF TunnelInv, ArrivedInv
  <2>2. \A m, n \in Nat : m <= m + n /\ (m + n) - m = n
    OBVIOUS
  <2>3. Len(got[e]) <= Arrived(e) /\ Arrived(e) - Len(got[e]) = Len(end[e].hold)
    BY <2>1, <2>2, Zenon DEF Arrived
  <2> QED
    BY <2>1, <2>3
<1>h. <<>> \in Seq(Nat) /\ Len(<<>>) = 0 /\ Units(Len(got[e]), Len(got[e])) = <<>>
  BY <1>g, EmptySeq, NoUnits
<1>1. new \in EndStates /\ new.s2t = "ended" /\ new.reader = end[e].reader /\ new.t2s = "ended"
      /\ new.taken = end[e].taken /\ new.buf = end[e].buf /\ new.eof = end[e].eof
      /\ new.hold = <<>>
  BY <1>0, <1>h DEF EndStates
<1>2. At(e, new)
  OBVIOUS
<1> HIDE DEF new
<1>3. /\ end' \in [Ends -> EndStates] /\ end'[e] = new
      /\ \A x \in Ends : x # e => end'[x] = end[x]
  BY <1>0, <1>1, <1>2, EndChange
<1>4. /\ UNCHANGED <<kind, program, stalled, sent, handler, got, rpc, queue, writeFailed>>
      /\ e = "client" /\ end[e].s2t = "write"
      /\ (rpc # "open" \/ program[e] = "closed" \/ end[e].t2s = "ended")
      /\ stream' = [stream EXCEPT ![e] = "closed"]
  BY DEF At, Goroutine, progVars
<1>5. TypeOK'
  <2>1. stream' \in [Ends -> {"open", "closed"}]
    BY <1>0, <1>4 DEF TypeOK
  <2> QED
    BY <1>0, <1>3, <1>4, <2>1 DEF TypeOK
<1>6. StartInv'
  BY <1>1, <1>3, <1>4, FirstStates DEF TunnelInv, StartInv, Ends
<1>7. ASSUME NEW x \in Ends PROVE BufferInv(x)'
  BY <1>1, <1>3, <1>4 DEF TunnelInv, BufferInv
<1>8. ASSUME NEW x \in Ends PROVE ArrivedInv(x)'
  <2>0. end[Peer(x)].taken \in Nat /\ end'[Peer(x)].taken = end[Peer(x)].taken
    BY <1>0, <1>1, <1>3, TwoEnds, Typed
  <2>1. CASE x # e
    <3>1. end'[x] = end[x] /\ stream'[x] = stream[x]
      BY <1>0, <1>3, <1>4, <2>1 DEF TypeOK
    <3>2. stream[x] = "closed" => end[x].t2s \in {"off", "ended"}
      BY DEF TunnelInv, ArrivedInv
    <3> QED
      BY <1>4, <2>0, <3>1, <3>2, ArrivedKept
  <2>2. CASE x = e
    <3>1. sent'[e] = Units(0, Len(sent[e]))' /\ got'[e] = Units(0, Len(got[e]))'
      BY <1>4 DEF TunnelInv, ArrivedInv
    <3>2. end'[e].hold = <<>> /\ end'[e].t2s = "ended"
      BY <1>1, <1>3
    <3>3. Arrived(e)' = Len(got[e])
      BY <1>g, <1>h, <1>4, <3>2 DEF Arrived
    <3>4. Arrived(e) <= end[Peer(e)].taken
      BY <1>g DEF ArrivedInv
    <3>5. Arrived(e)' <= end'[Peer(e)].taken
      BY <1>g, <2>0, <2>2, <3>3, <3>4
    <3>6. end'[e].hold = Units(Len(got[e]), Arrived(e))'
      BY <1>h, <1>4, <3>2, <3>3
    <3> QED
      BY <2>2, <3>1, <3>2, <3>5, <3>6 DEF ArrivedInv
  <2> QED
    BY <2>1, <2>2
<1>9. ASSUME NEW x \in Ends PROVE TransitInv(x)'
  <2>1. CASE x # e
    BY <1>1, <1>3, <2>1, TwoEnds DEF TransitInv
  <2>2. CASE x = e
    <3>1. end'[Peer(e)] = end[Peer(e)]
      BY <1>3, TwoEnds
    <3> QED
      BY <1>1, <1>3, <1>4, <2>2, <3>1, TransitKept
  <2> QED
    BY <2>1, <2>2
<1>10. ASSUME NEW x \in Ends PROVE EofInv(x)'
  BY <1>1, <1>3, <1>4 DEF TunnelInv, EofInv
<1>11. ReplyInv'
  <2>1. end'["server"] = end["server"]
    BY <1>3, <1>4, TwoEnds
  <2> SUFFICES ASSUME Undisturbed' PROVE end["client"].t2s = "ended"
    BY <1>1, <1>3, <1>4, <2>1 DEF TunnelInv, ReplyInv, GoesOn
  <2>2. rpc # "none"
    BY <1>4, FirstStates DEF TunnelInv, StartInv
  <2> QED
    BY <1>4, <2>2 DEF TunnelInv, ReplyInv, Undisturbed
<1> QED
  BY <1>5, <1>6, <1>7, <1>8, <1>9, <1>10, <1>11 DEF TunnelInv

\* The transport of the link proxy reads n of the pending units.
LEMMA ProxyReads ==
    ASSUME TunnelInv, NEW e \in Ends, e = "client", kind = "proxy", end[e].hold # <<>>,
           NEW n \in 1..Len(end[e].hold),
           got' = [got EXCEPT ![e] = @ \o SubSeq(end[e].hold, 1, n)],
           At(e, [end[e] EXCEPT !.hold = SubSeq(end[e].hold, n + 1, Len(end[e].hold))]),
           UNCHANGED <<kind, program, stalled, sent, handler, stream, rpc, queue, writeFailed>>,
           Undisturbed' => Undisturbed
    PROVE  TunnelInv'
<1> DEFINE new == [end[e] EXCEPT !.hold = SubSeq(end[e].hold, n + 1, Len(end[e].hold))]
<1>0. TypeOK /\ end[e] \in EndStates
  BY DEF TunnelInv, TypeOK
<1>a. /\ ArrivedInv(e) /\ Len(got[e]) \in Nat /\ Arrived(e) \in Nat
      /\ Len(got[e]) <= Arrived(e) /\ end[e].hold = Units(Len(got[e]), Arrived(e))
      /\ Arrived(e) - Len(got[e]) = Len(end[e].hold) /\ Len(end[e].hold) \in Nat
  <2>1. /\ ArrivedInv(e) /\ Len(got[e]) \in Nat /\ Arrived(e) \in Nat
        /\ Len(end[e].hold) \in Nat /\ end[e].hold = Units(Len(got[e]), Arrived(e))
    BY <1>0, Typed DEF TunnelInv, ArrivedInv
  <2>2. \A i, j \in Nat : i <= i + j /\ (i + j) - i = j
    OBVIOUS
  <2>3. Len(got[e]) <= Arrived(e) /\ Arrived(e) - Len(got[e]) = Len(end[e].hold)
    BY <2>1, <2>2, Zenon DEF Arrived
  <2> QED
    BY <2>1, <2>3
<1> DEFINE k == Len(got[e]) + n
           rest == SubSeq(end[e].hold, n + 1, Len(end[e].hold))
<1>k. n \in Nat /\ n >= 1 /\ k \in Nat /\ Len(got[e]) <= k /\ k <= Arrived(e)
      /\ Len(got[e]) + 0 = Len(got[e]) /\ Len(got[e]) + Len(end[e].hold) = Arrived(e)
  <2> DEFINE g == Len(got[e])
             h == Len(end[e].hold)
  <2>1. g \in Nat /\ h \in Nat /\ n \in 1..h
    BY <1>a
  <2> HIDE DEF g, h
  <2>2. n \in Nat /\ n >= 1 /\ g + n \in Nat /\ g <= g + n /\ g + n <= g + h /\ g + 0 = g
    BY <2>1
  <2> QED
    BY <2>2 DEF g, h, Arrived
<1>u. SubSeq(end[e].hold, 1, n) = Units(Len(got[e]), k) /\ rest = Units(k, Arrived(e))
  <2> DEFINE g == Len(got[e])
             a == Arrived(e)
             h == Len(end[e].hold)
  <2>1. g \in Nat /\ a \in Nat /\ h \in Nat /\ g + h = a /\ n <= h /\ n \in Nat
    <3>1. g \in Nat /\ a \in Nat /\ h \in Nat /\ g + h = a /\ n \in Nat
      BY <1>a, <1>k
    <3>2. n <= h
      BY <3>1
    <3> QED
      BY <3>1, <3>2
  <2>2. end[e].hold = Units(g, a)
    BY <1>a
  <2> HIDE DEF g, a, h
  <2>3. SubSeq(Units(g, a), 1, n) = Units(g, g + n)
    BY <2>1, UnitsFirst
  <2>4. SubSeq(Units(g, a), n + 1, h) = Units(g + n, g + h)
    BY <2>1, UnitsSub
  <2>5. SubSeq(Units(g, a), 1, n) = Units(g, g + n) /\ SubSeq(Units(g, a), n + 1, h) = Units(g + n, a)
    BY <2>1, <2>3, <2>4
  <2>6. SubSeq(end[e].hold, 1, n) = Units(g, g + n) /\ SubSeq(end[e].hold, n + 1, h) = Units(g + n, a)
    BY <2>2, <2>5
  <2> QED
    BY <2>6 DEF g, a, h
<1>w. new = [end[e] EXCEPT !.hold = rest] /\ At(e, new)
  OBVIOUS
<1>x. got' = [got EXCEPT ![e] = @ \o Units(Len(got[e]), k)]
  BY <1>u
<1> HIDE DEF k, rest
<1>r. rest \in Seq(Nat) /\ Len(rest) = Arrived(e) - k
  <2>1. Units(k, Arrived(e)) \in Seq(Nat) /\ Len(Units(k, Arrived(e))) = Arrived(e) - k
    BY <1>a, <1>k, UnitsSeq, Zenon
  <2> QED
    BY <1>u, <2>1
<1>b. /\ got' \in [Ends -> Seq(Nat)]
      /\ got'[e] = Units(0, k) /\ Len(got'[e]) = k
      /\ \A x \in Ends : x # e => got'[x] = got[x]
  BY <1>0, <1>a, <1>k, <1>x, GotMore
<1>1. new \in EndStates /\ new.s2t = end[e].s2t /\ new.reader = end[e].reader /\ new.t2s = end[e].t2s
      /\ new.taken = end[e].taken /\ new.buf = end[e].buf /\ new.eof = end[e].eof
      /\ new.hold = Units(k, Arrived(e))
  <2> HIDE DEF new
  <2> QED
    BY <1>0, <1>r, <1>u, <1>w DEF EndStates
<1>2. At(e, new)
  BY <1>w
<1> HIDE DEF new
<1>3. /\ end' \in [Ends -> EndStates] /\ end'[e] = new
      /\ \A x \in Ends : x # e => end'[x] = end[x]
  BY <1>0, <1>1, <1>2, EndChange
<1>4. /\ UNCHANGED <<kind, program, stalled, sent, handler, stream, rpc, queue, writeFailed>>
      /\ e = "client" /\ kind = "proxy" /\ end[e].t2s = "recv"
  BY DEF TunnelInv, ArrivedInv, StartInv, TypeOK, EndStates, Goroutine, progVars
<1>c. Arrived(e)' = Arrived(e)
  <2>1. end'[e].hold = rest
    BY <1>u, <1>1, <1>3
  <2>2. \A i, j \in Nat : i + (j - i) = j
    OBVIOUS
  <2> QED
    <3>1. Len(got'[e]) + Len(end'[e].hold) = k + (Arrived(e) - k)
      BY <1>b, <1>r, <2>1, Zenon
    <3>2. Arrived(e)' = Len(got'[e]) + Len(end'[e].hold)
      BY DEF Arrived
    <3> QED
      BY <1>a, <1>k, <2>2, <3>1, <3>2, Zenon
<1>5. TypeOK'
  BY <1>0, <1>b, <1>3, <1>4 DEF TypeOK
<1>6. StartInv'
  BY <1>1, <1>3, <1>4, FirstStates DEF TunnelInv, StartInv, Ends
<1>7. ASSUME NEW x \in Ends PROVE BufferInv(x)'
  BY <1>1, <1>3, <1>4 DEF TunnelInv, BufferInv
<1>8. ASSUME NEW x \in Ends PROVE ArrivedInv(x)'
  <2>1. CASE x # e
    <3>1. end'[x] = end[x] /\ end'[Peer(x)].taken = end[Peer(x)].taken /\ end[Peer(x)].taken \in Nat
          /\ got'[x] = got[x]
      BY <1>0, <1>b, <1>1, <1>3, <2>1, TwoEnds, Typed
    <3>2. stream[x] = "closed" => end[x].t2s \in {"off", "ended"}
      BY DEF TunnelInv, ArrivedInv
    <3> QED
      BY <1>4, <3>1, <3>2, ArrivedKept
  <2>2. CASE x = e
    <3>1. sent'[e] = Units(0, Len(sent[e]))'
      BY <1>4 DEF TunnelInv, ArrivedInv
    <3>2. got'[e] = Units(0, Len(got[e]))' /\ Arrived(e)' <= end'[Peer(e)].taken
      <4>1. end'[Peer(e)] = end[Peer(e)]
        BY <1>3, TwoEnds
      <4>2. Arrived(e) <= end[Peer(e)].taken
        BY <1>a DEF ArrivedInv
      <4> QED
        BY <1>b, <1>c, <4>1, <4>2
    <3>3. stream'[e] # "closed"
      BY <1>4 DEF TunnelInv, ArrivedInv
    <3>4. end'[e].t2s = "recv" /\ end'[e].hold = Units(Len(got[e]), Arrived(e))'
          /\ (end'[e].hold # <<>> => e = "client" /\ kind' = "proxy")
      BY <1>b, <1>c, <1>1, <1>3, <1>4
    <3> QED
      BY <2>2, <3>1, <3>2, <3>3, <3>4 DEF ArrivedInv
  <2> QED
    BY <2>1, <2>2
<1>9. ASSUME NEW x \in Ends PROVE TransitInv(x)'
  <2>1. CASE x = e
    <3>1. end'[Peer(e)] = end[Peer(e)] /\ got'[Peer(e)] = got[Peer(e)]
      BY <1>b, <1>3, TwoEnds
    <3> QED
      BY <1>1, <1>3, <1>4, <2>1, <3>1, TransitKept
  <2>2. CASE x = Peer(e)
    <3>1. end'[x] = end[x] /\ Peer(x) = e
      BY <1>3, <2>2, TwoEnds
    <3>2. end[e].t2s # "ended"
      BY <1>4
    <3>3. PICK b \in 0..end[x].taken :
            /\ Run(queue[x], Arrived(e), b)
            /\ GoesOn(x) \/ (x = "server" /\ Undisturbed) => end[x].buf = Units(b, end[x].taken)
      BY <3>1, <3>2 DEF TunnelInv, TransitInv
    <3>4. Run(queue'[x], Arrived(Peer(x))', b) /\ b \in 0..end'[x].taken
      BY <1>c, <1>4, <3>1, <3>3
    <3>5. GoesOn(x)' \/ (x = "server" /\ Undisturbed') => end'[x].buf = Units(b, end'[x].taken)
      BY <3>1, <3>3 DEF GoesOn
    <3> QED
      BY <3>4, <3>5 DEF TransitInv
  <2> QED
    BY <2>1, <2>2, TwoEnds
<1>10. ASSUME NEW x \in Ends PROVE EofInv(x)'
  BY <1>1, <1>3, <1>4 DEF TunnelInv, EofInv
<1>11. ReplyInv'
  BY <1>1, <1>3, <1>4, TwoEnds DEF TunnelInv, ReplyInv, GoesOn
<1> QED
  BY <1>5, <1>6, <1>7, <1>8, <1>9, <1>10, <1>11 DEF TunnelInv

\* What the link proxy does.
LEMMA ProxyStep ==
    ASSUME TunnelInv, Proxy, Undisturbed' => Undisturbed
    PROVE  TunnelInv'
<1> DEFINE e == "client"
<1>0. e \in Ends /\ e = "client" /\ TypeOK
  BY TwoEnds DEF TunnelInv
<1>1. ASSUME CloseTunnelConn, end[e].s2t = "write",
             rpc # "open" \/ program[e] = "closed" \/ end[e].t2s = "ended",
             UNCHANGED <<kind, program, stalled, sent, handler, got, rpc, writeFailed>>
      PROVE  TunnelInv'
  <2>1. /\ At(e, [end[e] EXCEPT !.s2t = "ended", !.t2s = "ended", !.hold = <<>>])
        /\ stream' = [stream EXCEPT ![e] = "closed"]
    BY <1>1 DEF CloseTunnelConn
  <2>2. CASE rpc = "open"
    <3>1. Len(queue[e]) < MaxQueue /\ queue' = [queue EXCEPT ![e] = Append(@, Eof)]
      BY <1>1, <2>2 DEF CloseTunnelConn
    <3> QED
      BY <1>0, <1>1, <2>1, <3>1, CloseSends
  <2>3. CASE rpc # "open"
    <3>1. UNCHANGED queue
      BY <1>1, <2>3 DEF CloseTunnelConn
    <3> QED
      BY <1>0, <1>1, <2>1, <3>1, CloseSilently
  <2> QED
    BY <2>2, <2>3
<1>2. CASE ProxyWrite
  <2> DEFINE n == Len(sent[e]) - end[e].taken
  <2>1. /\ UNCHANGED <<kind, program, stalled, sent, handler, got, rpc, writeFailed>>
        /\ end[e].s2t = "write" /\ n > 0
    BY <1>2 DEF ProxyWrite, Goroutine, progVars
  <2>2. n \in Nat
    BY <1>0, <2>1, Typed
  <2>3. CASE /\ rpc = "open" /\ Len(queue[e]) < MaxQueue
             /\ queue' = [queue EXCEPT ![e] =
                            Append(@, SubSeq(sent[e], end[e].taken + 1, end[e].taken + n))]
             /\ At(e, [end[e] EXCEPT !.taken = @ + n])
             /\ UNCHANGED stream
    <3> HIDE DEF n
    <3>1. n = Len(sent[e]) - end[e].taken
      BY DEF n
    <3> QED
      BY <1>0, <2>1, <2>2, <2>3, <3>1, ProxySends
  <2>4. CASE rpc # "open" /\ CloseTunnelConn
    BY <1>1, <2>1, <2>4
  <2> QED
    BY <1>2, <2>3, <2>4 DEF ProxyWrite
<1>3. CASE ProxyRead
  <2>1. /\ UNCHANGED <<kind, program, stalled, sent, handler, stream, rpc, queue, writeFailed>>
        /\ end[e].hold # <<>> /\ kind = "proxy"
    BY <1>3 DEF ProxyRead, Goroutine, progVars
  <2>2. PICK n \in 1..Len(end[e].hold) :
          /\ got' = [got EXCEPT ![e] = @ \o SubSeq(end[e].hold, 1, n)]
          /\ At(e, [end[e] EXCEPT !.hold = SubSeq(end[e].hold, n + 1, Len(end[e].hold))])
    BY <1>3 DEF ProxyRead
  <2> QED
    BY <1>0, <2>1, <2>2, ProxyReads
<1>4. CASE ProxyClose
  BY <1>1, <1>4 DEF ProxyClose, Goroutine, progVars
<1> QED
  BY <1>2, <1>3, <1>4 DEF Proxy

\* Every step keeps the invariant.
LEMMA TunnelStep ==
    ASSUME TunnelInv, [Next]_vars
    PROVE  TunnelInv'
<1>0. Undisturbed' => Undisturbed
  BY DisturbedStays DEF TunnelInv
<1>1. ASSUME NEW e \in Ends, ProgramSends(e) PROVE TunnelInv'
  BY <1>0, <1>1, ProgramSendsStep
<1>2. ASSUME NEW e \in Ends, ProgramCloses(e) PROVE TunnelInv'
  BY <1>0, <1>2, ProgramClosesStep
<1>3. ASSUME NEW e \in Ends, EndOf(e) PROVE TunnelInv'
  BY <1>0, <1>3, GiveBufStep, ReadStreamStep, TakeResultStep, DoneSelectedStep, SendBufStep,
     SendEofStep, ReaderEndsStep, RecvMsgStep, WriteStreamStep, FinishStep DEF EndOf
<1>4. CASE NetworkBreaks
  BY <1>0, <1>4, NetworkBreaksStep
<1>5. CASE Connect
  BY <1>0, <1>5, ConnectStep
<1>6. CASE AcceptTunnel
  BY <1>0, <1>6, AcceptTunnelStep
<1>7. CASE Proxy
  BY <1>0, <1>7, ProxyStep
<1>8. CASE UNCHANGED vars
  <2>1. UNCHANGED <<kind, program, stalled, sent, got, stream, rpc, queue, handler, end, writeFailed>>
    BY <1>8 DEF vars, progVars
  <2>2. TypeOK' /\ StartInv'
    BY <2>1 DEF TunnelInv, TypeOK, StartInv
  <2>3. ASSUME NEW x \in Ends PROVE BufferInv(x)' /\ EofInv(x)'
    BY <2>1 DEF TunnelInv, BufferInv, EofInv
  <2>4. ASSUME NEW x \in Ends PROVE ArrivedInv(x)'
    <3>1. end[Peer(x)].taken \in Nat /\ (stream[x] = "closed" => end[x].t2s \in {"off", "ended"})
      BY TwoEnds, Typed DEF TunnelInv, ArrivedInv
    <3> QED
      BY <2>1, <3>1, ArrivedKept
  <2>5. ASSUME NEW x \in Ends PROVE TransitInv(x)'
    BY <1>0, <2>1, TransitKept
  <2>6. ReplyInv'
    BY <1>0, <2>1 DEF TunnelInv, ReplyInv, GoesOn
  <2> QED
    BY <2>2, <2>3, <2>4, <2>5, <2>6 DEF TunnelInv
<1> QED
  BY <1>1, <1>2, <1>3, <1>4, <1>5, <1>6, <1>7, <1>8 DEF Next

\* A tunnel begins in the invariant.
LEMMA TunnelInit ==
    ASSUME Init
    PROVE  TunnelInv
<1>1. <<>> \in Seq(Nat) /\ <<>> \in Seq(Seq(Nat)) /\ Len(<<>>) = 0 /\ Units(0, 0) = <<>>
  BY EmptySeq, NoUnits
<1>2. MaxQueue \in Nat
  BY TunnelAssumption DEF TunnelAssumption
<1>3. \A x \in Ends : /\ sent[x] = <<>> /\ got[x] = <<>> /\ queue[x] = <<>>
                      /\ end[x] = NotWorking /\ stream[x] = "open"
  BY DEF Init
<1>a. ASSUME NEW x \in Ends PROVE Arrived(x) = 0
  <2>1. Len(got[x]) = 0 /\ Len(end[x].hold) = 0
    BY <1>1, <1>3, FirstStates
  <2>2. 0 + 0 = 0
    OBVIOUS
  <2> QED
    BY <2>1, <2>2, Zenon DEF Arrived
<1>4. TypeOK
  BY <1>1, <1>2, FirstStates DEF Init, TypeOK, Ends
<1>5. StartInv
  BY <1>3, TwoEnds, FirstStates DEF Init, StartInv
<1>6. ASSUME NEW x \in Ends PROVE BufferInv(x) /\ EofInv(x)
  BY <1>1, <1>3, FirstStates DEF BufferInv, EofInv
<1>7. ASSUME NEW x \in Ends PROVE ArrivedInv(x)
  <2>1. Arrived(x) = 0
    BY <1>1, <1>a
  <2> QED
    BY <1>1, <1>3, <2>1, TwoEnds, FirstStates DEF ArrivedInv
<1>8. ASSUME NEW x \in Ends PROVE TransitInv(x)
  <2>1. Arrived(Peer(x)) = 0
    BY <1>a, TwoEnds
  <2>2. Run(<<>>, 0, 0)
    BY RunEmpty
  <2>3. end[x].taken = 0 /\ end[x].buf = Units(0, 0) /\ queue[x] = <<>>
    BY <1>1, <1>3, FirstStates
  <2>4. 0 \in 0..0
    OBVIOUS
  <2> QED
    BY <2>1, <2>2, <2>3, <2>4 DEF TransitInv
<1>9. ReplyInv
  BY <1>3, TwoEnds, FirstStates DEF Init, ReplyInv, GoesOn
<1> QED
  BY <1>4, <1>5, <1>6, <1>7, <1>8, <1>9 DEF TunnelInv

\* The invariant holds in every state of every run of a tunnel.
THEOREM Invariance == Spec => []TunnelInv
<1>1. Init => TunnelInv
  BY TunnelInit
<1>2. TunnelInv /\ [Next]_vars => TunnelInv'
  BY TunnelStep
<1> QED
  BY <1>1, <1>2, PTL DEF Spec

-----------------------------------------------------------------------------
(* What follows                                                            *)

\* The variables of a tunnel keep their types: goroutines are at places of
\* theirs, and no more than MaxQueue messages are on the way.
THEOREM TypeCorrect == Spec => []TypeOK
<1>1. TunnelInv => TypeOK
  BY DEF TunnelInv
<1> QED
  BY <1>1, Invariance, PTL

\* A client that keeps its side open receives all that the service sent before
\* it closed, if the network holds and the service could be written to: neither
\* goroutine of streamBidirectional gives up before the whole answer is through.
THEOREM RepliesComplete == Spec => []ReplyComplete
<1>1. TunnelInv => ReplyComplete
  <2> SUFFICES ASSUME TunnelInv, end["client"].t2s = "ended", program["client"] = "open",
                      end["server"].s2t # "off", rpc # "broken", "server" \notin writeFailed
               PROVE  got["client"] \o end["client"].hold = sent["server"]
    BY DEF ReplyComplete
  <2>1. Undisturbed
    BY DEF Undisturbed, Refused
  <2>2. end["server"].s2t = "ended" /\ Len(got["client"]) = end["server"].taken
    BY <2>1 DEF TunnelInv, ReplyInv
  <2>3. end["server"].eof
    BY <2>1, <2>2 DEF TunnelInv, ReplyInv, GoesOn
  <2>4. end["server"].taken = Len(sent["server"])
    BY <2>3, TwoEnds DEF TunnelInv, BufferInv
  <2>5. /\ got["client"] = Units(0, Len(got["client"])) /\ end["client"].hold = <<>>
        /\ sent["server"] = Units(0, Len(sent["server"]))
    BY TwoEnds DEF TunnelInv, ArrivedInv
  <2>6. got["client"] = sent["server"]
    BY <2>2, <2>4, <2>5
  <2>7. got["client"] \o <<>> = got["client"]
    BY TwoEnds, Typed, ConcatEmptySeq DEF TunnelInv
  <2> QED
    BY <2>5, <2>6, <2>7
<1> QED
  BY <1>1, Invariance, PTL

-----------------------------------------------------------------------------
(* A tunnel is a pipe                                                      *)

\* To hand the program the units up to the k-th is a Deliver of the pipe.
LEMMA Delivers ==
    ASSUME TunnelInv, NEW e \in Ends, NEW k \in Nat,
           Len(got[e]) < k, k <= Arrived(e), stream[e] # "closed",
           got' = [got EXCEPT ![e] = @ \o Units(Len(got[e]), k)], UNCHANGED <<sent, stream>>
    PROVE  ThePipe!Next
<1>0. TypeOK /\ ArrivedInv(e) /\ Peer(e) \in Ends
  BY TwoEnds DEF TunnelInv
<1>1. Len(got[e]) \in Nat /\ Len(sent[Peer(e)]) \in Nat /\ Arrived(e) \in Nat
      /\ end[Peer(e)].taken \in Nat /\ got \in [Ends -> Seq(Nat)]
  BY <1>0, Typed DEF TypeOK
<1>2. Len(got[e]) <= k
  BY <1>1
<1>3. /\ got' \in [Ends -> Seq(Nat)] /\ got'[e] = Units(0, k)
      /\ \A x \in Ends : x # e => got'[x] = got[x]
  BY <1>0, <1>2, GotMore
<1>4. Arrived(e) <= end[Peer(e)].taken /\ end[Peer(e)].taken <= Len(sent[Peer(e)])
      /\ sent[Peer(e)] = Units(0, Len(sent[Peer(e)]))
  BY <1>0 DEF TunnelInv, ArrivedInv, BufferInv
<1>5. k <= Len(sent[Peer(e)]) /\ 0 \in Nat /\ 0 + k = k
  BY <1>1, <1>4
<1>6. SubSeq(Units(0, Len(sent[Peer(e)])), 1, k) = Units(0, k)
  <2>1. SubSeq(Units(0, Len(sent[Peer(e)])), 1, k) = Units(0, 0 + k)
    BY <1>1, <1>5, UnitsFirst
  <2> QED
    BY <1>5, <2>1
<1>7. SubSeq(sent[Peer(e)], 1, k) = Units(0, k)
  BY <1>4, <1>6
<1>8. got' = [got EXCEPT ![e] = SubSeq(sent[Peer(e)], 1, k)]
  BY <1>1, <1>3, <1>7
<1>9. k \in (Len(got[e]) + 1)..Len(sent[Peer(e)])
  BY <1>1, <1>5
<1>10. ThePipe!Deliver(e)
  BY <1>8, <1>9 DEF ThePipe!Deliver
<1> QED
  BY <1>10 DEF ThePipe!Next

\* To close a connection is a Close of the pipe.
LEMMA Closes ==
    ASSUME TypeOK, NEW e \in Ends, stream' = [stream EXCEPT ![e] = "closed"],
           UNCHANGED <<sent, got>>
    PROVE  ThePipe!Next
<1>1. {x \in Ends : stream'[x] = "closed"} = {x \in Ends : stream[x] = "closed"} \cup {e}
  BY DEF TypeOK
<1>2. ThePipe!Close(e)
  BY <1>1 DEF ThePipe!Close
<1> QED
  BY <1>2 DEF ThePipe!Next

\* Every step of a tunnel is a step of the pipe, or changes nothing of it.
LEMMA PipeStep ==
    ASSUME TunnelInv, [Next]_vars
    PROVE  [ThePipe!Next]_(ThePipe!vars)
<1>0. TypeOK /\ "client" \in Ends /\ "server" \in Ends
  BY TwoEnds DEF TunnelInv
<1> DEFINE same == UNCHANGED <<sent, got, stream>>
<1>s. same => UNCHANGED ThePipe!vars
  BY DEF ThePipe!vars
<1>1. ASSUME NEW e \in Ends, ProgramSends(e) PROVE ThePipe!Next
  <2>1. ThePipe!Send(e)
    BY <1>1 DEF ProgramSends, Outside, ThePipe!Send
  <2> QED
    BY <2>1 DEF ThePipe!Next
<1>2. ASSUME NEW e \in Ends, ProgramCloses(e) PROVE same
  BY <1>2 DEF ProgramCloses, Outside
<1>3. ASSUME NEW e \in Ends, WriteStream(e) PROVE ThePipe!Next \/ same
  <2>1. UNCHANGED <<sent, stream>> /\ end[e].t2s = "write"
    BY <1>3 DEF WriteStream, Goroutine, progVars
  <2>2. CASE UNCHANGED got
    BY <2>1, <2>2
  <2>3. CASE got' = [got EXCEPT ![e] = @ \o end[e].hold]
    <3>1. /\ end[e].hold = Units(Len(got[e]), Arrived(e)) /\ end[e].hold # <<>>
          /\ stream[e] # "closed"
      BY <2>1 DEF TunnelInv, ArrivedInv
    <3>2. Len(got[e]) \in Nat /\ Arrived(e) \in Nat /\ Len(end[e].hold) \in Nat
          /\ end[e].hold \in Seq(Nat)
      BY <1>0, Typed
    <3>3. Len(end[e].hold) # 0
      BY <3>1, <3>2, EmptySeq
    <3>4. \A m, n \in Nat : n # 0 => m < m + n
      OBVIOUS
    <3>5. Len(got[e]) < Arrived(e)
      BY <3>2, <3>3, <3>4, Zenon DEF Arrived
    <3>6. Arrived(e) <= Arrived(e)
      BY <3>2
    <3>7. got' = [got EXCEPT ![e] = @ \o Units(Len(got[e]), Arrived(e))]
      BY <2>3, <3>1
    <3> QED
      BY <2>1, <3>1, <3>2, <3>5, <3>6, <3>7, Delivers
  <2> QED
    BY <1>3, <2>2, <2>3 DEF WriteStream
<1>4. ASSUME NEW e \in Ends, Finish(e) PROVE ThePipe!Next
  BY <1>0, <1>4, Closes DEF Finish, progVars
<1>5. ASSUME NEW e \in Ends, EndOf(e), ~WriteStream(e), ~Finish(e) PROVE same
  BY <1>5 DEF EndOf, GiveBuf, ReadStream, TakeResult, DoneSelected, SendBuf, SendEof,
     ReaderEnds, RecvMsg, Goroutine, progVars
<1>6. ASSUME NetworkBreaks PROVE same
  BY <1>6 DEF NetworkBreaks, Outside
<1>7. ASSUME Connect PROVE ThePipe!Next \/ same
  BY <1>0, <1>7, Closes DEF Connect, progVars
<1>8. ASSUME AcceptTunnel PROVE ThePipe!Next \/ same
  BY <1>0, <1>8, Closes DEF AcceptTunnel, progVars
<1>9. ASSUME ProxyWrite PROVE ThePipe!Next \/ same
  BY <1>0, <1>9, Closes DEF ProxyWrite, CloseTunnelConn, Goroutine, progVars
<1>10. ASSUME ProxyRead PROVE ThePipe!Next
  <2>1. UNCHANGED <<sent, stream>> /\ end["client"].hold # <<>> /\ kind = "proxy"
    BY <1>10 DEF ProxyRead, Goroutine, progVars
  <2>2. PICK n \in 1..Len(end["client"].hold) :
          got' = [got EXCEPT !["client"] = @ \o SubSeq(end["client"].hold, 1, n)]
    BY <1>10 DEF ProxyRead
  <2> DEFINE g == Len(got["client"])
             h == Len(end["client"].hold)
             a == Arrived("client")
  <2>3. g \in Nat /\ h \in Nat /\ a \in Nat /\ a = g + h /\ n \in 1..h
    <3>1. g \in Nat /\ h \in Nat /\ a \in Nat
      BY <1>0, Typed
    <3>2. a = g + h
      BY DEF Arrived
    <3> QED
      BY <3>1, <3>2
  <2>4. end["client"].hold = Units(g, a) /\ stream["client"] # "closed"
    BY <1>0, <2>1 DEF TunnelInv, ArrivedInv
  <2> HIDE DEF g, h, a
  <2>5. n \in Nat /\ g + n \in Nat /\ g < g + n /\ g + n <= a
    BY <2>3
  <2>6. SubSeq(Units(g, a), 1, n) = Units(g, g + n)
    BY <2>3, <2>5, UnitsFirst
  <2>7. got' = [got EXCEPT !["client"] = @ \o Units(g, g + n)]
    BY <2>2, <2>4, <2>6
  <2> QED
    BY <1>0, <2>1, <2>4, <2>5, <2>7, Delivers DEF g, a
<1>11. ASSUME ProxyClose PROVE ThePipe!Next
  BY <1>0, <1>11, Closes DEF ProxyClose, CloseTunnelConn, Goroutine, progVars
<1>12. ASSUME UNCHANGED vars PROVE same
  BY <1>12 DEF vars, progVars
<1> HIDE DEF same
<1>13. ThePipe!Next \/ same
  BY <1>1, <1>2, <1>3, <1>4, <1>5, <1>6, <1>7, <1>8, <1>9, <1>10, <1>11, <1>12 DEF Next, Proxy
<1> QED
  BY <1>13, <1>s

\* A tunnel is a connection: whatever the goroutines of the two ends, the network
\* and the programs do, each program receives a prefix of what the other sent, in
\* order and nothing twice, and nothing once its connection is closed.
THEOREM TunnelIsPipe == Spec => ImplementsPipe
<1>1. Init => ThePipe!Init
  <2> SUFFICES ASSUME Init PROVE ThePipe!Init
    OBVIOUS
  <2>1. {e \in Ends : stream[e] = "closed"} = {}
    BY DEF Init
  <2> QED
    BY <2>1 DEF Init, ThePipe!Init
<1>2. TunnelInv /\ [Next]_vars => [ThePipe!Next]_(ThePipe!vars)
  BY PipeStep
<1> QED
  BY <1>1, <1>2, Invariance, PTL DEF Spec, ImplementsPipe, ThePipe!Spec

-----------------------------------------------------------------------------
(* Logs: the inductive invariant                                           *)

Lines == [svc : Services, inst : Nat, n : Nat, at : Nat]
Entries == [line : Lines, whole : BOOLEAN]
Forwarding == {"connect", "read", "broken"}
Notifiers == [phase : {"", "RUNNING", "UNHEALTHY", "EXITED"}, exitedChan : BOOLEAN, runningChan : BOOLEAN,
              told : Nat]
Forwarders == [pc : {"off", "connect", "read", "broken", "wait", "gone"}, exited : BOOLEAN, exitOf : Nat,
               running : BOOLEAN, inst : Nat, next : Nat, last : Nat, since : Nat]

\* What was sent, in the order in which it is or will be printed, if it is not
\* sorted any more.
Out == printed \o window \o combinedLogs

\* Shapes.
WorldShape ==
    /\ container \in [Services -> [inst : Nat \ {0}, st : {"RUNNING", "UNHEALTHY", "EXITED"}]]
    /\ written \in [Services -> Seq(Seq(Lines))]
    /\ clock \in Nat \ {0}
    /\ breaks \in Nat
    /\ cmd \in Commands /\ follow \in BOOLEAN

CommandShape ==
    /\ main \in {"check", "checked", "started", "failed"}
    /\ ctx \in {"live", "interrupted", "cancelled"}
    /\ notifier \in [Services -> Notifiers]
    /\ watcher \in {"off", "on", "ended"}
    /\ fwd \in [Services -> Forwarders]
    /\ combinedLogs \in Seq(Entries) /\ window \in Seq(Entries) /\ printed \in Seq(Entries)
    /\ printing \in BOOLEAN
    /\ staleExit \subseteq Services

\* The lines of an instance are numbered, their times do not decrease, and those of
\* the next instance are later.
WrittenInv ==
    \A s \in Services :
        /\ Len(written[s]) = container[s].inst
        /\ \A i \in 1..Len(written[s]) : \A m \in 1..Len(written[s][i]) :
             LET l == written[s][i][m] IN
             l.svc = s /\ l.inst = i /\ l.n = m /\ 1 <= l.at /\ l.at <= clock

TimeInv ==
    \A s \in Services : \A i, j \in 1..Len(written[s]) :
        \A m \in 1..Len(written[s][i]) : \A n \in 1..Len(written[s][j]) :
            /\ i < j => written[s][i][m].at < written[s][j][n].at
            /\ i = j /\ m <= n => written[s][i][m].at <= written[s][j][n].at

\* The lines that were sent in whole.  They were written.
SentLines == {Out[k].line : k \in {j \in 1..Len(Out) : Out[j].whole}}

SentInv ==
    \A l \in SentLines :
        /\ l.svc \in Services /\ l.inst \in 1..Len(written[l.svc])
        /\ l.n \in 1..Len(written[l.svc][l.inst])
        /\ l = written[l.svc][l.inst][l.n]

\* Line m of instance i has the time of the line before.
SameTime(s, i, m) == m > 1 /\ written[s][i][m].at = written[s][i][m - 1].at

\* It was sent, or isOldMessage may have taken it for the line before.
Covered(s, i, m) == written[s][i][m] \in SentLines \/ SameTime(s, i, m)

\* Before the goroutines start there is nothing.
NotStartedInv ==
    main # "started" => /\ SentLines = {} /\ watcher = "off"
                        /\ \A s \in Services : /\ container[s].inst = 1 /\ fwd[s] = NotForwarding
                                               /\ notifier[s].phase = "" /\ ~notifier[s].runningChan

\* A line is sent after those before it.
OrderInv ==
    \A k \in 1..Len(Out) :
        LET l == Out[k].line IN
        Out[k].whole =>
          \A m \in 1..(l.n - 1) :
             \/ \E i \in 1..(k - 1) : SameLine(Out[i], written[l.svc][l.inst][m])
             \/ SameTime(l.svc, l.inst, m)

\* A line is sent once, unless its service is in staleExit.
OnceInv ==
    \A i, j \in 1..Len(Out) :
        (i < j /\ Out[i].whole /\ SameLine(Out[j], Out[i].line)) => Out[i].line.svc \in staleExit

\* The time of the last message is that of a line of this instance or an earlier one.
LastOk(s) ==
    LET f == fwd[s] IN
    /\ f.inst <= container[s].inst
    /\ f.last # 0 => \E j \in 1..f.inst : \E m \in 1..Len(written[s][j]) : written[s][j][m].at = f.last
    /\ f.pc = "read" => /\ 1 <= f.inst /\ 1 <= f.next /\ f.next <= Len(written[s][f.inst]) + 1
                        /\ f.since <= f.last
    /\ f.pc \in {"broken", "wait"} => follow

\* No line is skipped.
GapOk(s) ==
    LET f == fwd[s] IN
    f.inst # 0 =>
        \A m \in 1..Len(written[s][f.inst]) :
            \/ f.pc \in Forwarding /\ written[s][f.inst][m].at <= f.last
            \/ f.pc = "read" /\ m < f.next
            => Covered(s, f.inst, m)

\* What the status watch has told was so, and told of an exit that the container has
\* not recovered from unless it is another instance now.
NotifierOk(s) ==
    LET n == notifier[s] IN
    /\ n.exitedChan => n.phase # "EXITED"
    /\ n.runningChan => n.phase # "RUNNING"
    /\ n.told # 0 => n.told <= container[s].inst /\ (n.told = container[s].inst => ~Alive(s))
    /\ n.phase = "EXITED" /\ n.told = 0 => watcher = "ended"
    /\ watcher = "ended" => n.phase = "EXITED"

ExitOk(s) ==
    LET f == fwd[s] IN
    /\ f.exitOf # 0 => /\ f.exitOf <= container[s].inst
                       /\ f.exitOf = container[s].inst => ~Alive(s)
                       /\ notifier[s].phase = "RUNNING" => f.exitOf < container[s].inst
    /\ f.exited /\ f.exitOf = 0 => watcher = "ended"

\* What was sent will not be read again, or be discarded.
FreshOk(s) ==
    LET f == fwd[s] IN
    s \notin staleExit => \A l \in SentLines :
        l.svc = s =>
          /\ f.pc \in Forwarding => /\ l.inst < container[s].inst \/ l.at <= f.last
                                    /\ f.inst # 0 => l.inst <= f.inst
          /\ f.pc = "read" /\ l.inst = f.inst => l.at <= f.since \/ l.n < f.next
          /\ f.pc = "wait" /\ f.running => l.inst < container[s].inst
          /\ f.pc = "wait" /\ ~f.running /\ watcher # "ended" /\ l.inst = container[s].inst
               => ~Alive(s)

\* The instance that is read has written its last line, and all were sent.
AllSent(s) ==
    /\ fwd[s].inst # 0
    /\ \A m \in 1..Len(written[s][fwd[s].inst]) : written[s][fwd[s].inst][m] \in SentLines
    /\ fwd[s].inst < container[s].inst \/ ~Alive(s)

\* As long as the network does not fail, a stream is read to the end of its container.
WholeOk(s) ==
    LET f == fwd[s] IN
    breaks = 0 =>
        /\ f.pc = "connect" => (f.inst = 0 /\ f.last = 0) \/ AllSent(s)
        /\ f.pc = "read" =>
             /\ \A m \in 1..(f.next - 1) : written[s][f.inst][m] \in SentLines
             /\ \/ f.since = 0
                \/ AllSent(s)
                \/ \E j \in 1..(f.inst - 1) : \E m \in 1..Len(written[s][j]) :
                     written[s][j][m].at = f.since
        /\ f.pc \in {"broken", "wait"} \/ (f.pc = "gone" /\ follow) => AllSent(s)
        /\ f.pc = "gone" /\ ~follow =>
             /\ 1 <= f.inst /\ f.next <= Len(written[s][f.inst]) + 1
             /\ \A m \in 1..(f.next - 1) : written[s][f.inst][m] \in SentLines

ServiceOk(s) ==
    LastOk(s) /\ GapOk(s) /\ NotifierOk(s) /\ ExitOk(s) /\ FreshOk(s) /\ WholeOk(s)

\* printLogs leaves nothing behind when no container is tailed any more.
EndInv == ~printing /\ ctx = "cancelled" => window = <<>> /\ combinedLogs = <<>>

LinesInv == WrittenInv /\ TimeInv /\ SentInv
LogsInv ==
    /\ WorldShape /\ CommandShape /\ LinesInv /\ NotStartedInv /\ OrderInv /\ OnceInv /\ EndInv
    /\ \A s \in Services : ServiceOk(s)

-----------------------------------------------------------------------------
(* The channel, the window and the terminal                                *)

\* Lines in another order: a line is put before one that came earlier only if it
\* was written earlier.
Reordered(o, p) ==
    /\ Len(p) = Len(o)
    /\ \E order \in Bijection(1..Len(o), 1..Len(o)) :
         /\ \A k \in 1..Len(o) : p[k] = o[order[k]]
         /\ \A i, j \in 1..Len(o) : i < j /\ order[j] < order[i]
              => o[order[i]].line.at < o[order[j]].line.at

LEMMA Bijections ==
  ASSUME NEW S, NEW o \in Bijection(S, S)
  PROVE  /\ o \in [S -> S]
         /\ \A i, j \in S : o[i] = o[j] => i = j
         /\ \A k \in S : \E j \in S : o[j] = k
<1>1. o \in [S -> S] /\ IsInjective(o) /\ \A k \in S : \E j \in S : o[j] = k
  BY DEF Bijection, Injection, Surjection
<1>2. DOMAIN o = S
  BY <1>1
<1> QED
  BY <1>1, <1>2 DEF IsInjective

LEMMA IsBijection ==
  ASSUME NEW S, NEW o \in [S -> S],
         \A i, j \in S : o[i] = o[j] => i = j,
         \A k \in S : \E j \in S : o[j] = k
  PROVE  o \in Bijection(S, S)
BY DEF Bijection, Injection, Surjection, IsInjective

\* p permutes W places after the first A of N places as o does.
PermutesMiddle(p, o, A, W, N) ==
    \A k \in 1..N : IF k > A /\ k <= A + W
                     THEN k - A \in 1..W /\ o[k - A] \in 1..W /\ p[k] = A + o[k - A]
                     ELSE p[k] = k

\* A permutation of the middle of a sequence, as one of the sequence.
LEMMA MiddlePermutation ==
  ASSUME NEW A \in Nat, NEW W \in Nat, NEW N \in Nat, A + W <= N,
         NEW o \in Bijection(1..W, 1..W)
  PROVE  \E p \in Bijection(1..N, 1..N) : PermutesMiddle(p, o, A, W, N)
<1> DEFINE p == [k \in 1..N |-> IF k > A /\ k <= A + W THEN A + o[k - A] ELSE k]
<1>1. \A k \in 1..N : k > A /\ k <= A + W => k - A \in 1..W
  OBVIOUS
<1>2. \A k \in 1..W : o[k] \in 1..W
  BY Bijections
<1>i. \A i, j \in 1..W : o[i] = o[j] => i = j
  BY Bijections
<1>s. \A k \in 1..W : \E j \in 1..W : o[j] = k
  BY Bijections
<1>3. ASSUME NEW k \in 1..N
      PROVE  IF k > A /\ k <= A + W
               THEN /\ k - A \in 1..W /\ o[k - A] \in 1..W /\ p[k] = A + o[k - A]
                    /\ p[k] \in 1..N /\ p[k] > A /\ p[k] <= A + W
               ELSE p[k] = k
  BY <1>1, <1>2
<1>4. p \in [1..N -> 1..N]
  <2>1. \A k \in 1..N : p[k] \in 1..N
    BY <1>3
  <2>2. p = [k \in 1..N |-> p[k]]
    OBVIOUS
  <2> HIDE DEF p
  <2> QED
    BY <2>1, <2>2
<1> HIDE DEF p
<1>5. ASSUME NEW k \in 1..N PROVE \E j \in 1..N : p[j] = k
  <2>1. CASE k > A /\ k <= A + W
    <3>1. k - A \in 1..W
      BY <1>1, <2>1
    <3>2. PICK j \in 1..W : o[j] = k - A
      BY <3>1, <1>s
    <3>3. j + A \in 1..N /\ j + A > A /\ j + A <= A + W /\ (j + A) - A = j
      OBVIOUS
    <3>4. p[j + A] = A + o[(j + A) - A]
      BY <1>3, <3>3
    <3>5. p[j + A] = k
      BY <3>2, <3>3, <3>4
    <3> QED
      BY <3>3, <3>5
  <2>2. CASE ~(k > A /\ k <= A + W)
    BY <1>3, <2>2
  <2> QED
    BY <2>1, <2>2
<1>6. ASSUME NEW i \in 1..N, NEW j \in 1..N, p[i] = p[j]
      PROVE  i = j
  <2>1. CASE (i > A /\ i <= A + W) /\ (j > A /\ j <= A + W)
    <3>1. /\ i - A \in 1..W /\ o[i - A] \in 1..W /\ p[i] = A + o[i - A]
          /\ j - A \in 1..W /\ o[j - A] \in 1..W /\ p[j] = A + o[j - A]
      BY <1>3, <2>1
    <3>2. o[i - A] = o[j - A]
      <4>1. A + o[i - A] = A + o[j - A]
        BY <1>6, <3>1
      <4>2. o[i - A] \in Int /\ o[j - A] \in Int
        BY <3>1
      <4> QED
        BY <4>1, <4>2
    <3>3. i - A = j - A
      BY <3>1, <3>2, <1>i
    <3> QED
      BY <3>3
  <2>2. CASE (i > A /\ i <= A + W) /\ ~(j > A /\ j <= A + W)
    BY <1>3, <1>6, <2>2
  <2>3. CASE ~(i > A /\ i <= A + W) /\ (j > A /\ j <= A + W)
    BY <1>3, <1>6, <2>3
  <2>4. CASE ~(i > A /\ i <= A + W) /\ ~(j > A /\ j <= A + W)
    BY <1>3, <1>6, <2>4
  <2> QED
    BY <2>1, <2>2, <2>3, <2>4
<1>7. p \in Bijection(1..N, 1..N)
  BY <1>4, <1>5, <1>6, IsBijection
<1> QED
  BY <1>3, <1>7 DEF PermutesMiddle

\* flush sorts the window between what is printed and what is on the channel.
LEMMA SortReorders ==
  ASSUME NEW a \in Seq(Entries), NEW w \in Seq(Entries), NEW c \in Seq(Entries),
         NEW sorted \in SortedWindows(w)
  PROVE  sorted \in Seq(Entries) /\ Reordered(a \o w \o c, a \o sorted \o c)
<1> DEFINE A == Len(a)
           W == Len(w)
           C == Len(c)
           N == A + W + C
<1>0. A \in Nat /\ W \in Nat /\ C \in Nat /\ DOMAIN w = 1..W /\ N \in Nat /\ A + W <= N
  OBVIOUS
<1>1. PICK o \in Bijection(DOMAIN w, DOMAIN w) :
        /\ \A i, j \in DOMAIN w : i < j => \/ w[o[i]].line.at < w[o[j]].line.at
                                           \/ w[o[i]].line.at = w[o[j]].line.at /\ o[i] < o[j]
        /\ sorted = [k \in DOMAIN w |-> w[o[k]]]
  BY DEF SortedWindows
<1>2. o \in Bijection(1..W, 1..W)
  BY <1>0
<1>3. \A k \in 1..W : o[k] \in 1..W
  BY <1>2, Bijections
<1>4. /\ sorted \in Seq(Entries) /\ Len(sorted) = W
      /\ \A k \in 1..W : sorted[k] = w[o[k]]
  <2>1. \A k \in 1..W : w[o[k]] \in Entries
    BY <1>3
  <2>2. sorted = [k \in 1..W |-> w[o[k]]]
    BY <1>0, <1>1
  <2> HIDE DEF W
  <2>3. sorted \in [1..W -> Entries]
    BY <2>1, <2>2
  <2>4. sorted \in Seq(Entries) /\ Len(sorted) = W
    BY <1>0, <2>2, <2>3, IsASeq
  <2> QED
    BY <2>2, <2>4
<1> DEFINE x == a \o w \o c
           y == a \o sorted \o c
<1>5. Len(x) = N /\ Len(y) = N
  BY <1>4
<1>6. \A k \in 1..N : /\ k <= A => x[k] = a[k] /\ y[k] = a[k]
                      /\ k > A /\ k <= A + W => x[k] = w[k - A] /\ y[k] = sorted[k - A]
                      /\ k > A + W => x[k] = c[k - (A + W)] /\ y[k] = c[k - (A + W)]
  BY <1>4
<1> HIDE DEF x, y, N, A, W, C
<1>7. ASSUME NEW i \in 1..W, NEW j \in 1..W, i < j, o[j] < o[i]
      PROVE  w[o[i]].line.at < w[o[j]].line.at
  <2>1. o[i] \in 1..W /\ o[j] \in 1..W /\ i \in DOMAIN w /\ j \in DOMAIN w
    BY <1>0, <1>3
  <2>2. ~(o[i] < o[j])
    BY <1>0, <1>7, <2>1
  <2> QED
    BY <1>1, <1>7, <2>1, <2>2
<1>q. PICK p \in Bijection(1..N, 1..N) : PermutesMiddle(p, o, A, W, N)
  BY <1>0, <1>2, MiddlePermutation
<1>8. \A k \in 1..N : IF k > A /\ k <= A + W
                         THEN k - A \in 1..W /\ o[k - A] \in 1..W /\ p[k] = A + o[k - A]
                         ELSE p[k] = k
  BY <1>q DEF PermutesMiddle
<1>p. \A k \in 1..N : p[k] \in 1..N
  <2>1. p \in [1..N -> 1..N]
    BY Bijections
  <2> QED
    BY <2>1
<1>9. ASSUME NEW k \in 1..N, k > A, k <= A + W
      PROVE  /\ k - A \in 1..W /\ o[k - A] \in 1..W /\ p[k] = A + o[k - A]
             /\ x[p[k]] = w[o[k - A]] /\ y[k] = w[o[k - A]]
  <2>1. k - A \in 1..W /\ o[k - A] \in 1..W /\ p[k] = A + o[k - A]
    BY <1>8, <1>9
  <2>2. p[k] \in 1..N /\ p[k] > A /\ p[k] <= A + W /\ p[k] - A = o[k - A]
    BY <1>0, <1>p, <2>1
  <2>3. x[p[k]] = w[p[k] - A]
    BY <1>6, <2>2
  <2>4. y[k] = sorted[k - A]
    BY <1>6, <1>9
  <2> QED
    BY <1>4, <2>1, <2>2, <2>3, <2>4
<1>10. \A k \in 1..N : y[k] = x[p[k]]
  <2>1. ASSUME NEW k \in 1..N, ~(k > A /\ k <= A + W)
        PROVE  y[k] = x[p[k]]
    <3>1. p[k] = k
      BY <1>8, <2>1
    <3>2. k <= A \/ k > A + W
      BY <1>0, <2>1
    <3>3. x[k] = y[k]
      BY <1>6, <3>2
    <3> QED
      BY <3>1, <3>3
  <2> QED
    BY <1>9, <2>1
<1>11. ASSUME NEW i \in 1..N, NEW j \in 1..N, i < j, p[j] < p[i]
       PROVE  x[p[i]].line.at < x[p[j]].line.at
  <2>1. p[i] \in 1..N /\ p[j] \in 1..N
    BY <1>p
  <2>2. i > A /\ i <= A + W
    <3> SUFFICES ASSUME ~(i > A /\ i <= A + W) PROVE FALSE
      OBVIOUS
    <3>1. p[i] = i
      BY <1>8
    <3>2. CASE j > A /\ j <= A + W
      <4>1. o[j - A] \in 1..W /\ p[j] = A + o[j - A]
        BY <1>9, <3>2
      <4>2. p[j] > A /\ p[j] <= A + W
        BY <1>0, <4>1
      <4> QED
        BY <1>0, <1>11, <2>1, <3>1, <3>2, <4>2
    <3>3. CASE ~(j > A /\ j <= A + W)
      <4>1. p[j] = j
        BY <1>8, <3>3
      <4> QED
        BY <1>0, <1>11, <3>1, <4>1
    <3> QED
      BY <3>2, <3>3
  <2>3. j > A /\ j <= A + W
    <3> SUFFICES ASSUME ~(j > A /\ j <= A + W) PROVE FALSE
      OBVIOUS
    <3>1. p[j] = j
      BY <1>8
    <3>2. o[i - A] \in 1..W /\ p[i] = A + o[i - A]
      BY <1>9, <2>2
    <3>3. p[i] > A /\ p[i] <= A + W
      BY <1>0, <3>2
    <3> QED
      BY <1>0, <1>11, <2>1, <2>2, <3>1, <3>3
  <2>4. i - A < j - A /\ o[j - A] < o[i - A] /\ i - A \in 1..W /\ j - A \in 1..W
    BY <1>0, <1>9, <1>11, <2>2, <2>3
  <2>5. w[o[i - A]].line.at < w[o[j - A]].line.at
    BY <1>7, <2>4
  <2> QED
    BY <1>9, <2>2, <2>3, <2>5
<1>12. Reordered(x, y)
  BY <1>5, <1>8, <1>10, <1>11 DEF Reordered
<1> QED
  BY <1>4, <1>12 DEF x, y

\* What is sent is at the end of Out.
LEMMA SendAppends ==
  ASSUME CommandShape, NEW e \in Entries, combinedLogs' = Append(combinedLogs, e),
         UNCHANGED <<printed, window>>
  PROVE  Out' = Append(Out, e)
<1>1. combinedLogs \in Seq(Entries) /\ window \in Seq(Entries) /\ printed \in Seq(Entries)
  BY DEF CommandShape
<1> QED
  BY <1>1 DEF Out

\* printLogs moves lines on without a change of their order, or sorts them.
LEMMA PrinterOut ==
  ASSUME CommandShape, TakeLine \/ Flush \/ Return \/ Interrupt
  PROVE  /\ Out' = Out \/ Reordered(Out, Out')
         /\ combinedLogs' \in Seq(Entries) /\ window' \in Seq(Entries) /\ printed' \in Seq(Entries)
<1>1. combinedLogs \in Seq(Entries) /\ window \in Seq(Entries) /\ printed \in Seq(Entries)
  BY DEF CommandShape
<1>2. CASE TakeLine
  <2>1. /\ combinedLogs # <<>> /\ window' = Append(window, Head(combinedLogs))
        /\ combinedLogs' = Tail(combinedLogs) /\ printed' = printed
    BY <1>2 DEF TakeLine
  <2>2. Head(combinedLogs) \in Entries /\ Tail(combinedLogs) \in Seq(Entries)
    BY <1>1, <2>1
  <2>3. Append(window, Head(combinedLogs)) \o Tail(combinedLogs) = window \o combinedLogs
    BY <1>1, <2>1, <2>2
  <2>4. \A a, b, c \in Seq(Entries) : (a \o b) \o c = a \o (b \o c)
    OBVIOUS
  <2>5. Append(window, Head(combinedLogs)) \in Seq(Entries)
    BY <1>1, <2>2
  <2>6. (printed \o Append(window, Head(combinedLogs))) \o Tail(combinedLogs)
          = (printed \o window) \o combinedLogs
    <3>1. (printed \o Append(window, Head(combinedLogs))) \o Tail(combinedLogs)
            = printed \o (Append(window, Head(combinedLogs)) \o Tail(combinedLogs))
      BY <1>1, <2>2, <2>4, <2>5, Zenon
    <3>2. (printed \o window) \o combinedLogs = printed \o (window \o combinedLogs)
      BY <1>1, <2>4, Zenon
    <3> QED
      BY <2>3, <3>1, <3>2, Zenon
  <2>7. Out' = Out
    BY <2>1, <2>6, Zenon DEF Out
  <2> QED
    BY <2>1, <2>2, <2>5, <2>7, <1>1
<1>3. CASE Flush \/ Return
  <2>1. PICK sorted \in SortedWindows(window) : printed' = printed \o sorted
    BY <1>3 DEF Flush, Return
  <2>2. window' = <<>> /\ combinedLogs' = combinedLogs
    BY <1>3 DEF Flush, Return
  <2>3. /\ sorted \in Seq(Entries)
        /\ Reordered(printed \o window \o combinedLogs, printed \o sorted \o combinedLogs)
    BY <1>1, SortReorders
  <2>4. (printed \o sorted) \o <<>> = printed \o sorted
    BY <1>1, <2>3
  <2> QED
    BY <1>1, <2>1, <2>2, <2>3, <2>4 DEF Out
<1>4. CASE Interrupt
  <2>1. PICK sorted \in SortedWindows(window \o combinedLogs) : printed' = printed \o sorted
    BY <1>4 DEF Interrupt
  <2>2. window' = <<>> /\ combinedLogs' = <<>>
    BY <1>4 DEF Interrupt
  <2>3. window \o combinedLogs \in Seq(Entries) /\ <<>> \in Seq(Entries)
    BY <1>1
  <2>4. /\ sorted \in Seq(Entries)
        /\ Reordered(printed \o (window \o combinedLogs) \o <<>>, printed \o sorted \o <<>>)
    BY <1>1, <2>3, SortReorders
  <2>5. printed \o (window \o combinedLogs) \o <<>> = printed \o window \o combinedLogs
    BY <1>1, <2>3
  <2>6. printed \o sorted \o <<>> = printed \o sorted \o <<>> \o <<>>
    BY <1>1, <2>4
  <2>7. printed \o sorted \in Seq(Entries)
    BY <1>1, <2>4
  <2>8. Out = printed \o (window \o combinedLogs) \o <<>>
    BY <2>5 DEF Out
  <2>9. Out' = printed \o sorted \o <<>>
    BY <2>1, <2>2, <2>6 DEF Out
  <2> QED
    BY <2>1, <2>2, <2>3, <2>4, <2>7, <2>8, <2>9
<1> QED
  BY <1>2, <1>3, <1>4

\* A time in an earlier second is earlier.
LEMMA SecondsAgree ==
  ASSUME NEW a \in Nat, NEW b \in Nat, a \div Second < b \div Second
  PROVE  a < b
  BY LogsAssumption

\* What is on its way has a shape.
LEMMA OutShape ==
  ASSUME CommandShape
  PROVE  Out \in Seq(Entries) /\ Len(Out) \in Nat /\ \A k \in 1..Len(Out) : Out[k] \in Entries
<1>1. combinedLogs \in Seq(Entries) /\ window \in Seq(Entries) /\ printed \in Seq(Entries)
  BY DEF CommandShape
<1>2. Out \in Seq(Entries)
  BY <1>1, SMTT(30) DEF Out
<1> HIDE DEF Out
<1> QED
  BY <1>2

\* OrderInv for the next state, with the length of Out' apart.
LEMMA OrderNext ==
  ASSUME NEW N, Len(Out') = N, UNCHANGED written,
         \A k \in 1..N : \A m \in 1..(Out'[k].line.n - 1) :
            Out'[k].whole /\ ~SameTime(Out'[k].line.svc, Out'[k].line.inst, m) =>
              \E i \in 1..(k - 1) : SameLine(Out'[i], written[Out'[k].line.svc][Out'[k].line.inst][m])
  PROVE  OrderInv'
BY DEF OrderInv, SameTime, SameLine

\* Sorting loses and adds nothing, and keeps the order of the lines of a container.
LEMMA ReorderKeeps ==
  ASSUME CommandShape, LinesInv, OrderInv, OnceInv, Reordered(Out, Out'),
         UNCHANGED <<written, staleExit>>
  PROVE  SentLines' = SentLines /\ OrderInv' /\ OnceInv'
<1> DEFINE N == Len(Out)
<1>0. N \in Nat /\ Len(Out') = N
  BY OutShape DEF Reordered
<1>1. PICK order \in Bijection(1..N, 1..N) :
        /\ \A k \in 1..N : Out'[k] = Out[order[k]]
        /\ \A i, j \in 1..N : i < j /\ order[j] < order[i]
             => Out[order[i]].line.at < Out[order[j]].line.at
  BY DEF Reordered
<1> HIDE DEF N
<1>2. \A k \in 1..N : order[k] \in 1..N
  <2>1. order \in [1..N -> 1..N]
    BY Bijections
  <2> QED
    BY <2>1
<1>3. \A i, j \in 1..N : order[i] = order[j] => i = j
  BY Bijections
<1>4. \A k \in 1..N : \E j \in 1..N : order[j] = k
  BY Bijections
<1>5. SentLines' = SentLines
  <2>1. SentLines = {Out[k].line : k \in {j \in 1..N : Out[j].whole}}
    BY DEF SentLines, N
  <2>2. SentLines' = {Out'[k].line : k \in {j \in 1..N : Out'[j].whole}}
    BY <1>0 DEF SentLines
  <2>3. ASSUME NEW l \in SentLines PROVE l \in SentLines'
    <3>1. PICK k \in 1..N : Out[k].whole /\ l = Out[k].line
      BY <2>1, <2>3
    <3>2. PICK j \in 1..N : order[j] = k
      BY <1>4
    <3> QED
      BY <1>1, <2>2, <3>1, <3>2
  <2>4. ASSUME NEW l \in SentLines' PROVE l \in SentLines
    <3>1. PICK k \in 1..N : Out'[k].whole /\ l = Out'[k].line
      BY <2>2, <2>4
    <3> QED
      BY <1>1, <1>2, <2>1, <3>1
  <2> QED
    BY <2>3, <2>4
<1>6. OrderInv'
  <2> SUFFICES ASSUME NEW k \in 1..N, Out'[k].whole,
                      NEW m \in 1..(Out'[k].line.n - 1),
                      ~SameTime(Out'[k].line.svc, Out'[k].line.inst, m)
               PROVE  \E i \in 1..(k - 1) :
                         SameLine(Out'[i], written[Out'[k].line.svc][Out'[k].line.inst][m])
    BY <1>0, OrderNext
  <2> DEFINE K == order[k]
             l == Out[K].line
             w == written[l.svc][l.inst]
  <2>1. K \in 1..N /\ Out'[k] = Out[K]
    BY <1>1, <1>2
  <2>2. /\ l \in SentLines /\ l.svc \in Services /\ l.inst \in 1..Len(written[l.svc])
        /\ l.n \in 1..Len(w) /\ l = w[l.n]
    BY <2>1 DEF SentLines, LinesInv, SentInv, N
  <2>l. l \in Lines /\ l.n \in Nat /\ l.at \in Nat
    <3>1. Out[K] \in Entries
      BY <2>1, OutShape DEF N
    <3> HIDE DEF K
    <3> QED
      BY <3>1 DEF Entries, Lines
  <2>m. m \in 1..(l.n - 1)
    BY <2>1
  <2> HIDE DEF K, l
  <2>3. PICK i \in 1..(K - 1) : SameLine(Out[i], w[m])
    BY <2>1 DEF OrderInv, N, K, l
  <2>4. i \in 1..N /\ i < K
    BY <1>0, <2>1
  <2>i. Out[i].line = w[m] /\ w[m].at \in Nat
    <3>1. Out[i] \in Entries
      BY <2>4, OutShape DEF N
    <3> QED
      BY <2>3, <3>1 DEF Entries, Lines, SameLine
  <2>5. PICK j \in 1..N : order[j] = i
    BY <1>4, <2>4
  <2>6. j < k
    <3>1. j # k
      BY <1>0, <2>1, <2>4, <2>5 DEF K
    <3>2. ~(k < j)
      <4> SUFFICES ASSUME k < j PROVE FALSE
        OBVIOUS
      <4>1. Out[K].line.at < Out[i].line.at
        BY <1>1, <2>4, <2>5 DEF K
      <4>2. w[l.n].at < w[m].at
        BY <2>2, <2>i, <4>1 DEF l
      <4>3. m \in 1..Len(w) /\ m <= l.n
        BY <2>2, <2>l, <2>m
      <4>4. w[m].at <= w[l.n].at
        BY <2>2, <4>3 DEF LinesInv, TimeInv
      <4>5. w[l.n].at \in Nat
        BY <2>2, <2>l
      <4> HIDE DEF w
      <4> QED
        BY <2>i, <4>2, <4>4, <4>5
    <3> QED
      BY <1>0, <3>1, <3>2
  <2>7. Out'[j] = Out[i]
    BY <1>1, <2>5
  <2>8. j \in 1..(k - 1)
    BY <1>0, <2>6
  <2>9. SameLine(Out'[j], w[m])
    BY <2>3, <2>7
  <2> QED
    BY <2>1, <2>8, <2>9 DEF l
<1>7. OnceInv'
  <2> SUFFICES ASSUME NEW i \in 1..N, NEW j \in 1..N, i < j, Out'[i].whole,
                      SameLine(Out'[j], Out'[i].line)
               PROVE  Out'[i].line.svc \in staleExit
    BY <1>0 DEF OnceInv, SameLine
  <2>1. /\ order[i] \in 1..N /\ order[j] \in 1..N /\ order[i] # order[j]
        /\ Out'[i] = Out[order[i]] /\ Out'[j] = Out[order[j]]
    BY <1>0, <1>1, <1>2, <1>3
  <2>2. CASE order[i] < order[j]
    BY <2>1, <2>2 DEF OnceInv, N
  <2>3. CASE order[j] < order[i]
    BY <2>1, <2>3 DEF OnceInv, SameLine, N
  <2> QED
    BY <1>0, <2>1, <2>2, <2>3
<1> QED
  BY <1>5, <1>6, <1>7

\* A line that is sent after those before it, and once.
LEMMA AppendKeeps ==
  ASSUME CommandShape, NEW e \in Entries, Out' = Append(Out, e), OrderInv, OnceInv,
         UNCHANGED written, staleExit \subseteq staleExit',
         e.whole => \A m \in 1..(e.line.n - 1) : Covered(e.line.svc, e.line.inst, m),
         e.whole => e.line \notin SentLines \/ e.line.svc \in staleExit
  PROVE  /\ SentLines' = SentLines \cup (IF e.whole THEN {e.line} ELSE {})
         /\ OrderInv' /\ OnceInv'
<1> DEFINE N == Len(Out)
<1>0. /\ N \in Nat /\ Len(Out') = N + 1 /\ Out'[N + 1] = e
      /\ \A k \in 1..N : Out'[k] = Out[k]
  BY OutShape
<1>a. SentLines = {Out[k].line : k \in {j \in 1..N : Out[j].whole}}
  BY DEF SentLines, N
<1>b. SentLines' = {Out'[k].line : k \in {j \in 1..(N + 1) : Out'[j].whole}}
  BY <1>0 DEF SentLines
<1>c. \A k \in 1..(N + 1) : k \in 1..N \/ k = N + 1
  BY <1>0
<1>d. N + 1 \in 1..(N + 1) /\ \A k \in 1..N : k \in 1..(N + 1)
  BY <1>0
<1>l. Len(Out') = N + 1
  BY <1>0
<1> HIDE DEF N
<1>1. SentLines' = SentLines \cup (IF e.whole THEN {e.line} ELSE {})
  <2>1. ASSUME NEW l \in SentLines' PROVE l \in SentLines \cup (IF e.whole THEN {e.line} ELSE {})
    <3>1. PICK k \in 1..(N + 1) : Out'[k].whole /\ l = Out'[k].line
      BY <1>b, <2>1
    <3> QED
      BY <1>0, <1>a, <1>c, <3>1
  <2>2. ASSUME NEW l \in SentLines PROVE l \in SentLines'
    <3>1. PICK k \in 1..N : Out[k].whole /\ l = Out[k].line
      BY <1>a, <2>2
    <3> QED
      BY <1>0, <1>b, <1>d, <3>1
  <2>3. e.whole => e.line \in SentLines'
    BY <1>0, <1>b, <1>d
  <2> QED
    BY <2>1, <2>2, <2>3
<1>2. OrderInv'
  <2> SUFFICES ASSUME NEW k \in 1..(N + 1), Out'[k].whole,
                      NEW m \in 1..(Out'[k].line.n - 1),
                      ~SameTime(Out'[k].line.svc, Out'[k].line.inst, m)
               PROVE  \E i \in 1..(k - 1) :
                         SameLine(Out'[i], written[Out'[k].line.svc][Out'[k].line.inst][m])
    BY <1>l, OrderNext
  <2>1. CASE k \in 1..N
    <3>1. \E i \in 1..(k - 1) : SameLine(Out[i], written[Out[k].line.svc][Out[k].line.inst][m])
      BY <1>0, <2>1 DEF OrderInv, N
    <3>2. \A i \in 1..(k - 1) : i \in 1..N
      BY <1>0, <2>1, SMTT(30)
    <3> QED
      BY <1>0, <2>1, <3>1, <3>2
  <2>2. CASE k = N + 1
    <3>1. written[e.line.svc][e.line.inst][m] \in SentLines
      BY <1>0, <2>2 DEF Covered
    <3>2. PICK i \in 1..N : SameLine(Out[i], written[e.line.svc][e.line.inst][m])
      BY <1>a, <3>1 DEF SameLine
    <3>3. i \in 1..(k - 1)
      BY <1>0, <2>2
    <3> QED
      BY <1>0, <2>2, <3>2, <3>3
  <2> QED
    BY <1>c, <2>1, <2>2
<1>3. OnceInv'
  <2> SUFFICES ASSUME NEW i \in 1..(N + 1), NEW j \in 1..(N + 1), i < j, Out'[i].whole,
                      SameLine(Out'[j], Out'[i].line)
               PROVE  Out'[i].line.svc \in staleExit'
    BY <1>0 DEF OnceInv, SameLine
  <2>1. i \in 1..N
    BY <1>0
  <2>2. CASE j \in 1..N
    BY <1>0, <2>1, <2>2 DEF OnceInv, N
  <2>3. CASE j = N + 1
    <3>1. e.whole /\ e.line = Out[i].line /\ Out[i].whole
      BY <1>0, <2>1, <2>3 DEF SameLine
    <3>2. e.line \in SentLines
      BY <1>a, <2>1, <3>1
    <3> QED
      BY <1>0, <2>1, <3>1, <3>2
  <2> QED
    BY <1>c, <2>2, <2>3
<1> QED
  BY <1>1, <1>2, <1>3

-----------------------------------------------------------------------------
(* What a step leaves alone                                                *)

LEMMA SameOut ==
  ASSUME OrderInv, OnceInv, Out' = Out, UNCHANGED written, staleExit \subseteq staleExit'
  PROVE  SentLines' = SentLines /\ OrderInv' /\ OnceInv'
<1>1. SentLines' = SentLines
  BY DEF SentLines
<1>2. OrderInv'
  BY DEF OrderInv, SameTime, SameLine
<1>3. OnceInv'
  BY DEF OnceInv, SameLine
<1> QED
  BY <1>1, <1>2, <1>3

LEMMA SameWritten ==
  ASSUME WrittenInv, TimeInv, UNCHANGED <<container, written, clock>>
  PROVE  WrittenInv' /\ TimeInv'
<1>0. container' = container /\ written' = written /\ clock' = clock
  OBVIOUS
<1>1. WrittenInv'
  <2> SUFFICES ASSUME NEW s \in Services
               PROVE  /\ Len(written'[s]) = container'[s].inst
                      /\ \A i \in 1..Len(written'[s]) : \A m \in 1..Len(written'[s][i]) :
                           LET l == written'[s][i][m] IN
                           l.svc = s /\ l.inst = i /\ l.n = m /\ 1 <= l.at /\ l.at <= clock'
    BY Zenon DEF WrittenInv
  <2>1. /\ Len(written[s]) = container[s].inst
        /\ \A i \in 1..Len(written[s]) : \A m \in 1..Len(written[s][i]) :
             LET l == written[s][i][m] IN
             l.svc = s /\ l.inst = i /\ l.n = m /\ 1 <= l.at /\ l.at <= clock
    BY Zenon DEF WrittenInv
  <2> QED
    BY <1>0, <2>1
<1>2. TimeInv'
  <2> DEFINE InTime(w) ==
        \A s \in Services : \A i, j \in 1..Len(w[s]) :
          \A m \in 1..Len(w[s][i]) : \A n \in 1..Len(w[s][j]) :
            /\ i < j => w[s][i][m].at < w[s][j][n].at
            /\ i = j /\ m <= n => w[s][i][m].at <= w[s][j][n].at
  <2>1. InTime(written)
    BY Zenon DEF TimeInv
  <2>2. InTime(written')
    <3> HIDE DEF InTime
    <3> QED
      BY <1>0, <2>1
  <2> QED
    BY <2>2, Zenon DEF TimeInv
<1> QED
  BY <1>1, <1>2

\* A service whose goroutine, notifier and container do nothing.
LEMMA ServiceSame ==
  ASSUME NEW t \in Services, ServiceOk(t), UNCHANGED <<container, written, follow, watcher>>,
         fwd'[t] = fwd[t], notifier'[t] = notifier[t], staleExit \subseteq staleExit',
         breaks' = breaks \/ breaks' # 0,
         SentLines \subseteq SentLines', \A l \in SentLines' : l \in SentLines \/ l.svc # t
  PROVE  ServiceOk(t)'
<1>0. Alive(t)' <=> Alive(t)
  BY DEF Alive
<1>1. LastOk(t)'
  BY DEF ServiceOk, LastOk
<1>2. GapOk(t)'
  BY DEF ServiceOk, GapOk, Covered, SameTime
<1>3. NotifierOk(t)' /\ ExitOk(t)'
  BY <1>0 DEF ServiceOk, NotifierOk, ExitOk
<1>4. FreshOk(t)'
  BY <1>0 DEF ServiceOk, FreshOk
<1>5. WholeOk(t)'
  <2>1. AllSent(t) => AllSent(t)'
    BY <1>0 DEF AllSent
  <2>2. SUFFICES ASSUME breaks = 0 PROVE WholeOk(t)'
    BY DEF WholeOk
  <2> QED
    BY <2>1, <2>2 DEF ServiceOk, WholeOk
<1> QED
  BY <1>1, <1>2, <1>3, <1>4, <1>5 DEF ServiceOk

\* A step of the goroutine of s.
LEMMA ForwarderKeeps ==
  ASSUME LogsInv, NEW s \in Services, fwd[s].pc # "off", Forwarder, CommandShape',
         breaks' \in Nat, breaks' = breaks \/ breaks' # 0,
         \A t \in Services : t # s => fwd'[t] = fwd[t] /\ notifier'[t] = notifier[t],
         staleExit \subseteq staleExit', OrderInv', OnceInv', SentLines \subseteq SentLines',
         \A l \in SentLines' : \/ l \in SentLines
                               \/ /\ l.svc = s /\ l.inst \in 1..Len(written[s])
                                  /\ l.n \in 1..Len(written[s][l.inst])
                                  /\ l = written[s][l.inst][l.n],
         ServiceOk(s)'
  PROVE  LogsInv'
<1>1. UNCHANGED <<container, written, clock, cmd, follow, main, ctx, watcher, printVars>> /\ printing
  BY DEF Forwarder, Ended
<1>2. WorldShape' /\ WrittenInv' /\ TimeInv'
  <2>1. WorldShape'
    BY <1>1 DEF LogsInv, WorldShape
  <2> QED
    BY <1>1, <2>1, SameWritten DEF LogsInv, LinesInv
<1>3. SentInv'
  BY <1>1 DEF LogsInv, LinesInv, SentInv
<1>4. main = "started"
  <2>1. NotStartedInv
    BY DEF LogsInv
  <2>2. NotForwarding.pc = "off"
    BY DEF NotForwarding
  <2> QED
    BY <2>1, <2>2 DEF NotStartedInv
<1>5. NotStartedInv' /\ EndInv'
  BY <1>1, <1>4 DEF NotStartedInv, EndInv, printVars
<1>6. ASSUME NEW t \in Services, t # s PROVE ServiceOk(t)'
  <2>1. ServiceOk(t)
    BY DEF LogsInv
  <2>2. \A l \in SentLines' : l \in SentLines \/ l.svc # t
    BY <1>6
  <2> QED
    BY <1>1, <1>6, <2>1, <2>2, ServiceSame
<1> QED
  BY <1>2, <1>3, <1>5, <1>6 DEF LogsInv, LinesInv

\* What the goroutine of s does when it sends nothing.
LEMMA ForwarderQuiet ==
  ASSUME LogsInv, NEW s \in Services, fwd[s].pc # "off", Forwarder, CommandShape',
         breaks' \in Nat, breaks' = breaks \/ breaks' # 0,
         \A t \in Services : t # s => fwd'[t] = fwd[t] /\ notifier'[t] = notifier[t],
         staleExit \subseteq staleExit', UNCHANGED combinedLogs,
         SentLines' = SentLines => ServiceOk(s)'
  PROVE  LogsInv'
<1>1. UNCHANGED <<written, window, printed>>
  BY DEF Forwarder, printVars
<1>2. Out' = Out
  BY <1>1 DEF Out
<1>3. SentLines' = SentLines /\ OrderInv' /\ OnceInv'
  BY <1>1, <1>2, SameOut DEF LogsInv
<1> QED
  BY <1>3, ForwarderKeeps

-----------------------------------------------------------------------------
(* The goroutine of a service                                              *)

\* The rest of the goroutines and notifiers.
Others(s) == \A t \in Services : t # s => fwd'[t] = fwd[t] /\ notifier'[t] = notifier[t]

\* The state after forwardLogs has returned.
LEMMA AfterReturn ==
  ASSUME CommandShape, WorldShape, NEW s \in Services, ForwardLogsReturns(s)
  PROVE  /\ fwd' \in [Services -> Forwarders] /\ notifier' \in [Services -> Notifiers] /\ Others(s)
         /\ fwd'[s].pc = (IF follow THEN "wait" ELSE "gone")
         /\ fwd'[s].running = (follow /\ notifier[s].phase = "RUNNING")
         /\ fwd'[s].exited = FALSE /\ fwd'[s].exitOf = 0 /\ fwd'[s].last = 0
         /\ fwd'[s].inst = fwd[s].inst /\ fwd'[s].next = fwd[s].next
         /\ notifier'[s].runningChan = (follow /\ notifier[s].phase # "RUNNING")
         /\ notifier'[s].phase = notifier[s].phase /\ notifier'[s].told = notifier[s].told
         /\ notifier'[s].exitedChan = notifier[s].exitedChan
<1> DEFINE g == [NotForwarding EXCEPT !.pc = IF follow THEN "wait" ELSE "gone",
                                      !.running = follow /\ phaseRunning(notifier[s].phase),
                                      !.inst = fwd[s].inst, !.next = fwd[s].next]
           h == [notifier[s] EXCEPT !.runningChan = follow /\ ~phaseRunning(notifier[s].phase)]
<1>1. /\ fwd \in [Services -> Forwarders] /\ notifier \in [Services -> Notifiers] /\ follow \in BOOLEAN
      /\ fwd[s] \in Forwarders /\ notifier[s] \in Notifiers
  BY DEF CommandShape, WorldShape
<1>2. fwd' = [fwd EXCEPT ![s] = g]
  BY DEF ForwardLogsReturns, Forward
<1>3. notifier' = [notifier EXCEPT ![s] = h]
  BY DEF ForwardLogsReturns
<1>4. /\ g \in Forwarders /\ g.pc = (IF follow THEN "wait" ELSE "gone")
      /\ g.running = (follow /\ notifier[s].phase = "RUNNING")
      /\ g.exited = FALSE /\ g.exitOf = 0 /\ g.last = 0 /\ g.inst = fwd[s].inst /\ g.next = fwd[s].next
  BY <1>1 DEF NotForwarding, Forwarders, phaseRunning
<1>5. /\ h \in Notifiers
      /\ h.runningChan = (follow /\ notifier[s].phase # "RUNNING") /\ h.phase = notifier[s].phase
      /\ h.told = notifier[s].told /\ h.exitedChan = notifier[s].exitedChan
  BY <1>1 DEF Notifiers, phaseRunning
<1> HIDE DEF g, h
<1>6. fwd' \in [Services -> Forwarders] /\ notifier' \in [Services -> Notifiers]
  BY <1>1, <1>2, <1>3, <1>4, <1>5
<1>7. fwd'[s] = g /\ notifier'[s] = h /\ Others(s)
  BY <1>1, <1>2, <1>3 DEF Others
<1> QED
  BY <1>4, <1>5, <1>6, <1>7

\* The goroutine s goes on with forwardLogs.
Goes(s, pc, inst, next, last, since) ==
    /\ fwd' \in [Services -> Forwarders] /\ Others(s)
    /\ fwd'[s].pc = pc /\ fwd'[s].inst = inst /\ fwd'[s].next = next
    /\ fwd'[s].last = last /\ fwd'[s].since = since
    /\ fwd'[s].exited = fwd[s].exited /\ fwd'[s].exitOf = fwd[s].exitOf

LEMMA Going ==
  ASSUME CommandShape, NEW s \in Services, NEW pc \in {"off", "connect", "read", "broken", "wait", "gone"},
         NEW inst \in Nat, NEW next \in Nat, NEW last \in Nat, NEW since \in Nat,
         fwd' = [fwd EXCEPT ![s] = [@ EXCEPT !.pc = pc, !.inst = inst, !.next = next, !.last = last,
                                             !.since = since]],
         UNCHANGED notifier
  PROVE  Goes(s, pc, inst, next, last, since)
<1> DEFINE g == [fwd[s] EXCEPT !.pc = pc, !.inst = inst, !.next = next, !.last = last, !.since = since]
<1>1. fwd \in [Services -> Forwarders] /\ fwd[s] \in Forwarders
  BY DEF CommandShape
<1>2. /\ g \in Forwarders /\ g.pc = pc /\ g.inst = inst /\ g.next = next /\ g.last = last
      /\ g.since = since /\ g.exited = fwd[s].exited /\ g.exitOf = fwd[s].exitOf
  BY <1>1 DEF Forwarders
<1>3. fwd' = [fwd EXCEPT ![s] = g]
  OBVIOUS
<1> HIDE DEF g
<1>4. fwd' \in [Services -> Forwarders] /\ fwd'[s] = g /\ Others(s)
  BY <1>1, <1>2, <1>3 DEF Others
<1> QED
  BY <1>2, <1>4 DEF Goes

\* What becomes of the rest of CommandShape.
LEMMA ShapeNext ==
  ASSUME CommandShape, Forwarder, fwd' \in [Services -> Forwarders],
         notifier' \in [Services -> Notifiers], combinedLogs' \in Seq(Entries),
         staleExit' \subseteq Services
  PROVE  CommandShape'
BY DEF CommandShape, Forwarder, printVars

LEMMA StatusSame ==
  ASSUME NEW s \in Services, NotifierOk(s), ExitOk(s), UNCHANGED <<container, watcher>>,
         notifier'[s] = notifier[s], fwd'[s].exited = fwd[s].exited, fwd'[s].exitOf = fwd[s].exitOf
  PROVE  NotifierOk(s)' /\ ExitOk(s)'
<1>1. Alive(s)' <=> Alive(s)
  BY DEF Alive
<1> QED
  BY <1>1 DEF NotifierOk, ExitOk

\* forwardLogs has returned; what is left to show is about what was sent.
LEMMA ReturnKeeps ==
  ASSUME LogsInv, NEW s \in Services, fwd[s].pc # "off", ForwardLogsReturns(s), Forwarder
  PROVE  LastOk(s)' /\ GapOk(s)' /\ NotifierOk(s)' /\ ExitOk(s)'
<1>1. CommandShape /\ WorldShape /\ ServiceOk(s)
  BY DEF LogsInv
<1>2. UNCHANGED <<container, written, follow, watcher>> /\ (Alive(s)' <=> Alive(s))
  BY DEF Forwarder, Alive
<1>3. /\ fwd'[s].pc = (IF follow THEN "wait" ELSE "gone")
      /\ fwd'[s].exited = FALSE /\ fwd'[s].exitOf = 0 /\ fwd'[s].last = 0
      /\ fwd'[s].inst = fwd[s].inst
      /\ notifier'[s].runningChan = (follow /\ notifier[s].phase # "RUNNING")
      /\ notifier'[s].phase = notifier[s].phase /\ notifier'[s].told = notifier[s].told
      /\ notifier'[s].exitedChan = notifier[s].exitedChan
  BY <1>1, AfterReturn
<1>4. follow \in BOOLEAN
  BY <1>1 DEF WorldShape
<1>5. LastOk(s)'
  BY <1>1, <1>2, <1>3, <1>4 DEF ServiceOk, LastOk
<1>6. GapOk(s)'
  BY <1>2, <1>3, <1>4 DEF GapOk, Forwarding
<1>7. NotifierOk(s)'
  BY <1>1, <1>2, <1>3, <1>4 DEF ServiceOk, NotifierOk
<1>8. ExitOk(s)'
  BY <1>3 DEF ExitOk
<1> QED
  BY <1>5, <1>6, <1>7, <1>8

\* Everything of the instance that is read was sent, and it writes no more.
LEMMA AllSentSame ==
  ASSUME NEW s \in Services, AllSent(s), UNCHANGED <<container, written>>,
         fwd'[s].inst = fwd[s].inst, SentLines \subseteq SentLines'
  PROVE  AllSent(s)'
BY DEF AllSent, Alive

\* After an error, which is the network's or the end of the stream.
LEMMA AfterErrorKeeps ==
  ASSUME LogsInv, NEW s \in Services, fwd[s].pc \in {"connect", "read"}, AfterError(s), Forwarder,
         breaks' \in Nat, SentLines' = SentLines, staleExit' = staleExit,
         breaks' # 0 \/ /\ breaks' = breaks /\ fwd[s].pc = "read"
                        /\ fwd[s].next > Len(written[s][fwd[s].inst])
                        /\ follow => fwd[s].inst # container[s].inst \/ ~Alive(s)
  PROVE  ServiceOk(s)' /\ fwd' \in [Services -> Forwarders] /\ notifier' \in [Services -> Notifiers]
         /\ Others(s)
<1>1. CommandShape /\ WorldShape /\ LinesInv /\ ServiceOk(s)
  BY DEF LogsInv
<1>2. UNCHANGED <<container, written, follow, watcher>> /\ (Alive(s)' <=> Alive(s))
  BY DEF Forwarder, Alive
<1>f. fwd[s] \in Forwarders /\ follow \in BOOLEAN /\ container[s].inst \in Nat
  BY <1>1 DEF CommandShape, WorldShape
<1>l. fwd[s].pc = "read" => /\ 1 <= fwd[s].inst /\ fwd[s].inst <= container[s].inst
                            /\ fwd[s].next <= Len(written[s][fwd[s].inst]) + 1
                            /\ Len(written[s][fwd[s].inst]) \in Nat
  <2> SUFFICES ASSUME fwd[s].pc = "read"
               PROVE  /\ 1 <= fwd[s].inst /\ fwd[s].inst <= container[s].inst
                      /\ fwd[s].next <= Len(written[s][fwd[s].inst]) + 1
                      /\ Len(written[s][fwd[s].inst]) \in Nat
    OBVIOUS
  <2>1. /\ 1 <= fwd[s].inst /\ fwd[s].inst <= container[s].inst
        /\ fwd[s].next <= Len(written[s][fwd[s].inst]) + 1
    BY <1>1 DEF ServiceOk, LastOk
  <2>2. Len(written[s]) = container[s].inst /\ written[s] \in Seq(Seq(Lines))
    BY <1>1 DEF LinesInv, WrittenInv, WorldShape
  <2>3. fwd[s].inst \in 1..Len(written[s])
    BY <1>f, <2>1, <2>2 DEF Forwarders
  <2> QED
    BY <2>1, <2>2, <2>3
<1>a. breaks' = 0 => /\ fwd[s].pc = "read" /\ breaks = 0
                     /\ \A m \in 1..Len(written[s][fwd[s].inst]) : m \in 1..(fwd[s].next - 1)
                     /\ follow => AllSent(s)
  <2> SUFFICES ASSUME breaks' = 0
               PROVE  /\ fwd[s].pc = "read" /\ breaks = 0
                      /\ \A m \in 1..Len(written[s][fwd[s].inst]) : m \in 1..(fwd[s].next - 1)
                      /\ follow => AllSent(s)
    OBVIOUS
  <2>1. fwd[s].pc = "read" /\ breaks = 0
    OBVIOUS
  <2>2. \A m \in 1..Len(written[s][fwd[s].inst]) : m \in 1..(fwd[s].next - 1)
    BY <1>l, <1>f, <2>1 DEF Forwarders
  <2>3. \A m \in 1..(fwd[s].next - 1) : written[s][fwd[s].inst][m] \in SentLines
    BY <1>1, <2>1 DEF ServiceOk, WholeOk
  <2>4. follow => fwd[s].inst < container[s].inst \/ ~Alive(s)
    BY <1>f, <1>l, <2>1 DEF Forwarders
  <2>5. follow => AllSent(s)
    BY <1>f, <1>l, <2>1, <2>2, <2>3, <2>4 DEF AllSent, Forwarders
  <2> QED
    BY <2>1, <2>2, <2>5
<1>3. CASE follow
  <2>1. UNCHANGED notifier
    BY <1>3 DEF AfterError
  <2>2. Goes(s, "broken", fwd[s].inst, 0, fwd[s].last, 0)
    <3>1. fwd' = [fwd EXCEPT ![s] = [fwd[s] EXCEPT !.pc = "broken", !.next = 0, !.since = 0]]
      BY <1>3 DEF AfterError, Forward
    <3>2. [fwd[s] EXCEPT !.pc = "broken", !.next = 0, !.since = 0] =
          [fwd[s] EXCEPT !.pc = "broken", !.inst = fwd[s].inst, !.next = 0, !.last = fwd[s].last, !.since = 0]
      BY <1>f DEF Forwarders
    <3>3. fwd[s].inst \in Nat /\ fwd[s].last \in Nat
      BY <1>f DEF Forwarders
    <3> QED
      BY <1>1, <2>1, <3>1, <3>2, <3>3, Going
  <2>3. /\ fwd'[s].pc = "broken" /\ fwd'[s].inst = fwd[s].inst /\ fwd'[s].last = fwd[s].last
        /\ fwd'[s].exited = fwd[s].exited /\ fwd'[s].exitOf = fwd[s].exitOf
        /\ fwd' \in [Services -> Forwarders] /\ Others(s)
    BY <2>2 DEF Goes
  <2>4. LastOk(s)'
    BY <1>1, <1>2, <1>3, <2>3 DEF ServiceOk, LastOk
  <2>5. GapOk(s)'
    BY <1>1, <1>2, <2>3 DEF ServiceOk, GapOk, Forwarding, Covered, SameTime
  <2>6. NotifierOk(s)' /\ ExitOk(s)'
    BY <1>1, <1>2, <2>1, <2>3, StatusSame DEF ServiceOk
  <2>7. FreshOk(s)'
    BY <1>1, <1>2, <2>3 DEF ServiceOk, FreshOk, Forwarding
  <2>8. WholeOk(s)'
    <3>1. breaks' = 0 => AllSent(s)'
      BY <1>2, <1>3, <1>a, <2>3, AllSentSame
    <3> QED
      BY <2>3, <3>1 DEF WholeOk
  <2>9. notifier' \in [Services -> Notifiers]
    BY <1>1, <2>1 DEF CommandShape
  <2> QED
    BY <2>3, <2>4, <2>5, <2>6, <2>7, <2>8, <2>9 DEF ServiceOk
<1>4. CASE ~follow
  <2>1. ForwardLogsReturns(s)
    BY <1>4 DEF AfterError
  <2>2. /\ fwd' \in [Services -> Forwarders] /\ notifier' \in [Services -> Notifiers] /\ Others(s)
        /\ fwd'[s].pc = "gone" /\ fwd'[s].inst = fwd[s].inst /\ fwd'[s].next = fwd[s].next
    BY <1>1, <1>4, <2>1, AfterReturn
  <2>3. LastOk(s)' /\ GapOk(s)' /\ NotifierOk(s)' /\ ExitOk(s)'
    BY <2>1, ReturnKeeps
  <2>4. FreshOk(s)'
    BY <2>2 DEF FreshOk, Forwarding
  <2>5. WholeOk(s)'
    <3> SUFFICES ASSUME breaks' = 0 PROVE WholeOk(s)'
      BY DEF WholeOk
    <3>1. fwd[s].pc = "read" /\ breaks = 0
      BY <1>a
    <3>2. \A m \in 1..(fwd[s].next - 1) : written[s][fwd[s].inst][m] \in SentLines
      BY <1>1, <3>1 DEF ServiceOk, WholeOk
    <3> QED
      BY <1>2, <1>4, <1>l, <2>2, <3>1, <3>2 DEF WholeOk
  <2> QED
    BY <2>2, <2>3, <2>4, <2>5 DEF ServiceOk
<1> QED
  BY <1>3, <1>4

LEMMA Breaks ==
  ASSUME LogsInv, NetworkFails \/ NetworkWorks
  PROVE  breaks' \in Nat /\ (breaks' = breaks \/ breaks' # 0) /\ (NetworkFails => breaks' # 0)
BY DEF LogsInv, WorldShape, NetworkFails, NetworkWorks

\* The lines of an instance there has been.
LEMMA LinesThere ==
  ASSUME WorldShape, WrittenInv, NEW s \in Services, NEW i \in Nat, 1 <= i, i <= container[s].inst
  PROVE  /\ i \in 1..Len(written[s]) /\ LinesOf(s, i) = written[s][i]
         /\ written[s][i] \in Seq(Lines) /\ Len(written[s][i]) \in Nat
         /\ DOMAIN written[s][i] = 1..Len(written[s][i])
<1>1. Len(written[s]) = container[s].inst /\ written[s] \in Seq(Seq(Lines)) /\ container[s].inst \in Nat
  BY DEF WrittenInv, WorldShape
<1>2. i \in 1..Len(written[s])
  BY <1>1
<1>3. i \in DOMAIN written[s] /\ written[s][i] \in Seq(Lines)
  BY <1>1, <1>2
<1> QED
  BY <1>2, <1>3 DEF LinesOf

\* Line m of instance i of s.
IsLine(s, i, m) ==
    LET l == written[s][i][m] IN
    /\ l \in Lines /\ l.at \in Nat /\ 1 <= l.at /\ l.at <= clock
    /\ l.svc = s /\ l.inst = i /\ l.n = m

LEMMA LineFacts ==
  ASSUME WorldShape, WrittenInv, NEW s \in Services, NEW i \in 1..Len(written[s]),
         NEW m \in 1..Len(written[s][i])
  PROVE  IsLine(s, i, m)
<1>1. written[s] \in Seq(Seq(Lines))
  BY DEF WorldShape
<1>2. written[s][i] \in Seq(Lines)
  BY <1>1
<1>3. written[s][i][m] \in Lines
  BY <1>2
<1>4. written[s][i][m].at \in Nat
  BY <1>3 DEF Lines
<1>5. LET l == written[s][i][m] IN l.svc = s /\ l.inst = i /\ l.n = m /\ 1 <= l.at /\ l.at <= clock
  BY Zenon DEF WrittenInv
<1> QED
  BY <1>3, <1>4, <1>5, Zenon DEF IsLine

LEMMA GetLogsFailsKeeps ==
  ASSUME LogsInv, NEW s \in Services, GetLogsFails(s)
  PROVE  LogsInv'
<1>1. /\ fwd[s].pc = "connect" /\ AfterError(s) /\ Forwarder /\ NetworkFails
      /\ UNCHANGED <<combinedLogs, staleExit>>
  BY DEF GetLogsFails
<1>2. breaks' \in Nat /\ breaks' # 0
  BY <1>1, Breaks
<1>3. SentLines' = SentLines => /\ ServiceOk(s)' /\ Others(s)
                                /\ fwd' \in [Services -> Forwarders] /\ notifier' \in [Services -> Notifiers]
  BY <1>1, <1>2, AfterErrorKeeps
<1>4. SentLines' = SentLines
  BY <1>1 DEF SentLines, Out, Forwarder, printVars
<1>5. CommandShape'
  BY <1>1, <1>3, <1>4, ShapeNext DEF LogsInv, CommandShape
<1> QED
  BY <1>1, <1>2, <1>3, <1>4, <1>5, ForwarderQuiet DEF Others

LEMMA StreamEndsKeeps ==
  ASSUME LogsInv, NEW s \in Services, StreamEnds(s)
  PROVE  LogsInv'
<1>1. /\ fwd[s].pc = "read" /\ AfterError(s) /\ Forwarder /\ NetworkWorks
      /\ fwd[s].next > Len(LinesOf(s, fwd[s].inst))
      /\ follow => fwd[s].inst # container[s].inst \/ ~Alive(s)
      /\ UNCHANGED <<combinedLogs, staleExit>>
  BY DEF StreamEnds
<1>2. breaks' \in Nat /\ breaks' = breaks
  BY <1>1, Breaks DEF NetworkWorks
<1>3. LinesOf(s, fwd[s].inst) = written[s][fwd[s].inst]
  <2>1. 1 <= fwd[s].inst /\ fwd[s].inst <= container[s].inst /\ fwd[s].inst \in Nat
    BY <1>1 DEF LogsInv, ServiceOk, LastOk, CommandShape, Forwarders
  <2> QED
    BY <2>1, LinesThere DEF LogsInv, LinesInv
<1>4. SentLines' = SentLines
  BY <1>1 DEF SentLines, Out, Forwarder, printVars
<1>5. /\ ServiceOk(s)' /\ Others(s)
      /\ fwd' \in [Services -> Forwarders] /\ notifier' \in [Services -> Notifiers]
  BY <1>1, <1>2, <1>3, <1>4, AfterErrorKeeps
<1>6. CommandShape'
  BY <1>1, <1>5, ShapeNext DEF LogsInv, CommandShape
<1> QED
  BY <1>1, <1>2, <1>5, <1>6, ForwarderQuiet DEF Others

LEMMA StreamBreaksKeeps ==
  ASSUME LogsInv, NEW s \in Services, StreamBreaks(s)
  PROVE  LogsInv'
<1>1. fwd[s].pc = "read" /\ AfterError(s) /\ Forwarder /\ NetworkFails /\ UNCHANGED staleExit
  BY DEF StreamBreaks
<1>2. breaks' \in Nat /\ breaks' # 0
  BY <1>1, Breaks
<1>3. UNCHANGED <<written, window, printed>> /\ staleExit' \subseteq Services
  BY <1>1 DEF Forwarder, printVars, LogsInv, CommandShape
<1>4. combinedLogs' \in Seq(Entries) /\ SentLines' = SentLines /\ OrderInv' /\ OnceInv'
  <2>1. CASE UNCHANGED combinedLogs
    <3>1. Out' = Out
      BY <1>3, <2>1 DEF Out
    <3> QED
      BY <1>1, <1>3, <2>1, <3>1, SameOut DEF LogsInv, CommandShape
  <2>2. CASE combinedLogs' # combinedLogs
    <3> DEFINE e == [line |-> LinesOf(s, fwd[s].inst)[fwd[s].next], whole |-> FALSE]
    <3>1. fwd[s].next <= Len(LinesOf(s, fwd[s].inst)) /\ combinedLogs' = Append(combinedLogs, e)
      BY <2>2 DEF StreamBreaks
    <3>2. /\ 1 <= fwd[s].inst /\ fwd[s].inst <= container[s].inst /\ fwd[s].inst \in Nat
          /\ 1 <= fwd[s].next /\ fwd[s].next \in Nat
      BY <1>1 DEF LogsInv, ServiceOk, LastOk, CommandShape, Forwarders
    <3>3. LinesOf(s, fwd[s].inst) \in Seq(Lines)
      BY <3>2, LinesThere DEF LogsInv, LinesInv
    <3>4. LinesOf(s, fwd[s].inst)[fwd[s].next] \in Lines
      BY <3>1, <3>2, <3>3
    <3>5. e \in Entries /\ ~e.whole
      BY <3>4 DEF Entries
    <3> HIDE DEF e
    <3>6. Out' = Append(Out, e)
      BY <1>3, <3>1, <3>5, SendAppends DEF LogsInv
    <3>7. SentLines' = SentLines /\ OrderInv' /\ OnceInv'
      <4>1. SentLines' = SentLines \cup (IF e.whole THEN {e.line} ELSE {}) /\ OrderInv' /\ OnceInv'
        BY <1>1, <1>3, <3>5, <3>6, AppendKeeps DEF LogsInv
      <4> QED
        BY <3>5, <4>1
    <3>8. combinedLogs' \in Seq(Entries)
      BY <3>1, <3>5 DEF LogsInv, CommandShape
    <3> QED
      BY <3>7, <3>8
  <2> QED
    BY <2>1, <2>2
<1>5. /\ ServiceOk(s)' /\ Others(s)
      /\ fwd' \in [Services -> Forwarders] /\ notifier' \in [Services -> Notifiers]
  BY <1>1, <1>2, <1>4, AfterErrorKeeps
<1>6. CommandShape'
  BY <1>1, <1>3, <1>4, <1>5, ShapeNext DEF LogsInv
<1> QED
  BY <1>1, <1>2, <1>4, <1>5, <1>6, ForwarderKeeps DEF Others

LEMMA ReconnectKeeps ==
  ASSUME LogsInv, NEW s \in Services, Reconnect(s)
  PROVE  LogsInv'
<1>1. /\ fwd[s].pc = "broken" /\ Forwarder /\ NetworkWorks
      /\ UNCHANGED <<notifier, combinedLogs, staleExit>>
  BY DEF Reconnect, Quiet
<1>2. breaks' \in Nat /\ breaks' = breaks
  BY <1>1, Breaks DEF NetworkWorks
<1>3. /\ CommandShape /\ fwd[s] \in Forwarders /\ ServiceOk(s)
      /\ UNCHANGED <<container, written, follow, watcher>> /\ (Alive(s)' <=> Alive(s))
  BY <1>1 DEF LogsInv, CommandShape, Forwarder, Alive
<1>4. Goes(s, "connect", fwd[s].inst, fwd[s].next, fwd[s].last, fwd[s].since)
  <2>1. fwd' = [fwd EXCEPT ![s] = [fwd[s] EXCEPT !.pc = "connect"]]
    BY DEF Reconnect, Forward
  <2>2. [fwd[s] EXCEPT !.pc = "connect"] =
        [fwd[s] EXCEPT !.pc = "connect", !.inst = fwd[s].inst, !.next = fwd[s].next, !.last = fwd[s].last,
                       !.since = fwd[s].since]
    BY <1>3 DEF Forwarders
  <2>3. fwd[s].inst \in Nat /\ fwd[s].next \in Nat /\ fwd[s].last \in Nat /\ fwd[s].since \in Nat
    BY <1>3 DEF Forwarders
  <2> QED
    BY <1>1, <1>3, <2>1, <2>2, <2>3, Going
<1>5. /\ fwd'[s].pc = "connect" /\ fwd'[s].inst = fwd[s].inst /\ fwd'[s].last = fwd[s].last
      /\ fwd'[s].exited = fwd[s].exited /\ fwd'[s].exitOf = fwd[s].exitOf
      /\ fwd' \in [Services -> Forwarders] /\ Others(s)
  BY <1>4 DEF Goes
<1>6. ASSUME SentLines' = SentLines PROVE ServiceOk(s)'
  <2>4. LastOk(s)'
    BY <1>3, <1>5 DEF ServiceOk, LastOk
  <2>5. GapOk(s)'
    BY <1>1, <1>3, <1>5, <1>6 DEF ServiceOk, GapOk, Forwarding, Covered, SameTime
  <2>6. NotifierOk(s)' /\ ExitOk(s)'
    BY <1>1, <1>3, <1>5, StatusSame DEF ServiceOk
  <2>7. FreshOk(s)'
    BY <1>1, <1>3, <1>5, <1>6 DEF ServiceOk, FreshOk, Forwarding
  <2>8. WholeOk(s)'
    <3>1. breaks = 0 => AllSent(s)
      BY <1>1, <1>3 DEF ServiceOk, WholeOk
    <3>2. breaks' = 0 => AllSent(s)'
      BY <1>2, <1>3, <1>5, <1>6, <3>1, AllSentSame
    <3> QED
      BY <1>5, <3>2 DEF WholeOk
  <2> QED
    BY <2>4, <2>5, <2>6, <2>7, <2>8 DEF ServiceOk
<1>7. CommandShape'
  BY <1>1, <1>3, <1>5, ShapeNext DEF CommandShape
<1> QED
  BY <1>1, <1>2, <1>5, <1>6, <1>7, ForwarderQuiet DEF Others

LEMMA PodExitedKeeps ==
  ASSUME LogsInv, NEW s \in Services, PodExited(s)
  PROVE  LogsInv'
<1>1. /\ fwd[s].pc = "broken" /\ fwd[s].exited /\ ForwardLogsReturns(s) /\ Forwarder /\ NetworkWorks
      /\ staleExit' = (IF fwd[s].exitOf = fwd[s].inst THEN staleExit ELSE staleExit \cup {s})
      /\ UNCHANGED combinedLogs
  BY DEF PodExited
<1>2. breaks' \in Nat /\ breaks' = breaks
  BY <1>1, Breaks DEF NetworkWorks
<1>3. /\ CommandShape /\ WorldShape /\ SentInv /\ WrittenInv /\ fwd[s] \in Forwarders /\ ServiceOk(s)
      /\ UNCHANGED <<container, written, follow, watcher>> /\ (Alive(s)' <=> Alive(s))
  BY <1>1 DEF LogsInv, LinesInv, CommandShape, Forwarder, Alive
<1>4. follow
  BY <1>1, <1>3 DEF ServiceOk, LastOk
<1>5. /\ fwd' \in [Services -> Forwarders] /\ notifier' \in [Services -> Notifiers] /\ Others(s)
      /\ fwd'[s].pc = "wait" /\ fwd'[s].running = (notifier[s].phase = "RUNNING")
      /\ fwd'[s].inst = fwd[s].inst
  BY <1>1, <1>3, <1>4, AfterReturn
<1>6. ASSUME SentLines' = SentLines PROVE ServiceOk(s)'
  <2>1. LastOk(s)' /\ GapOk(s)' /\ NotifierOk(s)' /\ ExitOk(s)'
    BY <1>1, ReturnKeeps
  <2>2. FreshOk(s)'
    <3> SUFFICES ASSUME s \notin staleExit', NEW l \in SentLines, l.svc = s
                 PROVE  /\ fwd'[s].running => l.inst < container[s].inst
                        /\ ~fwd'[s].running /\ watcher # "ended" /\ l.inst = container[s].inst
                             => ~Alive(s)
      BY <1>3, <1>5, <1>6 DEF FreshOk, Forwarding
    <3>1. s \notin staleExit /\ fwd[s].exitOf = fwd[s].inst
      BY <1>1
    <3>2. fwd[s].inst # 0 => l.inst <= fwd[s].inst
      BY <1>1, <1>3, <3>1 DEF ServiceOk, FreshOk, Forwarding
    <3>3. l.inst \in Nat /\ container[s].inst \in Nat /\ fwd[s].inst \in Nat
      BY <1>3 DEF SentInv, WorldShape, Forwarders
    <3>4. fwd[s].exitOf = 0 => watcher = "ended"
      BY <1>1, <1>3 DEF ServiceOk, ExitOk
    <3>5. watcher = "ended" => notifier[s].phase = "EXITED"
      BY <1>3 DEF ServiceOk, NotifierOk
    <3>6. fwd[s].exitOf # 0 => /\ fwd[s].exitOf <= container[s].inst
                               /\ fwd[s].exitOf = container[s].inst => ~Alive(s)
                               /\ notifier[s].phase = "RUNNING" => fwd[s].exitOf < container[s].inst
      BY <1>3 DEF ServiceOk, ExitOk
    <3>7. fwd'[s].running => l.inst < container[s].inst
      <4>1. fwd'[s].running => notifier[s].phase = "RUNNING"
        BY <1>5, Zenon
      <4>2. notifier[s].phase = "RUNNING" => fwd[s].exitOf # 0
        BY <3>4, <3>5
      <4>3. notifier[s].phase = "RUNNING" => l.inst < container[s].inst
        BY <3>1, <3>2, <3>3, <3>6, <4>2
      <4> QED
        BY <4>1, <4>3
    <3>8. watcher # "ended" /\ l.inst = container[s].inst => ~Alive(s)
      BY <3>1, <3>2, <3>3, <3>4, <3>6
    <3> QED
      BY <3>7, <3>8
  <2>3. WholeOk(s)'
    <3>1. breaks = 0 => AllSent(s)
      BY <1>1, <1>3 DEF ServiceOk, WholeOk
    <3>2. breaks' = 0 => AllSent(s)'
      BY <1>2, <1>3, <1>5, <1>6, <3>1, AllSentSame
    <3> QED
      BY <1>5, <3>2 DEF WholeOk
  <2> QED
    BY <2>1, <2>2, <2>3 DEF ServiceOk
<1>7. CommandShape'
  BY <1>1, <1>3, <1>5, ShapeNext DEF CommandShape
<1> QED
  BY <1>1, <1>2, <1>5, <1>6, <1>7, ForwarderQuiet DEF Others

LEMMA CancelledKeeps ==
  ASSUME LogsInv, NEW s \in Services, Cancelled(s)
  PROVE  LogsInv'
<1>1. /\ fwd[s].pc \in {"broken", "wait"} /\ Forwarder /\ NetworkWorks
      /\ UNCHANGED <<notifier, combinedLogs, staleExit>>
  BY DEF Cancelled
<1>2. breaks' \in Nat /\ breaks' = breaks
  BY <1>1, Breaks DEF NetworkWorks
<1>3. /\ CommandShape /\ fwd[s] \in Forwarders /\ ServiceOk(s)
      /\ UNCHANGED <<container, written, follow, watcher>> /\ (Alive(s)' <=> Alive(s))
  BY <1>1 DEF LogsInv, CommandShape, Forwarder, Alive
<1>4. Goes(s, "gone", fwd[s].inst, fwd[s].next, fwd[s].last, fwd[s].since)
  <2>1. fwd' = [fwd EXCEPT ![s] = [fwd[s] EXCEPT !.pc = "gone"]]
    BY DEF Cancelled, Forward
  <2>2. [fwd[s] EXCEPT !.pc = "gone"] =
        [fwd[s] EXCEPT !.pc = "gone", !.inst = fwd[s].inst, !.next = fwd[s].next, !.last = fwd[s].last,
                       !.since = fwd[s].since]
    BY <1>3 DEF Forwarders
  <2>3. fwd[s].inst \in Nat /\ fwd[s].next \in Nat /\ fwd[s].last \in Nat /\ fwd[s].since \in Nat
    BY <1>3 DEF Forwarders
  <2> QED
    BY <1>1, <1>3, <2>1, <2>2, <2>3, Going
<1>5. /\ fwd'[s].pc = "gone" /\ fwd'[s].inst = fwd[s].inst /\ fwd'[s].last = fwd[s].last
      /\ fwd'[s].exited = fwd[s].exited /\ fwd'[s].exitOf = fwd[s].exitOf
      /\ fwd' \in [Services -> Forwarders] /\ Others(s)
  BY <1>4 DEF Goes
<1>6. ASSUME SentLines' = SentLines PROVE ServiceOk(s)'
  <2>1. LastOk(s)'
    BY <1>3, <1>5 DEF ServiceOk, LastOk
  <2>2. GapOk(s)' /\ FreshOk(s)'
    BY <1>5 DEF GapOk, FreshOk, Forwarding
  <2>3. NotifierOk(s)' /\ ExitOk(s)'
    BY <1>1, <1>3, <1>5, StatusSame DEF ServiceOk
  <2>4. WholeOk(s)'
    <3>1. follow /\ (breaks = 0 => AllSent(s))
      BY <1>1, <1>3 DEF ServiceOk, LastOk, WholeOk
    <3>2. breaks' = 0 => AllSent(s)'
      BY <1>2, <1>3, <1>5, <1>6, <3>1, AllSentSame
    <3> QED
      BY <1>3, <1>5, <3>1, <3>2 DEF WholeOk
  <2> QED
    BY <2>1, <2>2, <2>3, <2>4 DEF ServiceOk
<1>7. CommandShape'
  BY <1>1, <1>3, <1>5, ShapeNext DEF CommandShape
<1> QED
  BY <1>1, <1>2, <1>5, <1>6, <1>7, ForwarderQuiet DEF Others

\* forwardLogs starts for a service of notifier n; the exit it is told of, if any,
\* is the one the notifier was told of.
LEMMA Called ==
  ASSUME NEW n \in Notifiers, follow \in BOOLEAN
  PROVE  LET g == CallForwardLogs(n) IN
         /\ g \in Forwarders /\ g.pc = "connect" /\ g.inst = 0 /\ g.last = 0
         /\ g.exited = (follow /\ n.phase = "EXITED")
         /\ g.exitOf = (IF n.phase = "EXITED" THEN n.told ELSE 0)
BY DEF CallForwardLogs, NotForwarding, Forwarders, Notifiers, phaseExited

LEMMA CalledExited ==
  ASSUME NEW n \in Notifiers
  PROVE  /\ Exited(n) \in Notifiers /\ Exited(n).exitedChan = (n.phase # "EXITED")
         /\ Exited(n).phase = n.phase /\ Exited(n).told = n.told /\ Exited(n).runningChan = n.runningChan
BY DEF Exited, Notifiers, phaseExited

LEMMA RestartedKeeps ==
  ASSUME LogsInv, NEW s \in Services, Restarted(s)
  PROVE  LogsInv'
<1>1. /\ fwd[s].pc = "wait" /\ fwd[s].running /\ Forwarder /\ NetworkWorks
      /\ notifier' = [notifier EXCEPT ![s] = Exited(notifier[s])]
      /\ fwd' = [fwd EXCEPT ![s] = CallForwardLogs(notifier[s])]
      /\ UNCHANGED <<combinedLogs, staleExit>>
  BY DEF Restarted, Forward
<1>2. breaks' \in Nat /\ breaks' = breaks
  BY <1>1, Breaks DEF NetworkWorks
<1>3. /\ CommandShape /\ fwd \in [Services -> Forwarders] /\ notifier \in [Services -> Notifiers]
      /\ notifier[s] \in Notifiers /\ ServiceOk(s) /\ follow \in BOOLEAN /\ container[s].inst \in Nat
      /\ UNCHANGED <<container, written, follow, watcher>> /\ (Alive(s)' <=> Alive(s))
  BY <1>1 DEF LogsInv, CommandShape, WorldShape, Forwarder, Alive
<1>4. /\ fwd' \in [Services -> Forwarders] /\ notifier' \in [Services -> Notifiers] /\ Others(s)
      /\ fwd'[s] = CallForwardLogs(notifier[s]) /\ notifier'[s] = Exited(notifier[s])
  BY <1>1, <1>3, Called, CalledExited DEF Others
<1>5. /\ fwd'[s].pc = "connect" /\ fwd'[s].inst = 0 /\ fwd'[s].last = 0
      /\ fwd'[s].exited = (follow /\ notifier[s].phase = "EXITED")
      /\ fwd'[s].exitOf = (IF notifier[s].phase = "EXITED" THEN notifier[s].told ELSE 0)
  BY <1>3, <1>4, Called
<1>6. /\ notifier'[s].exitedChan = (notifier[s].phase # "EXITED")
      /\ notifier'[s].phase = notifier[s].phase /\ notifier'[s].told = notifier[s].told
      /\ notifier'[s].runningChan = notifier[s].runningChan
  BY <1>3, <1>4, CalledExited
<1>7. ASSUME SentLines' = SentLines PROVE ServiceOk(s)'
  <2>1. LastOk(s)'
    BY <1>3, <1>5 DEF LastOk
  <2>2. GapOk(s)'
    BY <1>5 DEF GapOk
  <2>3. NotifierOk(s)'
    BY <1>3, <1>6 DEF ServiceOk, NotifierOk
  <2>4. ExitOk(s)'
    BY <1>3, <1>5, <1>6 DEF ServiceOk, NotifierOk, ExitOk
  <2>5. FreshOk(s)'
    BY <1>1, <1>3, <1>5, <1>7 DEF ServiceOk, FreshOk
  <2>6. WholeOk(s)'
    BY <1>5 DEF WholeOk
  <2> QED
    BY <2>1, <2>2, <2>3, <2>4, <2>5, <2>6 DEF ServiceOk
<1>8. CommandShape'
  BY <1>1, <1>3, <1>4, ShapeNext DEF CommandShape
<1> QED
  BY <1>1, <1>2, <1>4, <1>7, <1>8, ForwarderQuiet DEF Others

\* A line of the instance that runs is later than the last message, if that is of
\* an earlier instance.
LEMMA LaterThanLast ==
  ASSUME WorldShape, WrittenInv, TimeInv, NEW s \in Services, LastOk(s), fwd[s] \in Forwarders,
         fwd[s].inst < container[s].inst, NEW m \in 1..Len(written[s][container[s].inst])
  PROVE  fwd[s].last < written[s][container[s].inst][m].at
<1> DEFINE c == container[s].inst
           last == fwd[s].last
<1>1. c \in Nat /\ 1 <= c /\ fwd[s].inst \in Nat /\ last \in Nat /\ Len(written[s]) = c
  BY DEF WorldShape, Forwarders, WrittenInv
<1>2. /\ written[s][c] \in Seq(Lines) /\ c \in 1..Len(written[s])
  BY <1>1, LinesThere
<1>3. written[s][c][m].at \in Nat /\ 1 <= written[s][c][m].at
  <2>1. written[s][c][m] \in Lines
    BY <1>2
  <2>2. 1 <= written[s][c][m].at
    BY <1>2 DEF WrittenInv
  <2> QED
    BY <2>1, <2>2 DEF Lines
<1>4. CASE last = 0
  BY <1>3, <1>4
<1>5. CASE last # 0
  <2>1. PICK j \in 1..fwd[s].inst : \E k \in 1..Len(written[s][j]) : written[s][j][k].at = last
    BY <1>5 DEF LastOk
  <2>2. PICK k \in 1..Len(written[s][j]) : written[s][j][k].at = last
    BY <2>1
  <2>3. j \in 1..Len(written[s]) /\ j < c
    BY <1>1
  <2>4. written[s][j][k].at < written[s][c][m].at
    BY <1>2, <2>2, <2>3 DEF TimeInv
  <2> QED
    BY <2>2, <2>4
<1> QED
  BY <1>4, <1>5

LEMMA GetLogsKeeps ==
  ASSUME LogsInv, NEW s \in Services, GetLogs(s)
  PROVE  LogsInv'
<1> DEFINE f == fwd[s]
           c == container[s].inst
           w == written[s][c]
<1>1. /\ f.pc = "connect" /\ Forwarder /\ NetworkWorks
      /\ UNCHANGED <<notifier, combinedLogs, staleExit>>
  BY DEF GetLogs, Quiet
<1>2. breaks' \in Nat /\ breaks' = breaks
  BY <1>1, Breaks DEF NetworkWorks
<1>3. /\ CommandShape /\ WorldShape /\ WrittenInv /\ TimeInv /\ SentInv /\ f \in Forwarders
      /\ ServiceOk(s) /\ UNCHANGED <<container, written, follow, watcher>> /\ (Alive(s)' <=> Alive(s))
  BY <1>1 DEF LogsInv, LinesInv, CommandShape, Forwarder, Alive
<1>c. c \in Nat /\ 1 <= c /\ f.inst \in Nat /\ f.last \in Nat /\ f.inst <= c
  BY <1>3 DEF WorldShape, Forwarders, ServiceOk, LastOk
<1>w. LinesOf(s, c) = w /\ w \in Seq(Lines) /\ Len(w) \in Nat /\ DOMAIN w = 1..Len(w) /\ c \in 1..Len(written[s])
  BY <1>3, <1>c, LinesThere, SMTT(30)
<1>4. PICK next \in 1..(Len(w) + 1) :
        /\ \A m \in 1..Len(w) : m < next <=> w[m].at \div Second < f.last \div Second
        /\ fwd' = [fwd EXCEPT ![s] = [f EXCEPT !.pc = "read", !.since = f.last, !.inst = c, !.next = next]]
  BY <1>w DEF GetLogs, Forward
<1>5. Goes(s, "read", c, next, f.last, f.last)
  <2>1. [f EXCEPT !.pc = "read", !.since = f.last, !.inst = c, !.next = next] =
        [f EXCEPT !.pc = "read", !.inst = c, !.next = next, !.last = f.last, !.since = f.last]
    BY <1>3 DEF Forwarders
  <2>2. next \in Nat
    BY <1>w
  <2> QED
    BY <1>1, <1>3, <1>4, <1>c, <2>1, <2>2, Going
<1>6. /\ fwd'[s].pc = "read" /\ fwd'[s].inst = c /\ fwd'[s].next = next
      /\ fwd'[s].last = f.last /\ fwd'[s].since = f.last
      /\ fwd'[s].exited = fwd[s].exited /\ fwd'[s].exitOf = fwd[s].exitOf
      /\ fwd' \in [Services -> Forwarders] /\ Others(s)
  BY <1>5 DEF Goes
<1>7. \A m \in 1..Len(w) : m < next => w[m].at < f.last
  <2> SUFFICES ASSUME NEW m \in 1..Len(w), m < next PROVE w[m].at < f.last
    OBVIOUS
  <2>1. w[m].at \in Nat
    <3>1. w[m] \in Lines
      BY <1>w
    <3> QED
      BY <3>1 DEF Lines
  <2>2. w[m].at \div Second < f.last \div Second
    BY <1>4
  <2> QED
    BY <1>c, <2>1, <2>2, SecondsAgree
<1>8. \A m \in 1..Len(w) : w[m].at \in Nat /\ (w[m].at <= f.last => f.inst = c)
  <2> SUFFICES ASSUME NEW m \in 1..Len(w) PROVE w[m].at \in Nat /\ (w[m].at <= f.last => f.inst = c)
    OBVIOUS
  <2>1. w[m].at \in Nat
    <3>1. w[m] \in Lines
      BY <1>w
    <3> QED
      BY <3>1 DEF Lines
  <2>2. f.inst < c => f.last < w[m].at
    BY <1>3, LaterThanLast DEF ServiceOk
  <2> QED
    BY <1>c, <2>1, <2>2
<1> HIDE DEF w, c
<1>9. ASSUME SentLines' = SentLines PROVE ServiceOk(s)'
  <2>1. LastOk(s)'
    <3>1. f.last # 0 => \E j \in 1..c : \E m \in 1..Len(written[s][j]) : written[s][j][m].at = f.last
      <4>1. \A j \in 1..f.inst : j \in 1..c
        BY <1>c
      <4> QED
        BY <1>3, <4>1 DEF ServiceOk, LastOk
    <3>2. 1 <= next /\ next <= Len(w) + 1
      BY <1>w
    <3> QED
      BY <1>3, <1>6, <1>c, <3>1, <3>2 DEF LastOk, c, w
  <2>2. GapOk(s)'
    <3> SUFFICES ASSUME NEW m \in 1..Len(w), w[m].at <= f.last PROVE Covered(s, c, m)
      <4>1. \A m \in 1..Len(w) : m < next => w[m].at <= f.last
        BY <1>7, <1>8, <1>c
      <4> QED
        BY <1>3, <1>6, <1>9, <4>1 DEF GapOk, Covered, SameTime, w
    <3>1. f.inst = c
      BY <1>8
    <3> QED
      BY <1>1, <1>3, <1>c, <3>1 DEF ServiceOk, GapOk, Forwarding, w
  <2>3. NotifierOk(s)' /\ ExitOk(s)'
    BY <1>1, <1>3, <1>6, StatusSame DEF ServiceOk
  <2>4. FreshOk(s)'
    <3> SUFFICES ASSUME s \notin staleExit, NEW l \in SentLines, l.svc = s
                 PROVE  /\ l.inst < c \/ l.at <= f.last
                        /\ l.inst <= c
                        /\ l.inst = c => l.at <= f.last
      BY <1>1, <1>3, <1>6, <1>9 DEF FreshOk, Forwarding, c
    <3>1. l.inst < c \/ l.at <= f.last
      BY <1>1, <1>3 DEF ServiceOk, FreshOk, Forwarding, c
    <3>2. l.inst \in 1..Len(written[s]) /\ Len(written[s]) = c
      BY <1>3 DEF SentInv, WrittenInv, c
    <3> QED
      BY <1>c, <3>1, <3>2
  <2>5. WholeOk(s)'
    <3> SUFFICES ASSUME breaks = 0
                 PROVE  /\ \A m \in 1..(next - 1) : w[m] \in SentLines
                        /\ \/ f.last = 0
                           \/ AllSent(s)'
                           \/ \E j \in 1..(c - 1) : \E m \in 1..Len(written[s][j]) :
                                written[s][j][m].at = f.last
      BY <1>2, <1>3, <1>6, <1>9 DEF WholeOk, c, w
    <3>0. \A m \in 1..(next - 1) : m \in 1..Len(w) /\ m < next
      BY <1>w
    <3>1. (f.inst = 0 /\ f.last = 0) \/ AllSent(s)
      BY <1>1, <1>3 DEF ServiceOk, WholeOk
    <3>2. CASE f.inst = 0 /\ f.last = 0
      <4>1. \A m \in 1..Len(w) : ~(m < next)
        BY <1>7, <1>8, <3>2
      <4> QED
        BY <3>0, <3>2, <4>1
    <3>3. CASE AllSent(s) /\ f.inst = c
      <4>1. AllSent(s)'
        BY <1>3, <1>6, <1>9, <3>3, AllSentSame
      <4>2. \A m \in 1..Len(w) : w[m] \in SentLines
        BY <3>3 DEF AllSent, w
      <4> QED
        BY <3>0, <4>1, <4>2
    <3>4. CASE f.inst < c
      <4>1. \A m \in 1..Len(w) : ~(m < next)
        BY <1>7, <1>8, <1>c, <3>4
      <4>2. f.last = 0 \/ \E j \in 1..f.inst : \E m \in 1..Len(written[s][j]) : written[s][j][m].at = f.last
        BY <1>3 DEF ServiceOk, LastOk
      <4>3. \A j \in 1..f.inst : j \in 1..(c - 1)
        BY <1>c, <3>4
      <4> QED
        BY <3>0, <4>1, <4>2, <4>3
    <3> QED
      BY <1>c, <3>1, <3>2, <3>3, <3>4
  <2> QED
    BY <2>1, <2>2, <2>3, <2>4, <2>5 DEF ServiceOk
<1>10. CommandShape'
  BY <1>1, <1>3, <1>6, ShapeNext DEF CommandShape
<1> QED
  BY <1>1, <1>2, <1>6, <1>9, <1>10, ForwarderQuiet DEF Others

LEMMA LaterOf ==
  ASSUME NEW a \in Nat, NEW b \in Nat
  PROVE  Max({a, b}) = (IF a >= b THEN a ELSE b)
<1>1. \E x \in {a, b} : \A y \in {a, b} : x >= y
  OBVIOUS
<1>2. Max({a, b}) \in {a, b} /\ \A y \in {a, b} : Max({a, b}) >= y
  BY <1>1 DEF Max
<1> QED
  BY <1>2

LEMMA ReadLineKeeps ==
  ASSUME LogsInv, NEW s \in Services, ReadLine(s)
  PROVE  LogsInv'
<1> DEFINE f == fwd[s]
           w == written[s][f.inst]
           line == w[f.next]
<1>1. /\ f.pc = "read" /\ Forwarder /\ NetworkWorks /\ UNCHANGED <<notifier, staleExit>>
  BY DEF ReadLine
<1>2. breaks' \in Nat /\ breaks' = breaks
  BY <1>1, Breaks DEF NetworkWorks
<1>3. /\ CommandShape /\ WorldShape /\ WrittenInv /\ TimeInv /\ SentInv /\ f \in Forwarders
      /\ ServiceOk(s) /\ UNCHANGED <<container, written, follow, watcher>> /\ (Alive(s)' <=> Alive(s))
  BY <1>1 DEF LogsInv, LinesInv, CommandShape, Forwarder, Alive
<1>f. /\ f.inst \in Nat /\ f.last \in Nat /\ f.next \in Nat /\ f.since \in Nat /\ f.inst <= container[s].inst
      /\ 1 <= f.inst /\ 1 <= f.next /\ f.since <= f.last
  BY <1>1, <1>3 DEF Forwarders, ServiceOk, LastOk
<1>w. /\ LinesOf(s, f.inst) = w /\ w \in Seq(Lines) /\ Len(w) \in Nat /\ f.inst \in 1..Len(written[s])
      /\ Len(written[s]) = container[s].inst
  <2>1. Len(written[s]) = container[s].inst
    BY <1>3 DEF WrittenInv
  <2> QED
    BY <1>3, <1>f, <2>1, LinesThere
<1>4. f.next \in 1..Len(w)
  BY <1>f, <1>w DEF ReadLine
<1>m. \A m \in 1..Len(w) : /\ w[m] \in Lines /\ w[m].at \in Nat /\ 1 <= w[m].at
                           /\ w[m].svc = s /\ w[m].inst = f.inst /\ w[m].n = m
  <2> SUFFICES ASSUME NEW m \in 1..Len(w)
               PROVE  /\ w[m] \in Lines /\ w[m].at \in Nat /\ 1 <= w[m].at
                      /\ w[m].svc = s /\ w[m].inst = f.inst /\ w[m].n = m
    OBVIOUS
  <2>1. WorldShape /\ WrittenInv /\ f.inst \in 1..Len(written[s])
    BY <1>3, <1>w
  <2>2. IsLine(s, f.inst, m)
    BY <2>1, LineFacts
  <2> QED
    BY <2>2 DEF IsLine
<1>o. \A m, n \in 1..Len(w) : m <= n => w[m].at <= w[n].at
  BY <1>3, <1>w DEF TimeInv
<1>g. \A m \in 1..Len(w) : w[m].at <= f.last \/ m < f.next => Covered(s, f.inst, m)
  BY <1>1, <1>3, <1>f DEF ServiceOk, GapOk, Forwarding
<1>h. breaks = 0 => /\ \A m \in 1..(f.next - 1) : w[m] \in SentLines
                    /\ \/ f.since = 0
                       \/ AllSent(s)
                       \/ \E j \in 1..(f.inst - 1) : \E m \in 1..Len(written[s][j]) :
                            written[s][j][m].at = f.since
  BY <1>1, <1>3 DEF ServiceOk, WholeOk
<1>n. \A m \in 1..f.next : m \in 1..(f.next - 1) \/ m = f.next
  BY <1>f
<1>5. CASE line.at <= f.since
  <2>1. /\ fwd' = [fwd EXCEPT ![s] = [f EXCEPT !.next = f.next + 1]] /\ UNCHANGED combinedLogs
    BY <1>5, <1>w DEF ReadLine, Forward
  <2>2. Goes(s, "read", f.inst, f.next + 1, f.last, f.since)
    <3>1. [f EXCEPT !.next = f.next + 1] =
          [f EXCEPT !.pc = "read", !.inst = f.inst, !.next = f.next + 1, !.last = f.last, !.since = f.since]
      BY <1>1, <1>3 DEF Forwarders
    <3>2. f.next + 1 \in Nat
      BY <1>f
    <3> QED
      BY <1>1, <1>3, <1>f, <2>1, <3>1, <3>2, Going
  <2>3. /\ fwd'[s].pc = "read" /\ fwd'[s].inst = f.inst /\ fwd'[s].next = f.next + 1
        /\ fwd'[s].last = f.last /\ fwd'[s].since = f.since
        /\ fwd'[s].exited = fwd[s].exited /\ fwd'[s].exitOf = fwd[s].exitOf
        /\ fwd' \in [Services -> Forwarders] /\ Others(s)
    BY <2>2 DEF Goes
  <2> HIDE DEF w
  <2>4. ASSUME SentLines' = SentLines PROVE ServiceOk(s)'
    <3>1. LastOk(s)'
      <4>1. 1 <= f.next + 1 /\ f.next + 1 <= Len(w) + 1
        BY <1>4, <1>f, <1>w
      <4> QED
        BY <1>1, <1>3, <1>f, <2>3, <4>1 DEF ServiceOk, LastOk, w
    <3>2. GapOk(s)'
      <4> SUFFICES ASSUME NEW m \in 1..Len(w), w[m].at <= f.last \/ m < f.next + 1
                   PROVE  Covered(s, f.inst, m)
        BY <1>3, <2>3, <2>4 DEF GapOk, Covered, SameTime, w
      <4>1. CASE m = f.next
        <5>1. w[m].at <= f.last
          BY <1>5, <1>f, <1>m, <4>1
        <5> QED
          BY <1>g, <5>1
      <4>2. CASE m # f.next
        BY <1>f, <1>g, <4>2
      <4> QED
        BY <4>1, <4>2
    <3>3. NotifierOk(s)' /\ ExitOk(s)'
      BY <1>1, <1>3, <2>3, StatusSame DEF ServiceOk
    <3>4. FreshOk(s)'
      <4> SUFFICES ASSUME s \notin staleExit, NEW l \in SentLines, l.svc = s
                   PROVE  /\ l.inst < container[s].inst \/ l.at <= f.last
                          /\ l.inst <= f.inst
                          /\ l.inst = f.inst => l.at <= f.since \/ l.n < f.next + 1
        BY <1>1, <1>3, <2>3, <2>4 DEF FreshOk, Forwarding
      <4>1. /\ l.inst < container[s].inst \/ l.at <= f.last
            /\ l.inst <= f.inst
            /\ l.inst = f.inst => l.at <= f.since \/ l.n < f.next
        BY <1>1, <1>3, <1>f DEF ServiceOk, FreshOk, Forwarding
      <4>2. l.n \in 1..Len(written[s][l.inst]) /\ l.inst \in 1..Len(written[s])
        BY <1>3 DEF SentInv
      <4>3. l.inst = f.inst => l.n \in Nat
        BY <1>w, <4>2 DEF w
      <4> QED
        BY <1>f, <4>1, <4>3
    <3>5. WholeOk(s)'
      <4> SUFFICES ASSUME breaks = 0
                   PROVE  /\ \A m \in 1..f.next : w[m] \in SentLines
                          /\ \/ f.since = 0
                             \/ AllSent(s)'
                             \/ \E j \in 1..(f.inst - 1) : \E m \in 1..Len(written[s][j]) :
                                  written[s][j][m].at = f.since
        <5>1. (f.next + 1) - 1 = f.next
          BY <1>f
        <5> QED
          BY <1>2, <1>3, <2>3, <2>4, <5>1 DEF WholeOk, w
      <4>1. AllSent(s) => AllSent(s)'
        BY <1>3, <2>3, <2>4, AllSentSame
      <4>2. w[f.next] \in SentLines
        <5>1. f.since # 0
          BY <1>4, <1>5, <1>f, <1>m
        <5>2. CASE AllSent(s)
          BY <1>4, <5>2 DEF AllSent, w
        <5>3. ASSUME NEW j \in 1..(f.inst - 1), NEW k \in 1..Len(written[s][j]), written[s][j][k].at = f.since
              PROVE FALSE
          <6>1. j \in 1..Len(written[s]) /\ j < f.inst
            BY <1>f, <1>w
          <6>2. f.since < w[f.next].at
            BY <1>3, <1>4, <1>w, <5>3, <6>1 DEF TimeInv, w
          <6> QED
            BY <1>4, <1>5, <1>f, <1>m, <6>2
        <5> QED
          BY <1>h, <5>1, <5>2, <5>3
      <4> QED
        BY <1>h, <1>n, <4>1, <4>2
    <3> QED
      BY <3>1, <3>2, <3>3, <3>4, <3>5 DEF ServiceOk
  <2>5. CommandShape'
    BY <1>1, <1>3, <2>1, <2>3, ShapeNext DEF CommandShape
  <2> QED
    BY <1>1, <1>2, <2>1, <2>3, <2>4, <2>5, ForwarderQuiet DEF Others
<1>6. CASE ~(line.at <= f.since)
  <2> DEFINE e == [line |-> line, whole |-> TRUE]
             last == IF f.last >= line.at THEN f.last ELSE line.at
  <2>l. line \in Lines /\ line.at \in Nat /\ line.svc = s /\ line.inst = f.inst /\ line.n = f.next
    BY <1>4, <1>m
  <2>a. last \in Nat /\ f.last <= last /\ line.at <= last /\ (last = f.last \/ last = line.at)
    BY <1>f, <2>l, SMTT(30)
  <2>1. /\ fwd' = [fwd EXCEPT ![s] = [f EXCEPT !.next = f.next + 1, !.last = last]]
        /\ combinedLogs' = Append(combinedLogs, e)
    <3>1. Max({f.last, line.at}) = last
      BY <1>f, <2>l, LaterOf
    <3>2. /\ fwd' = [fwd EXCEPT ![s] = [f EXCEPT !.next = f.next + 1, !.last = Max({f.last, line.at})]]
          /\ combinedLogs' = Append(combinedLogs, e)
      BY <1>6, <1>w DEF ReadLine, Forward
    <3> QED
      BY <3>1, <3>2
  <2> HIDE DEF last
  <2>2. Goes(s, "read", f.inst, f.next + 1, last, f.since)
    <3>1. [f EXCEPT !.next = f.next + 1, !.last = last] =
          [f EXCEPT !.pc = "read", !.inst = f.inst, !.next = f.next + 1, !.last = last, !.since = f.since]
      BY <1>1, <1>3 DEF Forwarders
    <3>2. f.next + 1 \in Nat
      BY <1>f
    <3> QED
      BY <1>1, <1>3, <1>f, <2>1, <2>a, <3>1, <3>2, Going
  <2>3. /\ fwd'[s].pc = "read" /\ fwd'[s].inst = f.inst /\ fwd'[s].next = f.next + 1
        /\ fwd'[s].last = last /\ fwd'[s].since = f.since
        /\ fwd'[s].exited = fwd[s].exited /\ fwd'[s].exitOf = fwd[s].exitOf
        /\ fwd' \in [Services -> Forwarders] /\ Others(s)
    BY <2>2 DEF Goes
  <2>e. e \in Entries /\ e.whole /\ e.line = line
    BY <2>l DEF Entries
  <2>o. Out' = Append(Out, e)
    BY <1>1, <1>3, <2>1, <2>e, SendAppends DEF Forwarder, printVars
  <2> HIDE DEF e, w, line
  <2>4. SentLines' = SentLines \cup {line} /\ OrderInv' /\ OnceInv'
    <3>1. \A m \in 1..(e.line.n - 1) : Covered(e.line.svc, e.line.inst, m)
      <4>1. \A m \in 1..(f.next - 1) : m \in 1..Len(w) /\ m < f.next
        BY <1>4, <1>f, <1>w
      <4> QED
        BY <1>g, <2>e, <2>l, <4>1
    <3>2. line \notin SentLines \/ s \in staleExit
      <4> SUFFICES ASSUME line \in SentLines, s \notin staleExit PROVE FALSE
        OBVIOUS
      <4>1. line.at <= f.since \/ line.n < f.next
        BY <1>1, <1>3, <2>l DEF ServiceOk, FreshOk
      <4> QED
        BY <1>6, <1>f, <2>l, <4>1
    <3>3. SentLines' = SentLines \cup (IF e.whole THEN {e.line} ELSE {}) /\ OrderInv' /\ OnceInv'
      BY <1>1, <1>3, <2>e, <2>l, <2>o, <3>1, <3>2, AppendKeeps DEF LogsInv
    <3> QED
      BY <2>e, <3>3
  <2>5. ServiceOk(s)'
    <3>0. \A m \in 1..Len(w) : Covered(s, f.inst, m) => Covered(s, f.inst, m)'
      BY <1>3, <2>3, <2>4 DEF Covered, SameTime, w
    <3>1. LastOk(s)'
      <4>1. 1 <= f.next + 1 /\ f.next + 1 <= Len(w) + 1
        BY <1>4, <1>f, <1>w
      <4>2. last # 0 => \E j \in 1..f.inst : \E m \in 1..Len(written[s][j]) : written[s][j][m].at = last
        <5>1. CASE last = f.last
          BY <1>3, <5>1 DEF ServiceOk, LastOk
        <5>2. CASE last = line.at
          <6>1. f.inst \in 1..f.inst
            BY <1>f
          <6> QED
            BY <1>4, <5>2, <6>1 DEF w, line
        <5> QED
          BY <2>a, <5>1, <5>2
      <4>3. f.since <= last
        BY <1>f, <2>a
      <4> QED
        BY <1>1, <1>3, <1>f, <2>3, <4>1, <4>2, <4>3 DEF LastOk, w
    <3>2. GapOk(s)'
      <4> SUFFICES ASSUME NEW m \in 1..Len(w), w[m].at <= last \/ m < f.next + 1
                   PROVE  Covered(s, f.inst, m)'
        BY <1>3, <2>3 DEF GapOk, w
      <4>1. CASE m = f.next
        BY <1>3, <2>3, <2>4, <4>1 DEF Covered, w, line
      <4>2. CASE m < f.next \/ w[m].at <= f.last
        BY <1>g, <3>0, <4>2
      <4>3. CASE m > f.next /\ ~(w[m].at <= f.last)
        <5>1. last = line.at /\ w[m].at <= line.at
          BY <1>f, <2>a, <4>3
        <5>2. m - 1 \in 1..Len(w) /\ f.next <= m - 1 /\ m > 1
          BY <1>4, <1>f, <1>w, <4>3
        <5>3. line.at <= w[m - 1].at /\ w[m - 1].at <= w[m].at
          BY <1>4, <1>f, <1>o, <5>2 DEF line
        <5>4. w[m].at = w[m - 1].at
          BY <1>m, <2>l, <5>1, <5>2, <5>3
        <5>5. SameTime(s, f.inst, m)
          BY <5>2, <5>4 DEF SameTime, w
        <5> QED
          BY <3>0, <5>5 DEF Covered
      <4> QED
        BY <1>f, <4>1, <4>2, <4>3
    <3>3. NotifierOk(s)' /\ ExitOk(s)'
      BY <1>1, <1>3, <2>3, StatusSame DEF ServiceOk
    <3>4. FreshOk(s)'
      <4> SUFFICES ASSUME s \notin staleExit, NEW l \in SentLines', l.svc = s
                   PROVE  /\ l.inst < container[s].inst \/ l.at <= last
                          /\ l.inst <= f.inst
                          /\ l.inst = f.inst => l.at <= f.since \/ l.n < f.next + 1
        BY <1>1, <1>3, <2>3 DEF FreshOk, Forwarding
      <4>1. CASE l = line
        BY <1>f, <2>a, <2>l, <4>1
      <4>2. CASE l \in SentLines
        <5>1. /\ l.inst < container[s].inst \/ l.at <= f.last
              /\ l.inst <= f.inst
              /\ l.inst = f.inst => l.at <= f.since \/ l.n < f.next
          BY <1>1, <1>3, <1>f, <4>2 DEF ServiceOk, FreshOk, Forwarding
        <5>2. l.n \in 1..Len(written[s][l.inst]) /\ l.inst \in 1..Len(written[s]) /\ l = written[s][l.inst][l.n]
          BY <1>3, <4>2 DEF SentInv
        <5>3. l.inst = f.inst => l.n \in Nat
          BY <1>w, <5>2 DEF w
        <5>4. l.at \in Nat
          <6>1. written[s][l.inst] \in Seq(Lines)
            BY <1>3, <5>2 DEF WorldShape
          <6>2. written[s][l.inst][l.n] \in Lines
            BY <5>2, <6>1
          <6>3. l \in Lines
            BY <5>2, <6>2
          <6> QED
            BY <6>3 DEF Lines
        <5>5. l.at <= f.last => l.at <= last
          BY <1>f, <2>a, <5>4
        <5> QED
          BY <1>f, <5>1, <5>3, <5>5
      <4> QED
        BY <2>4, <4>1, <4>2
    <3>5. WholeOk(s)'
      <4> SUFFICES ASSUME breaks = 0
                   PROVE  /\ \A m \in 1..f.next : w[m] \in SentLines'
                          /\ \/ f.since = 0
                             \/ AllSent(s)'
                             \/ \E j \in 1..(f.inst - 1) : \E m \in 1..Len(written[s][j]) :
                                  written[s][j][m].at = f.since
        <5>1. (f.next + 1) - 1 = f.next
          BY <1>f
        <5> QED
          BY <1>2, <1>3, <2>3, <5>1 DEF WholeOk, w
      <4>1. AllSent(s) => AllSent(s)'
        BY <1>3, <2>3, <2>4, AllSentSame
      <4>2. w[f.next] \in SentLines'
        BY <2>4 DEF line
      <4> QED
        BY <1>h, <1>n, <2>4, <4>1, <4>2
    <3> QED
      BY <3>1, <3>2, <3>3, <3>4, <3>5 DEF ServiceOk
  <2>6. CommandShape'
    <3>1. combinedLogs' \in Seq(Entries) /\ staleExit' \subseteq Services /\ notifier' \in [Services -> Notifiers]
      BY <1>1, <1>3, <2>1, <2>e DEF CommandShape
    <3> QED
      BY <1>1, <1>3, <2>3, <3>1, ShapeNext
  <2>7. \A l \in SentLines' : \/ l \in SentLines
                              \/ /\ l.svc = s /\ l.inst \in 1..Len(written[s])
                                 /\ l.n \in 1..Len(written[s][l.inst])
                                 /\ l = written[s][l.inst][l.n]
    <3>1. /\ line.svc = s /\ line.inst \in 1..Len(written[s]) /\ line.n \in 1..Len(written[s][line.inst])
          /\ line = written[s][line.inst][line.n]
      BY <1>4, <1>w, <2>l DEF line, w
    <3> QED
      BY <2>4, <3>1
  <2>8. SentLines \subseteq SentLines'
    BY <2>4
  <2> QED
    BY <1>1, <1>2, <2>3, <2>4, <2>5, <2>6, <2>7, <2>8, ForwarderKeeps DEF Others
<1> QED
  BY <1>5, <1>6

-----------------------------------------------------------------------------
(* The containers                                                          *)

\* What the container of t has written stays; it writes only in its last instance,
\* and later than anything before, or with the time of the line before.
Grows(t) ==
    /\ container[t].inst <= container'[t].inst
    /\ container'[t].inst = container[t].inst /\ Alive(t)' => Alive(t)
    /\ \A i \in 1..container[t].inst :
         /\ Len(written[t][i]) <= Len(written'[t][i])
         /\ \A m \in 1..Len(written[t][i]) : written'[t][i][m] = written[t][i][m]
         /\ \A m \in 1..Len(written'[t][i]) : m > Len(written[t][i]) =>
              /\ i = container'[t].inst /\ Alive(t)
              /\ clock < written'[t][i][m].at \/ SameTime(t, i, m)'

LEMMA WithinLonger ==
  \A a, b \in Nat : a <= b => /\ \A n \in Nat : n <= a + 1 => n <= b + 1
                            /\ \A n \in 1..a : n \in 1..b
OBVIOUS

LEMMA GrowsKeeps ==
  ASSUME LogsInv, NEW t \in Services, Grows(t), World, UNCHANGED breaks, WorldShape', WrittenInv',
         SentLines' = SentLines
  PROVE  ServiceOk(t)'
<1> DEFINE f == fwd[t]
           c == container[t].inst
           cn == container'[t].inst
<1>1. /\ UNCHANGED <<follow, watcher>> /\ fwd'[t] = fwd[t] /\ notifier'[t] = notifier[t]
      /\ staleExit' = staleExit
  BY DEF World, statusVars
<1>2. CommandShape /\ WorldShape /\ WrittenInv /\ SentInv /\ f \in Forwarders /\ ServiceOk(t)
  BY DEF LogsInv, LinesInv, CommandShape
<1>3. /\ c \in Nat /\ cn \in Nat /\ c <= cn /\ f.inst \in Nat /\ f.inst <= c /\ f.last \in Nat
      /\ f.next \in Nat /\ 1 <= c
  BY <1>2 DEF WorldShape, Forwarders, ServiceOk, LastOk, Grows
<1>4. cn = c /\ Alive(t)' => Alive(t)
  BY DEF Grows
<1>5. \A i \in 1..c : /\ Len(written[t][i]) \in Nat /\ Len(written'[t][i]) \in Nat
                      /\ Len(written[t][i]) <= Len(written'[t][i])
  <2> SUFFICES ASSUME NEW i \in 1..c
               PROVE  /\ Len(written[t][i]) \in Nat /\ Len(written'[t][i]) \in Nat
                      /\ Len(written[t][i]) <= Len(written'[t][i])
    OBVIOUS
  <2>1. written[t] \in Seq(Seq(Lines)) /\ written'[t] \in Seq(Seq(Lines))
    BY <1>2 DEF WorldShape
  <2>2. i \in 1..Len(written[t]) /\ i \in 1..Len(written'[t])
    BY <1>2, <1>3 DEF WrittenInv
  <2>3. written[t][i] \in Seq(Lines) /\ written'[t][i] \in Seq(Lines)
    BY <2>1, <2>2
  <2> QED
    BY <2>3 DEF Grows
<1>6. \A i \in 1..c : \A m \in 1..Len(written[t][i]) :
        m \in 1..Len(written'[t][i]) /\ written'[t][i][m] = written[t][i][m]
  BY <1>5 DEF Grows
<1>7. \A i \in 1..c : \A m \in 1..Len(written'[t][i]) : m > Len(written[t][i]) =>
        /\ i = cn /\ Alive(t)
        /\ clock < written'[t][i][m].at \/ SameTime(t, i, m)'
  BY DEF Grows
<1>8. \A i \in 1..c : \A m \in 1..Len(written[t][i]) : SameTime(t, i, m) => SameTime(t, i, m)'
  <2> SUFFICES ASSUME NEW i \in 1..c, NEW m \in 1..Len(written[t][i]), SameTime(t, i, m)
               PROVE  SameTime(t, i, m)'
    OBVIOUS
  <2>1. m - 1 \in 1..Len(written[t][i])
    BY <1>5 DEF SameTime
  <2> QED
    BY <1>6, <2>1 DEF SameTime
<1>l. LastOk(t)'
  <2>1. f.last # 0 => \E j \in 1..f.inst : \E m \in 1..Len(written'[t][j]) : written'[t][j][m].at = f.last
    <3> SUFFICES ASSUME f.last # 0
                 PROVE  \E j \in 1..f.inst : \E m \in 1..Len(written'[t][j]) : written'[t][j][m].at = f.last
      OBVIOUS
    <3>1. PICK j \in 1..f.inst : \E m \in 1..Len(written[t][j]) : written[t][j][m].at = f.last
      BY <1>2 DEF ServiceOk, LastOk
    <3>2. PICK m \in 1..Len(written[t][j]) : written[t][j][m].at = f.last
      BY <3>1
    <3>3. j \in 1..c
      BY <1>3
    <3>4. m \in 1..Len(written'[t][j]) /\ written'[t][j][m].at = f.last
      BY <1>6, <3>2, <3>3
    <3> QED
      BY <3>4
  <2>2. f.pc = "read" => /\ 1 <= f.inst /\ 1 <= f.next /\ f.next <= Len(written'[t][f.inst]) + 1
                         /\ f.since <= f.last
    <3>1. f.pc = "read" => /\ 1 <= f.inst /\ 1 <= f.next /\ f.next <= Len(written[t][f.inst]) + 1
                           /\ f.since <= f.last
      BY <1>2 DEF ServiceOk, LastOk
    <3>2. 1 <= f.inst => f.inst \in 1..c
      BY <1>3
    <3>3. ASSUME f.inst \in 1..c, f.next <= Len(written[t][f.inst]) + 1
          PROVE  f.next <= Len(written'[t][f.inst]) + 1
      <4>1. /\ Len(written[t][f.inst]) \in Nat /\ Len(written'[t][f.inst]) \in Nat
            /\ Len(written[t][f.inst]) <= Len(written'[t][f.inst])
        BY <1>5, <3>3
      <4>2. f.next \in Nat
        BY <1>3
      <4>3. f.next <= Len(written[t][f.inst]) + 1
        BY <3>3
      <4> HIDE DEF f
      <4> QED
        BY <4>1, <4>2, <4>3, WithinLonger, Zenon
    <3> QED
      BY <3>1, <3>2, <3>3
  <2>3. f.inst <= cn /\ (f.pc \in {"broken", "wait"} => follow)
    BY <1>2, <1>3 DEF ServiceOk, LastOk
  <2> QED
    BY <1>1, <2>1, <2>2, <2>3 DEF LastOk
<1>t. f.last <= clock
  <2>1. CASE f.last = 0
    BY <1>2, <2>1 DEF WorldShape
  <2>2. CASE f.last # 0
    <3>1. PICK j \in 1..f.inst : \E m \in 1..Len(written[t][j]) : written[t][j][m].at = f.last
      BY <1>2, <2>2 DEF ServiceOk, LastOk
    <3>2. PICK m \in 1..Len(written[t][j]) : written[t][j][m].at = f.last
      BY <3>1
    <3>3. j \in 1..Len(written[t])
      BY <1>2, <1>3 DEF WrittenInv
    <3>4. IsLine(t, j, m)
      BY <1>2, <3>3, LineFacts
    <3> QED
      BY <3>2, <3>4 DEF IsLine
  <2> QED
    BY <2>1, <2>2
<1>g. GapOk(t)'
  <2> SUFFICES ASSUME f.inst # 0, NEW m \in 1..Len(written'[t][f.inst]),
                      \/ f.pc \in Forwarding /\ written'[t][f.inst][m].at <= f.last
                      \/ f.pc = "read" /\ m < f.next
               PROVE  Covered(t, f.inst, m)'
    BY <1>1 DEF GapOk
  <2>0. f.inst \in 1..c
    BY <1>3
  <2>f. (f.inst)' = f.inst
    BY <1>1
  <2>1. CASE m \in 1..Len(written[t][f.inst])
    <3>1. Covered(t, f.inst, m)
      BY <1>2, <1>6, <2>0, <2>1 DEF ServiceOk, GapOk
    <3>2. CASE written[t][f.inst][m] \in SentLines
      BY <1>6, <2>0, <2>1, <2>f, <3>2 DEF Covered
    <3>3. CASE SameTime(t, f.inst, m)
      BY <1>8, <2>0, <2>1, <2>f, <3>3 DEF Covered
    <3> QED
      BY <3>1, <3>2, <3>3 DEF Covered
  <2>2. CASE m \notin 1..Len(written[t][f.inst])
    <3>1. m > Len(written[t][f.inst])
      BY <1>5, <2>0, <2>2
    <3>2. ~(f.pc = "read" /\ m < f.next)
      <4>1. f.pc = "read" => f.next <= Len(written[t][f.inst]) + 1
        BY <1>2 DEF ServiceOk, LastOk
      <4> QED
        BY <1>3, <1>5, <2>0, <3>1, <4>1
    <3>3. clock < written'[t][f.inst][m].at \/ SameTime(t, f.inst, m)'
      BY <1>7, <2>0, <3>1, <2>f
    <3>4. clock \in Nat /\ written'[t][f.inst][m].at \in Nat
      <4>1. written'[t] \in Seq(Seq(Lines)) /\ f.inst \in 1..Len(written'[t])
        BY <1>3, <2>0 DEF WorldShape, WrittenInv
      <4>2. written'[t][f.inst] \in Seq(Lines)
        BY <4>1
      <4>3. written'[t][f.inst][m] \in Lines
        BY <4>2
      <4> QED
        BY <1>2, <4>3 DEF Lines, WorldShape
    <3>5. SameTime(t, f.inst, m)'
      BY <1>3, <1>t, <3>2, <3>3, <3>4
    <3> QED
      BY <3>5 DEF Covered
  <2> QED
    BY <2>1, <2>2
<1>n. NotifierOk(t)' /\ ExitOk(t)'
  <2>0. notifier[t].told \in Nat /\ f.exitOf \in Nat
    BY <1>2 DEF CommandShape, Notifiers, Forwarders
  <2>1. NotifierOk(t)'
    BY <1>1, <1>2, <1>3, <1>4, <2>0 DEF ServiceOk, NotifierOk
  <2>2. ExitOk(t)'
    BY <1>1, <1>2, <1>3, <1>4, <2>0 DEF ServiceOk, ExitOk
  <2> QED
    BY <2>1, <2>2
<1>r. FreshOk(t)'
  <2>1. \A l \in SentLines : l.svc = t => l.inst \in Nat /\ l.inst <= c
    BY <1>2, <1>3 DEF SentInv, WrittenInv
  <2> HIDE DEF c, cn
  <2>2. \A l \in SentLines : l.svc = t => /\ l.inst < c => l.inst < cn
                                          /\ l.inst = cn /\ Alive(t)' => l.inst = c /\ Alive(t)
    BY <1>3, <1>4, <2>1
  <2> QED
    BY <1>1, <1>2, <2>2 DEF ServiceOk, FreshOk, c, cn
<1>w. WholeOk(t)'
  <2>1. AllSent(t) => AllSent(t)'
    <3> SUFFICES ASSUME AllSent(t) PROVE AllSent(t)'
      OBVIOUS
    <3>0. f.inst \in 1..c
      BY <1>3 DEF AllSent
    <3>1. \A m \in 1..Len(written'[t][f.inst]) : m \in 1..Len(written[t][f.inst])
      <4> SUFFICES ASSUME NEW m \in 1..Len(written'[t][f.inst]), m > Len(written[t][f.inst]) PROVE FALSE
        BY <1>5, <3>0
      <4>1. f.inst = cn /\ Alive(t)
        BY <1>7, <3>0
      <4> QED
        BY <1>3, <4>1 DEF AllSent
    <3>2. f.inst < cn \/ ~Alive(t)'
      BY <1>3, <1>4 DEF AllSent
    <3> QED
      BY <1>1, <1>6, <3>0, <3>1, <3>2 DEF AllSent
  <2>2. ASSUME 1 <= f.inst, f.next <= Len(written[t][f.inst]) + 1,
               \A m \in 1..(f.next - 1) : written[t][f.inst][m] \in SentLines
        PROVE  /\ f.next <= Len(written'[t][f.inst]) + 1
               /\ \A m \in 1..(f.next - 1) : written'[t][f.inst][m] \in SentLines
    <3>0. f.inst \in 1..c
      BY <1>3, <2>2
    <3>1. \A m \in 1..(f.next - 1) : m \in 1..Len(written[t][f.inst])
      BY <1>3, <1>5, <2>2, <3>0
    <3>2. /\ Len(written[t][f.inst]) \in Nat /\ Len(written'[t][f.inst]) \in Nat
          /\ Len(written[t][f.inst]) <= Len(written'[t][f.inst])
      BY <1>5, <3>0
    <3>3. f.next <= Len(written'[t][f.inst]) + 1
      <4>2. f.next \in Nat
        BY <1>3
      <4>3. f.next <= Len(written[t][f.inst]) + 1
        BY <2>2
      <4> HIDE DEF f
      <4> QED
        BY <3>2, <4>2, <4>3, WithinLonger, Zenon
    <3> QED
      BY <1>6, <2>2, <3>0, <3>1, <3>3
  <2>3. ASSUME NEW j \in 1..(f.inst - 1), NEW m \in 1..Len(written[t][j])
        PROVE  m \in 1..Len(written'[t][j]) /\ written'[t][j][m] = written[t][j][m]
    <3>1. j \in 1..c
      BY <1>3
    <3> QED
      BY <1>6, <3>1
  <2>4. f.pc = "read" => 1 <= f.inst /\ f.next <= Len(written[t][f.inst]) + 1
    BY <1>2 DEF ServiceOk, LastOk
  <2>5. WholeOk(t)
    BY <1>2 DEF ServiceOk
  <2> QED
    BY <1>1, <2>1, <2>2, <2>3, <2>4, <2>5 DEF WholeOk
<1> QED
  BY <1>l, <1>g, <1>n, <1>r, <1>w DEF ServiceOk

LEMMA WorldKeeps ==
  ASSUME LogsInv, World, UNCHANGED breaks, WorldShape', WrittenInv', TimeInv',
         \A t \in Services : Grows(t)
  PROVE  LogsInv'
<1>1. /\ UNCHANGED <<main, ctx, notifier, watcher, fwd, combinedLogs, window, printing, printed, staleExit>>
      /\ main = "started"
  BY DEF World, statusVars, printVars
<1>2. Out' = Out
  BY <1>1 DEF Out
<1>3. SentLines' = SentLines
  BY <1>2 DEF SentLines
<1>4. CommandShape' /\ NotStartedInv' /\ EndInv'
  BY <1>1 DEF LogsInv, CommandShape, NotStartedInv, EndInv
<1>5. ASSUME NEW l \in SentLines
      PROVE  /\ l.svc \in Services /\ l.inst \in 1..container[l.svc].inst
             /\ l.inst \in 1..Len(written'[l.svc])
             /\ Len(written[l.svc][l.inst]) \in Nat
             /\ l.n \in 1..Len(written[l.svc][l.inst]) /\ l.n \in 1..Len(written'[l.svc][l.inst])
             /\ l = written[l.svc][l.inst][l.n]
             /\ \A m \in 1..Len(written[l.svc][l.inst]) :
                  written'[l.svc][l.inst][m] = written[l.svc][l.inst][m]
  <2>1. /\ l.svc \in Services /\ l.inst \in 1..Len(written[l.svc])
        /\ l.n \in 1..Len(written[l.svc][l.inst]) /\ l = written[l.svc][l.inst][l.n]
    BY DEF LogsInv, LinesInv, SentInv
  <2> DEFINE s == l.svc
             i == l.inst
  <2>2. Len(written[s]) = container[s].inst /\ Len(written'[s]) = container'[s].inst
    BY <2>1 DEF LogsInv, LinesInv, WrittenInv
  <2>3. /\ container[s].inst \in Nat /\ container'[s].inst \in Nat
        /\ written[s] \in Seq(Seq(Lines)) /\ written'[s] \in Seq(Seq(Lines))
    BY <2>1 DEF LogsInv, WorldShape
  <2>4. container[s].inst <= container'[s].inst
    BY <2>1 DEF Grows
  <2> HIDE DEF s, i
  <2>5. i \in 1..container[s].inst /\ i \in 1..Len(written[s]) /\ i \in 1..Len(written'[s])
    BY <2>1, <2>2, <2>3, <2>4 DEF s, i
  <2>6. written[s][i] \in Seq(Lines) /\ written'[s][i] \in Seq(Lines)
    BY <2>3, <2>5
  <2>7. /\ Len(written[s][i]) <= Len(written'[s][i])
        /\ \A m \in 1..Len(written[s][i]) : written'[s][i][m] = written[s][i][m]
    BY <2>1, <2>5 DEF Grows, s
  <2>8. Len(written[s][i]) \in Nat /\ Len(written'[s][i]) \in Nat
    BY <2>6
  <2>9. l.n \in 1..Len(written[s][i]) /\ l.n \in 1..Len(written'[s][i])
    BY <2>1, <2>7, <2>8, WithinLonger, Zenon DEF s, i
  <2> QED
    BY <2>1, <2>5, <2>7, <2>8, <2>9 DEF s, i
<1>6. SentInv'
  BY <1>3, <1>5 DEF SentInv
<1>7. OrderInv'
  <2>0. \A k \in 1..Len(Out) : Out[k].whole => Out[k].line \in SentLines
    BY DEF SentLines
  <2> SUFFICES ASSUME NEW k \in 1..Len(Out), Out[k].whole, NEW m \in 1..(Out[k].line.n - 1)
               PROVE  \/ \E i \in 1..(k - 1) : SameLine(Out[i], written'[Out[k].line.svc][Out[k].line.inst][m])
                      \/ SameTime(Out[k].line.svc, Out[k].line.inst, m)'
    BY <1>2 DEF OrderInv, SameLine, SameTime
  <2> DEFINE l == Out[k].line
             w == written[l.svc][l.inst]
             wn == written'[l.svc][l.inst]
  <2>1. l \in SentLines
    BY <2>0
  <2>2. Len(w) \in Nat /\ l.n \in 1..Len(w) /\ \A n \in 1..Len(w) : wn[n] = w[n]
    BY <1>5, <2>1
  <2>3. \/ \E i \in 1..(k - 1) : SameLine(Out[i], w[m])
        \/ SameTime(l.svc, l.inst, m)
    BY DEF LogsInv, OrderInv
  <2>4. wn[m] = w[m] /\ (m > 1 => wn[m - 1] = w[m - 1])
    <3> HIDE DEF w, wn, l
    <3>1. m \in 1..(l.n - 1)
      BY DEF l
    <3>2. m \in 1..Len(w) /\ (m > 1 => m - 1 \in 1..Len(w))
      BY <2>2, <3>1
    <3> QED
      BY <2>2, <3>2
  <2>5. SameTime(l.svc, l.inst, m) => SameTime(l.svc, l.inst, m)'
    BY <1>2, <2>4 DEF SameTime
  <2> QED
    BY <1>2, <2>3, <2>4, <2>5
<1>8. OnceInv'
  BY <1>1, <1>2 DEF LogsInv, OnceInv, SameLine
<1>9. \A t \in Services : ServiceOk(t)'
  BY <1>3, GrowsKeeps
<1> QED
  BY <1>4, <1>6, <1>7, <1>8, <1>9 DEF LogsInv, LinesInv

LEMMA ContainerChanges ==
  ASSUME LogsInv, NEW s \in Services, NEW st \in {"RUNNING", "UNHEALTHY", "EXITED"},
         st \in {"RUNNING", "UNHEALTHY"} => Alive(s),
         container' = [container EXCEPT ![s].st = st], World, UNCHANGED <<written, clock, breaks>>
  PROVE  LogsInv'
<1>1. WorldShape /\ WrittenInv /\ TimeInv /\ UNCHANGED <<cmd, follow>>
  BY DEF LogsInv, LinesInv, World
<1>2. /\ container' \in [Services -> [inst : Nat \ {0}, st : {"RUNNING", "UNHEALTHY", "EXITED"}]]
      /\ \A t \in Services : container'[t].inst = container[t].inst /\ container[t].inst \in Nat
      /\ \A t \in Services : t # s => container'[t].st = container[t].st
      /\ container'[s].st = st
  BY <1>1 DEF WorldShape
<1>3. WorldShape'
  BY <1>1, <1>2 DEF WorldShape
<1>4. WrittenInv' /\ TimeInv'
  BY <1>1, <1>2 DEF WrittenInv, TimeInv
<1>5. ASSUME NEW t \in Services PROVE Grows(t)
  <2>1. Alive(t)' => Alive(t)
    BY <1>2 DEF Alive
  <2>2. \A i \in 1..container[t].inst : Len(written[t][i]) \in Nat
    BY <1>1, <1>2, LinesThere
  <2> QED
    BY <1>2, <2>1, <2>2 DEF Grows
<1> QED
  BY <1>3, <1>4, <1>5, WorldKeeps

LEMMA ContainerExitsKeeps ==
  ASSUME LogsInv, NEW s \in Services, ContainerExits(s)
  PROVE  LogsInv'
BY ContainerChanges DEF ContainerExits

LEMMA TurnsHealthyKeeps ==
  ASSUME LogsInv, NEW s \in Services, TurnsHealthy(s)
  PROVE  LogsInv'
<1>1. Alive(s)
  BY DEF TurnsHealthy, Alive
<1> QED
  BY <1>1, ContainerChanges DEF TurnsHealthy

LEMMA ContainerRestartsKeeps ==
  ASSUME LogsInv, NEW s \in Services, ContainerRestarts(s)
  PROVE  LogsInv'
<1>1. /\ WorldShape /\ WrittenInv /\ TimeInv /\ World /\ UNCHANGED <<cmd, follow, clock, breaks>>
      /\ container' = [container EXCEPT ![s] = [inst |-> container[s].inst + 1, st |-> "UNHEALTHY"]]
      /\ written' = [written EXCEPT ![s] = Append(written[s], <<>>)]
  BY DEF LogsInv, LinesInv, World, ContainerRestarts
<1>2. /\ container' \in [Services -> [inst : Nat \ {0}, st : {"RUNNING", "UNHEALTHY", "EXITED"}]]
      /\ \A t \in Services : t # s => container'[t] = container[t]
      /\ container'[s].inst = container[s].inst + 1
      /\ \A t \in Services : container[t].inst \in Nat
  BY <1>1 DEF WorldShape
<1>3. /\ written \in [Services -> Seq(Seq(Lines))] /\ \A t \in Services : written[t] \in Seq(Seq(Lines))
      /\ \A t \in Services : Len(written[t]) = container[t].inst
  BY <1>1 DEF WorldShape, WrittenInv
<1>4. <<>> \in Seq(Lines) /\ Append(written[s], <<>>) \in Seq(Seq(Lines))
  BY <1>3
<1>5. /\ written' \in [Services -> Seq(Seq(Lines))]
      /\ \A t \in Services : t # s => written'[t] = written[t]
      /\ written'[s] = Append(written[s], <<>>)
  BY <1>1, <1>3, <1>4
<1>6. WorldShape'
  BY <1>1, <1>2, <1>5 DEF WorldShape
<1>7. /\ Len(written'[s]) = Len(written[s]) + 1
      /\ \A i \in 1..Len(written[s]) : written'[s][i] = written[s][i]
      /\ written'[s][Len(written[s]) + 1] = <<>> /\ Len(written[s]) \in Nat
  BY <1>3, <1>5
<1>8. \A i \in 1..Len(written'[s]) : \A m \in 1..Len(written'[s][i]) :
        i \in 1..Len(written[s]) /\ written'[s][i] = written[s][i] /\ m \in 1..Len(written[s][i])
  <2> SUFFICES ASSUME NEW i \in 1..Len(written'[s]), NEW m \in 1..Len(written'[s][i])
               PROVE  i \in 1..Len(written[s]) /\ written'[s][i] = written[s][i]
    OBVIOUS
  <2>1. i # Len(written[s]) + 1
    <3>1. Len(<<>>) = 0
      OBVIOUS
    <3> QED
      BY <1>7, <3>1
  <2> QED
    BY <1>7, <2>1
<1>9. WrittenInv'
  <2> SUFFICES ASSUME NEW t \in Services
               PROVE  /\ Len(written'[t]) = container'[t].inst
                      /\ \A i \in 1..Len(written'[t]) : \A m \in 1..Len(written'[t][i]) :
                           LET l == written'[t][i][m] IN
                           l.svc = t /\ l.inst = i /\ l.n = m /\ 1 <= l.at /\ l.at <= clock
    BY <1>1 DEF WrittenInv
  <2>1. CASE t # s
    <3>1. written'[t] = written[t] /\ Len(written[t]) = container'[t].inst
      BY <1>2, <1>3, <1>5, <2>1
    <3>2. ASSUME NEW i \in 1..Len(written[t]), NEW m \in 1..Len(written[t][i])
          PROVE  LET l == written[t][i][m] IN
                 l.svc = t /\ l.inst = i /\ l.n = m /\ 1 <= l.at /\ l.at <= clock
      <4>1. IsLine(t, i, m)
        BY <1>1, LineFacts
      <4> QED
        BY <4>1 DEF IsLine
    <3> QED
      BY <3>1, <3>2
  <2>2. CASE t = s
    <3>1. Len(written'[s]) = container'[s].inst
      BY <1>2, <1>3, <1>7
    <3>2. ASSUME NEW i \in 1..Len(written'[s]), NEW m \in 1..Len(written'[s][i])
          PROVE  LET l == written'[s][i][m] IN
                 l.svc = s /\ l.inst = i /\ l.n = m /\ 1 <= l.at /\ l.at <= clock
      <4>1. i \in 1..Len(written[s]) /\ written'[s][i] = written[s][i] /\ m \in 1..Len(written[s][i])
        BY <1>8
      <4>2. IsLine(s, i, m)
        BY <1>1, <4>1, LineFacts
      <4> QED
        BY <4>1, <4>2 DEF IsLine
    <3> QED
      BY <2>2, <3>1, <3>2
  <2> QED
    BY <2>1, <2>2
<1>10. TimeInv'
  <2> SUFFICES ASSUME NEW t \in Services, NEW i \in 1..Len(written'[t]), NEW j \in 1..Len(written'[t]),
                      NEW m \in 1..Len(written'[t][i]), NEW n \in 1..Len(written'[t][j])
               PROVE  /\ i < j => written'[t][i][m].at < written'[t][j][n].at
                      /\ i = j /\ m <= n => written'[t][i][m].at <= written'[t][j][n].at
    BY DEF TimeInv
  <2>1. CASE t # s
    BY <1>1, <1>5, <2>1 DEF TimeInv
  <2>2. CASE t = s
    <3>1. /\ i \in 1..Len(written[s]) /\ written'[s][i] = written[s][i] /\ m \in 1..Len(written[s][i])
          /\ j \in 1..Len(written[s]) /\ written'[s][j] = written[s][j] /\ n \in 1..Len(written[s][j])
      BY <1>8, <2>2
    <3> QED
      BY <1>1, <2>2, <3>1 DEF TimeInv
  <2> QED
    BY <2>1, <2>2
<1>11. ASSUME NEW t \in Services PROVE Grows(t)
  <2>1. \A i \in 1..container[t].inst : Len(written[t][i]) \in Nat
    BY <1>1, <1>2, LinesThere
  <2>2. CASE t # s
    <3>1. container'[t] = container[t] /\ written'[t] = written[t] /\ (Alive(t)' <=> Alive(t))
      BY <1>2, <1>5, <2>2 DEF Alive
    <3> QED
      BY <1>2, <2>1, <3>1 DEF Grows
  <2>3. CASE t = s
    <3>1. \A i \in 1..container[s].inst : written'[s][i] = written[s][i]
      BY <1>3, <1>7
    <3>2. container[s].inst < container'[s].inst
      BY <1>2
    <3> QED
      BY <1>2, <2>1, <2>3, <3>1, <3>2 DEF Grows
  <2> QED
    BY <2>2, <2>3
<1> QED
  BY <1>1, <1>6, <1>9, <1>10, <1>11, WorldKeeps

LEMMA WriteLineKeeps ==
  ASSUME LogsInv, NEW s \in Services, WriteLine(s)
  PROVE  LogsInv'
<1> DEFINE c == container[s].inst
           w == written[s][c]
           N == Len(w)
           line == [svc |-> s, inst |-> c, n |-> N + 1, at |-> clock']
<1>1. /\ WorldShape /\ WrittenInv /\ TimeInv /\ World /\ Alive(s)
      /\ UNCHANGED <<cmd, follow, breaks, container>>
  BY DEF LogsInv, LinesInv, World, WriteLine
<1>2. /\ \A t \in Services : container[t].inst \in Nat /\ 1 <= container[t].inst
      /\ \A t \in Services : Len(written[t]) = container[t].inst /\ written[t] \in Seq(Seq(Lines))
      /\ written \in [Services -> Seq(Seq(Lines))] /\ clock \in Nat /\ 1 <= clock
  BY <1>1 DEF WorldShape, WrittenInv
<1>3. /\ c \in 1..Len(written[s]) /\ LinesOf(s, c) = w /\ w \in Seq(Lines) /\ N \in Nat
  BY <1>1, <1>2, LinesThere
<1>4. /\ clock' \in Nat /\ 1 <= clock' /\ clock <= clock'
      /\ clock' = clock + 1 \/ (clock' = clock /\ N # 0 /\ w[N].at = clock)
  <2>1. clock' \in IF w # <<>> /\ w[N].at = clock THEN {clock, clock + 1} ELSE {clock + 1}
    BY <1>3 DEF WriteLine, Last
  <2>2. w # <<>> => N # 0
    BY <1>3
  <2>3. clock' = clock + 1 \/ (clock' = clock /\ N # 0 /\ w[N].at = clock)
    BY <2>1, <2>2
  <2> QED
    BY <1>2, <2>3
<1>5. line \in Lines /\ line.svc = s /\ line.inst = c /\ line.n = N + 1 /\ line.at = clock'
  BY <1>2, <1>3, <1>4 DEF Lines
<1>6. /\ written' = [written EXCEPT ![s] = [written[s] EXCEPT ![c] = Append(w, line)]]
  BY <1>3 DEF WriteLine
<1> HIDE DEF line
<1>7. Append(w, line) \in Seq(Lines)
  BY <1>3, <1>5
<1>8. /\ [written[s] EXCEPT ![c] = Append(w, line)] \in Seq(Seq(Lines))
      /\ Len([written[s] EXCEPT ![c] = Append(w, line)]) = Len(written[s])
      /\ [written[s] EXCEPT ![c] = Append(w, line)][c] = Append(w, line)
      /\ \A i \in 1..Len(written[s]) : i # c => [written[s] EXCEPT ![c] = Append(w, line)][i] = written[s][i]
  BY <1>2, <1>3, <1>7
<1>9. /\ written' \in [Services -> Seq(Seq(Lines))]
      /\ \A t \in Services : t # s => written'[t] = written[t]
      /\ written'[s] = [written[s] EXCEPT ![c] = Append(w, line)]
  BY <1>2, <1>6, <1>8
<1>10. /\ Len(written'[s]) = Len(written[s]) /\ written'[s][c] = Append(w, line)
       /\ \A i \in 1..Len(written[s]) : i # c => written'[s][i] = written[s][i]
  BY <1>8, <1>9
<1>11. /\ Len(written'[s][c]) = N + 1 /\ written'[s][c][N + 1] = line
       /\ \A m \in 1..N : written'[s][c][m] = w[m]
  <2> HIDE DEF w, c
  <2>1. /\ Len(Append(w, line)) = Len(w) + 1 /\ Append(w, line)[Len(w) + 1] = line
        /\ \A m \in 1..Len(w) : Append(w, line)[m] = w[m]
    BY <1>3, <1>5
  <2> QED
    BY <1>10, <2>1
<1>w. WorldShape'
  BY <1>1, <1>4, <1>9 DEF WorldShape
<1> HIDE DEF N, w, c
<1>12. ASSUME NEW i \in 1..Len(written'[s]), NEW m \in 1..Len(written'[s][i])
       PROVE  /\ i \in 1..Len(written[s])
              /\ \/ m \in 1..Len(written[s][i]) /\ written'[s][i][m] = written[s][i][m]
                 \/ i = c /\ m = N + 1 /\ written'[s][i][m] = line
  <2>1. i \in 1..Len(written[s])
    BY <1>10
  <2>2. CASE i # c
    BY <1>10, <2>1, <2>2
  <2>3. CASE i = c
    <3>1. m \in 1..N \/ m = N + 1
      BY <1>3, <1>11, <2>3
    <3> QED
      BY <1>11, <2>1, <2>3, <3>1 DEF N, w
  <2> QED
    BY <2>1, <2>2, <2>3
<1>13. WrittenInv'
  <2> SUFFICES ASSUME NEW t \in Services
               PROVE  /\ Len(written'[t]) = container[t].inst
                      /\ \A i \in 1..Len(written'[t]) : \A m \in 1..Len(written'[t][i]) :
                           LET l == written'[t][i][m] IN
                           l.svc = t /\ l.inst = i /\ l.n = m /\ 1 <= l.at /\ l.at <= clock'
    BY <1>1 DEF WrittenInv
  <2>1. CASE t # s
    <3>1. written'[t] = written[t] /\ Len(written[t]) = container[t].inst
      BY <1>2, <1>9, <2>1
    <3>2. ASSUME NEW i \in 1..Len(written[t]), NEW m \in 1..Len(written[t][i])
          PROVE  LET l == written[t][i][m] IN
                 l.svc = t /\ l.inst = i /\ l.n = m /\ 1 <= l.at /\ l.at <= clock'
      <4>1. IsLine(t, i, m)
        BY <1>1, LineFacts
      <4> QED
        BY <1>2, <1>4, <4>1 DEF IsLine
    <3> QED
      BY <3>1, <3>2
  <2>2. CASE t = s
    <3>1. Len(written'[s]) = container[s].inst
      BY <1>2, <1>10
    <3>2. ASSUME NEW i \in 1..Len(written'[s]), NEW m \in 1..Len(written'[s][i])
          PROVE  LET l == written'[s][i][m] IN
                 l.svc = s /\ l.inst = i /\ l.n = m /\ 1 <= l.at /\ l.at <= clock'
      <4>1. i \in 1..Len(written[s])
        BY <1>12
      <4>2. CASE m \in 1..Len(written[s][i]) /\ written'[s][i][m] = written[s][i][m]
        <5>1. IsLine(s, i, m)
          BY <1>1, <4>1, <4>2, LineFacts
        <5> QED
          BY <1>2, <1>4, <4>2, <5>1 DEF IsLine
      <4>3. CASE i = c /\ m = N + 1 /\ written'[s][i][m] = line
        BY <1>4, <1>5, <4>3
      <4> QED
        BY <1>12, <4>2, <4>3
    <3> QED
      BY <2>2, <3>1, <3>2
  <2> QED
    BY <2>1, <2>2
<1>14. ASSUME NEW i \in 1..Len(written[s]), NEW m \in 1..Len(written[s][i])
       PROVE  /\ written[s][i][m].at <= clock'
              /\ i # c => written[s][i][m].at < clock'
  <2>1. written[s][i][m].at \in Nat /\ written[s][i][m].at <= clock
    <3>1. IsLine(s, i, m)
      BY <1>1, LineFacts
    <3> QED
      BY <3>1 DEF IsLine
  <2>2. ASSUME i # c, clock' = clock, N # 0, w[N].at = clock PROVE written[s][i][m].at < clock
    <3>1. i < c
      BY <1>2, <2>2 DEF c
    <3>2. N \in 1..Len(written[s][c])
      BY <1>3, <2>2 DEF N, w
    <3> QED
      BY <1>1, <1>3, <2>2, <3>1, <3>2 DEF TimeInv, w
  <2> QED
    BY <1>2, <1>4, <2>1, <2>2
<1>15. TimeInv'
  <2> SUFFICES ASSUME NEW t \in Services, NEW i \in 1..Len(written'[t]), NEW j \in 1..Len(written'[t]),
                      NEW m \in 1..Len(written'[t][i]), NEW n \in 1..Len(written'[t][j])
               PROVE  /\ i < j => written'[t][i][m].at < written'[t][j][n].at
                      /\ i = j /\ m <= n => written'[t][i][m].at <= written'[t][j][n].at
    BY DEF TimeInv
  <2>1. CASE t # s
    BY <1>1, <1>9, <2>1 DEF TimeInv
  <2>2. CASE t = s
    <3>1. i \in 1..Len(written[s]) /\ j \in 1..Len(written[s]) /\ Len(written[s]) = c /\ c \in Nat
      BY <1>2, <1>12, <2>2 DEF c
    <3>2. CASE m \in 1..Len(written[s][i]) /\ written'[s][i][m] = written[s][i][m]
      <4>1. CASE n \in 1..Len(written[s][j]) /\ written'[s][j][n] = written[s][j][n]
        BY <1>1, <2>2, <3>1, <3>2, <4>1 DEF TimeInv
      <4>2. CASE j = c /\ n = N + 1 /\ written'[s][j][n] = line
        <5>1. i < j => i # c
          BY <3>1, <4>2
        <5> QED
          BY <1>5, <1>14, <2>2, <3>1, <3>2, <4>2, <5>1
      <4> QED
        BY <1>12, <2>2, <4>1, <4>2
    <3>3. CASE i = c /\ m = N + 1 /\ written'[s][i][m] = line
      <4>1. ~(i < j)
        BY <3>1, <3>3
      <4>2. i = j /\ m <= n => n = N + 1 /\ written'[s][j][n] = line
        <5> SUFFICES ASSUME i = j, m <= n PROVE n = N + 1 /\ written'[s][j][n] = line
          OBVIOUS
        <5>1. n \in 1..(N + 1) /\ N \in Nat
          BY <1>3, <1>11, <2>2, <3>3
        <5>2. n = N + 1
          BY <3>3, <5>1
        <5> QED
          BY <1>11, <3>3, <5>2
      <4> QED
        BY <1>4, <1>5, <2>2, <3>3, <4>1, <4>2
    <3> QED
      BY <1>12, <2>2, <3>2, <3>3
  <2> QED
    BY <2>1, <2>2
<1>16. ASSUME NEW t \in Services PROVE Grows(t)
  <2>1. \A i \in 1..container[t].inst : Len(written[t][i]) \in Nat
    BY <1>1, <1>2, LinesThere
  <2>2. container'[t].inst = container[t].inst /\ (Alive(t)' <=> Alive(t))
    BY <1>1 DEF Alive
  <2>3. CASE t # s
    <3>1. written'[t] = written[t]
      BY <1>9, <2>3
    <3> QED
      BY <1>2, <2>1, <2>2, <3>1 DEF Grows
  <2>4. CASE t = s
    <3> SUFFICES ASSUME NEW i \in 1..container[s].inst
                 PROVE  /\ Len(written[s][i]) <= Len(written'[s][i])
                        /\ \A m \in 1..Len(written[s][i]) : written'[s][i][m] = written[s][i][m]
                        /\ \A m \in 1..Len(written'[s][i]) : m > Len(written[s][i]) =>
                             /\ i = container[s].inst
                             /\ clock < written'[s][i][m].at \/ SameTime(s, i, m)'
      BY <1>1, <1>2, <2>2, <2>4 DEF Grows
    <3>1. CASE i # c
      <4>1. written'[s][i] = written[s][i]
        BY <1>2, <1>10, <3>1
      <4> QED
        BY <2>1, <2>4, <4>1
    <3>2. CASE i = c
      <4>1. Len(written[s][i]) = N /\ N <= Len(written'[s][i])
        BY <1>3, <1>11, <3>2 DEF N, w
      <4>2. \A m \in 1..N : written'[s][i][m] = written[s][i][m]
        BY <1>11, <3>2 DEF w
      <4>3. ASSUME NEW m \in 1..Len(written'[s][i]), m > N
            PROVE  clock < written'[s][i][m].at \/ SameTime(s, i, m)'
        <5>1. m = N + 1 /\ written'[s][i][m] = line
          BY <1>3, <1>11, <3>2, <4>3
        <5>2. CASE clock' = clock + 1
          BY <1>2, <1>5, <5>1, <5>2
        <5>3. CASE clock' = clock /\ N # 0 /\ w[N].at = clock
          <6>1. m > 1 /\ m - 1 = N /\ N \in 1..N
            BY <1>3, <5>1, <5>3
          <6>2. written'[s][i][N] = w[N]
            BY <1>11, <3>2, <6>1
          <6> QED
            BY <1>5, <5>1, <5>3, <6>1, <6>2 DEF SameTime
        <5> QED
          BY <1>4, <5>2, <5>3
      <4> QED
        BY <3>2, <4>1, <4>2, <4>3 DEF c
    <3> QED
      BY <3>1, <3>2
  <2> QED
    BY <2>3, <2>4
<1> QED
  BY <1>1, <1>w, <1>13, <1>15, <1>16, WorldKeeps

-----------------------------------------------------------------------------
(* Run, the status updater and printLogs                                   *)

LEMMA MainKeeps ==
  ASSUME LogsInv, Main, breaks' \in Nat, main' \in {"check", "checked", "started", "failed"},
         ctx' \in {"live", "interrupted", "cancelled"}, watcher' \in {"off", "on", "ended"},
         fwd' \in [Services -> Forwarders], notifier' \in [Services -> Notifiers],
         SentLines' = SentLines => NotStartedInv' /\ \A t \in Services : ServiceOk(t)'
  PROVE  LogsInv'
<1>1. /\ UNCHANGED <<container, written, clock, cmd, follow, combinedLogs, window, printing, printed, staleExit>>
      /\ printing
  BY DEF Main, Ended, printVars
<1>2. Out' = Out
  BY <1>1 DEF Out
<1>3. SentLines' = SentLines /\ OrderInv' /\ OnceInv'
  BY <1>1, <1>2, SameOut DEF LogsInv
<1>4. WorldShape' /\ CommandShape' /\ EndInv'
  BY <1>1 DEF LogsInv, WorldShape, CommandShape, EndInv
<1>5. LinesInv'
  <2>1. WrittenInv' /\ TimeInv'
    BY <1>1, SameWritten DEF LogsInv, LinesInv
  <2>2. SentInv'
    BY <1>1, <1>3 DEF LogsInv, LinesInv, SentInv
  <2> QED
    BY <2>1, <2>2 DEF LinesInv
<1> QED
  BY <1>3, <1>4, <1>5 DEF LogsInv

LEMMA CheckServiceStatusKeeps ==
  ASSUME LogsInv, CheckServiceStatus
  PROVE  LogsInv'
<1>1. /\ main = "check" /\ main' \in {"checked", "failed"} /\ Main
      /\ UNCHANGED <<breaks, ctx, notifier, watcher, fwd, container, written, follow, staleExit>>
  BY DEF CheckServiceStatus, NetworkWorks, statusVars, Main
<1>2. /\ CommandShape /\ breaks \in Nat
  BY DEF LogsInv, WorldShape
<1>3. ASSUME SentLines' = SentLines PROVE NotStartedInv' /\ \A t \in Services : ServiceOk(t)'
  <2>1. NotStartedInv'
    <3>1. NotStartedInv
      BY DEF LogsInv
    <3> QED
      BY <1>1, <1>3, <3>1 DEF NotStartedInv
  <2>2. \A t \in Services : ServiceOk(t)'
    BY <1>1, <1>3, ServiceSame DEF LogsInv
  <2> QED
    BY <2>1, <2>2
<1> QED
  BY <1>1, <1>2, <1>3, MainKeeps DEF CommandShape

LEMMA AllStoppedKeeps ==
  ASSUME LogsInv, AllStopped
  PROVE  LogsInv'
<1>1. /\ main = "started" /\ ctx' = "cancelled" /\ Main
      /\ UNCHANGED <<main, breaks, notifier, watcher, fwd, container, written, follow, staleExit>>
  BY DEF AllStopped, statusVars, Main
<1>2. /\ CommandShape /\ breaks \in Nat
  BY DEF LogsInv, WorldShape
<1>3. ASSUME SentLines' = SentLines PROVE NotStartedInv' /\ \A t \in Services : ServiceOk(t)'
  <2>1. NotStartedInv'
    BY <1>1 DEF NotStartedInv
  <2>2. \A t \in Services : ServiceOk(t)'
    BY <1>1, <1>3, ServiceSame DEF LogsInv
  <2> QED
    BY <2>1, <2>2
<1> QED
  BY <1>1, <1>2, <1>3, MainKeeps DEF CommandShape

LEMMA StartForwardingKeeps ==
  ASSUME LogsInv, StartForwarding
  PROVE  LogsInv'
<1>1. /\ main = "checked" /\ Main
      /\ UNCHANGED <<ctx, container, written, follow, staleExit>>
  BY DEF StartForwarding, Main
<1>2. /\ CommandShape /\ WorldShape /\ breaks \in Nat /\ follow \in BOOLEAN /\ fwd \in [Services -> Forwarders]
      /\ notifier \in [Services -> Notifiers]
  BY DEF LogsInv, WorldShape, CommandShape
<1>3. /\ SentLines = {} /\ watcher = "off"
      /\ \A s \in Services : /\ container[s].inst = 1 /\ fwd[s] = NotForwarding
                             /\ notifier[s].phase = "" /\ ~notifier[s].runningChan
  BY <1>1 DEF LogsInv, NotStartedInv
<1>n. /\ NotForwarding.pc = "off" /\ NotForwarding.inst = 0 /\ NotForwarding.last = 0
      /\ NotForwarding.exitOf = 0 /\ NotForwarding.exited = FALSE
  BY DEF NotForwarding
<1>4. CASE main' = "failed" /\ NetworkFails /\ UNCHANGED <<notifier, watcher, fwd>>
  <2>1. breaks' \in Nat /\ breaks' # 0
    BY <1>4, Breaks
  <2>2. ASSUME SentLines' = SentLines PROVE NotStartedInv' /\ \A t \in Services : ServiceOk(t)'
    <3>1. NotStartedInv'
      BY <1>1, <1>3, <1>4, <2>2 DEF NotStartedInv
    <3>2. \A t \in Services : ServiceOk(t)'
      BY <1>1, <1>4, <2>1, <2>2, ServiceSame DEF LogsInv
    <3> QED
      BY <3>1, <3>2
  <2> QED
    BY <1>1, <1>2, <1>4, <2>1, <2>2, MainKeeps DEF CommandShape
<1>5. CASE main' = "started"
  <2> DEFINE told(s) == [notifier[s] EXCEPT !.phase = container[s].st, !.told = IF Alive(s) THEN 0 ELSE 1]
  <2>1. /\ NetworkWorks
        /\ watcher' = IF follow THEN "on" ELSE "off"
        /\ notifier' = [s \in Services |-> IF follow THEN Exited(told(s)) ELSE notifier[s]]
        /\ fwd' = [s \in Services |-> IF s \in cmd.services THEN CallForwardLogs(notifier'[s]) ELSE fwd[s]]
    <3>1. \A s \in Services : StatusOf[s] = container[s].st
      BY DEF StatusOf
    <3>2. /\ NetworkWorks
          /\ watcher' = IF follow THEN "on" ELSE "off"
          /\ notifier' = [s \in Services |->
               IF follow THEN Exited([notifier[s] EXCEPT !.phase = StatusOf[s],
                                                         !.told = IF Alive(s) THEN 0 ELSE 1])
                         ELSE notifier[s]]
          /\ fwd' = [s \in Services |->
               IF s \in cmd.services THEN CallForwardLogs(notifier'[s]) ELSE fwd[s]]
      BY <1>5 DEF StartForwarding
    <3> QED
      BY <3>1, <3>2
  <2>2. \A s \in Services : /\ told(s) \in Notifiers /\ told(s).phase = container[s].st
                            /\ told(s).told = (IF Alive(s) THEN 0 ELSE 1)
                            /\ ~told(s).runningChan
    <3> SUFFICES ASSUME NEW s \in Services
                 PROVE  /\ told(s) \in Notifiers /\ told(s).phase = container[s].st
                        /\ told(s).told = (IF Alive(s) THEN 0 ELSE 1)
                        /\ ~told(s).runningChan
      OBVIOUS
    <3>1. notifier[s] \in Notifiers /\ container[s].st \in {"RUNNING", "UNHEALTHY", "EXITED"}
      BY <1>2 DEF WorldShape
    <3>2. (IF Alive(s) THEN 0 ELSE 1) \in Nat
      OBVIOUS
    <3>3. told(s) \in Notifiers /\ told(s).phase = container[s].st
      BY <3>1, <3>2 DEF Notifiers
    <3>4. told(s).told = (IF Alive(s) THEN 0 ELSE 1) /\ told(s).runningChan = notifier[s].runningChan
      BY <3>1 DEF Notifiers
    <3> QED
      BY <1>3, <3>3, <3>4
  <2> HIDE DEF told
  <2>3. \A s \in Services : notifier'[s] = (IF follow THEN Exited(told(s)) ELSE notifier[s])
    BY <2>1
  <2>4. \A s \in Services : /\ notifier'[s] \in Notifiers /\ ~notifier'[s].runningChan
                            /\ follow => /\ notifier'[s].exitedChan = (container[s].st # "EXITED")
                                         /\ notifier'[s].phase = container[s].st
                                         /\ notifier'[s].told = (IF Alive(s) THEN 0 ELSE 1)
                            /\ ~follow => notifier'[s] = notifier[s]
    <3> SUFFICES ASSUME NEW s \in Services
                 PROVE  /\ notifier'[s] \in Notifiers /\ ~notifier'[s].runningChan
                        /\ follow => /\ notifier'[s].exitedChan = (container[s].st # "EXITED")
                                     /\ notifier'[s].phase = container[s].st
                                     /\ notifier'[s].told = (IF Alive(s) THEN 0 ELSE 1)
                        /\ ~follow => notifier'[s] = notifier[s]
      OBVIOUS
    <3>1. CASE follow
      <4>1. notifier'[s] = Exited(told(s))
        BY <2>3, <3>1
      <4>2. /\ told(s) \in Notifiers /\ told(s).phase = container[s].st
            /\ told(s).told = (IF Alive(s) THEN 0 ELSE 1) /\ ~told(s).runningChan
        BY <2>2
      <4>3. /\ notifier'[s] \in Notifiers /\ notifier'[s].exitedChan = (told(s).phase # "EXITED")
            /\ notifier'[s].phase = told(s).phase /\ notifier'[s].told = told(s).told
            /\ notifier'[s].runningChan = told(s).runningChan
        BY <4>1, <4>2, CalledExited
      <4> QED
        BY <3>1, <4>2, <4>3
    <3>2. CASE ~follow
      BY <1>2, <1>3, <2>3, <3>2
    <3> QED
      BY <3>1, <3>2
  <2>5. notifier' \in [Services -> Notifiers]
    <3>1. notifier' = [s \in Services |-> notifier'[s]]
      BY <2>1
    <3> QED
      BY <2>4, <3>1
  <2>6. \A s \in Services : fwd'[s] = CallForwardLogs(notifier'[s]) \/ fwd'[s] = fwd[s]
    BY <2>1
  <2>7. \A s \in Services : /\ fwd'[s] \in Forwarders /\ fwd'[s].pc \in {"connect", "off"}
                            /\ fwd'[s].inst = 0 /\ fwd'[s].last = 0
                            /\ fwd'[s].exited => follow /\ notifier'[s].phase = "EXITED" /\ fwd'[s].exitOf = notifier'[s].told
                            /\ fwd'[s].exitOf # 0 => notifier'[s].phase = "EXITED" /\ fwd'[s].exitOf = notifier'[s].told
    <3> SUFFICES ASSUME NEW s \in Services
                 PROVE  /\ fwd'[s] \in Forwarders /\ fwd'[s].pc \in {"connect", "off"}
                        /\ fwd'[s].inst = 0 /\ fwd'[s].last = 0
                        /\ fwd'[s].exited => follow /\ notifier'[s].phase = "EXITED" /\ fwd'[s].exitOf = notifier'[s].told
                        /\ fwd'[s].exitOf # 0 => notifier'[s].phase = "EXITED" /\ fwd'[s].exitOf = notifier'[s].told
      OBVIOUS
    <3>1. CASE fwd'[s] = fwd[s]
      BY <1>2, <1>3, <1>n, <3>1
    <3>2. CASE fwd'[s] = CallForwardLogs(notifier'[s])
      <4>1. notifier'[s] \in Notifiers
        BY <2>4
      <4>2. /\ fwd'[s] \in Forwarders /\ fwd'[s].pc = "connect" /\ fwd'[s].inst = 0 /\ fwd'[s].last = 0
            /\ fwd'[s].exited = (follow /\ notifier'[s].phase = "EXITED")
            /\ fwd'[s].exitOf = (IF notifier'[s].phase = "EXITED" THEN notifier'[s].told ELSE 0)
        BY <1>2, <3>2, <4>1, Called
      <4> QED
        BY <4>2
    <3> QED
      BY <2>6, <3>1, <3>2
  <2>8. fwd' \in [Services -> Forwarders]
    <3>1. fwd' = [s \in Services |-> fwd'[s]]
      BY <2>1
    <3> QED
      BY <2>7, <3>1
  <2>9. ASSUME SentLines' = SentLines PROVE NotStartedInv' /\ \A t \in Services : ServiceOk(t)'
    <3>1. NotStartedInv'
      BY <1>5 DEF NotStartedInv
    <3> SUFFICES ASSUME NEW s \in Services PROVE ServiceOk(s)'
      BY <3>1
    <3>2. Alive(s)' <=> Alive(s)
      BY <1>1 DEF Alive
    <3>a. container[s].st \in {"RUNNING", "UNHEALTHY", "EXITED"} /\ (container[s].st = "EXITED" <=> ~Alive(s))
      BY <1>2 DEF WorldShape, Alive
    <3>i. container'[s].inst = 1 /\ container[s].inst = 1
      BY <1>1, <1>3
    <3>f. /\ fwd'[s].pc \in {"connect", "off"} /\ fwd'[s].inst = 0 /\ fwd'[s].last = 0
          /\ fwd'[s].exited => follow /\ notifier'[s].phase = "EXITED" /\ fwd'[s].exitOf = notifier'[s].told
          /\ fwd'[s].exitOf # 0 => notifier'[s].phase = "EXITED" /\ fwd'[s].exitOf = notifier'[s].told
      BY <2>7
    <3>n. /\ ~notifier'[s].runningChan /\ watcher' # "ended"
          /\ follow => /\ notifier'[s].exitedChan = (container[s].st # "EXITED")
                       /\ notifier'[s].phase = container[s].st
                       /\ notifier'[s].told = (IF Alive(s) THEN 0 ELSE 1)
          /\ ~follow => notifier'[s] = notifier[s] /\ notifier[s].phase = ""
      BY <1>3, <2>1, <2>4
    <3>3. LastOk(s)' /\ GapOk(s)'
      <4>1. LastOk(s)'
        BY <3>f, <3>i DEF LastOk
      <4>2. GapOk(s)'
        BY <3>f DEF GapOk
      <4> QED
        BY <4>1, <4>2
    <3>4. NotifierOk(s)'
      <4>1. CASE follow
        <5>1. notifier'[s].exitedChan => notifier'[s].phase # "EXITED"
          BY <3>n, <4>1, Zenon
        <5>2. /\ notifier'[s].told = (IF Alive(s) THEN 0 ELSE 1) /\ ~notifier'[s].runningChan
              /\ watcher' # "ended" /\ notifier'[s].phase = container[s].st
          BY <3>n, <4>1
        <5> QED
          BY <3>2, <3>a, <3>i, <5>1, <5>2 DEF NotifierOk
      <4>2. CASE ~follow
        <5>1. NotifierOk(s)
          BY DEF LogsInv, ServiceOk
        <5> QED
          BY <3>2, <3>i, <3>n, <4>2, <5>1 DEF NotifierOk
      <4> QED
        BY <4>1, <4>2
    <3>5. ExitOk(s)'
      <4>1. CASE follow
        BY <3>2, <3>a, <3>f, <3>i, <3>n, <4>1 DEF ExitOk
      <4>2. CASE ~follow
        BY <3>f, <3>n, <4>2 DEF ExitOk
      <4> QED
        BY <4>1, <4>2
    <3>6. FreshOk(s)'
      BY <1>3, <2>9 DEF FreshOk
    <3>7. WholeOk(s)'
      BY <2>7 DEF WholeOk
    <3> QED
      BY <3>3, <3>4, <3>5, <3>6, <3>7 DEF ServiceOk
  <2>10. breaks' = breaks
    BY <2>1 DEF NetworkWorks
  <2>11. watcher' \in {"on", "off"}
    BY <2>1
  <2> QED
    BY <1>1, <1>2, <1>5, <2>5, <2>8, <2>9, <2>10, <2>11, MainKeeps DEF CommandShape
<1> QED
  BY <1>4, <1>5 DEF StartForwarding, statusVars

\* UpdatePhase: what becomes of a notifier n, and of its goroutine f, when the phase
\* of s is p.
Notified(s, p) ==
    LET n == notifier[s]
        f == fwd[s]
        closes == n.exitedChan /\ p = "EXITED"
    IN  /\ notifier'[s] \in Notifiers /\ fwd'[s] \in Forwarders
        /\ n.phase = p => notifier'[s] = n
        /\ n.phase # p => /\ notifier'[s].phase = p
                          /\ notifier'[s].exitedChan => p # "EXITED"
                          /\ notifier'[s].runningChan => p # "RUNNING"
                          /\ notifier'[s].told = (IF p = "EXITED" /\ ~Alive(s) THEN container[s].inst ELSE 0)
        /\ fwd'[s].exited => f.exited \/ closes
        /\ fwd'[s].exitOf = (IF closes /\ ~Alive(s) THEN container[s].inst ELSE f.exitOf)
        /\ f.running => fwd'[s].running
        /\ fwd'[s].running => f.running \/ (n.runningChan /\ p = "RUNNING")
        /\ fwd'[s].pc = f.pc /\ fwd'[s].inst = f.inst /\ fwd'[s].next = f.next /\ fwd'[s].last = f.last
        /\ fwd'[s].since = f.since

LEMMA UpdatePhaseNotifies ==
  ASSUME CommandShape, WorldShape,
         NEW phaseOf \in [Services -> {"RUNNING", "UNHEALTHY", "EXITED"}], UpdatePhase(phaseOf)
  PROVE  /\ \A s \in Services : Notified(s, phaseOf[s])
         /\ fwd' \in [Services -> Forwarders] /\ notifier' \in [Services -> Notifiers]
<1>1. ASSUME NEW s \in Services PROVE Notified(s, phaseOf[s])
  <2> DEFINE n == notifier[s]
             p == phaseOf[s]
             f == fwd[s]
             closes == n.exitedChan /\ phaseExited(p)
             nn == [phase       |-> p,
                    exitedChan  |-> n.exitedChan /\ ~phaseExited(p),
                    runningChan |-> n.runningChan /\ ~phaseRunning(p),
                    told        |-> IF phaseExited(p) /\ ~Alive(s) THEN container[s].inst ELSE 0]
             exitOf == IF closes /\ ~Alive(s) THEN container[s].inst ELSE f.exitOf
             ff == [f EXCEPT !.exited  = f.exited \/ closes,
                             !.exitOf  = exitOf,
                             !.running = f.running \/ (n.runningChan /\ phaseRunning(p))]
  <2>1. n \in Notifiers /\ f \in Forwarders /\ container[s].inst \in Nat /\ p \in {"RUNNING", "UNHEALTHY", "EXITED"}
    BY DEF CommandShape, WorldShape
  <2>2. notifier'[s] = (IF n.phase = p THEN n ELSE nn)
    BY DEF UpdatePhase
  <2>3. fwd'[s] = ff
    BY DEF UpdatePhase
  <2>4. (phaseExited(p) <=> p = "EXITED") /\ (phaseRunning(p) <=> p = "RUNNING")
    BY <2>1 DEF phaseExited, phaseRunning
  <2>5. /\ nn \in Notifiers /\ nn.phase = p
        /\ nn.exitedChan = (n.exitedChan /\ ~phaseExited(p)) /\ nn.runningChan = (n.runningChan /\ ~phaseRunning(p))
        /\ nn.told = (IF phaseExited(p) /\ ~Alive(s) THEN container[s].inst ELSE 0)
    BY <2>1 DEF Notifiers
  <2>6. exitOf \in Nat
    BY <2>1 DEF Forwarders
  <2> HIDE DEF exitOf
  <2>7. /\ ff \in Forwarders /\ ff.exited = (f.exited \/ closes) /\ ff.exitOf = exitOf
        /\ ff.running = (f.running \/ (n.runningChan /\ phaseRunning(p)))
        /\ ff.pc = f.pc /\ ff.inst = f.inst /\ ff.next = f.next /\ ff.last = f.last /\ ff.since = f.since
    BY <2>1, <2>6 DEF Forwarders
  <2> HIDE DEF nn, ff
  <2>8. /\ notifier'[s] \in Notifiers /\ (n.phase = p => notifier'[s] = n)
        /\ n.phase # p => /\ notifier'[s].phase = p
                          /\ notifier'[s].exitedChan => p # "EXITED"
                          /\ notifier'[s].runningChan => p # "RUNNING"
                          /\ notifier'[s].told = (IF p = "EXITED" /\ ~Alive(s) THEN container[s].inst ELSE 0)
    <3>1. CASE n.phase = p
      BY <2>1, <2>2, <3>1
    <3>2. CASE n.phase # p
      <4>1. notifier'[s] = nn
        BY <2>2, <3>2
      <4>2. (nn.exitedChan => ~phaseExited(p)) /\ (nn.runningChan => ~phaseRunning(p))
        BY <2>5, Zenon
      <4>3. nn.told = (IF p = "EXITED" /\ ~Alive(s) THEN container[s].inst ELSE 0)
        BY <2>4, <2>5
      <4> QED
        BY <2>4, <2>5, <3>2, <4>1, <4>2, <4>3
    <3> QED
      BY <3>1, <3>2
  <2>9. /\ fwd'[s].exited => f.exited \/ (n.exitedChan /\ p = "EXITED")
        /\ f.running => fwd'[s].running
        /\ fwd'[s].running => f.running \/ (n.runningChan /\ p = "RUNNING")
    <3>1. /\ ff.exited => f.exited \/ closes
          /\ f.running => ff.running
          /\ ff.running => f.running \/ (n.runningChan /\ phaseRunning(p))
      BY <2>7, Zenon
    <3> QED
      BY <2>3, <2>4, <3>1
  <2>10. fwd'[s].exitOf = (IF (n.exitedChan /\ p = "EXITED") /\ ~Alive(s) THEN container[s].inst ELSE f.exitOf)
    BY <2>3, <2>4, <2>7 DEF exitOf
  <2>11. /\ fwd'[s] \in Forwarders /\ fwd'[s].pc = f.pc /\ fwd'[s].inst = f.inst /\ fwd'[s].next = f.next
         /\ fwd'[s].last = f.last /\ fwd'[s].since = f.since
    BY <2>3, <2>7
  <2> QED
    BY <2>8, <2>9, <2>10, <2>11 DEF Notified
<1>2. \A s \in Services : notifier'[s] \in Notifiers /\ fwd'[s] \in Forwarders
  BY <1>1 DEF Notified
<1>3. notifier' = [s \in Services |-> notifier'[s]] /\ fwd' = [s \in Services |-> fwd'[s]]
  BY DEF UpdatePhase
<1>4. fwd' \in [Services -> Forwarders] /\ notifier' \in [Services -> Notifiers]
  BY <1>2, <1>3
<1> QED
  BY <1>1, <1>4

\* The goroutines and the notifiers after a message of the status watch.
LEMMA NotifiedKeeps ==
  ASSUME LogsInv, NEW s \in Services, NEW p \in {"RUNNING", "UNHEALTHY", "EXITED"}, Notified(s, p),
         UNCHANGED <<container, written, follow, breaks, staleExit>>, SentLines' = SentLines,
         \/ p = container[s].st /\ watcher = "on" /\ watcher' = "on"
         \/ p = "EXITED" /\ watcher = "on" /\ watcher' = "ended"
  PROVE  ServiceOk(s)'
<1> DEFINE f == fwd[s]
           n == notifier[s]
           c == container[s].inst
<1>1. /\ CommandShape /\ WorldShape /\ SentInv /\ WrittenInv /\ ServiceOk(s) /\ f \in Forwarders /\ n \in Notifiers
      /\ c \in Nat /\ c # 0 /\ (Alive(s)' <=> Alive(s))
  BY DEF LogsInv, LinesInv, CommandShape, WorldShape, Alive
<1>2. container[s].st \in {"RUNNING", "UNHEALTHY", "EXITED"} /\ (container[s].st = "EXITED" <=> ~Alive(s))
  BY <1>1 DEF WorldShape, Alive
<1>3. /\ fwd'[s].pc = f.pc /\ fwd'[s].inst = f.inst /\ fwd'[s].next = f.next /\ fwd'[s].last = f.last
      /\ fwd'[s].since = f.since
  BY DEF Notified
<1>4. LastOk(s)'
  BY <1>1, <1>3 DEF ServiceOk, LastOk
<1>5. GapOk(s)'
  BY <1>1, <1>3 DEF ServiceOk, GapOk, Covered, SameTime
<1>6. WholeOk(s)'
  <2>1. AllSent(s) => AllSent(s)'
    BY <1>3, AllSentSame
  <2> QED
    BY <1>1, <1>3, <2>1 DEF ServiceOk, WholeOk
<1>7. /\ n.exitedChan => n.phase # "EXITED"
      /\ n.runningChan => n.phase # "RUNNING"
      /\ n.told # 0 => n.told <= c /\ (n.told = c => ~Alive(s))
      /\ n.phase = "EXITED" /\ n.told = 0 => watcher = "ended"
  BY <1>1 DEF ServiceOk, NotifierOk
<1>8. /\ f.exitOf # 0 => /\ f.exitOf <= c /\ (f.exitOf = c => ~Alive(s))
                         /\ n.phase = "RUNNING" => f.exitOf < c
      /\ f.exited /\ f.exitOf = 0 => watcher = "ended"
  BY <1>1 DEF ServiceOk, ExitOk
<1>p. notifier'[s].phase = p
  BY DEF Notified
<1>9. NotifierOk(s)'
  <2>1. CASE n.phase = p
    <3>1. notifier'[s] = n
      BY <2>1 DEF Notified
    <3> QED
      BY <1>1, <1>7, <2>1, <3>1 DEF NotifierOk
  <2>2. CASE n.phase # p
    <3>1. /\ notifier'[s].phase = p
          /\ notifier'[s].exitedChan => p # "EXITED"
          /\ notifier'[s].runningChan => p # "RUNNING"
          /\ notifier'[s].told = (IF p = "EXITED" /\ ~Alive(s) THEN c ELSE 0)
      BY <2>2 DEF Notified
    <3> QED
      BY <1>1, <1>2, <3>1 DEF NotifierOk
  <2> QED
    BY <2>1, <2>2
<1>10. ExitOk(s)'
  <2>1. /\ fwd'[s].exited => f.exited \/ (n.exitedChan /\ p = "EXITED")
        /\ fwd'[s].exitOf = (IF (n.exitedChan /\ p = "EXITED") /\ ~Alive(s) THEN c ELSE f.exitOf)
    BY DEF Notified
  <2>2. f.exitOf \in Nat
    BY <1>1 DEF Forwarders
  <2>3. CASE (n.exitedChan /\ p = "EXITED") /\ ~Alive(s)
    BY <1>1, <1>p, <2>1, <2>3 DEF ExitOk
  <2>4. CASE ~((n.exitedChan /\ p = "EXITED") /\ ~Alive(s))
    <3>1. fwd'[s].exitOf = f.exitOf
      BY <2>1, <2>4
    <3>2. f.exitOf # 0 /\ p = "RUNNING" => f.exitOf < c
      <4>1. p = "RUNNING" => Alive(s)
        BY <1>2
      <4> QED
        BY <1>1, <1>8, <2>2, <4>1
    <3>3. fwd'[s].exited /\ f.exitOf = 0 => watcher' = "ended"
      BY <1>2, <1>8, <2>1, <2>4
    <3> QED
      BY <1>1, <1>8, <1>p, <3>1, <3>2, <3>3 DEF ExitOk
  <2> QED
    BY <2>3, <2>4
<1>11. FreshOk(s)'
  <2> SUFFICES ASSUME s \notin staleExit, NEW l \in SentLines, l.svc = s
               PROVE  /\ f.pc = "wait" /\ fwd'[s].running => l.inst < c
                      /\ f.pc = "wait" /\ ~fwd'[s].running /\ watcher' # "ended" /\ l.inst = c => ~Alive(s)
    BY <1>1, <1>3 DEF ServiceOk, FreshOk
  <2>1. /\ f.pc = "wait" /\ f.running => l.inst < c
        /\ f.pc = "wait" /\ ~f.running /\ watcher # "ended" /\ l.inst = c => ~Alive(s)
    BY <1>1 DEF ServiceOk, FreshOk
  <2>2. l.inst \in Nat /\ l.inst <= c
    BY <1>1 DEF SentInv, WrittenInv
  <2>3. f.running => fwd'[s].running
    BY DEF Notified
  <2>4. fwd'[s].running => f.running \/ p = "RUNNING"
    BY DEF Notified
  <2>5. p = "RUNNING" => Alive(s)
    BY <1>2
  <2>6. f.pc = "wait" /\ fwd'[s].running => l.inst < c
    <3>1. CASE f.running
      BY <2>1, <3>1
    <3>2. CASE ~f.running
      BY <1>1, <2>1, <2>2, <2>4, <2>5, <3>2
    <3> QED
      BY <3>1, <3>2
  <2> QED
    BY <2>1, <2>3, <2>6
<1> QED
  BY <1>4, <1>5, <1>6, <1>9, <1>10, <1>11 DEF ServiceOk

LEMMA WatchKeeps ==
  ASSUME LogsInv, WatchStatus \/ WatchEnds
  PROVE  LogsInv'
<1>1. /\ watcher = "on" /\ Main /\ UNCHANGED <<main, ctx, breaks, container, written, follow, staleExit>>
  BY DEF WatchStatus, WatchEnds, Main
<1>2. CommandShape /\ WorldShape /\ breaks \in Nat /\ main = "started"
  BY <1>1 DEF LogsInv, WorldShape, NotStartedInv
<1>3. ASSUME NEW phaseOf \in [Services -> {"RUNNING", "UNHEALTHY", "EXITED"}], UpdatePhase(phaseOf),
             \A s \in Services : \/ phaseOf[s] = container[s].st /\ watcher' = "on"
                                 \/ phaseOf[s] = "EXITED" /\ watcher' = "ended",
             watcher' \in {"on", "ended"}
      PROVE  LogsInv'
  <2>1. /\ \A s \in Services : Notified(s, phaseOf[s])
        /\ fwd' \in [Services -> Forwarders] /\ notifier' \in [Services -> Notifiers]
    BY <1>2, <1>3, UpdatePhaseNotifies
  <2>2. ASSUME SentLines' = SentLines PROVE NotStartedInv' /\ \A t \in Services : ServiceOk(t)'
    <3>1. NotStartedInv'
      BY <1>1, <1>2 DEF NotStartedInv
    <3>2. ASSUME NEW s \in Services PROVE ServiceOk(s)'
      <4>1. phaseOf[s] \in {"RUNNING", "UNHEALTHY", "EXITED"}
        BY <1>3
      <4> QED
        BY <1>1, <1>3, <2>1, <2>2, <4>1, NotifiedKeeps
    <3> QED
      BY <3>1, <3>2
  <2> QED
    BY <1>1, <1>2, <1>3, <2>1, <2>2, MainKeeps DEF CommandShape
<1>4. CASE WatchStatus
  <2>1. StatusOf \in [Services -> {"RUNNING", "UNHEALTHY", "EXITED"}] /\ \A s \in Services : StatusOf[s] = container[s].st
    BY <1>2 DEF StatusOf, WorldShape
  <2>2. UpdatePhase(StatusOf) /\ watcher' = "on"
    BY <1>1, <1>4 DEF WatchStatus
  <2> QED
    BY <1>3, <2>1, <2>2
<1>5. CASE WatchEnds
  <2> DEFINE ph == [s \in Services |-> "EXITED"]
  <2>1. ph \in [Services -> {"RUNNING", "UNHEALTHY", "EXITED"}] /\ \A s \in Services : ph[s] = "EXITED"
    OBVIOUS
  <2>2. UpdatePhase(ph) /\ watcher' = "ended"
    BY <1>5 DEF WatchEnds
  <2> HIDE DEF ph
  <2> QED
    BY <1>3, <2>1, <2>2
<1> QED
  BY <1>4, <1>5

LEMMA PrinterKeeps ==
  ASSUME LogsInv, TakeLine \/ Flush \/ Return \/ Interrupt
  PROVE  LogsInv'
<1>1. UNCHANGED <<worldVars, main, statusVars, fwd, staleExit>> /\ printing
  BY DEF TakeLine, Flush, Return, Interrupt, Printer, Ended
<1>2. /\ Out' = Out \/ Reordered(Out, Out')
      /\ combinedLogs' \in Seq(Entries) /\ window' \in Seq(Entries) /\ printed' \in Seq(Entries)
  BY PrinterOut DEF LogsInv
<1>3. SentLines' = SentLines /\ OrderInv' /\ OnceInv'
  <2>0. UNCHANGED <<written, staleExit>>
    BY <1>1 DEF worldVars
  <2>1. CASE Out' = Out
    BY <2>0, <2>1, SameOut DEF LogsInv
  <2>2. CASE Reordered(Out, Out')
    BY <2>0, <2>2, ReorderKeeps DEF LogsInv
  <2> QED
    BY <1>2, <2>1, <2>2
<1>4. WorldShape'
  BY <1>1 DEF LogsInv, WorldShape, worldVars
<1>5. printing' \in BOOLEAN /\ ctx' \in {"live", "interrupted", "cancelled"}
  BY DEF LogsInv, CommandShape, TakeLine, Flush, Return, Interrupt, Printer
<1>6. CommandShape'
  BY <1>1, <1>2, <1>5 DEF LogsInv, CommandShape, statusVars
<1>7. LinesInv'
  <2>1. WrittenInv' /\ TimeInv'
    BY <1>1, SameWritten DEF LogsInv, LinesInv, worldVars
  <2>2. SentInv'
    BY <1>1, <1>3 DEF LogsInv, LinesInv, SentInv, worldVars
  <2> QED
    BY <2>1, <2>2 DEF LinesInv
<1>8. NotStartedInv'
  <2>1. NotStartedInv
    BY DEF LogsInv
  <2> QED
    BY <1>1, <1>3, <2>1 DEF NotStartedInv, worldVars, statusVars
<1>9. EndInv'
  BY <1>1 DEF EndInv, TakeLine, Flush, Return, Interrupt
<1>10. \A t \in Services : ServiceOk(t)'
  BY <1>1, <1>3, ServiceSame DEF LogsInv, worldVars, statusVars
<1> QED
  BY <1>3, <1>4, <1>6, <1>7, <1>8, <1>9, <1>10 DEF LogsInv

LEMMA LogsInitInv == LogsInit => LogsInv
<1> SUFFICES ASSUME LogsInit PROVE LogsInv
  OBVIOUS
<1> DEFINE quiet == [phase |-> "", exitedChan |-> FALSE, runningChan |-> FALSE, told |-> 0]
<1>a. PICK up \in SUBSET cmd.services :
        container = [s \in Services |-> [inst |-> 1, st |-> IF s \in up THEN "RUNNING" ELSE "EXITED"]]
  BY DEF LogsInit
<1>b. /\ written = [s \in Services |-> << <<>> >>] /\ fwd = [s \in Services |-> NotForwarding]
      /\ notifier = [s \in Services |-> quiet]
      /\ cmd \in Commands /\ clock = 1 /\ breaks = 0 /\ follow \in BOOLEAN /\ main = "check" /\ ctx = "live"
      /\ watcher = "off" /\ combinedLogs = <<>> /\ window = <<>> /\ printed = <<>> /\ printing = TRUE
      /\ staleExit = {}
  BY DEF LogsInit
<1>n. /\ NotForwarding \in Forwarders /\ NotForwarding.pc = "off" /\ NotForwarding.inst = 0
      /\ NotForwarding.last = 0 /\ NotForwarding.exitOf = 0 /\ NotForwarding.exited = FALSE
  BY DEF NotForwarding, Forwarders
<1>q. quiet \in Notifiers /\ quiet.phase = "" /\ ~quiet.runningChan /\ ~quiet.exitedChan /\ quiet.told = 0
  BY DEF Notifiers
<1> HIDE DEF quiet
<1>w. /\ <<>> \in Seq(Lines) /\ Len(<<>>) = 0 /\ << <<>> >> \in Seq(Seq(Lines)) /\ Len(<< <<>> >>) = 1
      /\ << <<>> >>[1] = <<>>
  OBVIOUS
<1>1. WorldShape
  <2>1. container \in [Services -> [inst : Nat \ {0}, st : {"RUNNING", "UNHEALTHY", "EXITED"}]]
    BY <1>a
  <2>2. written \in [Services -> Seq(Seq(Lines))]
    BY <1>b, <1>w
  <2> QED
    BY <1>b, <2>1, <2>2 DEF WorldShape
<1>2. CommandShape
  <2>1. notifier \in [Services -> Notifiers] /\ fwd \in [Services -> Forwarders]
    BY <1>b, <1>n, <1>q
  <2>2. combinedLogs \in Seq(Entries) /\ window \in Seq(Entries) /\ printed \in Seq(Entries)
    BY <1>b
  <2> QED
    BY <1>b, <2>1, <2>2 DEF CommandShape
<1>3. Out = <<>> /\ Len(Out) = 0
  BY <1>b DEF Out
<1>4. SentLines = {}
  BY <1>3 DEF SentLines
<1>5. \A s \in Services : /\ container[s].inst = 1 /\ written[s] = << <<>> >> /\ fwd[s] = NotForwarding
                          /\ notifier[s].phase = "" /\ ~notifier[s].runningChan /\ ~notifier[s].exitedChan
                          /\ notifier[s].told = 0
  <2>1. \A s \in Services : container[s].inst = 1
    BY <1>a
  <2> QED
    BY <1>b, <1>q, <2>1
<1>6. \A s \in Services : Len(written[s]) = 1 /\ \A i \in 1..1 : Len(written[s][i]) = 0
  <2>1. \A i \in 1..1 : i = 1
    OBVIOUS
  <2> QED
    BY <1>5, <1>w, <2>1
<1>7. LinesInv
  <2>1. WrittenInv
    <3> SUFFICES ASSUME NEW s \in Services
                 PROVE  /\ Len(written[s]) = container[s].inst
                        /\ \A i \in 1..Len(written[s]) : ~\E m \in 1..Len(written[s][i]) : TRUE
      BY DEF WrittenInv
    <3>1. Len(written[s]) = 1 /\ container[s].inst = 1
      BY <1>5, <1>6
    <3>2. \A i \in 1..1 : Len(written[s][i]) = 0
      BY <1>6
    <3> QED
      BY <3>1, <3>2
  <2>2. TimeInv
    BY <1>6 DEF TimeInv
  <2>3. SentInv
    BY <1>4 DEF SentInv
  <2> QED
    BY <2>1, <2>2, <2>3 DEF LinesInv
<1>8. NotStartedInv
  BY <1>4, <1>5, <1>b DEF NotStartedInv
<1>9. OrderInv /\ OnceInv
  BY <1>3 DEF OrderInv, OnceInv
<1>10. EndInv
  BY <1>b DEF EndInv
<1>11. ASSUME NEW s \in Services PROVE ServiceOk(s)
  <2>1. /\ fwd[s].pc = "off" /\ fwd[s].inst = 0 /\ fwd[s].last = 0 /\ fwd[s].exitOf = 0
        /\ fwd[s].exited = FALSE
    BY <1>5, <1>n
  <2>2. LastOk(s) /\ GapOk(s) /\ ExitOk(s)
    <3>1. LastOk(s)
      <4>1. fwd[s].inst <= container[s].inst
        <5>1. container[s].inst = 1 /\ fwd[s].inst = 0
          BY <1>5, <2>1, Zenon
        <5> QED
          BY <5>1
      <4> QED
        BY <2>1, <4>1 DEF LastOk
    <3>2. GapOk(s)
      BY <2>1 DEF GapOk
    <3>3. ExitOk(s)
      BY <2>1 DEF ExitOk
    <3> QED
      BY <3>1, <3>2, <3>3
  <2>3. NotifierOk(s)
    BY <1>5, <1>b DEF NotifierOk
  <2>4. FreshOk(s) /\ WholeOk(s)
    BY <1>4, <2>1 DEF FreshOk, WholeOk
  <2> QED
    BY <2>2, <2>3, <2>4 DEF ServiceOk
<1> QED
  BY <1>1, <1>2, <1>7, <1>8, <1>9, <1>10, <1>11 DEF LogsInv

LEMMA LogsNextInv == LogsInv /\ [LogsNext]_logsVars => LogsInv'
<1> SUFFICES ASSUME LogsInv, [LogsNext]_logsVars PROVE LogsInv'
  OBVIOUS
<1>1. CASE \E s \in Services : WriteLine(s) \/ ContainerExits(s) \/ ContainerRestarts(s) \/ TurnsHealthy(s)
  BY <1>1, WriteLineKeeps, ContainerExitsKeeps, ContainerRestartsKeeps, TurnsHealthyKeeps
<1>2. CASE CheckServiceStatus \/ StartForwarding \/ WatchStatus \/ WatchEnds \/ AllStopped
  BY <1>2, CheckServiceStatusKeeps, StartForwardingKeeps, WatchKeeps, AllStoppedKeeps
<1>3. CASE \E s \in Services : ForwarderOf(s) \/ GetLogsFails(s) \/ StreamBreaks(s)
  BY <1>3, GetLogsKeeps, ReadLineKeeps, StreamEndsKeeps, ReconnectKeeps, PodExitedKeeps, RestartedKeeps,
     CancelledKeeps, GetLogsFailsKeeps, StreamBreaksKeeps DEF ForwarderOf
<1>4. CASE Interrupt \/ TakeLine \/ Flush \/ Return
  BY <1>4, PrinterKeeps
<1>5. CASE UNCHANGED logsVars
  <2>1. UNCHANGED <<container, written, clock, breaks, cmd, follow, main, ctx, notifier, watcher, fwd,
                    combinedLogs, window, printing, printed, staleExit>>
    BY <1>5 DEF logsVars, worldVars, statusVars, printVars
  <2>2. Out' = Out
    BY <2>1 DEF Out
  <2>3. SentLines' = SentLines /\ OrderInv' /\ OnceInv'
    BY <2>1, <2>2, SameOut DEF LogsInv
  <2>4. WorldShape' /\ CommandShape' /\ EndInv'
    BY <2>1 DEF LogsInv, WorldShape, CommandShape, EndInv
  <2>5. WrittenInv' /\ TimeInv'
    BY <2>1, SameWritten DEF LogsInv, LinesInv
  <2>6. SentInv' /\ NotStartedInv'
    BY <2>1, <2>3 DEF LogsInv, LinesInv, SentInv, NotStartedInv
  <2>7. \A t \in Services : ServiceOk(t)'
    BY <2>1, <2>3, ServiceSame DEF LogsInv
  <2> QED
    BY <2>3, <2>4, <2>5, <2>6, <2>7 DEF LogsInv, LinesInv
<1> QED
  BY <1>1, <1>2, <1>3, <1>4, <1>5 DEF LogsNext

LEMMA LogsInvariant == LogsSpec => []LogsInv
BY LogsInitInv, LogsNextInv, PTL DEF LogsSpec

-----------------------------------------------------------------------------
(* What the command prints                                                 *)

\* What is printed is the beginning of Out.
LEMMA PrintedFirst ==
  ASSUME CommandShape
  PROVE  /\ DOMAIN printed = 1..Len(printed) /\ Len(printed) \in Nat /\ Len(printed) <= Len(Out)
         /\ \A k \in 1..Len(printed) : k \in 1..Len(Out) /\ Out[k] = printed[k]
<1>1. combinedLogs \in Seq(Entries) /\ window \in Seq(Entries) /\ printed \in Seq(Entries)
  BY DEF CommandShape
<1> QED
  BY <1>1 DEF Out

\* A line that was sent is on the channel, in the window or printed.
LEMMA SentIsThere ==
  ASSUME CommandShape, NEW l \in SentLines
  PROVE  \E e \in ToSet(printed \o window \o combinedLogs) : SameLine(e, l)
<1>1. PICK k \in 1..Len(Out) : Out[k].whole /\ Out[k].line = l
  BY DEF SentLines
<1>2. DOMAIN Out = 1..Len(Out)
  BY OutShape
<1>3. Out[k] \in ToSet(Out)
  BY <1>2 DEF ToSet
<1> QED
  BY <1>1, <1>3 DEF SameLine, Out

\* A line is printed once, unless a forwardLogs took the exit of an earlier instance
\* for that of the container it was reading: isOldMessage discards what a reconnection
\* reads again.
THEOREM LinesPrintedOnce == LogsSpec => []PrintedOnce
<1>1. LogsInv => PrintedOnce
  <2> SUFFICES ASSUME LogsInv, NEW i \in DOMAIN printed, NEW j \in DOMAIN printed, i < j, printed[i].whole,
                      SameLine(printed[j], printed[i].line)
               PROVE  printed[i].line.svc \in staleExit
    BY DEF PrintedOnce
  <2>1. /\ i \in 1..Len(Out) /\ j \in 1..Len(Out) /\ Out[i] = printed[i] /\ Out[j] = printed[j]
    BY PrintedFirst DEF LogsInv
  <2> QED
    BY <2>1 DEF LogsInv, OnceInv
<1> QED
  BY <1>1, LogsInvariant, PTL

\* The lines of a container are printed in their order and none is skipped, except a
\* line with the time of the line before it.
THEOREM NothingSkipped == LogsSpec => []NoGap
<1>1. LogsInv => NoGap
  <2> SUFFICES ASSUME LogsInv PROVE NoGap
    OBVIOUS
  <2>0. CommandShape /\ WorldShape /\ WrittenInv
    BY DEF LogsInv, LinesInv
  <2>1. ASSUME NEW s \in Services, fwd[s].pc = "read", NEW m \in 1..(fwd[s].next - 1)
        PROVE  LET lines == LinesOf(s, fwd[s].inst) IN
               \/ \E e \in ToSet(printed \o window \o combinedLogs) : SameLine(e, lines[m])
               \/ m > 1 /\ lines[m].at = lines[m - 1].at
    <3>1. /\ 1 <= fwd[s].inst /\ fwd[s].inst <= container[s].inst /\ fwd[s].inst \in Nat
          /\ fwd[s].next \in Nat /\ fwd[s].next <= Len(written[s][fwd[s].inst]) + 1
      BY <2>1 DEF LogsInv, ServiceOk, LastOk, CommandShape, Forwarders
    <3>2. LinesOf(s, fwd[s].inst) = written[s][fwd[s].inst] /\ Len(written[s][fwd[s].inst]) \in Nat
      BY <2>0, <3>1, LinesThere
    <3>3. m \in 1..Len(written[s][fwd[s].inst]) /\ m < fwd[s].next
      BY <3>1, <3>2
    <3>4. Covered(s, fwd[s].inst, m)
      BY <2>1, <3>1, <3>3 DEF LogsInv, ServiceOk, GapOk
    <3>5. CASE written[s][fwd[s].inst][m] \in SentLines
      BY <2>0, <3>2, <3>5, SentIsThere
    <3>6. CASE SameTime(s, fwd[s].inst, m)
      BY <3>2, <3>6 DEF SameTime
    <3> QED
      BY <3>4, <3>5, <3>6 DEF Covered
  <2>2. ASSUME NEW k \in DOMAIN printed, printed[k].whole, NEW m \in 1..(printed[k].line.n - 1)
        PROVE  LET lines == LinesOf(printed[k].line.svc, printed[k].line.inst) IN
               \/ \E i \in 1..(k - 1) : SameLine(printed[i], lines[m])
               \/ m > 1 /\ lines[m].at = lines[m - 1].at
    <3> DEFINE l == printed[k].line
    <3>1. k \in 1..Len(printed) /\ k \in 1..Len(Out) /\ Out[k] = printed[k] /\ Len(printed) \in Nat
      BY <2>0, PrintedFirst
    <3>2. l \in SentLines
      BY <2>2, <3>1 DEF SentLines
    <3>3. l.svc \in Services /\ l.inst \in 1..Len(written[l.svc])
      BY <3>2 DEF LogsInv, LinesInv, SentInv
    <3>4. LinesOf(l.svc, l.inst) = written[l.svc][l.inst]
      <4>1. DOMAIN written[l.svc] = 1..Len(written[l.svc])
        BY <2>0, <3>3 DEF WorldShape
      <4> QED
        BY <3>3, <4>1 DEF LinesOf
    <3>5. \/ \E i \in 1..(k - 1) : SameLine(Out[i], written[l.svc][l.inst][m])
          \/ SameTime(l.svc, l.inst, m)
      BY <2>2, <3>1 DEF LogsInv, OrderInv
    <3>6. \A i \in 1..(k - 1) : Out[i] = printed[i]
      <4>1. \A i \in 1..(k - 1) : i \in 1..Len(printed)
        BY <3>1
      <4> QED
        BY <2>0, <4>1, PrintedFirst
    <3> QED
      BY <3>4, <3>5, <3>6 DEF SameTime
  <2> QED
    BY <2>1, <2>2 DEF NoGap
<1> QED
  BY <1>1, LogsInvariant, PTL

\* When the command returns because no container is tailed and the network did not
\* fail, everything that it read is printed, and with -f everything that was written.
THEOREM EverythingPrinted == LogsSpec => []AllPrinted
<1>1. LogsInv => AllPrinted
  <2> SUFFICES ASSUME LogsInv, ~printing, ctx = "cancelled", breaks = 0, NEW s \in Services,
                      fwd[s].pc \in {"wait", "gone"}, NEW n \in DOMAIN LinesOf(s, fwd[s].inst),
                      follow \/ n < fwd[s].next
               PROVE  IsPrinted(LinesOf(s, fwd[s].inst)[n])
    BY DEF AllPrinted
  <2>0. CommandShape /\ WorldShape /\ WrittenInv /\ follow \in BOOLEAN /\ ServiceOk(s)
    BY DEF LogsInv, LinesInv, WorldShape
  <2>1. fwd[s].inst \in Nat /\ fwd[s].inst <= container[s].inst /\ fwd[s].next \in Nat
    BY <2>0 DEF CommandShape, Forwarders, ServiceOk, LastOk
  <2>2. 1 <= fwd[s].inst
    BY <2>0, <2>1 DEF ServiceOk, WholeOk, AllSent
  <2>3. /\ LinesOf(s, fwd[s].inst) = written[s][fwd[s].inst] /\ Len(written[s][fwd[s].inst]) \in Nat
        /\ n \in 1..Len(written[s][fwd[s].inst])
    BY <2>0, <2>1, <2>2, LinesThere
  <2>4. written[s][fwd[s].inst][n] \in SentLines
    <3>1. CASE follow
      BY <2>0, <2>3, <3>1 DEF ServiceOk, WholeOk, AllSent
    <3>2. CASE ~follow
      <4>1. fwd[s].pc = "gone"
        BY <2>0, <3>2 DEF ServiceOk, LastOk
      <4>2. n \in 1..(fwd[s].next - 1)
        BY <2>1, <2>3, <3>2
      <4> QED
        BY <2>0, <3>2, <4>1, <4>2 DEF ServiceOk, WholeOk
    <3> QED
      BY <3>1, <3>2
  <2>5. window = <<>> /\ combinedLogs = <<>>
    BY DEF LogsInv, EndInv
  <2>6. Out = printed
    BY <2>0, <2>5 DEF Out, CommandShape
  <2>7. \E k \in 1..Len(printed) : SameLine(printed[k], written[s][fwd[s].inst][n])
    BY <2>4, <2>6 DEF SentLines, SameLine
  <2>8. DOMAIN printed = 1..Len(printed)
    BY <2>0 DEF CommandShape
  <2> QED
    BY <2>3, <2>7, <2>8 DEF IsPrinted
<1> QED
  BY <1>1, LogsInvariant, PTL

=============================================================================
