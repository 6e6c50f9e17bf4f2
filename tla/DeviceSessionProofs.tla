------------------------ MODULE DeviceSessionProofs ------------------------
(***************************************************************************)
(* What TLAPS proves of DeviceSession, for all values of its constants.    *)
(***************************************************************************)
EXTENDS DeviceSession, SequenceTheorems, TLAPS

-----------------------------------------------------------------------------
(* Sequences as sets of their elements *)

\* Appending a packet or a frame adds it to the elements.
LEMMA AppendElements ==
    ASSUME NEW S, NEW s \in Seq(S), NEW e \in S
    PROVE  /\ Append(s, e) \in Seq(S)
           /\ ToSet(Append(s, e)) = ToSet(s) \cup {e}
<1> USE DEF ToSet
<1>1. DOMAIN s = 1..Len(s) /\ Len(s) \in Nat
  BY LenProperties
<1>2. DOMAIN Append(s, e) = 1..(Len(s) + 1)
  BY AppendProperties, LenProperties
<1>3. \A i \in 1..Len(s) : Append(s, e)[i] = s[i]
  BY AppendProperties
<1>4. Append(s, e)[Len(s) + 1] = e
  BY AppendProperties
<1>5. QED
  BY <1>1, <1>2, <1>3, <1>4, AppendProperties

\* Reading the oldest packet leaves no new element behind.
LEMMA TailElements ==
    ASSUME NEW S, NEW s \in Seq(S), s # <<>>
    PROVE  /\ Tail(s) \in Seq(S)
           /\ ToSet(Tail(s)) \subseteq ToSet(s)
           /\ Head(s) \in ToSet(s) /\ Head(s) \in S
<1> USE DEF ToSet
<1>1. DOMAIN s = 1..Len(s) /\ Len(s) \in Nat \ {0}
  BY LenProperties, EmptySeq
<1>2. /\ Tail(s) \in Seq(S) /\ DOMAIN Tail(s) = 1..(Len(s) - 1)
      /\ \A i \in 1..(Len(s) - 1) : Tail(s)[i] = s[i + 1]
  BY HeadTailProperties, LenProperties
<1>3. Head(s) = s[1] /\ Head(s) \in S
  BY <1>1, HeadTailProperties
<1>4. QED
  BY <1>1, <1>2, <1>3

\* Returning from calls leaves a prefix of the stack.
LEMMA PrefixElements ==
    ASSUME NEW S, NEW s \in Seq(S), NEW n \in Int, n =< Len(s)
    PROVE  /\ SubSeq(s, 1, n) \in Seq(S)
           /\ ToSet(SubSeq(s, 1, n)) \subseteq ToSet(s)
<1>1. DOMAIN s = 1..Len(s) /\ Len(s) \in Nat /\ \A i \in 1..n : s[i] \in S
  BY LenProperties, ElementOfSeq
<1>2. /\ SubSeq(s, 1, n) \in Seq(S)
      /\ Len(SubSeq(s, 1, n)) = IF 1 =< n THEN n ELSE 0
      /\ \A i \in 1..n : SubSeq(s, 1, n)[i] = s[i]
  <2>1. \A i \in 1..n - 1 + 1 : SubSeq(s, 1, n)[i] = s[1 + i - 1]
    BY <1>1, SubSeqProperties, 1 \in Int
  <2>2. QED
    BY <1>1, <2>1, SubSeqProperties, 1 \in Int
<1>3. DOMAIN SubSeq(s, 1, n) = 1..Len(SubSeq(s, 1, n))
  BY <1>2, LenProperties
<1>4. QED
  BY <1>1, <1>2, <1>3 DEF ToSet

\* What a read leaves of the stream is the end of it.
LEMMA SuffixElements ==
    ASSUME NEW S, NEW s \in Seq(S), NEW n \in Nat, n =< Len(s)
    PROVE  /\ SubSeq(s, n + 1, Len(s)) \in Seq(S)
           /\ ToSet(SubSeq(s, n + 1, Len(s))) \subseteq ToSet(s)
<1> DEFINE m == n + 1
           u == SubSeq(s, m, Len(s))
<1>1. DOMAIN s = 1..Len(s) /\ Len(s) \in Nat /\ m \in 1..(Len(s) + 1) /\ m \in Int
  BY LenProperties
<1>2. \A i \in m..Len(s) : s[i] \in S
  BY <1>1, ElementOfSeq
<1>3. /\ u \in Seq(S)
      /\ Len(u) = IF m =< Len(s) THEN Len(s) - m + 1 ELSE 0
      /\ \A i \in 1..(Len(s) - m + 1) : u[i] = s[m + i - 1]
  <2> HIDE DEF m
  <2>1. QED
    BY <1>1, <1>2, SubSeqProperties
<1>4. DOMAIN u = 1..Len(u)
  BY <1>3, LenProperties
<1> HIDE DEF m, u
<1>5. u \in Seq(S) /\ ToSet(u) \subseteq ToSet(s)
  <2>0. DOMAIN u = 1..(Len(s) - m + 1)
    BY <1>1, <1>3, <1>4
  <2>1. \A i \in DOMAIN u : u[i] = s[m + i - 1]
    BY <1>3, <2>0
  <2>2. \A i \in DOMAIN u : m + i - 1 \in DOMAIN s
    BY <1>1, <2>0
  <2>3. QED
    BY <1>3, <2>1, <2>2 DEF ToSet
<1>6. QED
  BY <1>5 DEF m, u

-----------------------------------------------------------------------------
(* Type correctness *)

\* Sending changes the packets under way to the platform, and nothing breaks
\* their type.
LEMMA SendType ==
    ASSUME c2s \in Seq(Packet), NEW p \in Packet
    PROVE  /\ SendOk(p) => /\ c2s' \in Seq(Packet)
                           /\ ToSet(c2s') \subseteq ToSet(c2s) \cup {p}
           /\ SendFail => c2s' = c2s
<1>1. /\ Append(c2s, p) \in Seq(Packet)
      /\ ToSet(Append(c2s, p)) = ToSet(c2s) \cup {p}
  BY AppendElements
<1>2. SendOk(p) => c2s' = Append(c2s, p) \/ c2s' = c2s
  BY DEF SendOk
<1>3. SendFail => c2s' = c2s
  BY DEF SendFail
<1>4. QED
  BY <1>1, <1>2, <1>3

\* Whatever a call returns, the frames that are left were there before.
LEMMA ReturnType ==
    ASSUME stack \in Seq(Frame), stack # <<>>
    PROVE  /\ Top \in Frame /\ Top \in ToSet(stack)
           /\ Popped \in Seq(Frame) /\ ToSet(Popped) \subseteq ToSet(stack)
           /\ Unwound \in Seq(Frame) /\ ToSet(Unwound) \subseteq ToSet(stack)
<1>1. Len(stack) \in Nat \ {0} /\ DOMAIN stack = 1..Len(stack)
  BY EmptySeq, LenProperties
<1>2. Top \in Frame /\ Top \in ToSet(stack)
  BY <1>1, ElementOfSeq DEF Top, ToSet
<1>3. Popped \in Seq(Frame) /\ ToSet(Popped) \subseteq ToSet(stack)
  BY <1>1, PrefixElements DEF Popped
<1>4. /\ SubSeq(stack, 1, Len(stack) - 2) \in Seq(Frame)
      /\ ToSet(SubSeq(stack, 1, Len(stack) - 2)) \subseteq ToSet(stack)
  BY <1>1, PrefixElements
<1>5. QED
  BY <1>2, <1>3, <1>4 DEF Unwound

\* The packets and frames the client and the platform build are well typed.
LEMMA BuiltType ==
    ASSUME NEW t \in Nat
    PROVE  /\ \A m \in CallMethods : /\ Pkt("REQUEST", m, t) \in Packet
                                    /\ Fr("wait", m, t) \in Frame
           /\ \A m \in {525, 711} : /\ Fr("callback", m, t) \in Frame
                                    /\ Pkt("REQUEST", m, t) \in Packet
                                    /\ Pkt("RESPONSE", m, t) \in Packet
                                    /\ Pkt("REPORT", m, t) \in Packet
           /\ PollFrame \in Frame
BY DEF Pkt, Fr, Packet, Frame, PollFrame, CallMethods

\* The numbers are natural numbers and only grow.
LEMMA UniqType ==
    ASSUME uniq \in Nat
    PROVE  \A n \in Nat : NextUniq(n) \in Nat /\ NextUniq(n) = uniq + n
BY DEF NextUniq

\* What reading a packet does to the state of the client.
LEMMA ReceiveType ==
    ASSUME TypeOK, Receive
    PROVE  /\ s2c' \in Seq(Packet) /\ ToSet(s2c') \subseteq ToSet(s2c)
           /\ uniq' \in Nat /\ uniq' >= uniq
           /\ authed' \in BOOLEAN /\ framed' \in BOOLEAN
           /\ stack' \in Seq(Frame) /\ c2s' \in Seq(Packet)
           /\ \A f \in ToSet(stack') : f \in ToSet(stack) \/ f.call = "callback"
           /\ \A p \in ToSet(c2s') : p \in ToSet(c2s) \/ p.type = "RESPONSE"
<1> DEFINE p == Head(s2c)
           Kept == /\ uniq' \in Nat /\ uniq' >= uniq
                   /\ stack' \in Seq(Frame) /\ c2s' \in Seq(Packet)
                   /\ \A f \in ToSet(stack') : f \in ToSet(stack) \/ f.call = "callback"
                   /\ \A q \in ToSet(c2s') : q \in ToSet(c2s) \/ q.type = "RESPONSE"
<1>1. stack # <<>> /\ s2c # <<>>
  BY DEF Receive, Running, Readable
<1>2. stack \in Seq(Frame) /\ c2s \in Seq(Packet) /\ s2c \in Seq(Packet)
  BY DEF TypeOK
<1>3. p \in Packet /\ s2c' \in Seq(Packet) /\ ToSet(s2c') \subseteq ToSet(s2c)
  <2>1. p \in Packet
    BY <1>1, <1>2, TailElements
  <2>2. Len(s2c) \in Nat \ {0}
    BY <1>1, <1>2, EmptySeq, LenProperties
  <2>3. PICK n \in Taken : s2c' = SubSeq(s2c, n + 1, Len(s2c))
    BY DEF Receive
  <2>4. n \in Nat /\ n =< Len(s2c)
    BY <2>2 DEF Taken
  <2>5. QED
    BY <1>2, <2>1, <2>3, <2>4, SuffixElements
<1>4. p.trx \in Nat
  BY <1>3 DEF Packet
<1>5. NextUniq(1) = uniq + 1 /\ NextUniq(2) = uniq + 2 /\ NextUniq(3) = uniq + 3 /\ uniq \in Nat
  BY DEF NextUniq, TypeOK
<1>6. authed' \in BOOLEAN /\ framed' \in BOOLEAN
  BY Zenon DEF Receive, ResponseHandler, TypeOK
<1>7. ASSUME stack' = Popped, uniq' = NextUniq(1), c2s' = c2s
      PROVE  Kept
  <2>1. Popped \in Seq(Frame) /\ ToSet(Popped) \subseteq ToSet(stack)
    BY <1>1, <1>2, ReturnType
  <2>2. QED
    BY <1>2, <1>5, <1>7, <2>1
<1>8. ASSUME NEW m \in {525, 711}, stack' = Append(stack, Fr("callback", m, p.trx))
      PROVE  /\ stack' \in Seq(Frame)
             /\ \A f \in ToSet(stack') : f \in ToSet(stack) \/ f.call = "callback"
  <2> DEFINE fr == Fr("callback", m, p.trx)
  <2>1. fr \in Frame
    BY <1>4, BuiltType
  <2>2. fr.call = "callback"
    BY DEF Fr
  <2> HIDE DEF fr
  <2>3. stack' = Append(stack, fr)
    BY <1>8 DEF fr
  <2>4. QED
    BY <1>2, <2>1, <2>2, <2>3, AppendElements
<1>9. ASSUME PacketHandler(p)
      PROVE  Kept
  <2>1. CASE ControlHandler(p)
    <3> DEFINE ack == Pkt("RESPONSE", 525, p.trx)
    <3>1. ack \in Packet
      BY <1>4, BuiltType
    <3>2. ack.type = "RESPONSE"
      BY DEF Pkt
    <3> HIDE DEF ack
    <3>3. CASE SendOk(ack) /\ uniq' = NextUniq(3) /\ stack' = Append(stack, Fr("callback", 525, p.trx))
      BY <1>2, <1>5, <1>8, <3>1, <3>2, <3>3, SendType
    <3>4. CASE SendFail /\ uniq' = NextUniq(2) /\ UNCHANGED stack
      BY <1>2, <1>5, <3>1, <3>4, SendType
    <3>5. QED
      BY <2>1, <3>3, <3>4 DEF ControlHandler, ack
  <2>2. CASE QueryHandler(p)
    BY <1>2, <1>5, <1>8, <2>2 DEF QueryHandler
  <2>3. CASE uniq' = NextUniq(1) /\ UNCHANGED <<stack, c2s>>
    BY <1>2, <1>5, <2>3
  <2>4. QED
    BY <1>9, <2>1, <2>2, <2>3 DEF PacketHandler
<1>10. Kept
  <2> HIDE DEF Kept
  <2> QED
    BY <1>7, <1>9 DEF Receive
<1>11. QED
  BY <1>3, <1>6, <1>10

\* What the end of a callback does: one frame less, and at most one packet more,
\* which is no request.
LEMMA CallbackReturnType ==
    ASSUME TypeOK, CallbackReturn
    PROVE  /\ stack' \in Seq(Frame) /\ c2s' \in Seq(Packet)
           /\ \A p \in ToSet(c2s') : p \in ToSet(c2s) \/ p.type # "REQUEST"
<1>1. stack # <<>> /\ Top.call = "callback" /\ stack' = Popped
  BY DEF CallbackReturn, Running
<1>2. Top \in Frame /\ stack' \in Seq(Frame)
  BY <1>1, ReturnType DEF TypeOK
<1>3. PICK q : /\ SendOk(q) \/ SendFail
               /\ q = Pkt(IF Top.method = 525 THEN "REPORT" ELSE "RESPONSE", Top.method, Top.trx)
  BY DEF CallbackReturn
<1>4. Top.method \in {525, 711} /\ Top.trx \in Nat
  BY <1>1, <1>2 DEF Frame, PollFrame, Fr
<1>5. q \in Packet
  BY <1>3, <1>4, BuiltType
<1>6. q.type # "REQUEST"
  BY <1>3 DEF Pkt
<1>7. QED
  BY <1>2, <1>3, <1>5, <1>6, SendType DEF TypeOK

\* What a request of the client does: it takes the next number, and the caller
\* that waits and the packet that leaves carry it.
LEMMA TransactType ==
    ASSUME TypeOK, NEW method \in CallMethods, NEW waits \in BOOLEAN,
           NEW base \in Seq(Frame), ToSet(base) \subseteq ToSet(stack) \cup {PollFrame},
           Transact(method, base, waits)
    PROVE  /\ sock' \in Socket /\ response_wait_sw' \in BOOLEAN
           /\ framed' \in BOOLEAN /\ s2c' = s2c /\ UNCHANGED serverVars
           /\ uniq' = uniq + 1 /\ uniq' \in Nat
           /\ stack' \in Seq(Frame) /\ c2s' \in Seq(Packet)
           /\ \A f \in ToSet(stack') :
                 f.call = "wait" => f \in ToSet(stack) \/ <<f.trx, f.method>> = <<uniq, method>>
           /\ \A p \in ToSet(c2s') :
                 p \in ToSet(c2s) \/ <<p.trx, p.method>> = <<uniq, method>>
<1> DEFINE req == Pkt("REQUEST", method, uniq)
           fr == Fr("wait", method, uniq)
<1>1. /\ stack \in Seq(Frame) /\ c2s \in Seq(Packet) /\ uniq \in Nat
      /\ sock \in Socket /\ response_wait_sw \in BOOLEAN /\ framed \in BOOLEAN
  BY DEF TypeOK
<1>2. req \in Packet /\ fr \in Frame
  BY <1>1, BuiltType
<1>3. /\ req.trx = uniq /\ req.method = method
      /\ fr.trx = uniq /\ fr.method = method
  BY DEF Pkt, Fr
<1>4. PollFrame.call # "wait"
  BY DEF PollFrame, Fr
<1>5. /\ sock' = sock /\ response_wait_sw' = response_wait_sw
      /\ framed' = framed /\ s2c' = s2c /\ UNCHANGED serverVars
      /\ uniq' = uniq + 1
      /\ \/ SendOk(req) /\ stack' = IF waits THEN Append(base, fr) ELSE stack
         \/ SendFail /\ stack' = stack
  BY DEF Transact, NextUniq
<1> HIDE DEF req, fr
<1>6. /\ Append(base, fr) \in Seq(Frame)
      /\ ToSet(Append(base, fr)) = ToSet(base) \cup {fr}
  BY <1>2, AppendElements
<1>7. /\ SendOk(req) => c2s' \in Seq(Packet) /\ ToSet(c2s') \subseteq ToSet(c2s) \cup {req}
      /\ SendFail => c2s' = c2s
  BY <1>1, <1>2, SendType
<1>8. c2s' \in Seq(Packet) /\ ToSet(c2s') \subseteq ToSet(c2s) \cup {req}
  BY <1>1, <1>5, <1>7
<1>9. stack' = stack \/ stack' = Append(base, fr)
  BY <1>5
<1>10. /\ stack' \in Seq(Frame)
       /\ \A f \in ToSet(stack') :
             f.call = "wait" => f \in ToSet(stack) \/ f = fr
  BY <1>1, <1>4, <1>6, <1>9
<1>11. QED
  BY <1>1, <1>3, <1>5, <1>8, <1>10

\* ... and so it keeps the types.
LEMMA TypeByTransact ==
    ASSUME TypeOK, NEW method \in CallMethods, NEW waits \in BOOLEAN,
           NEW base \in Seq(Frame), ToSet(base) \subseteq ToSet(stack) \cup {PollFrame},
           Transact(method, base, waits), authed' \in BOOLEAN
    PROVE  TypeOK'
<1>1. /\ sock' \in Socket /\ response_wait_sw' \in BOOLEAN
      /\ framed' \in BOOLEAN /\ s2c' = s2c /\ UNCHANGED serverVars
      /\ uniq' \in Nat /\ stack' \in Seq(Frame) /\ c2s' \in Seq(Packet)
  BY TransactType
<1>2. QED
  BY <1>1 DEF TypeOK, serverVars

\* The types hold when the program starts.
LEMMA InitType == Init => TypeOK
<1> SUFFICES ASSUME Init PROVE TypeOK
  OBVIOUS
<1>1. <<>> \in Seq(Frame) /\ <<>> \in Seq(Packet)
  OBVIOUS
<1>2. authed \in BOOLEAN /\ framed \in BOOLEAN /\ response_wait_sw \in BOOLEAN
  BY DEF Init
<1>3. QED
  BY <1>1, <1>2, BoundsAssumption DEF Init, TypeOK, Socket, PeerState

\* Every variable has its type in every state the program can reach.
THEOREM TypeCorrect == Spec => []TypeOK
<1>1. Init => TypeOK
  BY InitType
<1>2. TypeOK /\ [Next]_vars => TypeOK'
  <2> SUFFICES ASSUME TypeOK, [Next]_vars PROVE TypeOK'
    OBVIOUS
  <2>1. CASE Tick
    BY <2>1 DEF Tick, TypeOK, netVars, serverVars
  <2>2. CASE Connect
    BY <2>2 DEF Connect, TypeOK, Socket, PeerState
  <2>3. CASE Disconnect
    BY <2>3 DEF Disconnect, TypeOK, Socket, PeerState
  <2>4. CASE TurnResponseWaitOff
    BY <2>4 DEF TurnResponseWaitOff, TypeOK, netVars, serverVars
  <2>5. CASE AuthDevice
    <3>1. stack \in Seq(Frame) /\ Transact(224, stack, TRUE)
      BY <2>5 DEF AuthDevice, TypeOK
    <3>2. authed' \in BOOLEAN
      BY <2>5 DEF AuthDevice
    <3>3. QED
      BY <3>1, <3>2, TypeByTransact DEF CallMethods
  <2>6. CASE SendData
    <3>1. stack \in Seq(Frame) /\ response_wait_sw \in BOOLEAN /\ authed \in BOOLEAN
      BY DEF TypeOK
    <3>2. Transact(411, stack, response_wait_sw) /\ authed' = authed
      BY <2>6 DEF SendData
    <3>3. QED
      BY <3>1, <3>2, TypeByTransact DEF CallMethods
  <2>7. CASE Poll
    BY <2>7, BuiltType, 0 \in Nat DEF Poll, TypeOK, netVars, serverVars
  <2>8. CASE PollWithKeepAlive
    <3>1. Transact(231, <<PollFrame>>, TRUE) /\ authed' = authed /\ authed \in BOOLEAN
      BY <2>8 DEF PollWithKeepAlive, TypeOK
    <3>2. <<PollFrame>> \in Seq(Frame) /\ ToSet(<<PollFrame>>) = {PollFrame}
      BY BuiltType, 0 \in Nat DEF ToSet
    <3>3. 231 \in CallMethods /\ authed' \in BOOLEAN
      BY <3>1 DEF CallMethods
    <3> DEFINE base == <<PollFrame>>
    <3>4. base \in Seq(Frame) /\ ToSet(base) \subseteq ToSet(stack) \cup {PollFrame}
      BY <3>2
    <3>5. Transact(231, base, TRUE)
      BY <3>1
    <3> HIDE DEF base
    <3>6. QED
      BY <3>3, <3>4, <3>5, TypeByTransact
  <2>9. CASE Receive
    BY <2>9, ReceiveType DEF Receive, TypeOK, serverVars
  <2>10. CASE GiveUp \/ PollReturn
    <3>1. stack # <<>> /\ (stack' = Unwound \/ stack' = Popped)
      BY <2>10 DEF GiveUp, PollReturn, Running
    <3>2. sock' \in Socket
      BY <2>10 DEF GiveUp, PollReturn, SockAfterFailure, TypeOK, Socket
    <3>3. UNCHANGED <<uniq, authed, framed, response_wait_sw, netVars, serverVars>>
      BY <2>10 DEF GiveUp, PollReturn
    <3>4. stack' \in Seq(Frame)
      BY <3>1, ReturnType DEF TypeOK
    <3>5. QED
      BY <3>2, <3>3, <3>4 DEF TypeOK, netVars, serverVars
  <2>11. CASE CallbackReturn
    BY <2>11, CallbackReturnType DEF CallbackReturn, TypeOK, serverVars
  <2>12. CASE SrvRead
    <3>1. c2s # <<>> /\ c2s' = Tail(c2s)
      BY <2>12 DEF SrvRead
    <3>2. c2s' \in Seq(Packet) /\ Head(c2s) \in Packet
      BY <3>1, TailElements DEF TypeOK
    <3>3. Append(srvLog, Head(c2s)) \in Seq(Packet) /\ srvLog \in Seq(Packet)
      BY <3>2, AppendElements DEF TypeOK
    <3>4. pending' \subseteq Packet /\ srvLog' \in Seq(Packet)
      BY <2>12, <3>2, <3>3 DEF SrvRead, TypeOK
    <3>5. QED
      BY <2>12, <3>2, <3>4 DEF SrvRead, TypeOK, clientVars
  <2>13. CASE \E p \in pending : SrvAnswer(p)
    <3>1. PICK p \in pending : SrvAnswer(p)
      BY <2>13
    <3>2. p \in Packet
      BY DEF TypeOK
    <3>3. Pkt("RESPONSE", p.method, p.trx) \in Packet
      BY <3>2 DEF Pkt, Packet
    <3>4. s2c' \in Seq(Packet)
      BY <3>1, <3>3, AppendElements DEF SrvAnswer, TypeOK
    <3>5. QED
      BY <3>1, <3>4 DEF SrvAnswer, TypeOK, PeerState, clientVars
  <2>14. CASE \E t \in ServerTrx : SrvRequest(t)
    <3>1. PICK t \in ServerTrx : SrvRequest(t)
      BY <2>14
    <3>2. Pkt("REQUEST", ServerMethod(t), t) \in Packet
      BY ServerIdsAssumption, BuiltType DEF ServerTrx, ServerMethod
    <3>3. s2c' \in Seq(Packet)
      BY <3>1, <3>2, AppendElements DEF SrvRequest, TypeOK
    <3>4. QED
      BY <3>1, <3>3 DEF SrvRequest, TypeOK, clientVars
  <2>15. CASE SrvClose \/ Reset
    <3>1. /\ s2c' \in {s2c, <<>>} /\ c2s' = <<>> /\ pending' = {}
          /\ peer' \in PeerState
      BY <2>15 DEF SrvClose, Reset, PeerState
    <3>2. UNCHANGED <<clientVars, issued, srvLog>>
      BY <2>15 DEF SrvClose, Reset
    <3>3. s2c' \in Seq(Packet) /\ c2s' \in Seq(Packet)
      <4>1. s2c \in Seq(Packet) /\ <<>> \in Seq(Packet)
        BY DEF TypeOK
      <4>2. QED
        BY <3>1, <4>1
    <3>4. QED
      BY <3>1, <3>2, <3>3 DEF TypeOK, clientVars
  <2>16. CASE UNCHANGED vars
    BY <2>16 DEF vars, clientVars, netVars, serverVars, TypeOK
  <2>17. QED
    BY <2>1, <2>2, <2>3, <2>4, <2>5, <2>6, <2>7, <2>8, <2>9, <2>10, <2>11,
       <2>12, <2>13, <2>14, <2>15, <2>16
       DEF Next, AppStep, SdkStep, Platform
<1>3. QED
  BY <1>1, <1>2, PTL DEF Spec

-----------------------------------------------------------------------------
(* The answer that ends a wait is the answer to that request *)

\* The claims after a step are old ones, or the one (X) of a new request.
LEMMA ClaimsGrow ==
    ASSUME NEW X,
           \A f \in ToSet(stack') : f.call = "wait" => <<f.trx, f.method>> \in Claims \cup X,
           \A p \in ToSet(c2s') : p.type = "REQUEST" => <<p.trx, p.method>> \in Claims \cup X,
           \A p \in pending' : <<p.trx, p.method>> \in Claims \cup X,
           \A p \in ToSet(s2c') : p.type = "RESPONSE" => <<p.trx, p.method>> \in Claims \cup X
    PROVE  Claims' \subseteq Claims \cup X
<1> DEFINE Old == Claims \cup X
<1> HIDE DEF Old
<1>1. /\ \A f \in ToSet(stack') : f.call = "wait" => <<f.trx, f.method>> \in Old
      /\ \A p \in ToSet(c2s') : p.type = "REQUEST" => <<p.trx, p.method>> \in Old
      /\ \A p \in pending' : <<p.trx, p.method>> \in Old
      /\ \A p \in ToSet(s2c') : p.type = "RESPONSE" => <<p.trx, p.method>> \in Old
  BY DEF Old
<1>2. Claims' \subseteq Old
  BY <1>1 DEF Claims
<1>3. QED
  BY <1>2 DEF Old

\* What is in the sets that make up the claims is a claim.
LEMMA ClaimsHold ==
    /\ \A f \in ToSet(stack) : f.call = "wait" => <<f.trx, f.method>> \in Claims
    /\ \A p \in ToSet(c2s) : p.type = "REQUEST" => <<p.trx, p.method>> \in Claims
    /\ \A p \in pending : <<p.trx, p.method>> \in Claims
    /\ \A p \in ToSet(s2c) : p.type = "RESPONSE" => <<p.trx, p.method>> \in Claims
BY DEF Claims

\* A step that makes no claim, and one whose only new claim carries the number
\* that is taken from uniq, keep the invariant.
LEMMA ClaimsKeep ==
    ASSUME IInv, TypeOK', NEW m,
           \/ Claims' \subseteq Claims /\ uniq' >= uniq
           \/ Claims' \subseteq Claims \cup {<<uniq, m>>} /\ uniq' = uniq + 1
    PROVE  ClaimsAgree' /\ ClaimsBelow'
<1> DEFINE C == Claims
           D == Claims'
           n == uniq
           o == uniq'
<1>1. /\ \A c, d \in C : c[1] = d[1] => c[2] = d[2]
      /\ \A c \in C : c[1] \in Clock0..(n - 1)
      /\ n >= Clock0 /\ n \in Nat /\ o \in Nat /\ Clock0 \in Nat
  BY BoundsAssumption DEF IInv, ClaimsAgree, ClaimsBelow, TypeOK
<1>2. \/ D \subseteq C /\ o >= n
      \/ D \subseteq C \cup {<<n, m>>} /\ o = n + 1
  OBVIOUS
<1> HIDE DEF C, D, n, o
<1>3. \A c \in D : c \in C \/ (c[1] = n /\ c[2] = m /\ o = n + 1)
  BY <1>2
<1>4. \A c, d \in D : c[1] = d[1] => c[2] = d[2]
  BY <1>1, <1>3
<1>5. o >= Clock0 /\ \A c \in D : c[1] \in Clock0..(o - 1)
  BY <1>1, <1>2, <1>3
<1>6. QED
  BY <1>4, <1>5 DEF ClaimsAgree, ClaimsBelow, D, o

\* A step that adds nothing of a client's request keeps the invariant.
LEMMA QuietStep ==
    ASSUME IInv, TypeOK', uniq' >= uniq,
           \A f \in ToSet(stack') : f.call = "wait" => f \in ToSet(stack),
           \A p \in ToSet(c2s') : p.type = "REQUEST" => p \in ToSet(c2s),
           pending' \subseteq pending,
           ToSet(s2c') \subseteq ToSet(s2c)
    PROVE  IInv'
<1>1. Claims' \subseteq Claims \cup {}
  BY ClaimsHold, ClaimsGrow
<1>2. ClaimsAgree' /\ ClaimsBelow'
  BY <1>1, ClaimsKeep
<1>3. ServerIdsApart'
  BY DEF IInv, ServerIdsApart
<1>4. QED
  BY <1>2, <1>3 DEF IInv

\* A request of the client keeps the invariant: its number is new.
LEMMA RequestStep ==
    ASSUME IInv, TypeOK', NEW method \in CallMethods, NEW waits \in BOOLEAN,
           NEW base \in Seq(Frame), ToSet(base) \subseteq ToSet(stack) \cup {PollFrame},
           Transact(method, base, waits)
    PROVE  IInv'
<1> DEFINE X == {<<uniq, method>>}
<1>1. TypeOK
  BY DEF IInv
<1>2. /\ s2c' = s2c /\ pending' = pending /\ uniq' = uniq + 1
      /\ \A f \in ToSet(stack') :
            f.call = "wait" => f \in ToSet(stack) \/ <<f.trx, f.method>> \in X
      /\ \A p \in ToSet(c2s') :
            p \in ToSet(c2s) \/ <<p.trx, p.method>> \in X
  BY <1>1, TransactType DEF serverVars
<1>3. Claims' \subseteq Claims \cup X
  <2> HIDE DEF X
  <2>1. QED
    BY <1>2, ClaimsHold, ClaimsGrow
<1>4. ClaimsAgree' /\ ClaimsBelow'
  BY <1>2, <1>3, ClaimsKeep
<1>5. ServerIdsApart'
  BY <1>2 DEF IInv, ServerIdsApart
<1>6. QED
  BY <1>4, <1>5 DEF IInv

\* Every step of the program, the platform and the network keeps the invariant.
LEMMA InvariantStep ==
    ASSUME IInv, [Next]_vars, TypeOK'
    PROVE  IInv'
<1> DEFINE Same == /\ stack' = stack /\ c2s' = c2s
                   /\ pending' = pending /\ s2c' = s2c
<1>1. TypeOK /\ uniq \in Nat /\ ServerIdsApart
  BY DEF IInv, TypeOK
<1>2. ASSUME Same, uniq' >= uniq PROVE IInv'
  BY <1>2, QuietStep
<1>3. CASE Tick
  BY <1>1, <1>2, <1>3 DEF Tick, netVars, serverVars
<1>4. CASE Connect \/ Disconnect \/ SrvClose \/ Reset
  <2>1. /\ stack' = stack /\ uniq' = uniq /\ s2c' \in {s2c, <<>>}
        /\ c2s' = <<>> /\ pending' = {}
    BY <1>4 DEF Connect, Disconnect, SrvClose, Reset, clientVars
  <2>2. ToSet(<<>>) = {}
    BY DEF ToSet
  <2>3. /\ ToSet(s2c') \subseteq ToSet(s2c) /\ ToSet(c2s') = {}
    BY <2>1, <2>2
  <2>4. QED
    BY <1>1, <2>1, <2>3, QuietStep
<1>5. CASE TurnResponseWaitOff
  BY <1>1, <1>2, <1>5 DEF TurnResponseWaitOff, netVars, serverVars
<1>6. CASE AuthDevice
  <2>1. Transact(224, stack, TRUE) /\ stack \in Seq(Frame) /\ 224 \in CallMethods
    BY <1>1, <1>6 DEF AuthDevice, TypeOK, CallMethods
  <2>2. QED
    BY <2>1, RequestStep
<1>7. CASE SendData
  <2>1. Transact(411, stack, response_wait_sw) /\ stack \in Seq(Frame)
        /\ 411 \in CallMethods /\ response_wait_sw \in BOOLEAN
    BY <1>1, <1>7 DEF SendData, TypeOK, CallMethods
  <2>2. QED
    BY <2>1, RequestStep
<1>8. CASE Poll
  <2>1. ToSet(<<PollFrame>>) = {PollFrame} /\ PollFrame.call # "wait"
    BY DEF ToSet, PollFrame, Fr
  <2>2. /\ stack' = <<PollFrame>> /\ uniq' = uniq /\ c2s' = c2s
        /\ s2c' = s2c /\ pending' = pending
    BY <1>8 DEF Poll, netVars, serverVars
  <2>3. \A f \in ToSet(stack') : f.call # "wait"
    BY <2>1, <2>2
  <2>4. QED
    BY <1>1, <2>2, <2>3, QuietStep
<1>9. CASE PollWithKeepAlive
  <2> DEFINE base == <<PollFrame>>
  <2>1. base \in Seq(Frame) /\ ToSet(base) = {PollFrame}
    BY BuiltType, 0 \in Nat DEF ToSet
  <2>2. Transact(231, base, TRUE) /\ 231 \in CallMethods
    BY <1>9 DEF PollWithKeepAlive, CallMethods
  <2> HIDE DEF base
  <2>3. QED
    BY <2>1, <2>2, RequestStep
<1>10. CASE Receive
  <2>1. /\ ToSet(s2c') \subseteq ToSet(s2c) /\ uniq' >= uniq
        /\ \A f \in ToSet(stack') : f \in ToSet(stack) \/ f.call = "callback"
        /\ \A p \in ToSet(c2s') : p \in ToSet(c2s) \/ p.type = "RESPONSE"
    BY <1>1, <1>10, ReceiveType
  <2>2. pending' = pending
    BY <1>10 DEF Receive, serverVars
  <2>3. QED
    BY <2>1, <2>2, QuietStep
<1>11. CASE GiveUp \/ PollReturn \/ CallbackReturn
  <2>1. stack # <<>> /\ stack \in Seq(Frame) /\ stack' \in {Unwound, Popped}
    BY <1>1, <1>11 DEF GiveUp, PollReturn, CallbackReturn, Running, TypeOK
  <2>2. ToSet(stack') \subseteq ToSet(stack)
    BY <2>1, ReturnType
  <2>3. uniq' = uniq /\ s2c' = s2c /\ pending' = pending
    BY <1>11 DEF GiveUp, PollReturn, CallbackReturn, netVars, serverVars
  <2>4. \A p \in ToSet(c2s') : p.type = "REQUEST" => p \in ToSet(c2s)
    <3>1. CASE c2s' = c2s
      BY <3>1
    <3>2. CASE CallbackReturn
      BY <1>1, <3>2, CallbackReturnType
    <3>3. QED
      BY <1>11, <3>1, <3>2 DEF GiveUp, PollReturn, netVars
  <2>5. QED
    BY <1>1, <2>2, <2>3, <2>4, QuietStep
<1>12. CASE SrvRead
  <2>1. c2s # <<>> /\ c2s' = Tail(c2s) /\ c2s \in Seq(Packet)
    BY <1>1, <1>12 DEF SrvRead, TypeOK
  <2>2. ToSet(c2s') \subseteq ToSet(c2s) /\ Head(c2s) \in ToSet(c2s)
    BY <2>1, TailElements
  <2>3. \A p \in pending' : p \in pending \/ (p = Head(c2s) /\ p.type = "REQUEST")
    BY <1>12 DEF SrvRead
  <2>4. stack' = stack /\ s2c' = s2c /\ uniq' = uniq
    BY <1>12 DEF SrvRead, clientVars
  <2>5. Claims' \subseteq Claims \cup {}
    BY <2>2, <2>3, <2>4, ClaimsHold, ClaimsGrow
  <2>6. ClaimsAgree' /\ ClaimsBelow'
    BY <1>1, <2>4, <2>5, ClaimsKeep
  <2>7. QED
    BY <1>1, <2>4, <2>6 DEF IInv, ServerIdsApart
<1>13. CASE \E p \in pending : SrvAnswer(p)
  <2>1. PICK p \in pending : SrvAnswer(p)
    BY <1>13
  <2> DEFINE answer == Pkt("RESPONSE", p.method, p.trx)
  <2>2. /\ answer.type = "RESPONSE" /\ answer.method = p.method
        /\ answer.trx = p.trx /\ answer \in Packet
    BY <1>1 DEF Pkt, Packet, TypeOK
  <2>3. s2c' = Append(s2c, answer) /\ s2c \in Seq(Packet) /\ pending' \subseteq pending
    BY <1>1, <2>1 DEF SrvAnswer, TypeOK
  <2>4. stack' = stack /\ c2s' = c2s /\ uniq' = uniq
    BY <2>1 DEF SrvAnswer, clientVars
  <2> HIDE DEF answer
  <2>5. ToSet(s2c') = ToSet(s2c) \cup {answer}
    BY <2>2, <2>3, AppendElements
  <2>6. <<answer.trx, answer.method>> \in Claims
    BY <2>2, ClaimsHold
  <2>7. Claims' \subseteq Claims \cup {}
    BY <2>3, <2>4, <2>5, <2>6, ClaimsHold, ClaimsGrow
  <2>8. ClaimsAgree' /\ ClaimsBelow'
    BY <1>1, <2>4, <2>7, ClaimsKeep
  <2>9. ServerIdsApart'
    BY <1>1, <2>2, <2>5 DEF ServerIdsApart
  <2>10. QED
    BY <2>8, <2>9 DEF IInv
<1>14. CASE \E t \in ServerTrx : SrvRequest(t)
  <2>1. PICK t \in ServerTrx : SrvRequest(t)
    BY <1>14
  <2> DEFINE req == Pkt("REQUEST", ServerMethod(t), t)
  <2>2. req.type = "REQUEST" /\ req.trx = t /\ req \in Packet
    <3>1. t \in Nat /\ ServerMethod(t) \in {525, 711}
      BY ServerIdsAssumption DEF ServerTrx, ServerMethod
    <3>2. req \in Packet
      BY <3>1, BuiltType
    <3>3. QED
      BY <3>2 DEF Pkt
  <2>3. s2c' = Append(s2c, req) /\ s2c \in Seq(Packet)
    BY <1>1, <2>1 DEF SrvRequest, TypeOK
  <2>4. stack' = stack /\ c2s' = c2s /\ uniq' = uniq /\ pending' = pending
    BY <2>1 DEF SrvRequest, clientVars
  <2> HIDE DEF req
  <2>5. ToSet(s2c') = ToSet(s2c) \cup {req}
    BY <2>2, <2>3, AppendElements
  <2>6. Claims' \subseteq Claims \cup {}
    BY <2>2, <2>4, <2>5, ClaimsHold, ClaimsGrow
  <2>7. ClaimsAgree' /\ ClaimsBelow'
    BY <1>1, <2>4, <2>6, ClaimsKeep
  <2>8. ServerIdsApart'
    BY <1>1, <2>2, <2>5 DEF ServerIdsApart
  <2>9. QED
    BY <2>7, <2>8 DEF IInv
<1>15. CASE UNCHANGED vars
  BY <1>1, <1>2, <1>15 DEF vars, clientVars, netVars, serverVars
<1>16. QED
  BY <1>3, <1>4, <1>5, <1>6, <1>7, <1>8, <1>9, <1>10, <1>11, <1>12, <1>13,
     <1>14, <1>15 DEF Next, AppStep, SdkStep, Platform

\* The invariant holds of every reachable state.
THEOREM Invariant == Spec => []IInv
<1>1. Init => IInv
  <2> SUFFICES ASSUME Init PROVE IInv
    OBVIOUS
  <2>1. TypeOK
    BY InitType
  <2>2. /\ uniq = Clock0 /\ stack = <<>> /\ c2s = <<>> /\ s2c = <<>>
        /\ pending = {} /\ ToSet(<<>>) = {}
    BY DEF Init, ToSet
  <2>3. Claims = {}
    BY <2>2 DEF Claims
  <2>4. QED
    BY <2>1, <2>2, <2>3, BoundsAssumption
       DEF IInv, ClaimsAgree, ClaimsBelow, ServerIdsApart
<1>2. IInv /\ [Next]_vars /\ TypeOK' => IInv'
  BY InvariantStep
<1>3. QED
  BY <1>1, <1>2, TypeCorrect, PTL DEF Spec

\* A packet that carries an id somebody waits for is the answer to that request,
\* whatever was sent before, timed out and was answered late, and however the
\* platform's own requests come in between.
THEOREM AnswersMatch == Spec => []MatchIsAnswer
<1>1. IInv => MatchIsAnswer
  <2> SUFFICES ASSUME IInv, NEW i \in DOMAIN stack, NEW j \in DOMAIN s2c,
                      stack[i].call = "wait", s2c[j].trx = stack[i].trx
               PROVE  s2c[j].type = "RESPONSE" /\ s2c[j].method = stack[i].method
    BY DEF MatchIsAnswer
  <2> DEFINE f == stack[i]
             p == s2c[j]
  <2>1. f \in ToSet(stack) /\ p \in ToSet(s2c)
    BY DEF ToSet
  <2>2. <<f.trx, f.method>> \in Claims
    BY <2>1, ClaimsHold
  <2>3. f.trx >= Clock0 /\ f.trx \in Int
    BY <2>2 DEF IInv, ClaimsBelow
  <2>4. p.trx \notin ServerTrx
    BY <2>3, ServerIdsAssumption, BoundsAssumption DEF ServerTrx
  <2>5. p.type = "RESPONSE"
    BY <2>1, <2>4 DEF IInv, ServerIdsApart
  <2>6. <<p.trx, p.method>> \in Claims
    BY <2>1, <2>5, ClaimsHold
  <2>7. p.method = f.method
    BY <2>2, <2>6 DEF IInv, ClaimsAgree
  <2>8. QED
    BY <2>5, <2>7
<1>2. QED
  BY <1>1, Invariant, PTL

-----------------------------------------------------------------------------
(* What the platform sees of a control: the inductive invariant *)

\* Frames of the user's handlers, and the platform's own requests.
Callbacks == {f \in Frame : f.call = "callback"}
Asked == {p \in Packet : p.type # "RESPONSE"}

\* No two of them in a sequence carry the same transaction id.
DistinctIn(s, C) ==
    \A i, j \in DOMAIN s : s[i] \in C /\ s[j] \in C /\ s[i].trx = s[j].trx => i = j

AckOf(p) == Pkt("RESPONSE", 525, p.trx)

\* No packet is there twice, and a report has its acknowledgement before it.
NoneTwice(s) == \A i, j \in DOMAIN s : s[i] = s[j] => i = j
AckFirst(s) ==
    \A i \in DOMAIN s : s[i].type = "REPORT" => \E j \in 1..(i - 1) : s[j] = AckOf(s[i])

Coming(t) == \E p \in ToSet(s2c) : p \in Asked /\ p.trx = t
InCallback(t) == \E f \in ToSet(stack) : f \in Callbacks /\ f.trx = t

\* The client's requests and their answers are calls: no answer starts a handler.
CallsTell ==
    /\ \A p \in pending : p.method \in CallMethods
    /\ \A p \in ToSet(c2s) : p.type = "REQUEST" => p.method \in CallMethods
    /\ \A p \in ToSet(s2c) : p.type = "RESPONSE" => p.method \in CallMethods

\* Each of the platform's requests is on its way once, or in a handler once, ...
AskedOnce ==
    /\ \A p \in ToSet(s2c) : p \in Asked => p.trx \in issued
    /\ DistinctIn(s2c, Asked)
    /\ \A f \in ToSet(stack) : f \in Callbacks => f.trx \in issued /\ ~Coming(f.trx)
    /\ DistinctIn(stack, Callbacks)

\* ... and what has been sent for it depends on where it is.
SentSoFar ==
    /\ \A p \in ToSet(srvLog) : p.type # "REQUEST"
    /\ \A p \in ToSet(srvLog) \cup ToSet(c2s) : p.type # "REQUEST" =>
          /\ p.trx \in issued /\ ~Coming(p.trx)
          /\ InCallback(p.trx) => p = AckOf(p)
    /\ Listening => \A f \in ToSet(stack) :
          f \in Callbacks /\ f.method = 525 => AckOf(f) \in ToSet(srvLog) \cup ToSet(c2s)

DialogueInv ==
    /\ CallsTell /\ AskedOnce /\ SentSoFar /\ NoneTwice(ToPlatform) /\ AckFirst(ToPlatform)


\* ---- lemmas on sequences

\* Sending appends to all that the platform will have read.
LEMMA ConcatAppend ==
    ASSUME NEW S, NEW a \in Seq(S), NEW b \in Seq(S), NEW e \in S
    PROVE  /\ a \o Append(b, e) = Append(a \o b, e)
           /\ a \o b \in Seq(S)
           /\ ToSet(a \o b) = ToSet(a) \cup ToSet(b)
<1> DEFINE m == Len(a)
           n == Len(b)
           c == a \o b
           d == Append(b, e)
           l == a \o d
           r == Append(c, e)
<1>1. m \in Nat /\ n \in Nat /\ DOMAIN a = 1..m /\ DOMAIN b = 1..n
  BY LenProperties
<1>2. d \in Seq(S) /\ Len(d) = n + 1 /\ d[n + 1] = e /\ \A i \in 1..n : d[i] = b[i]
  BY AppendProperties
<1>3. /\ c \in Seq(S) /\ Len(c) = m + n /\ DOMAIN c = 1..(m + n)
      /\ \A i \in 1..(m + n) : c[i] = IF i =< m THEN a[i] ELSE b[i - m]
  <2>1. c \in Seq(S) /\ Len(c) = m + n /\ \A i \in 1..(m + n) : c[i] = IF i =< m THEN a[i] ELSE b[i - m]
    BY ConcatProperties
  <2>2. DOMAIN c = 1..Len(c)
    BY <2>1, LenProperties
  <2>3. QED
    BY <2>1, <2>2
<1> HIDE DEF d, c
<1>4. /\ l \in Seq(S) /\ Len(l) = Len(a) + Len(d)
      /\ \A i \in 1..(Len(a) + Len(d)) : l[i] = IF i =< Len(a) THEN a[i] ELSE d[i - Len(a)]
  BY <1>2, ConcatProperties
<1>5. /\ r \in Seq(S) /\ Len(r) = Len(c) + 1 /\ r[Len(c) + 1] = e
      /\ \A i \in 1..Len(c) : r[i] = c[i]
  <2>1. c \in Seq(S)
    BY <1>3
  <2>2. QED
    BY <2>1, AppendProperties
<1> HIDE DEF l, r
<1>4a. /\ Len(l) = m + (n + 1)
       /\ \A i \in 1..(m + (n + 1)) : l[i] = IF i =< m THEN a[i] ELSE d[i - m]
  BY <1>2, <1>4
<1>5a. /\ Len(r) = (m + n) + 1 /\ r[(m + n) + 1] = e
       /\ \A i \in 1..(m + n) : r[i] = c[i]
  BY <1>3, <1>5
<1> HIDE DEF m, n
<1>6. Len(l) = Len(r)
  BY <1>1, <1>4a, <1>5a
<1>7. ASSUME NEW i \in 1..Len(l) PROVE l[i] = r[i]
  <2>1. i \in 1..(m + n) \/ i = m + n + 1
    BY <1>1, <1>4a
  <2>2. CASE i \in 1..(m + n)
    <3>1. l[i] = IF i =< m THEN a[i] ELSE d[i - m]
      BY <1>1, <1>4a, <2>2
    <3>2. ~(i =< m) => i - m \in 1..n
      BY <1>1, <2>2
    <3>3. l[i] = IF i =< m THEN a[i] ELSE b[i - m]
      BY <1>2, <3>1, <3>2
    <3>4. QED
      BY <1>3, <1>5a, <2>2, <3>3
  <2>3. CASE i = m + n + 1
    <3>1. ~(i =< m) /\ i - m = n + 1 /\ i \in 1..(m + (n + 1))
      BY <1>1, <2>3
    <3>2. l[i] = d[i - m]
      BY <1>4a, <3>1
    <3>3. QED
      BY <1>2, <1>5a, <2>3, <3>1, <3>2
  <2>4. QED
    BY <2>1, <2>2, <2>3
<1>8. l = r
  <2>1. DOMAIN l = 1..Len(l) /\ DOMAIN r = 1..Len(r)
    BY <1>4, <1>5, LenProperties
  <2>2. l = [i \in 1..Len(l) |-> l[i]] /\ r = [i \in 1..Len(r) |-> r[i]]
    BY <1>4, <1>5, <2>1, SeqDef
  <2>3. QED
    BY <1>6, <1>7, <2>2
<1>9. ToSet(c) = ToSet(a) \cup ToSet(b)
  <2>1. \A i \in 1..m : i \in 1..(m + n) /\ c[i] = a[i]
    BY <1>1, <1>3
  <2>2. \A i \in 1..n : i + m \in 1..(m + n) /\ c[i + m] = b[i]
    BY <1>1, <1>3
  <2>3. \A i \in 1..(m + n) : i \in 1..m \/ (i - m \in 1..n /\ c[i] = b[i - m])
    BY <1>1, <1>3
  <2>4. ToSet(a) \subseteq ToSet(c)
    BY <1>1, <1>3, <2>1 DEF ToSet
  <2>5. ToSet(b) \subseteq ToSet(c)
    BY <1>1, <1>3, <2>2 DEF ToSet
  <2>6. ToSet(c) \subseteq ToSet(a) \cup ToSet(b)
    BY <1>1, <1>3, <2>1, <2>3 DEF ToSet
  <2>7. QED
    BY <2>4, <2>5, <2>6
<1>10. QED
  BY <1>3, <1>8, <1>9 DEF c, d, l, r

\* What the platform reads next moves from what is under way to what it has read.
LEMMA ConcatHead ==
    ASSUME NEW S, NEW a \in Seq(S), NEW b \in Seq(S), b # <<>>
    PROVE  Append(a, Head(b)) \o Tail(b) = a \o b
<1> DEFINE m == Len(a)
           n == Len(b)
           h == Append(a, Head(b))
           t == Tail(b)
           l == h \o t
           r == a \o b
<1>1. m \in Nat /\ n \in Nat \ {0}
  BY LenProperties, EmptySeq
<1>2. Head(b) \in S /\ Head(b) = b[1]
  BY HeadTailProperties
<1>3. t \in Seq(S) /\ Len(t) = n - 1 /\ \A i \in 1..(n - 1) : t[i] = b[i + 1]
  BY HeadTailProperties
<1>4. h \in Seq(S) /\ Len(h) = m + 1 /\ h[m + 1] = b[1] /\ \A i \in 1..m : h[i] = a[i]
  BY <1>2, AppendProperties
<1>5. /\ r \in Seq(S) /\ Len(r) = m + n
      /\ \A i \in 1..(m + n) : r[i] = IF i =< m THEN a[i] ELSE b[i - m]
  BY ConcatProperties
<1> HIDE DEF h, t, r
<1>6. /\ l \in Seq(S) /\ Len(l) = Len(h) + Len(t)
      /\ \A i \in 1..(Len(h) + Len(t)) : l[i] = IF i =< Len(h) THEN h[i] ELSE t[i - Len(h)]
  BY <1>3, <1>4, ConcatProperties
<1> HIDE DEF l, m, n
<1>7. Len(l) = m + n /\ \A i \in 1..(m + n) : l[i] = IF i =< m + 1 THEN h[i] ELSE t[i - (m + 1)]
  BY <1>1, <1>3, <1>4, <1>6
<1>8. ASSUME NEW i \in 1..(m + n) PROVE l[i] = r[i]
  <2>1. CASE i =< m
    <3>1. i \in 1..m /\ i =< m + 1
      BY <1>1, <2>1
    <3>2. QED
      BY <1>4, <1>5, <1>7, <2>1, <3>1
  <2>2. CASE i = m + 1
    <3>1. ~(i =< m) /\ i - m = 1 /\ i =< m + 1
      BY <1>1, <2>2
    <3>2. QED
      BY <1>4, <1>5, <1>7, <2>2, <3>1
  <2>3. CASE i > m + 1
    <3>1. /\ ~(i =< m) /\ ~(i =< m + 1) /\ i - (m + 1) \in 1..(n - 1)
          /\ i - (m + 1) + 1 = i - m
      BY <1>1, <2>3
    <3>2. l[i] = t[i - (m + 1)] /\ r[i] = b[i - m]
      BY <1>5, <1>7, <3>1
    <3>3. t[i - (m + 1)] = b[i - m]
      BY <1>3, <3>1
    <3>4. QED
      BY <3>2, <3>3
  <2>4. QED
    BY <1>1, <2>1, <2>2, <2>3
<1>9. l = r
  <2>1. DOMAIN l = 1..Len(l) /\ DOMAIN r = 1..Len(r)
    BY <1>5, <1>6, LenProperties
  <2>2. l = [i \in 1..Len(l) |-> l[i]] /\ r = [i \in 1..Len(r) |-> r[i]]
    BY <1>5, <1>6, <2>1, SeqDef
  <2>3. QED
    BY <1>5, <1>7, <1>8, <2>2
<1>10. QED
  BY <1>9 DEF h, t, l, r

\* An element whose id is new keeps the ids distinct.
LEMMA DistinctAppend ==
    ASSUME NEW S, NEW C, NEW s \in Seq(S), NEW e \in S, DistinctIn(s, C),
           e \in C => \A x \in ToSet(s) : x \in C => x.trx # e.trx
    PROVE  DistinctIn(Append(s, e), C)
<1> DEFINE u == Append(s, e)
           n == Len(s)
<1>1. n \in Nat /\ DOMAIN s = 1..n
  BY LenProperties
<1>2. u \in Seq(S) /\ Len(u) = n + 1 /\ u[n + 1] = e /\ \A i \in 1..n : u[i] = s[i]
  BY AppendProperties
<1>3. DOMAIN u = 1..(n + 1)
  BY <1>2, LenProperties
<1>4. \A i \in 1..n : s[i] \in ToSet(s)
  BY <1>1 DEF ToSet
<1> HIDE DEF u, n
<1>5. \A i \in DOMAIN u : i \in 1..n \/ i = n + 1
  BY <1>1, <1>3
<1>6. ASSUME NEW i \in DOMAIN u, NEW j \in DOMAIN u, u[i] \in C, u[j] \in C, u[i].trx = u[j].trx
      PROVE  i = j
  BY <1>1, <1>2, <1>4, <1>5, <1>6 DEF DistinctIn
<1>7. QED
  BY <1>6 DEF DistinctIn, u

\* A piece of a sequence has distinct ids when the sequence has; the element
\* behind it, or before it, has an id of its own.
LEMMA DistinctPiece ==
    ASSUME NEW S, NEW C, NEW s \in Seq(S), NEW k \in Nat, NEW n \in Int,
           n =< Len(s), DistinctIn(s, C)
    PROVE  LET u == SubSeq(s, k + 1, n)
           IN /\ DistinctIn(u, C)
              /\ \A i \in DOMAIN s : (i =< k \/ i > n) /\ s[i] \in C
                    => \A x \in ToSet(u) : x \in C => x.trx # s[i].trx
<1> DEFINE m == k + 1
           u == SubSeq(s, m, n)
<1>1. DOMAIN s = 1..Len(s) /\ Len(s) \in Nat /\ m \in Int /\ m >= 1
  BY LenProperties
<1>2. \A i \in m..n : s[i] \in S
  BY <1>1, ElementOfSeq
<1>3. /\ u \in Seq(S)
      /\ Len(u) = IF m =< n THEN n - m + 1 ELSE 0
      /\ \A i \in 1..(n - m + 1) : u[i] = s[m + i - 1]
  <2> HIDE DEF m
  <2>1. QED
    BY <1>1, <1>2, SubSeqProperties
<1>4. DOMAIN u = 1..Len(u)
  BY <1>3, LenProperties
<1> HIDE DEF u
<1>5. \A i \in DOMAIN u : i + k \in DOMAIN s /\ i + k > k /\ i + k =< n
  BY <1>1, <1>3, <1>4
<1>6. \A i \in DOMAIN u : u[i] = s[i + k]
  <2>1. \A i \in DOMAIN u : i \in 1..(n - m + 1) /\ m + i - 1 = i + k
    BY <1>1, <1>3, <1>4
  <2>2. QED
    BY <1>3, <2>1
<1>7. DistinctIn(u, C)
  <2>1. ASSUME NEW i \in DOMAIN u, NEW j \in DOMAIN u, u[i] \in C, u[j] \in C, u[i].trx = u[j].trx
        PROVE  i + k = j + k /\ i \in Int /\ j \in Int
    BY <1>1, <1>4, <1>5, <1>6, <2>1 DEF DistinctIn
  <2>2. QED
    BY <2>1 DEF DistinctIn
<1>8. ASSUME NEW i \in DOMAIN s, i =< k \/ i > n, s[i] \in C, NEW x \in ToSet(u), x \in C
      PROVE  x.trx # s[i].trx
  <2>1. PICK j \in DOMAIN u : x = u[j]
    BY DEF ToSet
  <2>2. x = s[j + k] /\ j + k \in DOMAIN s /\ j + k # i
    BY <1>1, <1>5, <1>6, <1>8, <2>1
  <2>3. QED
    BY <1>8, <2>2 DEF DistinctIn
<1>9. QED
  BY <1>7, <1>8 DEF u

\* u is s with packets left out: f says where each one that is left was before,
\* and no report has lost the acknowledgement before it.
LeavesOut(s, u, f) ==
    /\ DOMAIN s \subseteq Nat \ {0} /\ DOMAIN u \subseteq Nat \ {0}
    /\ \A i \in DOMAIN u : f[i] \in DOMAIN s /\ u[i] = s[f[i]]
    /\ \A i, j \in DOMAIN u : f[i] = f[j] => i = j
    /\ \A i \in DOMAIN u : \A j \in DOMAIN s :
          j < f[i] /\ s[j].type = "RESPONSE" => \E k \in DOMAIN u : f[k] = j /\ k < i

\* Leaving packets out in this way keeps the dialogue.
LEMMA DialoguePart ==
    ASSUME NEW s, NEW u, NEW f, NEW n \in Nat, DOMAIN s = 1..n,
           NoneTwice(s), AckFirst(s), LeavesOut(s, u, f)
    PROVE  NoneTwice(u) /\ AckFirst(u)
<1>1. NoneTwice(u)
  BY DEF NoneTwice, LeavesOut
<1>2. AckFirst(u)
  <2> SUFFICES ASSUME NEW i \in DOMAIN u, u[i].type = "REPORT"
               PROVE  \E k \in 1..(i - 1) : u[k] = AckOf(u[i])
    BY DEF AckFirst
  <2>1. f[i] \in DOMAIN s /\ s[f[i]] = u[i]
    BY DEF LeavesOut
  <2>2. PICK j \in 1..(f[i] - 1) : s[j] = AckOf(u[i])
    BY <2>1 DEF AckFirst
  <2>3. s[j].type = "RESPONSE"
    BY <2>2 DEF AckOf, Pkt
  <2>4. j \in DOMAIN s /\ j < f[i]
    BY <2>1, <2>2
  <2>5. PICK k \in DOMAIN u : f[k] = j /\ k < i
    BY <2>3, <2>4 DEF LeavesOut
  <2>6. u[k] = AckOf(u[i])
    BY <2>2, <2>5 DEF LeavesOut
  <2>7. k \in 1..(i - 1)
    BY <2>5 DEF LeavesOut
  <2>8. QED
    BY <2>6, <2>7
<1>3. QED
  BY <1>1, <1>2

\* ---- what the steps do to the dialogue

\* All that the platform has read or will read, as a set.
Sent == ToSet(srvLog) \cup ToSet(c2s)

\* ToPlatform is a sequence of packets with these elements.
LEMMA SentType ==
    ASSUME TypeOK
    PROVE  ToPlatform \in Seq(Packet) /\ ToSet(ToPlatform) = Sent
<1>1. c2s \in Seq(Packet) /\ srvLog \in Seq(Packet)
  BY DEF TypeOK
<1>2. \E p : p \in Packet
  BY BuiltType, 0 \in Nat
<1>3. QED
  BY <1>1, <1>2, ConcatAppend DEF ToPlatform, Sent

\* A packet that was never sent before, and for a report one that follows its
\* acknowledgement, continues the dialogue.
LEMMA DialogueGrows ==
    ASSUME TypeOK, NoneTwice(ToPlatform), AckFirst(ToPlatform),
           NEW e \in Packet, srvLog' = srvLog, c2s' = Append(c2s, e),
           e \notin Sent, e.type = "REPORT" => AckOf(e) \in Sent
    PROVE  /\ NoneTwice(ToPlatform)' /\ AckFirst(ToPlatform)'
           /\ Sent' = Sent \cup {e}
<1> DEFINE s == ToPlatform
           u == Append(s, e)
           n == Len(s)
<1>1. c2s \in Seq(Packet) /\ srvLog \in Seq(Packet)
  BY DEF TypeOK
<1>2. ToPlatform' = u
  <2>1. srvLog \o Append(c2s, e) = Append(srvLog \o c2s, e)
    BY <1>1, ConcatAppend
  <2>2. QED
    BY <2>1 DEF ToPlatform
<1>3. Sent' = Sent \cup {e}
  BY <1>1, AppendElements DEF Sent
<1>4. s \in Seq(Packet) /\ \A i \in DOMAIN s : s[i] # e
  BY SentType DEF ToSet
<1>5. n \in Nat /\ DOMAIN s = 1..n
  BY <1>4, LenProperties
<1>6. u \in Seq(Packet) /\ Len(u) = n + 1 /\ u[n + 1] = e /\ \A i \in 1..n : u[i] = s[i]
  BY <1>4, AppendProperties
<1>7. DOMAIN u = 1..(n + 1)
  BY <1>6, LenProperties
<1>8. NoneTwice(s) /\ AckFirst(s)
  OBVIOUS
<1>9. e.type = "REPORT" => \E j \in DOMAIN s : s[j] = AckOf(e)
  BY SentType DEF ToSet
<1> HIDE DEF s, u, n
<1>10. \A i \in DOMAIN u : i \in 1..n \/ i = n + 1
  BY <1>5, <1>7
<1>11. NoneTwice(u)
  BY <1>4, <1>5, <1>6, <1>8, <1>10 DEF NoneTwice
<1>12. AckFirst(u)
  <2> SUFFICES ASSUME NEW i \in DOMAIN u, u[i].type = "REPORT"
               PROVE  \E j \in 1..(i - 1) : u[j] = AckOf(u[i])
    BY DEF AckFirst
  <2>1. CASE i \in 1..n
    <3>1. u[i] = s[i] /\ i \in DOMAIN s
      BY <1>5, <1>6, <2>1
    <3>2. PICK j \in 1..(i - 1) : s[j] = AckOf(s[i])
      BY <1>8, <3>1 DEF AckFirst
    <3>3. j \in 1..n
      BY <1>5, <2>1, <3>2
    <3>4. QED
      BY <1>6, <3>1, <3>2, <3>3
  <2>2. CASE i = n + 1
    <3>1. PICK j \in DOMAIN s : s[j] = AckOf(e)
      BY <1>6, <1>9, <2>2
    <3>2. j \in 1..n /\ u[j] = s[j]
      BY <1>5, <1>6
    <3>3. j \in 1..(i - 1)
      BY <1>5, <2>2, <3>2
    <3>4. QED
      BY <1>6, <2>2, <3>1, <3>2, <3>3
  <2>3. QED
    BY <1>10, <2>1, <2>2
<1>13. QED
  BY <1>2, <1>3, <1>11, <1>12

\* When the connection goes, what was under way is lost.
LEMMA DialogueCut ==
    ASSUME TypeOK, NoneTwice(ToPlatform), AckFirst(ToPlatform),
           srvLog' = srvLog, c2s' = <<>>
    PROVE  /\ NoneTwice(ToPlatform)' /\ AckFirst(ToPlatform)'
           /\ Sent' \subseteq Sent
<1> DEFINE s == ToPlatform
           u == srvLog
           f == [i \in DOMAIN srvLog |-> i]
<1>1. c2s \in Seq(Packet) /\ srvLog \in Seq(Packet)
  BY DEF TypeOK
<1>2. ToPlatform' = u
  BY <1>1, ConcatEmptySeq DEF ToPlatform
<1>3. Sent' \subseteq Sent
  BY DEF Sent, ToSet
<1>4. s \in Seq(Packet)
  BY SentType
<1>5. Len(s) \in Nat /\ DOMAIN s = 1..Len(s)
  BY <1>4, LenProperties
<1>6. Len(u) \in Nat /\ DOMAIN u = 1..Len(u) /\ Len(c2s) \in Nat
  BY <1>1, LenProperties
<1>7. /\ Len(s) = Len(u) + Len(c2s)
      /\ \A i \in 1..(Len(u) + Len(c2s)) : s[i] = IF i =< Len(u) THEN u[i] ELSE c2s[i - Len(u)]
  BY <1>1, ConcatProperties DEF ToPlatform
<1>8. NoneTwice(s) /\ AckFirst(s)
  OBVIOUS
<1>10. \A i \in DOMAIN u : f[i] = i
  OBVIOUS
<1> HIDE DEF s, u, f
<1>11. \A i \in DOMAIN u : 1 =< i /\ i \in DOMAIN s /\ u[i] = s[i]
  BY <1>5, <1>6, <1>7
<1>12. \A i \in DOMAIN u : 1 =< i /\ f[i] \in DOMAIN s /\ u[i] = s[f[i]]
  BY <1>10, <1>11
<1>13. \A i \in DOMAIN u : \A j \in DOMAIN s :
          j < f[i] /\ s[j].type = "RESPONSE" => \E k \in DOMAIN u : f[k] = j /\ k < i
  <2> SUFFICES ASSUME NEW i \in DOMAIN u, NEW j \in DOMAIN s, j < i
               PROVE  \E k \in DOMAIN u : f[k] = j /\ k < i
    BY <1>10
  <2>1. j \in DOMAIN u
    BY <1>5, <1>6
  <2>2. QED
    BY <1>10, <2>1
<1>14. \A i, j \in DOMAIN u : f[i] = f[j] => i = j
  BY <1>10
<1>15. LeavesOut(s, u, f)
  BY <1>5, <1>6, <1>12, <1>13, <1>14 DEF LeavesOut
<1>16. NoneTwice(u) /\ AckFirst(u)
  BY <1>5, <1>8, <1>15, DialoguePart
<1>17. QED
  BY <1>2, <1>3, <1>16

\* Reading a packet that is no request changes nothing of the dialogue; a
\* request is taken out of it.
LEMMA DialogueRead ==
    ASSUME TypeOK, NoneTwice(ToPlatform), AckFirst(ToPlatform), SrvRead
    PROVE  /\ NoneTwice(ToPlatform)' /\ AckFirst(ToPlatform)'
           /\ Sent' \subseteq Sent
           /\ \A p \in Sent : p.type # "REQUEST" => p \in Sent'
           /\ \A p \in ToSet(srvLog') : p \in ToSet(srvLog) \/ (p \in Sent /\ p.type # "REQUEST")
<1>1. c2s \in Seq(Packet) /\ srvLog \in Seq(Packet) /\ c2s # <<>> /\ c2s' = Tail(c2s)
  BY DEF TypeOK, SrvRead
<1>2. /\ Tail(c2s) \in Seq(Packet) /\ ToSet(Tail(c2s)) \subseteq ToSet(c2s)
      /\ Head(c2s) \in ToSet(c2s) /\ Head(c2s) \in Packet
  BY <1>1, TailElements
<1>3. \A p \in ToSet(c2s) : p = Head(c2s) \/ p \in ToSet(Tail(c2s))
  <2>1. SUFFICES ASSUME NEW i \in DOMAIN c2s
                 PROVE  c2s[i] = Head(c2s) \/ c2s[i] \in ToSet(Tail(c2s))
    BY DEF ToSet
  <2>2. DOMAIN c2s = 1..Len(c2s) /\ Len(c2s) \in Nat \ {0}
    BY <1>1, LenProperties, EmptySeq
  <2>3. /\ Head(c2s) = c2s[1] /\ Len(Tail(c2s)) = Len(c2s) - 1
        /\ \A k \in 1..(Len(c2s) - 1) : Tail(c2s)[k] = c2s[k + 1]
    BY <1>1, HeadTailProperties
  <2>4. DOMAIN Tail(c2s) = 1..Len(Tail(c2s))
    BY <1>2, LenProperties
  <2>5. CASE i = 1
    BY <2>3, <2>5
  <2>6. CASE i # 1
    <3>1. i - 1 \in 1..(Len(c2s) - 1) /\ (i - 1) + 1 = i
      BY <2>2, <2>6
    <3>2. Tail(c2s)[i - 1] = c2s[i] /\ i - 1 \in DOMAIN Tail(c2s)
      BY <2>3, <2>4, <3>1
    <3>3. QED
      BY <3>2 DEF ToSet
  <2>7. QED
    BY <2>5, <2>6
<1>4. CASE Head(c2s).type = "REQUEST"
  <2> DEFINE s == ToPlatform
             t == Tail(c2s)
             u == srvLog \o t
             m == Len(srvLog)
             f == [i \in DOMAIN u |-> IF i =< m THEN i ELSE i + 1]
  <2>1. srvLog' = srvLog
    BY <1>4 DEF SrvRead
  <2>2. ToPlatform' = u
    BY <1>1, <2>1 DEF ToPlatform
  <2>3. s \in Seq(Packet)
    BY SentType
  <2>4. Len(s) \in Nat /\ DOMAIN s = 1..Len(s)
    BY <2>3, LenProperties
  <2>5. m \in Nat /\ Len(c2s) \in Nat \ {0} /\ Len(t) = Len(c2s) - 1
    BY <1>1, LenProperties, EmptySeq, HeadTailProperties
  <2>6. /\ Len(s) = m + Len(c2s)
        /\ \A i \in 1..(m + Len(c2s)) : s[i] = IF i =< m THEN srvLog[i] ELSE c2s[i - m]
    BY <1>1, ConcatProperties DEF ToPlatform
  <2>7. t \in Seq(Packet) /\ \A i \in 1..(Len(c2s) - 1) : t[i] = c2s[i + 1]
    BY <1>1, HeadTailProperties
  <2> HIDE DEF t
  <2>8. /\ u \in Seq(Packet) /\ Len(u) = m + Len(t)
        /\ \A i \in 1..(m + Len(t)) : u[i] = IF i =< m THEN srvLog[i] ELSE t[i - m]
    BY <1>1, <2>7, ConcatProperties
  <2>9. DOMAIN u = 1..Len(u)
    BY <2>8, LenProperties
  <2>10. \A i \in DOMAIN u : f[i] = IF i =< m THEN i ELSE i + 1
    OBVIOUS
  <2>11. NoneTwice(s) /\ AckFirst(s)
    OBVIOUS
  <2>12. Head(c2s) = c2s[1]
    BY <1>1, HeadTailProperties
  <2> HIDE DEF s, u, f, m
  <2>13. s[m + 1].type = "REQUEST"
    <3>1. m + 1 \in 1..(m + Len(c2s)) /\ ~(m + 1 =< m) /\ (m + 1) - m = 1
      BY <2>5
    <3>2. QED
      BY <1>4, <2>6, <2>12, <3>1
  <2>14. DOMAIN u \subseteq Int /\ \A i \in DOMAIN u : 1 =< i /\ f[i] \in DOMAIN s
    BY <2>4, <2>5, <2>6, <2>8, <2>9, <2>10
  <2>15. ASSUME NEW i \in DOMAIN u PROVE u[i] = s[f[i]]
    <3>1. CASE i =< m
      BY <2>4, <2>5, <2>6, <2>8, <2>9, <2>10, <3>1
    <3>2. CASE ~(i =< m)
      <4>1. /\ f[i] = i + 1 /\ i - m \in 1..(Len(c2s) - 1) /\ ~(i + 1 =< m)
            /\ (i - m) + 1 = (i + 1) - m /\ i + 1 \in 1..(m + Len(c2s))
        BY <2>5, <2>8, <2>9, <2>10, <3>2
      <4>2. u[i] = t[i - m] /\ s[i + 1] = c2s[(i + 1) - m]
        BY <2>6, <2>8, <2>9, <3>2, <4>1
      <4>3. t[i - m] = c2s[(i + 1) - m]
        BY <2>7, <4>1
      <4>4. QED
        BY <4>1, <4>2, <4>3
    <3>3. QED
      BY <3>1, <3>2
  <2>16. \A i, j \in DOMAIN u : f[i] = f[j] => i = j
    BY <2>5, <2>9, <2>10, <2>14
  <2>17. ASSUME NEW i \in DOMAIN u, NEW j \in DOMAIN s, j < f[i], s[j].type = "RESPONSE"
         PROVE  \E k \in DOMAIN u : f[k] = j /\ k < i
    <3>1. j # m + 1
      BY <2>13, <2>17
    <3>2. CASE j =< m
      <4>1. j \in DOMAIN u /\ f[j] = j /\ j < i
        BY <2>4, <2>5, <2>8, <2>9, <2>10, <2>17, <3>2
      <4>2. QED
        BY <4>1
    <3>3. CASE ~(j =< m)
      <4>1. j - 1 \in DOMAIN u /\ f[j - 1] = j /\ j - 1 < i
        BY <2>4, <2>5, <2>6, <2>8, <2>9, <2>10, <2>17, <3>1, <3>3
      <4>2. QED
        BY <4>1
    <3>4. QED
      BY <3>2, <3>3
  <2>18. LeavesOut(s, u, f)
    <3>1. DOMAIN s \subseteq Nat \ {0} /\ DOMAIN u \subseteq Nat \ {0}
      BY <2>4, <2>5, <2>8, <2>9
    <3>2. QED
      BY <2>14, <2>15, <2>16, <2>17, <3>1 DEF LeavesOut
  <2>19. NoneTwice(u) /\ AckFirst(u)
    BY <2>4, <2>11, <2>18, DialoguePart
  <2>20. /\ Sent' \subseteq Sent
         /\ \A p \in Sent : p.type # "REQUEST" => p \in Sent'
    BY <1>1, <1>2, <1>3, <1>4, <2>1 DEF Sent
  <2>21. QED
    BY <2>1, <2>2, <2>19, <2>20
<1>5. CASE Head(c2s).type # "REQUEST"
  <2>1. srvLog' = Append(srvLog, Head(c2s))
    BY <1>5 DEF SrvRead
  <2>2. ToPlatform' = ToPlatform
    BY <1>1, <2>1, ConcatHead DEF ToPlatform
  <2>3. ToSet(srvLog') = ToSet(srvLog) \cup {Head(c2s)}
    BY <1>1, <1>2, <2>1, AppendElements
  <2>4. Sent' = Sent
    BY <1>1, <1>2, <1>3, <2>3 DEF Sent
  <2>5. QED
    BY <1>2, <1>5, <2>2, <2>3, <2>4 DEF Sent
<1>6. QED
  BY <1>4, <1>5

\* Asked, Callbacks and AckOf only look at a record.
LEMMA DialogueWords ==
    /\ \A p \in Packet : p \in Asked <=> p.type # "RESPONSE"
    /\ \A f \in Frame : f \in Callbacks <=> f.call = "callback"
    /\ \A p : /\ AckOf(p).type = "RESPONSE" /\ AckOf(p).method = 525
              /\ AckOf(p).trx = p.trx
    /\ \A p, q : p.trx = q.trx => AckOf(p) = AckOf(q)
BY DEF Asked, Callbacks, AckOf, Pkt

\* A step that only loses packets, or takes frames from the stack, keeps the
\* dialogue: calls that return, reads that drop, connections that go.
LEMMA DialogueLoses ==
    ASSUME TypeOK, DialogueInv, srvLog' = srvLog, issued' = issued,
           ToSet(s2c') \subseteq ToSet(s2c), DistinctIn(s2c', Asked),
           \A f \in ToSet(stack') : f \in Callbacks => f \in ToSet(stack),
           DistinctIn(stack', Callbacks),
           pending' \subseteq pending, c2s' = c2s \/ c2s' = <<>>,
           Listening' => (Listening /\ c2s' = c2s) \/ stack' = <<>>
    PROVE  DialogueInv'
<1>1. NoneTwice(ToPlatform)' /\ AckFirst(ToPlatform)' /\ Sent' \subseteq Sent
  <2>1. CASE c2s' = c2s
    <3>1. ToPlatform' = ToPlatform /\ Sent' = Sent
      BY <2>1 DEF ToPlatform, Sent
    <3>2. QED
      BY <3>1 DEF DialogueInv
  <2>2. CASE c2s' = <<>>
    BY <2>2, DialogueCut DEF DialogueInv
  <2>3. QED
    BY <2>1, <2>2
<1>2. ToSet(<<>>) = {}
  BY DEF ToSet
<1>3. ToSet(c2s') \subseteq ToSet(c2s)
  BY <1>2
<1>4. CallsTell'
  BY <1>3 DEF DialogueInv, CallsTell
<1>5. \A t : (Coming(t)' => Coming(t)) /\ (InCallback(t)' => InCallback(t))
  BY DEF Coming, InCallback
<1>6. AskedOnce'
  BY <1>5 DEF DialogueInv, AskedOnce
<1>7. SentSoFar'
  <2>1. \A p \in ToSet(srvLog') : p.type # "REQUEST"
    BY DEF DialogueInv, SentSoFar
  <2>2. \A p \in Sent' : p.type # "REQUEST" =>
           p.trx \in issued' /\ ~Coming(p.trx)' /\ (InCallback(p.trx)' => p = AckOf(p))
    BY <1>1, <1>5 DEF DialogueInv, SentSoFar, Sent
  <2>3. ASSUME Listening', NEW f \in ToSet(stack'), f \in Callbacks, f.method = 525
        PROVE  AckOf(f) \in Sent'
    <3>1. stack' # <<>>
      BY <1>2
    <3>2. Listening /\ c2s' = c2s
      BY <2>3, <3>1
    <3>3. AckOf(f) \in Sent
      BY <2>3, <3>2 DEF DialogueInv, SentSoFar, Sent
    <3>4. QED
      BY <3>2, <3>3 DEF Sent
  <2>4. QED
    BY <2>1, <2>2, <2>3 DEF SentSoFar, Sent
<1>8. QED
  BY <1>1, <1>4, <1>6, <1>7 DEF DialogueInv

\* A request of the client has a number that nothing else has.
LEMMA DialogueRequest ==
    ASSUME IInv, DialogueInv, NEW method \in CallMethods, NEW waits \in BOOLEAN,
           NEW base \in Seq(Frame), base = stack \/ base = <<PollFrame>>,
           stack = <<>> \/ base = stack,
           Transact(method, base, waits)
    PROVE  DialogueInv'
<1> DEFINE req == Pkt("REQUEST", method, uniq)
           fr == Fr("wait", method, uniq)
<1>1. TypeOK /\ stack \in Seq(Frame) /\ uniq \in Nat
  BY DEF IInv, TypeOK
<1>2. req \in Packet /\ fr \in Frame
  BY <1>1, BuiltType
<1>3. /\ req.type = "REQUEST" /\ req.method = method /\ req.trx = uniq
      /\ fr.call = "wait"
  BY DEF Pkt, Fr
<1>4. /\ s2c' = s2c /\ srvLog' = srvLog /\ issued' = issued /\ pending' = pending
      /\ peer' = peer
      /\ \/ SendOk(req) /\ (stack' = Append(base, fr) \/ stack' = stack)
         \/ SendFail /\ stack' = stack
  BY DEF Transact, serverVars
<1> HIDE DEF req, fr
<1>5. DistinctIn(stack, Callbacks) /\ DistinctIn(s2c, Asked)
  BY DEF DialogueInv, AskedOnce
<1>6. /\ \A f \in ToSet(stack') : f \in Callbacks => f \in ToSet(stack)
      /\ DistinctIn(stack', Callbacks)
  <2>1. fr \notin Callbacks /\ PollFrame \notin Callbacks
    BY <1>3 DEF Callbacks, PollFrame, Fr
  <2>2. ToSet(<<PollFrame>>) = {PollFrame} /\ DistinctIn(<<PollFrame>>, Callbacks)
    BY DEF ToSet, DistinctIn
  <2>3. DistinctIn(base, Callbacks) /\ \A f \in ToSet(base) : f \in Callbacks => f \in ToSet(stack)
    BY <1>5, <2>1, <2>2
  <2>4. CASE stack' = Append(base, fr)
    <3>1. ToSet(stack') = ToSet(base) \cup {fr}
      BY <1>2, <2>4, AppendElements
    <3>2. DistinctIn(stack', Callbacks)
      BY <1>2, <2>1, <2>3, <2>4, DistinctAppend
    <3>3. QED
      BY <2>1, <2>3, <3>1, <3>2
  <2>5. CASE stack' = stack
    BY <1>5, <2>5
  <2>6. QED
    BY <1>4, <2>4, <2>5
<1>7. CASE c2s' = c2s
  BY <1>1, <1>4, <1>5, <1>6, <1>7, DialogueLoses DEF Listening
<1>8. CASE c2s' = Append(c2s, req)
  <2>1. req \notin Sent
    <3>1. \A c \in Claims : c[1] # uniq
      BY <1>1, BoundsAssumption DEF IInv, ClaimsBelow
    <3>2. req \notin ToSet(c2s)
      BY <1>3, <3>1, ClaimsHold
    <3>3. req \notin ToSet(srvLog)
      BY <1>3 DEF DialogueInv, SentSoFar
    <3>4. QED
      BY <3>2, <3>3 DEF Sent
  <2>2. NoneTwice(ToPlatform)' /\ AckFirst(ToPlatform)' /\ Sent' = Sent \cup {req}
    BY <1>1, <1>2, <1>3, <1>4, <1>8, <2>1, DialogueGrows DEF DialogueInv
  <2>3. ToSet(c2s') = ToSet(c2s) \cup {req}
    BY <1>1, <1>2, <1>8, AppendElements DEF TypeOK
  <2>4. CallsTell'
    BY <1>3, <1>4, <2>3 DEF DialogueInv, CallsTell
  <2>5. \A t : (Coming(t)' <=> Coming(t)) /\ (InCallback(t)' => InCallback(t))
    BY <1>4, <1>6 DEF Coming, InCallback
  <2>6. AskedOnce'
    BY <1>4, <1>5, <1>6, <2>5 DEF DialogueInv, AskedOnce
  <2>7. SentSoFar'
    <3>1. \A p \in ToSet(srvLog') : p.type # "REQUEST"
      BY <1>4 DEF DialogueInv, SentSoFar
    <3>2. \A p \in Sent' : p.type # "REQUEST" =>
             p.trx \in issued' /\ ~Coming(p.trx)' /\ (InCallback(p.trx)' => p = AckOf(p))
      BY <1>3, <1>4, <2>2, <2>5 DEF DialogueInv, SentSoFar, Sent
    <3>3. ASSUME Listening', NEW f \in ToSet(stack'), f \in Callbacks, f.method = 525
          PROVE  AckOf(f) \in Sent'
      <4>1. Listening
        BY <1>4, <3>3 DEF Listening
      <4>2. AckOf(f) \in Sent
        BY <1>6, <3>3, <4>1 DEF DialogueInv, SentSoFar, Sent
      <4>3. QED
        BY <2>2, <4>2
    <3>4. QED
      BY <3>1, <3>2, <3>3 DEF SentSoFar, Sent
  <2>8. QED
    BY <2>2, <2>4, <2>6, <2>7 DEF DialogueInv
<1>9. QED
  BY <1>4, <1>7, <1>8 DEF SendOk, SendFail

\* The end of a handler: its report, or its answer, is the first, and follows the
\* acknowledgement.
LEMMA DialogueReport ==
    ASSUME TypeOK, DialogueInv, CallbackReturn
    PROVE  DialogueInv'
<1> DEFINE e == Pkt(IF Top.method = 525 THEN "REPORT" ELSE "RESPONSE", Top.method, Top.trx)
<1>1. stack # <<>> /\ Top.call = "callback" /\ stack' = Popped
  BY DEF CallbackReturn, Running
<1>2. stack \in Seq(Frame) /\ Len(stack) \in Nat \ {0} /\ Len(stack) \in DOMAIN stack
  BY <1>1, EmptySeq, LenProperties DEF TypeOK
<1>3. /\ Top \in Frame /\ Top \in ToSet(stack) /\ Top = stack[Len(stack)]
      /\ ToSet(Popped) \subseteq ToSet(stack)
  BY <1>1, <1>2, ReturnType DEF Top
<1>4. Top \in Callbacks /\ Top.method \in {525, 711} /\ Top.trx \in Nat
  BY <1>1, <1>3 DEF Callbacks, Frame, PollFrame, Fr
<1>0. PICK t : t = Top.trx
  OBVIOUS
<1>5. e \in Packet
  BY <1>4, BuiltType
<1>6. /\ e.method = Top.method /\ e.trx = Top.trx /\ e.type # "REQUEST"
      /\ e.type = "REPORT" <=> Top.method = 525
  BY DEF Pkt
<1>7. /\ s2c' = s2c /\ srvLog' = srvLog /\ issued' = issued /\ pending' = pending
      /\ peer' = peer /\ (SendOk(e) \/ SendFail)
  BY DEF CallbackReturn, serverVars
<1> HIDE DEF e
<1>8. DistinctIn(stack, Callbacks) /\ DistinctIn(s2c, Asked)
  BY DEF DialogueInv, AskedOnce
<1>9. /\ DistinctIn(stack', Callbacks)
      /\ \A f \in ToSet(stack') : f \in ToSet(stack)
      /\ \A f \in ToSet(stack') : f \in Callbacks => f.trx # Top.trx
  <2>1. /\ DistinctIn(Popped, Callbacks)
        /\ \A x \in ToSet(Popped) : x \in Callbacks => x.trx # stack[Len(stack)].trx
    <3> DEFINE n == Len(stack) - 1
    <3>1. n \in Int /\ n =< Len(stack) /\ Len(stack) > n
      BY <1>2
    <3>2. Popped = SubSeq(stack, 0 + 1, n)
      BY DEF Popped
    <3> HIDE DEF n
    <3>3. QED
      BY <1>2, <1>3, <1>4, <1>8, <3>1, <3>2, 0 \in Nat, DistinctPiece
  <2>2. QED
    BY <1>1, <1>3, <2>1
<1>10. CASE c2s' = c2s
  BY <1>7, <1>8, <1>9, <1>10, DialogueLoses DEF Listening
<1>11. CASE c2s' = Append(c2s, e) /\ Listening
  <2>1. Top.trx \in issued /\ ~Coming(Top.trx) /\ InCallback(Top.trx)
    BY <1>3, <1>4 DEF DialogueInv, AskedOnce, InCallback
  <2>2. e \notin Sent
    <3>1. SUFFICES ASSUME e \in Sent PROVE FALSE
      OBVIOUS
    <3>2. e = AckOf(e)
      BY <1>6, <2>1, <3>1 DEF DialogueInv, SentSoFar, Sent
    <3>3. e.type = "RESPONSE" /\ e.method = 525
      BY <3>2, DialogueWords
    <3>4. QED
      BY <1>6, <3>3
  <2>3. e.type = "REPORT" => AckOf(e) \in Sent
    <3>1. AckOf(e) = AckOf(Top)
      BY <1>6, DialogueWords
    <3>2. QED
      BY <1>3, <1>4, <1>6, <1>11, <3>1 DEF DialogueInv, SentSoFar, Sent
  <2>4. NoneTwice(ToPlatform)' /\ AckFirst(ToPlatform)' /\ Sent' = Sent \cup {e}
    BY <1>5, <1>7, <1>11, <2>2, <2>3, DialogueGrows DEF DialogueInv
  <2>5. ToSet(c2s') = ToSet(c2s) \cup {e}
    BY <1>5, <1>11, AppendElements DEF TypeOK
  <2>6. CallsTell'
    BY <1>6, <1>7, <2>5 DEF DialogueInv, CallsTell
  <2>7. \A n : (Coming(n)' <=> Coming(n)) /\ (InCallback(n)' => InCallback(n))
    BY <1>7, <1>9 DEF Coming, InCallback
  <2>8. ~InCallback(t)'
    <3>1. \A f \in ToSet(stack') : f \in Callbacks => f.trx # t
      BY <1>0, <1>9
    <3>2. QED
      BY <3>1 DEF InCallback
  <2>9. AskedOnce'
    BY <1>7, <1>8, <1>9, <2>7 DEF DialogueInv, AskedOnce
  <2>10. SentSoFar'
    <3>1. \A p \in ToSet(srvLog') : p.type # "REQUEST"
      BY <1>7 DEF DialogueInv, SentSoFar
    <3>2. ASSUME NEW p \in Sent', p.type # "REQUEST"
          PROVE  p.trx \in issued' /\ ~Coming(p.trx)' /\ (InCallback(p.trx)' => p = AckOf(p))
      <4>1. CASE p = e
        <5>1. p.trx = t /\ t \in issued /\ ~Coming(t)
          BY <1>0, <1>6, <2>1, <4>1
        <5>2. QED
          BY <1>7, <2>7, <2>8, <5>1
      <4>2. CASE p \in Sent
        BY <1>7, <2>7, <3>2, <4>2 DEF DialogueInv, SentSoFar, Sent
      <4>3. QED
        BY <2>4, <4>1, <4>2
    <3>3. ASSUME NEW f \in ToSet(stack'), f \in Callbacks, f.method = 525
          PROVE  AckOf(f) \in Sent'
      BY <1>9, <1>11, <2>4, <3>3 DEF DialogueInv, SentSoFar, Sent
    <3>4. QED
      BY <3>1, <3>2, <3>3 DEF SentSoFar, Sent
  <2>11. QED
    BY <2>4, <2>6, <2>9, <2>10 DEF DialogueInv
<1>12. QED
  BY <1>7, <1>10, <1>11 DEF SendOk, SendFail

\* Reading from the stream: the packet read, and what is left, which holds the
\* first packet's id no more when it is a request of the platform.
LEMMA ReadLeaves ==
    ASSUME TypeOK, DialogueInv, Receive
    PROVE  /\ Head(s2c) \in Packet /\ Head(s2c) \in ToSet(s2c)
           /\ ToSet(s2c') \subseteq ToSet(s2c) /\ DistinctIn(s2c', Asked)
           /\ Head(s2c) \in Asked
                 => \A x \in ToSet(s2c') : x \in Asked => x.trx # Head(s2c).trx
<1>1. s2c # <<>> /\ s2c \in Seq(Packet)
  BY DEF Receive, Readable, TypeOK
<1>2. /\ Len(s2c) \in Nat \ {0} /\ DOMAIN s2c = 1..Len(s2c) /\ Head(s2c) = s2c[1]
      /\ Head(s2c) \in Packet /\ Head(s2c) \in ToSet(s2c)
  BY <1>1, EmptySeq, LenProperties, HeadTailProperties, TailElements
<1>3. PICK n \in Taken : s2c' = SubSeq(s2c, n + 1, Len(s2c))
  BY DEF Receive
<1>4. n \in Nat /\ 1 =< n /\ n =< Len(s2c)
  BY <1>2 DEF Taken
<1>5. ToSet(s2c') \subseteq ToSet(s2c)
  BY <1>1, <1>3, <1>4, SuffixElements
<1>6. DistinctIn(s2c, Asked)
  BY DEF DialogueInv, AskedOnce
<1>7. /\ DistinctIn(s2c', Asked)
      /\ \A i \in DOMAIN s2c : (i =< n \/ i > Len(s2c)) /\ s2c[i] \in Asked
            => \A x \in ToSet(s2c') : x \in Asked => x.trx # s2c[i].trx
  <2> DEFINE m == Len(s2c)
  <2>1. m \in Int /\ m =< Len(s2c) /\ s2c' = SubSeq(s2c, n + 1, m)
    BY <1>2, <1>3
  <2>2. \A i : i > m <=> i > Len(s2c)
    OBVIOUS
  <2> HIDE DEF m
  <2>3. QED
    BY <1>1, <1>4, <1>6, <2>1, <2>2, DistinctPiece
<1>8. 1 \in DOMAIN s2c /\ 1 =< n
  BY <1>2, <1>4
<1>9. QED
  BY <1>2, <1>5, <1>7, <1>8

\* Reading a packet keeps the dialogue: a control is acknowledged before its
\* handler starts, and what nobody waits for starts no handler.
LEMMA DialogueReceive ==
    ASSUME TypeOK, DialogueInv, Receive
    PROVE  DialogueInv'
<1> DEFINE p == Head(s2c)
           ack == Pkt("RESPONSE", 525, p.trx)
<1>1. /\ p \in Packet /\ p \in ToSet(s2c)
      /\ ToSet(s2c') \subseteq ToSet(s2c) /\ DistinctIn(s2c', Asked)
      /\ p \in Asked => \A x \in ToSet(s2c') : x \in Asked => x.trx # p.trx
  BY ReadLeaves
<1>2. stack \in Seq(Frame) /\ stack # <<>> /\ DistinctIn(stack, Callbacks)
  BY DEF Receive, Running, TypeOK, DialogueInv, AskedOnce
<1>3. srvLog' = srvLog /\ issued' = issued /\ pending' = pending /\ peer' = peer
  BY DEF Receive, serverVars
<1>4. \/ stack' = Popped /\ c2s' = c2s
      \/ PacketHandler(p)
  BY DEF Receive
<1>5. ASSUME c2s' = c2s, stack' = stack \/ stack' = Popped
      PROVE  DialogueInv'
  <2>1. ToSet(Popped) \subseteq ToSet(stack)
    BY <1>2, ReturnType
  <2>2. DistinctIn(Popped, Callbacks)
    <3> DEFINE n == Len(stack) - 1
    <3>1. n \in Int /\ n =< Len(stack)
      BY <1>2, LenProperties
    <3>2. Popped = SubSeq(stack, 0 + 1, n)
      BY DEF Popped
    <3> HIDE DEF n
    <3>3. QED
      BY <1>2, <3>1, <3>2, 0 \in Nat, DistinctPiece
  <2>3. /\ DistinctIn(stack', Callbacks) /\ ToSet(stack') \subseteq ToSet(stack)
    BY <1>2, <1>5, <2>1, <2>2
  <2>4. Listening' => Listening /\ c2s' = c2s
    BY <1>3, <1>5 DEF Listening
  <2>5. QED
    BY <1>1, <1>3, <1>5, <2>3, <2>4, DialogueLoses
<1>6. ASSUME NEW m \in {525, 711}, p.method = m,
             stack' = Append(stack, Fr("callback", m, p.trx)),
             \/ c2s' = c2s /\ (m = 525 => ~Listening)
             \/ c2s' = Append(c2s, ack) /\ m = 525
      PROVE  DialogueInv'
  <2> DEFINE fr == Fr("callback", m, p.trx)
  <2> PICK t : t = p.trx
    OBVIOUS
  <2>0. p.trx \in Nat
    BY <1>1 DEF Packet
  <2>1. fr \in Frame /\ ack \in Packet
    BY <1>6, <2>0, BuiltType
  <2>2. fr.call = "callback" /\ fr.method = m /\ fr.trx = t /\ fr \in Callbacks
    BY <2>1 DEF Fr, Callbacks
  <2>3. ack.type = "RESPONSE" /\ ack.trx = t /\ ack = AckOf(fr) /\ ack = AckOf(ack)
    BY <2>2 DEF Pkt, AckOf
  <2> HIDE DEF fr, ack
  <2>4. stack' = Append(stack, fr)
    BY <1>6 DEF fr
  <2>5. p \in Asked
    <3>1. p.method \notin CallMethods
      BY <1>6 DEF CallMethods
    <3>2. p.type # "RESPONSE"
      BY <1>1, <3>1 DEF DialogueInv, CallsTell
    <3>3. QED
      BY <1>1, <3>2, DialogueWords
  <2>6. Coming(t) /\ t \in issued
    BY <1>1, <2>5 DEF Coming, DialogueInv, AskedOnce
  <2>7. ~Coming(t)'
    <3>1. \A x \in ToSet(s2c') : x \in Asked => x.trx # t
      BY <1>1, <2>5
    <3>2. QED
      BY <3>1 DEF Coming
  <2>8. \A f \in ToSet(stack) : f \in Callbacks => f.trx # t
    BY <2>6 DEF DialogueInv, AskedOnce
  <2>9. ToSet(stack') = ToSet(stack) \cup {fr} /\ DistinctIn(stack', Callbacks)
    BY <1>2, <2>1, <2>2, <2>4, <2>8, AppendElements, DistinctAppend
  <2>10. \A q \in Sent : q.type # "REQUEST" => q.trx # t
    BY <2>6 DEF DialogueInv, SentSoFar, Sent
  <2>11. \A u : /\ Coming(u)' => Coming(u)
                /\ u # t /\ InCallback(u)' => InCallback(u)
    BY <1>1, <2>2, <2>9 DEF Coming, InCallback
  <2>12. /\ NoneTwice(ToPlatform)' /\ AckFirst(ToPlatform)'
         /\ \/ Sent' = Sent /\ c2s' = c2s /\ (m = 525 => ~Listening)
            \/ Sent' = Sent \cup {ack} /\ c2s' = Append(c2s, ack) /\ m = 525
    <3>1. CASE c2s' = c2s /\ (m = 525 => ~Listening)
      <4>1. ToPlatform' = ToPlatform /\ Sent' = Sent
        BY <1>3, <3>1 DEF ToPlatform, Sent
      <4>2. QED
        BY <3>1, <4>1 DEF DialogueInv
    <3>2. CASE c2s' = Append(c2s, ack) /\ m = 525
      <4>1. ack \notin Sent
        BY <2>3, <2>10
      <4>2. QED
        BY <1>3, <2>1, <2>3, <3>2, <4>1, DialogueGrows DEF DialogueInv
    <3>3. QED
      BY <1>6, <3>1, <3>2
  <2>13. CallsTell'
    <3>0. ToSet(Append(c2s, ack)) = ToSet(c2s) \cup {ack}
      BY <2>1, AppendElements DEF TypeOK
    <3>1. ToSet(c2s') \subseteq ToSet(c2s) \cup {ack}
      BY <2>12, <3>0
    <3>2. QED
      BY <1>1, <1>3, <2>3, <3>1 DEF DialogueInv, CallsTell
  <2>14. AskedOnce'
    <3>1. \A q \in ToSet(s2c') : q \in Asked => q.trx \in issued'
      BY <1>1, <1>3 DEF DialogueInv, AskedOnce
    <3>2. ASSUME NEW f \in ToSet(stack'), f \in Callbacks
          PROVE  f.trx \in issued' /\ ~Coming(f.trx)'
      <4>1. CASE f = fr
        BY <1>3, <2>2, <2>6, <2>7, <4>1
      <4>2. CASE f \in ToSet(stack)
        BY <1>3, <2>11, <3>2, <4>2 DEF DialogueInv, AskedOnce
      <4>3. QED
        BY <2>9, <4>1, <4>2
    <3>3. QED
      BY <1>1, <2>9, <3>1, <3>2 DEF AskedOnce
  <2>15. SentSoFar'
    <3>1. \A q \in ToSet(srvLog') : q.type # "REQUEST"
      BY <1>3 DEF DialogueInv, SentSoFar
    <3>2. ASSUME NEW q \in Sent', q.type # "REQUEST"
          PROVE  q.trx \in issued' /\ ~Coming(q.trx)' /\ (InCallback(q.trx)' => q = AckOf(q))
      <4>1. CASE q = ack
        BY <1>3, <2>3, <2>6, <2>7, <4>1
      <4>2. CASE q \in Sent
        BY <1>3, <2>10, <2>11, <3>2, <4>2 DEF DialogueInv, SentSoFar, Sent
      <4>3. QED
        BY <2>12, <4>1, <4>2
    <3>3. ASSUME Listening', NEW f \in ToSet(stack'), f \in Callbacks, f.method = 525
          PROVE  AckOf(f) \in Sent'
      <4>1. Listening
        BY <1>3, <3>3 DEF Listening
      <4>2. CASE f = fr
        BY <2>2, <2>3, <2>12, <3>3, <4>1, <4>2
      <4>3. CASE f \in ToSet(stack)
        BY <2>12, <3>3, <4>1, <4>3 DEF DialogueInv, SentSoFar, Sent
      <4>4. QED
        BY <2>9, <4>2, <4>3
    <3>4. QED
      BY <3>1, <3>2, <3>3 DEF SentSoFar, Sent
  <2>16. QED
    BY <2>12, <2>13, <2>14, <2>15 DEF DialogueInv
<1>7. CASE PacketHandler(p)
  <2>1. CASE p.method = 525 /\ ControlHandler(p)
    <3>1. CASE SendFail /\ stack' = stack
      BY <1>5, <3>1 DEF SendFail
    <3>2. CASE SendOk(ack) /\ stack' = Append(stack, Fr("callback", 525, p.trx))
      <4>1. \/ c2s' = c2s /\ ~Listening
            \/ c2s' = Append(c2s, ack)
        BY <3>2 DEF SendOk
      <4>2. QED
        BY <1>6, <2>1, <3>2, <4>1
    <3>3. QED
      BY <2>1, <3>1, <3>2 DEF ControlHandler
  <2>2. CASE p.method = 711 /\ QueryHandler(p)
    <3>1. c2s' = c2s /\ stack' = Append(stack, Fr("callback", 711, p.trx))
      BY <2>2 DEF QueryHandler
    <3>2. QED
      BY <1>6, <2>2, <3>1
  <2>3. CASE UNCHANGED <<stack, c2s>>
    BY <1>5, <2>3
  <2>4. QED
    BY <1>7, <2>1, <2>2, <2>3 DEF PacketHandler
<1>8. QED
  BY <1>4, <1>5, <1>7

\* The platform's steps keep the dialogue: it asks each thing once, and answers
\* only what the client has asked.
LEMMA DialoguePlatform ==
    ASSUME TypeOK, DialogueInv,
           \/ SrvRead
           \/ \E p \in pending : SrvAnswer(p)
           \/ \E t \in ServerTrx : SrvRequest(t)
    PROVE  DialogueInv'
<1>1. CASE SrvRead
  <2>1. /\ NoneTwice(ToPlatform)' /\ AckFirst(ToPlatform)'
        /\ Sent' \subseteq Sent
        /\ \A p \in Sent : p.type # "REQUEST" => p \in Sent'
        /\ \A p \in ToSet(srvLog') : p \in ToSet(srvLog) \/ (p \in Sent /\ p.type # "REQUEST")
    BY <1>1, DialogueRead DEF DialogueInv
  <2>2. stack' = stack /\ s2c' = s2c /\ issued' = issued /\ peer' = peer
    BY <1>1 DEF SrvRead, clientVars
  <2>3. /\ c2s' = Tail(c2s) /\ ToSet(Tail(c2s)) \subseteq ToSet(c2s)
        /\ Head(c2s) \in ToSet(c2s)
    BY <1>1, TailElements DEF SrvRead, TypeOK
  <2>4. \A p \in pending' : p \in pending \/ (p = Head(c2s) /\ p.type = "REQUEST")
    BY <1>1 DEF SrvRead
  <2>5. CallsTell'
    BY <2>2, <2>3, <2>4 DEF DialogueInv, CallsTell
  <2>6. \A t : (Coming(t)' <=> Coming(t)) /\ (InCallback(t)' <=> InCallback(t))
    BY <2>2 DEF Coming, InCallback
  <2>7. AskedOnce'
    BY <2>2, <2>6 DEF DialogueInv, AskedOnce
  <2>8. SentSoFar'
    <3>1. \A p \in ToSet(srvLog') : p.type # "REQUEST"
      BY <2>1 DEF DialogueInv, SentSoFar
    <3>2. \A p \in Sent' : p.type # "REQUEST" =>
             p.trx \in issued' /\ ~Coming(p.trx)' /\ (InCallback(p.trx)' => p = AckOf(p))
      BY <2>1, <2>2, <2>6 DEF DialogueInv, SentSoFar, Sent
    <3>3. ASSUME Listening', NEW f \in ToSet(stack'), f \in Callbacks, f.method = 525
          PROVE  AckOf(f) \in Sent'
      <4>1. Listening
        BY <2>2, <3>3 DEF Listening
      <4>2. AckOf(f) \in Sent
        BY <2>2, <3>3, <4>1 DEF DialogueInv, SentSoFar, Sent
      <4>3. AckOf(f).type # "REQUEST"
        BY DialogueWords
      <4>4. QED
        BY <2>1, <4>2, <4>3
    <3>4. QED
      BY <3>1, <3>2, <3>3 DEF SentSoFar, Sent
  <2>9. QED
    BY <2>1, <2>5, <2>7, <2>8 DEF DialogueInv
<1>2. ASSUME NEW e \in Packet, s2c' = Append(s2c, e), UNCHANGED <<stack, c2s, srvLog>>,
             pending' \subseteq pending, Listening' => Listening,
             e.type = "RESPONSE" => e.method \in CallMethods,
             \/ e.type = "RESPONSE" /\ issued' = issued
             \/ e.trx \notin issued /\ issued' = issued \cup {e.trx}
      PROVE  DialogueInv'
  <2>1. s2c \in Seq(Packet)
    BY DEF TypeOK
  <2>2. ToSet(s2c') = ToSet(s2c) \cup {e}
    BY <1>2, <2>1, AppendElements
  <2>3. e \in Asked => e.trx \notin issued /\ e.trx \in issued'
    BY <1>2, DialogueWords
  <2>4. issued \subseteq issued'
    BY <1>2
  <2>5. stack' = stack /\ c2s' = c2s /\ srvLog' = srvLog
    BY <1>2
  <2>6. ToPlatform' = ToPlatform /\ Sent' = Sent /\ \A t : InCallback(t)' <=> InCallback(t)
    BY <2>5 DEF ToPlatform, Sent, InCallback
  <2>7. CallsTell'
    BY <1>2, <2>2, <2>5 DEF DialogueInv, CallsTell
  <2>8. \A t \in issued : Coming(t)' => Coming(t)
    BY <2>2, <2>3 DEF Coming
  <2>9. DistinctIn(s2c', Asked)
    <3>1. DistinctIn(s2c, Asked) /\ \A x \in ToSet(s2c) : x \in Asked => x.trx \in issued
      BY DEF DialogueInv, AskedOnce
    <3>2. e \in Asked => \A x \in ToSet(s2c) : x \in Asked => x.trx # e.trx
      BY <2>3, <3>1
    <3>3. QED
      BY <1>2, <2>1, <3>1, <3>2, DistinctAppend
  <2>10. AskedOnce'
    <3>1. \A p \in ToSet(s2c') : p \in Asked => p.trx \in issued'
      BY <2>2, <2>3, <2>4 DEF DialogueInv, AskedOnce
    <3>2. \A f \in ToSet(stack') : f \in Callbacks => f.trx \in issued' /\ ~Coming(f.trx)'
      BY <2>4, <2>5, <2>8 DEF DialogueInv, AskedOnce
    <3>3. QED
      BY <2>5, <2>9, <3>1, <3>2 DEF DialogueInv, AskedOnce
  <2>11. SentSoFar'
    <3>1. \A p \in ToSet(srvLog') : p.type # "REQUEST"
      BY <2>5 DEF DialogueInv, SentSoFar
    <3>2. \A p \in Sent' : p.type # "REQUEST" =>
             p.trx \in issued' /\ ~Coming(p.trx)' /\ (InCallback(p.trx)' => p = AckOf(p))
      BY <2>4, <2>6, <2>8 DEF DialogueInv, SentSoFar, Sent
    <3>3. ASSUME Listening', NEW f \in ToSet(stack'), f \in Callbacks, f.method = 525
          PROVE  AckOf(f) \in Sent'
      BY <1>2, <2>5, <2>6, <3>3 DEF DialogueInv, SentSoFar, Sent
    <3>4. QED
      BY <3>1, <3>2, <3>3 DEF SentSoFar, Sent
  <2>12. QED
    BY <2>6, <2>7, <2>10, <2>11 DEF DialogueInv
<1>3. CASE \E p \in pending : SrvAnswer(p)
  <2>1. PICK p \in pending : SrvAnswer(p)
    BY <1>3
  <2> DEFINE e == Pkt("RESPONSE", p.method, p.trx)
  <2>2. e \in Packet /\ e.type = "RESPONSE" /\ e.method = p.method
    BY DEF Pkt, Packet, TypeOK
  <2>3. p.method \in CallMethods
    BY DEF DialogueInv, CallsTell
  <2>4. /\ s2c' = Append(s2c, e) /\ UNCHANGED <<stack, c2s, srvLog>>
        /\ pending' \subseteq pending /\ issued' = issued /\ Listening
    BY <2>1 DEF SrvAnswer, clientVars
  <2> HIDE DEF e
  <2>5. QED
    BY <1>2, <2>2, <2>3, <2>4
<1>4. CASE \E t \in ServerTrx : SrvRequest(t)
  <2>1. PICK t \in ServerTrx : SrvRequest(t)
    BY <1>4
  <2> DEFINE e == Pkt("REQUEST", ServerMethod(t), t)
  <2>2. e \in Packet /\ e.type = "REQUEST" /\ e.trx = t
    <3>1. t \in Nat /\ ServerMethod(t) \in {525, 711}
      BY ServerIdsAssumption DEF ServerTrx, ServerMethod
    <3>2. e \in Packet
      BY <3>1, BuiltType
    <3>3. QED
      BY <3>2 DEF Pkt
  <2>3. /\ s2c' = Append(s2c, e) /\ UNCHANGED <<stack, c2s, srvLog>>
        /\ pending' \subseteq pending /\ issued' = issued \cup {t} /\ t \notin issued /\ Listening
    BY <2>1 DEF SrvRequest, clientVars, Listening
  <2> HIDE DEF e
  <2>4. QED
    BY <1>2, <2>2, <2>3
<1>5. QED
  BY <1>1, <1>3, <1>4

\* Every step keeps the dialogue.
LEMMA DialogueStep ==
    ASSUME IInv, DialogueInv, [Next]_vars
    PROVE  DialogueInv'
<1>1. TypeOK /\ stack \in Seq(Frame) /\ response_wait_sw \in BOOLEAN
  BY DEF IInv, TypeOK
<1>2. DistinctIn(stack, Callbacks) /\ DistinctIn(s2c, Asked)
  BY DEF DialogueInv, AskedOnce
<1>3. CASE Tick \/ TurnResponseWaitOff \/ UNCHANGED vars
  <2>1. UNCHANGED <<stack, s2c, c2s, peer, pending, issued, srvLog>>
    BY <1>3 DEF Tick, TurnResponseWaitOff, vars, clientVars, netVars, serverVars
  <2>2. Listening' => Listening
    BY <2>1 DEF Listening
  <2>3. QED
    BY <1>1, <1>2, <2>1, <2>2, DialogueLoses
<1>4. CASE Connect \/ Disconnect \/ SrvClose \/ Reset
  <2>1. /\ srvLog' = srvLog /\ issued' = issued /\ stack' = stack
        /\ s2c' \in {s2c, <<>>} /\ c2s' = <<>> /\ pending' = {}
    BY <1>4 DEF Connect, Disconnect, SrvClose, Reset, clientVars
  <2>2. stack = <<>> \/ ~Listening'
    BY <1>4 DEF Connect, Disconnect, SrvClose, Reset, Listening
  <2>3. ToSet(<<>>) = {} /\ DistinctIn(<<>>, Asked)
    BY DEF ToSet, DistinctIn
  <2>4. ToSet(s2c') \subseteq ToSet(s2c) /\ DistinctIn(s2c', Asked)
    BY <1>2, <2>1, <2>3
  <2>5. QED
    BY <1>1, <1>2, <2>1, <2>2, <2>4, DialogueLoses
<1>5. CASE AuthDevice
  <2>1. Transact(224, stack, TRUE) /\ 224 \in CallMethods
    BY <1>5 DEF AuthDevice, CallMethods
  <2>2. QED
    BY <1>1, <2>1, DialogueRequest
<1>6. CASE SendData
  <2>1. Transact(411, stack, response_wait_sw) /\ 411 \in CallMethods
    BY <1>6 DEF SendData, CallMethods
  <2>2. QED
    BY <1>1, <2>1, DialogueRequest
<1>7. CASE Poll
  <2>1. /\ stack = <<>> /\ stack' = <<PollFrame>>
        /\ UNCHANGED <<s2c, c2s, peer, pending, issued, srvLog>>
    BY <1>7 DEF Poll, netVars, serverVars
  <2>2. ToSet(<<PollFrame>>) = {PollFrame} /\ DistinctIn(<<PollFrame>>, Callbacks)
    BY DEF ToSet, DistinctIn
  <2>3. PollFrame \notin Callbacks
    BY DEF Callbacks, PollFrame, Fr
  <2>4. /\ \A f \in ToSet(stack') : f \in Callbacks => f \in ToSet(stack)
        /\ DistinctIn(stack', Callbacks)
    BY <2>1, <2>2, <2>3
  <2>5. Listening' => Listening
    BY <2>1 DEF Listening
  <2>6. QED
    BY <1>1, <1>2, <2>1, <2>4, <2>5, DialogueLoses
<1>8. CASE PollWithKeepAlive
  <2> DEFINE base == <<PollFrame>>
  <2>1. base \in Seq(Frame)
    BY BuiltType, 0 \in Nat
  <2>2. Transact(231, base, TRUE) /\ 231 \in CallMethods /\ stack = <<>>
    BY <1>8 DEF PollWithKeepAlive, CallMethods
  <2>3. base = <<PollFrame>>
    OBVIOUS
  <2> HIDE DEF base
  <2>4. QED
    BY <2>1, <2>2, <2>3, DialogueRequest
<1>9. CASE Receive
  BY <1>1, <1>9, DialogueReceive
<1>10. CASE GiveUp \/ PollReturn
  <2>1. /\ stack # <<>> /\ (stack' = Unwound \/ stack' = Popped)
        /\ UNCHANGED <<s2c, c2s, peer, pending, issued, srvLog>>
    BY <1>10 DEF GiveUp, PollReturn, Running, netVars, serverVars
  <2>2. ToSet(stack') \subseteq ToSet(stack)
    BY <1>1, <2>1, ReturnType
  <2>3. \A n \in Int : n =< Len(stack) => DistinctIn(SubSeq(stack, 1, n), Callbacks)
    <3>1. TAKE n \in Int
    <3>2. HAVE n =< Len(stack)
    <3>3. 0 + 1 = 1
      OBVIOUS
    <3>4. DistinctIn(SubSeq(stack, 0 + 1, n), Callbacks)
      BY <1>1, <1>2, <3>2, 0 \in Nat, DistinctPiece
    <3>5. QED
      BY <3>3, <3>4
  <2>4. Len(stack) \in Nat
    BY <1>1, LenProperties
  <2>5. /\ DistinctIn(SubSeq(stack, 1, Len(stack) - 1), Callbacks)
        /\ DistinctIn(SubSeq(stack, 1, Len(stack) - 2), Callbacks)
    BY <2>3, <2>4
  <2>6. DistinctIn(stack', Callbacks)
    BY <2>1, <2>5 DEF Unwound, Popped
  <2>7. Listening' => Listening
    BY <2>1 DEF Listening
  <2>8. QED
    BY <1>1, <1>2, <2>1, <2>2, <2>6, <2>7, DialogueLoses
<1>11. CASE CallbackReturn
  BY <1>1, <1>11, DialogueReport
<1>12. CASE SrvRead \/ (\E p \in pending : SrvAnswer(p)) \/ \E t \in ServerTrx : SrvRequest(t)
  BY <1>1, <1>12, DialoguePlatform
<1>13. QED
  BY <1>3, <1>4, <1>5, <1>6, <1>7, <1>8, <1>9, <1>10, <1>11, <1>12
     DEF Next, AppStep, SdkStep, Platform

\* The dialogue of every control is in order in every reachable state.
THEOREM DialogueInvariant == Spec => []DialogueInv
<1>1. Init => DialogueInv
  <2> SUFFICES ASSUME Init PROVE DialogueInv
    OBVIOUS
  <2>1. /\ stack = <<>> /\ s2c = <<>> /\ c2s = <<>> /\ srvLog = <<>> /\ pending = {}
        /\ ToSet(<<>>) = {}
    BY DEF Init, ToSet
  <2>2. ToPlatform = <<>>
    BY <2>1 DEF ToPlatform
  <2>3. CallsTell /\ SentSoFar
    BY <2>1 DEF CallsTell, SentSoFar
  <2>4. AskedOnce /\ NoneTwice(ToPlatform) /\ AckFirst(ToPlatform)
    BY <2>1, <2>2 DEF AskedOnce, DistinctIn, NoneTwice, AckFirst
  <2>5. QED
    BY <2>3, <2>4 DEF DialogueInv
<1>2. IInv /\ DialogueInv /\ [Next]_vars => DialogueInv'
  BY DialogueStep
<1>3. QED
  BY <1>1, <1>2, Invariant, PTL DEF Spec

\* The platform sees at most one acknowledgement of a control and, behind it, at
\* most one report, however the handlers nest and wherever the connection breaks.
THEOREM ControlsAnsweredOnce == Spec => []ControlDialogue
<1>1. DialogueInv => ControlDialogue
  BY DEF DialogueInv, ControlDialogue, NoneTwice, AckFirst, AckOf
<1>2. QED
  BY <1>1, DialogueInvariant, PTL

-----------------------------------------------------------------------------
(* No answer is taken for somebody else's *)

\* When callbacks do not send, a callback is the innermost call, and nothing but
\* a callback runs inside a wait.
NestsOnce ==
    ~CallbackSends =>
        \A i \in DOMAIN stack :
            /\ stack[i].call = "callback" => i = Len(stack)
            /\ stack[i].call = "wait" => i = Len(stack)
                  \/ (i = Len(stack) - 1 /\ stack[Len(stack)].call = "callback")

\* What is left of the stack when calls return: all but the innermost frame, or
\* all but it and the im_poll under it.
LeftTo(n) ==
    /\ stack' = SubSeq(stack, 1, n)
    /\ n = Len(stack) - 1 \/ (n = Len(stack) - 2 /\ stack[Len(stack) - 1].call = "poll")

\* The frames that are left are where they were.
LEMMA PrefixFrames ==
    ASSUME NEW S, NEW s \in Seq(S), NEW n \in Int, n =< Len(s),
           NEW i \in DOMAIN SubSeq(s, 1, n)
    PROVE  /\ i \in DOMAIN s /\ i =< n /\ SubSeq(s, 1, n)[i] = s[i]
           /\ Len(SubSeq(s, 1, n)) = n
<1>1. DOMAIN s = 1..Len(s) /\ Len(s) \in Nat /\ \A j \in 1..n : s[j] \in S
  BY LenProperties, ElementOfSeq
<1>2. /\ SubSeq(s, 1, n) \in Seq(S)
      /\ Len(SubSeq(s, 1, n)) = IF 1 =< n THEN n ELSE 0
      /\ \A j \in 1..n : SubSeq(s, 1, n)[j] = s[j]
  <2>1. \A j \in 1..n - 1 + 1 : SubSeq(s, 1, n)[j] = s[1 + j - 1]
    BY <1>1, SubSeqProperties, 1 \in Int
  <2>2. QED
    BY <1>1, <2>1, SubSeqProperties, 1 \in Int
<1>3. DOMAIN SubSeq(s, 1, n) = 1..Len(SubSeq(s, 1, n))
  BY <1>2, LenProperties
<1>4. QED
  BY <1>1, <1>2, <1>3

\* Returning from calls keeps the nesting.
LEMMA NestsReturn ==
    ASSUME TypeOK, NestsOnce, stack # <<>>, NEW n \in Int, LeftTo(n)
    PROVE  NestsOnce'
<1>1. stack \in Seq(Frame) /\ Len(stack) \in Nat \ {0}
  BY EmptySeq, LenProperties DEF TypeOK
<1>2. n = Len(stack) - 1 \/ n = Len(stack) - 2
  BY DEF LeftTo
<1>3. n =< Len(stack) - 1 /\ n =< Len(stack)
  BY <1>1, <1>2
<1>4. \A i \in DOMAIN stack' :
         i \in DOMAIN stack /\ i =< n /\ stack'[i] = stack[i] /\ Len(stack') = n
  BY <1>1, <1>3, PrefixFrames DEF LeftTo
<1>5. SUFFICES ASSUME ~CallbackSends, NEW i \in DOMAIN stack'
               PROVE  /\ stack'[i].call = "callback" => i = Len(stack')
                      /\ stack'[i].call = "wait" => i = Len(stack')
  BY DEF NestsOnce
<1>6. i \in DOMAIN stack /\ i \in Nat /\ i =< n /\ stack'[i] = stack[i] /\ Len(stack') = n
  BY <1>1, <1>4, LenProperties
<1>7. i # Len(stack)
  BY <1>1, <1>3, <1>6
<1>8. stack[i].call # "callback" /\ (stack[i].call = "wait" => i = Len(stack) - 1)
  BY <1>5, <1>6, <1>7 DEF NestsOnce
<1>9. i = Len(stack) - 1 => i = n
  BY <1>1, <1>2, <1>6
<1>10. QED
  BY <1>6, <1>8, <1>9

\* A request is the innermost call of an application that sends from its main
\* loop only.
LEMMA NestsRequest ==
    ASSUME TypeOK, NestsOnce, NEW method \in CallMethods, NEW waits \in BOOLEAN,
           NEW base \in Seq(Frame), base = <<>> \/ base = <<PollFrame>>,
           ~CallbackSends => stack = <<>>,
           Transact(method, base, waits)
    PROVE  NestsOnce'
<1> SUFFICES ASSUME ~CallbackSends PROVE NestsOnce'
  BY DEF NestsOnce
<1> DEFINE fr == Fr("wait", method, uniq)
<1>1. stack' = stack \/ stack' = Append(base, fr)
  BY DEF Transact
<1>2. fr.call = "wait" /\ PollFrame.call = "poll"
  BY DEF Fr, PollFrame
<1> HIDE DEF fr
<1>3. CASE stack' = stack
  BY <1>3 DEF NestsOnce
<1>4. CASE stack' = Append(base, fr)
  <2>1. fr \in Frame
    <3>1. uniq \in Nat
      BY DEF TypeOK
    <3>2. QED
      BY <3>1, BuiltType DEF fr
  <2>2. /\ stack' \in Seq(Frame) /\ Len(stack') = Len(base) + 1
        /\ stack'[Len(base) + 1] = fr
        /\ \A i \in 1..Len(base) : stack'[i] = base[i]
    BY <1>4, <2>1, AppendProperties
  <2>3. Len(base) \in 0..1 /\ \A i \in 1..Len(base) : base[i] = PollFrame
    OBVIOUS
  <2>4. DOMAIN stack' = 1..(Len(base) + 1)
    BY <2>2, LenProperties
  <2>5. \A i \in DOMAIN stack' : i = Len(stack') \/ stack'[i] = PollFrame
    BY <2>2, <2>3, <2>4
  <2>6. stack'[Len(stack')] = fr
    BY <2>2
  <2>7. QED
    BY <1>2, <2>5, <2>6 DEF NestsOnce
<1>5. QED
  BY <1>1, <1>3, <1>4

\* Every step keeps the nesting.
LEMMA NestsStep ==
    ASSUME TypeOK, NestsOnce, [Next]_vars
    PROVE  NestsOnce'
<1>1. stack \in Seq(Frame) /\ response_wait_sw \in BOOLEAN
  BY DEF TypeOK
<1>2. CASE stack' = stack
  BY <1>2 DEF NestsOnce
<1>3. CASE AuthDevice
  <2>1. Transact(224, stack, TRUE) /\ 224 \in CallMethods /\ stack = <<>>
    BY <1>3 DEF AuthDevice, CallMethods
  <2>2. QED
    BY <1>1, <2>1, NestsRequest
<1>4. CASE SendData
  <2>1. Transact(411, stack, response_wait_sw) /\ 411 \in CallMethods
    BY <1>4 DEF SendData, CallMethods
  <2>2. CASE CallbackSends
    BY <2>2 DEF NestsOnce
  <2>3. CASE ~CallbackSends
    <3>1. stack = <<>>
      BY <1>4, <2>3 DEF SendData, AppRuns
    <3>2. QED
      BY <1>1, <2>1, <3>1, NestsRequest
  <2>4. QED
    BY <2>2, <2>3
<1>5. CASE Poll
  <2>1. stack' = <<PollFrame>> /\ PollFrame.call = "poll"
    BY <1>5 DEF Poll, PollFrame, Fr
  <2>2. QED
    BY <2>1 DEF NestsOnce
<1>6. CASE PollWithKeepAlive
  <2> DEFINE base == <<PollFrame>>
  <2>1. base \in Seq(Frame)
    BY BuiltType, 0 \in Nat
  <2>2. Transact(231, base, TRUE) /\ 231 \in CallMethods /\ stack = <<>>
    BY <1>6 DEF PollWithKeepAlive, CallMethods
  <2>3. base = <<PollFrame>>
    OBVIOUS
  <2> HIDE DEF base
  <2>4. QED
    BY <2>1, <2>2, <2>3, NestsRequest
<1>7. CASE stack # <<>> /\ (stack' = Popped \/ stack' = Unwound)
  <2>1. Len(stack) \in Nat
    BY <1>1, LenProperties
  <2>2. PICK n \in Int : LeftTo(n)
    <3>1. Len(stack) - 1 \in Int /\ Len(stack) - 2 \in Int
      BY <2>1
    <3>2. QED
      BY <1>7, <3>1 DEF Popped, Unwound, LeftTo
  <2>3. QED
    BY <1>7, <2>2, NestsReturn
<1>8. ASSUME NEW f, f.call = "callback", f \in Frame, stack' = Append(stack, f),
             Running({"wait", "poll"})
      PROVE  NestsOnce'
  <2> SUFFICES ASSUME ~CallbackSends, NEW i \in DOMAIN stack'
               PROVE  /\ stack'[i].call = "callback" => i = Len(stack')
                      /\ stack'[i].call = "wait" => i = Len(stack') - 1 /\ stack'[Len(stack')].call = "callback"
    BY DEF NestsOnce
  <2>1. /\ Len(stack) \in Nat \ {0} /\ DOMAIN stack = 1..Len(stack)
        /\ stack[Len(stack)].call \in {"wait", "poll"}
    BY <1>1, <1>8, EmptySeq, LenProperties DEF Running, Top
  <2>2. /\ stack' \in Seq(Frame) /\ Len(stack') = Len(stack) + 1
        /\ stack'[Len(stack) + 1] = f /\ \A j \in 1..Len(stack) : stack'[j] = stack[j]
    BY <1>1, <1>8, AppendProperties
  <2>3. DOMAIN stack' = 1..(Len(stack) + 1)
    BY <2>2, LenProperties
  <2>4. CASE i = Len(stack) + 1
    BY <1>8, <2>2, <2>4
  <2>5. CASE i \in 1..Len(stack)
    <3>1. stack'[i] = stack[i] /\ i \in DOMAIN stack
      BY <2>1, <2>2, <2>5
    <3>2. stack[i].call # "callback"
      BY <2>1, <3>1 DEF NestsOnce
    <3>3. stack[i].call = "wait" => i = Len(stack)
      BY <2>1, <3>1 DEF NestsOnce
    <3>4. Len(stack') - 1 = Len(stack) /\ stack'[Len(stack')].call = "callback"
      BY <1>8, <2>1, <2>2
    <3>5. QED
      BY <3>1, <3>2, <3>3, <3>4
  <2>6. QED
    BY <2>1, <2>3, <2>4, <2>5
<1>9. CASE Receive
  <2> DEFINE p == Head(s2c)
  <2>1. Running({"wait", "poll"}) /\ stack # <<>>
    BY <1>9 DEF Receive, Running
  <2>2. p \in Packet
    BY <1>9, TailElements DEF Receive, Readable, TypeOK
  <2>3. \A m \in {525, 711} : Fr("callback", m, p.trx) \in Frame /\ Fr("callback", m, p.trx).call = "callback"
    <3>1. p.trx \in Nat
      BY <2>2 DEF Packet
    <3>2. \A m : Fr("callback", m, p.trx).call = "callback"
      BY DEF Fr
    <3>3. QED
      BY <3>1, <3>2, BuiltType
  <2>4. \/ stack' = Popped \/ stack' = stack
        \/ \E m \in {525, 711} : stack' = Append(stack, Fr("callback", m, p.trx))
    BY <1>9 DEF Receive, PacketHandler, ControlHandler, QueryHandler
  <2>5. QED
    BY <1>2, <1>7, <1>8, <2>1, <2>3, <2>4
<1>10. CASE GiveUp \/ PollReturn \/ CallbackReturn
  BY <1>7, <1>10 DEF GiveUp, PollReturn, CallbackReturn, Running
<1>11. CASE Tick \/ Connect \/ Disconnect \/ TurnResponseWaitOff \/ Platform \/ UNCHANGED vars
  BY <1>2, <1>11 DEF Tick, Connect, Disconnect, TurnResponseWaitOff, Platform, SrvRead,
     SrvAnswer, SrvRequest, SrvClose, Reset, vars, clientVars
<1>12. QED
  BY <1>3, <1>4, <1>5, <1>6, <1>9, <1>10, <1>11 DEF Next, AppStep, SdkStep

\* The nesting holds in every reachable state.
LEMMA NestsInvariant == Spec => []NestsOnce
<1>1. Init => NestsOnce
  <2>1. Init => stack = <<>>
    BY DEF Init
  <2>2. QED
    BY <2>1 DEF NestsOnce
<1>2. TypeOK /\ NestsOnce /\ [Next]_vars => NestsOnce'
  BY NestsStep
<1>3. QED
  BY <1>1, <1>2, TypeCorrect, PTL DEF Spec

\* Only a read of the client shortens the stream from the platform by a packet
\* while the connection and a call are there.
LEMMA TailIsRead ==
    ASSUME TypeOK, [Next]_vars, stack # <<>>, s2c # <<>>, s2c' = Tail(s2c), peer' = peer
    PROVE  Receive
<1>1. s2c \in Seq(Packet) /\ Len(s2c) \in Nat \ {0}
  BY EmptySeq, LenProperties DEF TypeOK
<1>2. Len(s2c') = Len(s2c) - 1
  BY <1>1, HeadTailProperties
<1>3. s2c' # s2c
  <2>1. Len(s2c) - 1 # Len(s2c)
    BY <1>1
  <2>2. QED
    BY <1>2, <2>1, Zenon
<1>4. ASSUME NEW e \in Packet PROVE s2c' # Append(s2c, e)
  <2>1. Len(Append(s2c, e)) = Len(s2c) + 1
    BY <1>1, AppendProperties
  <2>2. Len(s2c) - 1 # Len(s2c) + 1
    BY <1>1
  <2>3. QED
    BY <1>2, <2>1, <2>2, Zenon
<1>5. ~UNCHANGED vars /\ ~Tick /\ ~TurnResponseWaitOff /\ ~Poll /\ ~GiveUp /\ ~PollReturn
  BY <1>3 DEF vars, Tick, TurnResponseWaitOff, Poll, GiveUp, PollReturn, netVars
<1>6. ~Connect /\ ~Disconnect /\ ~AuthDevice /\ ~PollWithKeepAlive
  BY DEF Connect, Disconnect, AuthDevice, PollWithKeepAlive
<1>7. ~SendData /\ ~CallbackReturn /\ ~SrvRead
  BY <1>3 DEF SendData, Transact, CallbackReturn, SrvRead
<1>8. ~SrvClose /\ ~Reset
  BY DEF SrvClose, Reset, Listening
<1>9. ~\E p \in pending : SrvAnswer(p)
  <2> SUFFICES ASSUME NEW p \in pending, SrvAnswer(p) PROVE FALSE
    OBVIOUS
  <2>1. Pkt("RESPONSE", p.method, p.trx) \in Packet
    BY DEF TypeOK, Pkt, Packet
  <2>2. QED
    BY <1>4, <2>1 DEF SrvAnswer
<1>10. ~\E t \in ServerTrx : SrvRequest(t)
  <2> SUFFICES ASSUME NEW t \in ServerTrx, SrvRequest(t) PROVE FALSE
    OBVIOUS
  <2>1. t \in Nat /\ ServerMethod(t) \in {525, 711}
    BY ServerIdsAssumption DEF ServerTrx, ServerMethod
  <2>2. Pkt("REQUEST", ServerMethod(t), t) \in Packet
    BY <2>1, BuiltType
  <2>3. QED
    BY <1>4, <2>2 DEF SrvRequest
<1>11. QED
  BY <1>5, <1>6, <1>7, <1>8, <1>9, <1>10 DEF Next, AppStep, SdkStep, Platform

\* When callbacks do not send, the answer that arrives for a waiting call ends
\* that call: no other call reads it and drops it.
THEOREM AnswersReachCalls == Spec => NoAnswerDropped
<1> DEFINE Served ==
      \A i \in DOMAIN stack :
          /\ ~CallbackSends /\ framed
          /\ Readable /\ peer' = peer /\ s2c' = Tail(s2c)
          /\ stack[i].call = "wait" /\ Head(s2c).trx = stack[i].trx
          => stack' = SubSeq(stack, 1, i - 1)
<1>1. TypeOK /\ NestsOnce /\ [Next]_vars => Served
  <2> SUFFICES ASSUME TypeOK, NestsOnce, [Next]_vars, NEW i \in DOMAIN stack,
                      ~CallbackSends, Readable, peer' = peer, s2c' = Tail(s2c),
                      stack[i].call = "wait", Head(s2c).trx = stack[i].trx
               PROVE  stack' = SubSeq(stack, 1, i - 1)
    OBVIOUS
  <2>1. stack \in Seq(Frame) /\ stack # <<>>
    BY EmptySeq DEF TypeOK
  <2>2. Receive
    BY <2>1, TailIsRead DEF Readable
  <2>3. stack[Len(stack)].call \in {"wait", "poll"} /\ Top = stack[Len(stack)]
    BY <2>2 DEF Receive, Running, Top
  <2>4. i = Len(stack)
    BY <2>3 DEF NestsOnce
  <2>5. Top.call = "wait" /\ Matches(Top, Head(s2c))
    BY <2>3, <2>4 DEF Matches
  <2>6. stack' = Popped
    BY <2>2, <2>5 DEF Receive
  <2>7. QED
    BY <2>4, <2>6 DEF Popped
<1>2. Spec => [][Served]_vars
  <2>1. TypeOK /\ NestsOnce /\ [Next]_vars => [Served]_vars
    BY <1>1
  <2> HIDE DEF Served
  <2>2. QED
    BY <2>1, TypeCorrect, NestsInvariant, PTL DEF Spec
<1>3. QED
  BY <1>2 DEF NoAnswerDropped
=============================================================================
