--------------------------- MODULE BitUploadProofs ---------------------------
(***************************************************************************)
(* Proofs about BitUpload, for any connections, requests, quota and        *)
(* bounds: type correctness, the unbroken chain of hand-overs and the      *)
(* upload rate.  The invariants are proved in that order, each from the    *)
(* ones before it.                                                         *)
(***************************************************************************)
EXTENDS BitUpload, BitRequestListProofs

-----------------------------------------------------------------------------
(* Types. *)

LEMMA PendFirstType ==
  ASSUME NEW l \in Seq(Pending), NEW c \in Conns, NEW s \in Seq(Requests)
  PROVE  PendFirst(l, c, s) \in Seq(Pending)
<1>1. s # <<>> => <<c, Head(s)>> \in Pending
  BY HeadTailProperties DEF Pending
<1> QED BY <1>1, AppendProperties DEF PendFirst

LEMMA UploadBlockType ==
  ASSUME TypeOK, NEW l \in Seq(Pending), NEW c \in Conns, NEW r \in Requests,
         NEW ok \in BOOLEAN, UploadBlock(l, c, r, ok)
  PROVE  /\ peer_request' \in [Conns -> Seq(Requests)]
         /\ \A d \in Conns : Len(peer_request'[d]) <= MaxRequests
         /\ pending' \in Seq(Pending) /\ quota' \in Nat /\ sent' \in Nat
<1> DEFINE s == IF Sends(c, r, ok) THEN DelRequest(peer_request[c], r)
                                   ELSE peer_request[c]
<1>1. peer_request[c] \in Seq(Requests) /\ Len(peer_request[c]) <= MaxRequests
  BY DEF TypeOK
<1>2. s \in Seq(Requests) /\ Len(s) <= MaxRequests
  <2>1. /\ DelRequest(peer_request[c], r) \in Seq(Requests)
        /\ Len(DelRequest(peer_request[c], r)) <= Len(peer_request[c])
    BY <1>1, DelRequestProperties
  <2>2. Len(DelRequest(peer_request[c], r)) \in Nat /\ Len(peer_request[c]) \in Nat
    BY <1>1, <2>1, LenProperties
  <2> QED BY <1>1, <2>1, <2>2, ConstantsAssumption
<1>3. peer_request' = [peer_request EXCEPT ![c] = s]
  BY DEF UploadBlock
<1>4. pending' \in Seq(Pending)
  <2>1. PendFirst(l, c, s) \in Seq(Pending)
    <3> HIDE DEF s
    <3> QED BY <1>2, PendFirstType
  <2>2. pending' = IF c \in alive THEN PendFirst(l, c, s) ELSE l
    BY DEF UploadBlock
  <2> QED BY <2>1, <2>2
<1>5. quota' \in Nat /\ sent' \in Nat
  BY DEF UploadBlock, Refund, TypeOK
<1> HIDE DEF s
<1> QED BY <1>2, <1>3, <1>4, <1>5 DEF TypeOK

LEMMA InitTypeOK == Init => TypeOK
BY ConstantsAssumption, EmptySeq DEF Init, TypeOK, NoRound

\* Every step keeps the types: no handler stores what the next one cannot read.
LEMMA StepTypeOK == TypeOK /\ [Next]_vars => TypeOK'
<1> SUFFICES ASSUME TypeOK, [Next]_vars PROVE TypeOK'
  OBVIOUS
<1> USE ConstantsAssumption
<1>1. ASSUME NEW c \in Conns, NEW r \in Requests, ProcessRequest(c, r)
      PROVE  TypeOK'
  <2> DEFINE s == Append(peer_request[c], r)
  <2>1. peer_request[c] \in Seq(Requests) /\ Len(peer_request[c]) \in Nat
    BY LenProperties DEF TypeOK
  <2>2. s \in Seq(Requests) /\ Len(s) = Len(peer_request[c]) + 1
    BY <2>1, AppendProperties
  <2>3. Len(s) <= MaxRequests
    BY <1>1, <2>1, <2>2 DEF ProcessRequest, Accepts
  <2>4. peer_request' = [peer_request EXCEPT ![c] = s]
    BY <1>1 DEF ProcessRequest
  <2>5. pending' = IF StartsUpload(s) THEN PendFirst(pending, c, s) ELSE pending
    BY <1>1 DEF ProcessRequest
  <2>6. pending' \in Seq(Pending)
    <3> HIDE DEF s
    <3> QED BY <2>2, <2>5, PendFirstType DEF TypeOK
  <2>7. UNCHANGED <<alive, quota, count, reading, rounds, sent>>
    BY <1>1 DEF ProcessRequest
  <2> HIDE DEF s
  <2> QED BY <2>2, <2>3, <2>4, <2>6, <2>7 DEF TypeOK
<1>2. ASSUME NEW c \in Conns, NEW r \in Requests, ProcessCancel(c, r)
      PROVE  TypeOK'
  <2>1. peer_request[c] \in Seq(Requests) /\ Len(peer_request[c]) \in Nat
    BY LenProperties DEF TypeOK
  <2>2. /\ DelRequest(peer_request[c], r) \in Seq(Requests)
        /\ Len(DelRequest(peer_request[c], r)) <= Len(peer_request[c])
    BY <2>1, DelRequestProperties
  <2>3. Len(DelRequest(peer_request[c], r)) <= MaxRequests
    BY <2>1, <2>2, LenProperties DEF TypeOK
  <2> QED BY <1>2, <2>2, <2>3 DEF ProcessCancel, TypeOK
<1>3. ASSUME NEW c \in Conns, Drop(c)
      PROVE  TypeOK'
  BY <1>3, EmptySeq DEF Drop, TypeOK
<1>4. ASSUME NEW i \in DOMAIN reading, ReadDone(i)
      PROVE  TypeOK'
  <2>1. reading[i] \in Pending /\ reading[i][1] \in Conns /\ reading[i][2] \in Requests
    BY ElementOfSeq, LenProperties DEF TypeOK, Pending
  <2>2. UploadBlock(pending, reading[i][1], reading[i][2], TRUE)
    BY <1>4 DEF ReadDone
  <2>3. Pick(reading, DOMAIN reading \ {i}) \in Seq(Pending)
    BY PickElements DEF TypeOK
  <2>4. reading' \in Seq(Pending)
    BY <1>4, <2>3 DEF ReadDone
  <2>5. pending \in Seq(Pending)
    BY DEF TypeOK
  <2>6. UNCHANGED <<alive, count, rounds>>
    BY <1>4 DEF ReadDone
  <2> QED BY <2>1, <2>2, <2>4, <2>5, <2>6, UploadBlockType DEF TypeOK
<1>5. ASSUME ProcessUpload
      PROVE  TypeOK'
  BY <1>5 DEF ProcessUpload, TypeOK
<1>6. ASSUME ProcessPending
      PROVE  TypeOK'
  <2> DEFINE c == Head(pending)[1]
             r == Head(pending)[2]
  <2>1. /\ Head(pending) \in Pending /\ Tail(pending) \in Seq(Pending)
        /\ c \in Conns /\ r \in Requests
    BY <1>6, HeadTailProperties DEF ProcessPending, TypeOK, Pending
  <2>2. count \in Nat /\ count > 0
    BY <1>6 DEF ProcessPending, TypeOK, NoRound
  <2>3. UNCHANGED <<alive, rounds>>
    BY <1>6 DEF ProcessPending
  <2>4. CASE /\ c \notin alive /\ pending' = Tail(pending)
             /\ UNCHANGED <<peer_request, quota, count, reading, sent>>
    BY <2>1, <2>3, <2>4 DEF TypeOK
  <2>5. CASE /\ count' = count - 1 /\ UNCHANGED reading
             /\ UploadBlock(Tail(pending), c, r, r \notin Unreadable)
    <3>1. count' \in Nat
      BY <2>2, <2>5
    <3> HIDE DEF c, r
    <3>2. (r \notin Unreadable) \in BOOLEAN
      OBVIOUS
    <3>3. /\ peer_request' \in [Conns -> Seq(Requests)]
          /\ \A d \in Conns : Len(peer_request'[d]) <= MaxRequests
          /\ pending' \in Seq(Pending) /\ quota' \in Nat /\ sent' \in Nat
      BY <2>1, <2>5, <3>2, UploadBlockType
    <3> QED BY <2>3, <2>5, <3>1, <3>3 DEF TypeOK
  <2>6. CASE /\ count' = count - 1 /\ pending' = Tail(pending)
             /\ reading' = Append(reading, <<c, r>>)
             /\ UNCHANGED <<peer_request, quota, sent>>
    <3>1. <<c, r>> \in Pending
      BY <2>1 DEF Pending
    <3>2. reading' \in Seq(Pending)
      BY <2>6, <3>1, AppendProperties DEF TypeOK
    <3> QED BY <2>1, <2>2, <2>3, <2>6, <3>2 DEF TypeOK
  <2> QED BY <1>6, <2>4, <2>5, <2>6 DEF ProcessPending
<1>7. ASSUME EndPending
      PROVE  TypeOK'
  BY <1>7 DEF EndPending, TypeOK
<1>8. CASE UNCHANGED vars
  BY <1>8 DEF vars, TypeOK
<1> QED BY <1>1, <1>2, <1>3, <1>4, <1>5, <1>6, <1>7, <1>8 DEF Next

\* The variables have their types and no request list outgrows its limit, in
\* every reachable state (BitPeerConnection.cpp:352).
THEOREM TypeCorrect == Spec => []TypeOK
BY InitTypeOK, StepTypeOK, PTL DEF Spec

-----------------------------------------------------------------------------
(* The chain of hand-overs. *)

\* What PendFirst does to the list: everything stays, and the connection has an
\* entry when it has a request.
LEMMA PendFirstKeeps ==
  ASSUME NEW l \in Seq(Pending), NEW c \in Conns, NEW s \in Seq(Requests)
  PROVE  /\ \A i \in DOMAIN l : \E j \in DOMAIN PendFirst(l, c, s) :
              PendFirst(l, c, s)[j] = l[i]
         /\ s # <<>> => \E j \in DOMAIN PendFirst(l, c, s) :
                          PendFirst(l, c, s)[j][1] = c
<1>1. CASE s = <<>>
  BY <1>1 DEF PendFirst
<1>2. CASE s # <<>>
  <2>1. <<c, Head(s)>> \in Pending
    BY <1>2, HeadTailProperties DEF Pending
  <2>2. /\ PendFirst(l, c, s) = Append(l, <<c, Head(s)>>)
        /\ DOMAIN Append(l, <<c, Head(s)>>) = 1 .. Len(l) + 1
        /\ \A i \in 1 .. Len(l) : Append(l, <<c, Head(s)>>)[i] = l[i]
        /\ Append(l, <<c, Head(s)>>)[Len(l) + 1] = <<c, Head(s)>>
        /\ Len(l) \in Nat /\ DOMAIN l = 1 .. Len(l)
    BY <1>2, <2>1, AppendProperties, LenProperties DEF PendFirst
  <2> QED BY <2>2
<1> QED BY <1>1, <1>2

\* A connection d with an entry in the list that UploadBlock starts from, or
\* with a read, keeps its chain; the connection c served gets a new link.
LEMMA UploadBlockChain ==
  ASSUME TypeOK, NEW l \in Seq(Pending), NEW c \in Conns, NEW r \in Requests,
         NEW ok \in BOOLEAN, UploadBlock(l, c, r, ok), alive' = alive,
         NEW d \in alive, peer_request'[d] # <<>>,
         \/ d = c
         \/ \E i \in DOMAIN l : l[i][1] = d
         \/ \E i \in DOMAIN reading' : reading'[i][1] = d
  PROVE  InChain(d)'
<1> DEFINE s == IF Sends(c, r, ok) THEN DelRequest(peer_request[c], r)
                                   ELSE peer_request[c]
<1>1. s \in Seq(Requests)
  BY DelRequestProperties DEF TypeOK
<1>2. /\ peer_request' = [peer_request EXCEPT ![c] = s]
      /\ pending' = IF c \in alive THEN PendFirst(l, c, s) ELSE l
  BY DEF UploadBlock
<1> HIDE DEF s
<1>3. \A i \in DOMAIN l : \E j \in DOMAIN pending' : pending'[j] = l[i]
  BY <1>1, <1>2, PendFirstKeeps
<1>4. CASE d = c
  <2>1. s # <<>> /\ c \in alive
    BY <1>2, <1>4 DEF TypeOK
  <2>2. pending' = PendFirst(l, c, s)
    BY <1>2, <2>1
  <2> QED BY <1>1, <1>4, <2>1, <2>2, PendFirstKeeps DEF InChain
<1>5. CASE \E i \in DOMAIN l : l[i][1] = d
  BY <1>3, <1>5 DEF InChain
<1>6. CASE \E i \in DOMAIN reading' : reading'[i][1] = d
  BY <1>6 DEF InChain
<1> QED BY <1>4, <1>5, <1>6

\* A connection that is served has the entry at the head of the pending list, so
\* the others have theirs in the tail.
LEMMA TailChain ==
  ASSUME TypeOK, pending # <<>>, NEW d \in Conns, InChain(d)
  PROVE  \/ d = Head(pending)[1]
         \/ \E i \in DOMAIN Tail(pending) : Tail(pending)[i][1] = d
         \/ \E i \in DOMAIN reading : reading[i][1] = d
<1>1. CASE \E i \in DOMAIN pending : pending[i][1] = d
  <2>1. PICK i \in DOMAIN pending : pending[i][1] = d
    BY <1>1
  <2>2. /\ Len(pending) \in Nat /\ DOMAIN pending = 1 .. Len(pending)
        /\ Head(pending) = pending[1]
        /\ DOMAIN Tail(pending) = 1 .. Len(pending) - 1
        /\ \A j \in 1 .. Len(pending) - 1 : Tail(pending)[j] = pending[j + 1]
    <3>1. pending \in Seq(Pending) /\ Tail(pending) \in Seq(Pending)
          /\ Len(Tail(pending)) = Len(pending) - 1
      BY HeadTailProperties DEF TypeOK
    <3> QED BY <3>1, HeadTailProperties, LenProperties
  <2>3. CASE i = 1
    BY <2>1, <2>2, <2>3
  <2>4. CASE i # 1
    <3>1. i - 1 \in 1 .. Len(pending) - 1 /\ (i - 1) + 1 = i
      BY <2>2, <2>4
    <3>2. Tail(pending)[i - 1] = pending[i]
      BY <2>2, <3>1
    <3> QED BY <2>1, <2>2, <3>1, <3>2
  <2> QED BY <2>3, <2>4
<1>2. CASE \E i \in DOMAIN reading : reading[i][1] = d
  BY <1>2
<1> QED BY <1>1, <1>2 DEF InChain

LEMMA StepChainUnbroken ==
  TypeOK /\ ChainUnbroken /\ [Next]_vars => ChainUnbroken'
<1> SUFFICES ASSUME TypeOK, ChainUnbroken, [Next]_vars,
                    NEW d \in alive', peer_request'[d] # <<>>
             PROVE  InChain(d)'
  BY DEF ChainUnbroken
<1>0. alive' \subseteq alive /\ alive \subseteq Conns /\ d \in alive /\ d \in Conns
  BY DEF Next, vars, ProcessRequest, ProcessCancel, Drop, ReadDone, ProcessUpload,
         ProcessPending, EndPending, TypeOK
<1>1. ASSUME NEW c \in Conns, NEW r \in Requests, ProcessRequest(c, r)
      PROVE  InChain(d)'
  <2> DEFINE s == Append(peer_request[c], r)
  <2>1. peer_request[c] \in Seq(Requests) /\ Len(peer_request[c]) \in Nat
    BY LenProperties DEF TypeOK
  <2>2. s \in Seq(Requests) /\ Len(s) = Len(peer_request[c]) + 1 /\ s # <<>>
    BY <2>1, AppendProperties, EmptySeq
  <2>3. /\ peer_request' = [peer_request EXCEPT ![c] = s]
        /\ pending' = IF StartsUpload(s) THEN PendFirst(pending, c, s) ELSE pending
        /\ reading' = reading
    BY <1>1 DEF ProcessRequest
  <2> HIDE DEF s
  <2>4. pending \in Seq(Pending)
    BY DEF TypeOK
  <2>5. \A i \in DOMAIN pending : \E j \in DOMAIN pending' : pending'[j] = pending[i]
    BY <2>2, <2>3, <2>4, PendFirstKeeps
  <2>6. CASE peer_request[d] # <<>>
    BY <1>0, <2>3, <2>5, <2>6 DEF ChainUnbroken, InChain
  <2>7. CASE peer_request[d] = <<>>
    <3>1. d = c
      BY <1>0, <2>3, <2>7 DEF TypeOK
    <3>2. StartsUpload(s)
      BY <2>2, <2>7, <3>1, EmptySeq DEF StartsUpload
    <3> QED BY <2>2, <2>3, <2>4, <3>1, <3>2, PendFirstKeeps DEF InChain
  <2> QED BY <2>6, <2>7
<1>2. ASSUME NEW c \in Conns, NEW r \in Requests, ProcessCancel(c, r)
      PROVE  InChain(d)'
  <2>1. peer_request[d] # <<>>
    <3>1. CASE d # c
      BY <1>0, <1>2, <3>1 DEF ProcessCancel, TypeOK
    <3>2. CASE d = c
      <4>1. SUFFICES ASSUME peer_request[c] = <<>> PROVE FALSE
        BY <3>2
      <4>2. /\ DelRequest(peer_request[c], r) \in Seq(Requests)
            /\ Len(DelRequest(peer_request[c], r)) <= Len(peer_request[c])
        BY DelRequestProperties DEF TypeOK
      <4>3. DelRequest(peer_request[c], r) = <<>>
        <5>1. /\ Len(peer_request[c]) = 0
              /\ Len(DelRequest(peer_request[c], r)) \in Nat
          BY <4>1, <4>2, EmptySeq, LenProperties
        <5> QED BY <4>2, <5>1, EmptySeq
      <4> QED BY <1>2, <3>2, <4>3 DEF ProcessCancel, TypeOK
    <3> QED BY <3>1, <3>2
  <2> QED BY <1>0, <1>2, <2>1 DEF ProcessCancel, ChainUnbroken, InChain
<1>3. ASSUME NEW c \in Conns, Drop(c)
      PROVE  InChain(d)'
  <2>1. d # c /\ peer_request[d] # <<>>
    BY <1>0, <1>3 DEF Drop, TypeOK
  <2> QED BY <1>0, <1>3, <2>1 DEF Drop, ChainUnbroken, InChain
<1>4. ASSUME NEW i \in DOMAIN reading, ReadDone(i)
      PROVE  InChain(d)'
  <2> DEFINE c == reading[i][1]
             r == reading[i][2]
  <2>1. c \in Conns /\ r \in Requests
    BY ElementOfSeq, LenProperties DEF TypeOK, Pending
  <2>2. /\ UploadBlock(pending, c, r, TRUE) /\ alive' = alive
        /\ reading' = Pick(reading, DOMAIN reading \ {i})
    BY <1>4 DEF ReadDone
  <2>3. \A k \in DOMAIN reading \ {i} : \E j \in DOMAIN reading' : reading'[j] = reading[k]
    BY <2>2, EraseProperties DEF TypeOK
  <2>4. pending \in Seq(Pending)
    BY DEF TypeOK
  <2>5. CASE d = c
    <3> HIDE DEF c, r
    <3> QED BY <1>0, <2>1, <2>2, <2>4, <2>5, UploadBlockChain
  <2>6. CASE d # c
    <3>1. peer_request[d] # <<>>
      BY <1>0, <2>2, <2>6 DEF UploadBlock, TypeOK
    <3>2. \/ \E k \in DOMAIN pending : pending[k][1] = d
          \/ \E k \in DOMAIN reading' : reading'[k][1] = d
      BY <1>0, <2>3, <2>6, <3>1 DEF ChainUnbroken, InChain
    <3> HIDE DEF c, r
    <3> QED BY <1>0, <2>1, <2>2, <2>4, <3>2, UploadBlockChain
  <2> QED BY <2>5, <2>6
<1>5. ASSUME ProcessUpload
      PROVE  InChain(d)'
  BY <1>0, <1>5 DEF ProcessUpload, ChainUnbroken, InChain
<1>6. ASSUME ProcessPending
      PROVE  InChain(d)'
  <2> DEFINE c == Head(pending)[1]
             r == Head(pending)[2]
  <2>1. /\ Head(pending) \in Pending /\ Tail(pending) \in Seq(Pending)
        /\ c \in Conns /\ r \in Requests /\ pending # <<>> /\ alive' = alive
    BY <1>6, HeadTailProperties DEF ProcessPending, TypeOK, Pending
  <2>2. d # c => peer_request[d] # <<>>
    BY <1>0, <1>6 DEF ProcessPending, UploadBlock, TypeOK
  <2>3. \/ d = c
        \/ \E i \in DOMAIN Tail(pending) : Tail(pending)[i][1] = d
        \/ \E i \in DOMAIN reading : reading[i][1] = d
    BY <1>0, <2>1, <2>2, TailChain DEF ChainUnbroken
  <2>4. CASE /\ c \notin alive /\ pending' = Tail(pending)
             /\ UNCHANGED <<peer_request, quota, count, reading, sent>>
    BY <1>0, <2>3, <2>4 DEF InChain
  <2>5. CASE /\ count' = count - 1 /\ UNCHANGED reading
             /\ UploadBlock(Tail(pending), c, r, r \notin Unreadable)
    <3>1. (r \notin Unreadable) \in BOOLEAN
      OBVIOUS
    <3> HIDE DEF c, r
    <3> QED BY <1>0, <2>1, <2>3, <2>5, <3>1, UploadBlockChain
  <2>6. CASE /\ pending' = Tail(pending)
             /\ reading' = Append(reading, <<c, r>>)
             /\ UNCHANGED <<peer_request, quota, sent>>
    <3>1. /\ DOMAIN reading' = 1 .. Len(reading) + 1
          /\ \A i \in 1 .. Len(reading) : reading'[i] = reading[i]
          /\ reading'[Len(reading) + 1] = <<c, r>>
          /\ Len(reading) \in Nat /\ DOMAIN reading = 1 .. Len(reading)
      <4>1. <<c, r>> \in Pending /\ reading \in Seq(Pending)
        BY <2>1 DEF Pending, TypeOK
      <4> QED BY <2>6, <4>1, AppendProperties, LenProperties
    <3> HIDE DEF c, r
    <3> QED BY <2>3, <2>6, <3>1 DEF InChain
  <2> QED BY <1>6, <2>4, <2>5, <2>6 DEF ProcessPending
<1>7. ASSUME EndPending
      PROVE  InChain(d)'
  BY <1>0, <1>7 DEF EndPending, ChainUnbroken, InChain
<1>8. CASE UNCHANGED vars
  BY <1>0, <1>8 DEF vars, ChainUnbroken, InChain
<1> QED BY <1>1, <1>2, <1>3, <1>4, <1>5, <1>6, <1>7, <1>8 DEF Next

\* No CANCEL, repeated REQUEST, refused or late read, or leaving peer ever
\* leaves a connection with requests and without a hand-over on its way
\* (BitPeerConnection.cpp:125-139, 342-364).
THEOREM ChainNeverBreaks == Spec => []ChainUnbroken
<1>1. Init => ChainUnbroken
  BY DEF Init, ChainUnbroken
<1> QED BY <1>1, TypeCorrect, StepChainUnbroken, PTL DEF Spec

-----------------------------------------------------------------------------
(* The upload rate. *)

\* UploadRate is inductive once it says that the quota never shrinks below what
\* a round is given: refunds add to it, and only ProcessUpload sets it back.
Total == sent + Len(reading) + Granted + quota
RateInv == /\ TypeOK
           /\ quota >= Quota
           /\ Counting => Total <= Quota * (rounds + 1)

\* The numbers the total is made of.
LEMMA Numbers ==
  ASSUME TypeOK
  PROVE  /\ Quota \in Nat /\ quota \in Nat /\ sent \in Nat /\ rounds \in Nat
         /\ Len(reading) \in Nat /\ Granted \in Nat /\ Total \in Nat
         /\ Quota * rounds \in Nat /\ Quota * (rounds + 1) = Quota * rounds + Quota
<1>1. /\ Quota \in Nat /\ quota \in Nat /\ sent \in Nat /\ rounds \in Nat
      /\ Len(reading) \in Nat
  BY ConstantsAssumption, LenProperties DEF TypeOK
<1>2. Granted \in Nat
  BY DEF TypeOK, Granted
<1> QED BY <1>1, <1>2 DEF Total

\* What is sent, or refunded, is one block; nothing else changes.
LEMMA UploadBlockRate ==
  ASSUME TypeOK, NEW l, NEW c, NEW r, NEW ok, UploadBlock(l, c, r, ok)
  PROVE  \/ quota' = quota /\ (Counting => sent' = sent + 1)
         \/ quota' = quota + 1 /\ sent' = sent
<1>1. quota \in Nat /\ sent \in Nat
  BY DEF TypeOK
<1>2. CASE Sends(c, r, ok)
  <2>1. quota' = quota + 0 /\ (Counting => sent' = sent + 1)
    BY <1>2 DEF UploadBlock, Refund
  <2> QED BY <1>1, <2>1
<1>3. CASE ~Sends(c, r, ok)
  <2>1. quota' = quota + 1 /\ sent' = sent
    BY <1>3 DEF UploadBlock, Refund
  <2> QED BY <2>1
<1> QED BY <1>2, <1>3

\* Each step gives a quota back, or leaves it, or begins the round after it.
LEMMA StepQuota ==
  ASSUME TypeOK, quota >= Quota, [Next]_vars
  PROVE  quota' >= Quota
<1>1. Quota \in Nat /\ quota \in Nat
  BY Numbers
<1>2. CASE quota' = quota \/ quota' = Quota
  BY <1>1, <1>2
<1>3. ASSUME NEW l, NEW c, NEW r, NEW ok, UploadBlock(l, c, r, ok)
      PROVE  quota' >= Quota
  BY <1>1, <1>3, UploadBlockRate
<1> QED BY <1>2, <1>3 DEF Next, vars, ProcessRequest, ProcessCancel, Drop, ReadDone,
             ProcessUpload, ProcessPending, EndPending

\* No step makes the total grow, but the one that begins a round, by a quota.
LEMMA StepTotal ==
  ASSUME TypeOK, TypeOK', Counting, [Next]_vars
  PROVE  \/ Total' <= Total /\ rounds' = rounds
         \/ Total' = Total + Quota /\ rounds' = rounds + 1
<1>1. /\ Quota \in Nat /\ quota \in Nat /\ sent \in Nat
      /\ Len(reading) \in Nat /\ Granted \in Nat
  BY Numbers
<1>2. /\ quota' \in Nat /\ sent' \in Nat
      /\ Len(reading') \in Nat /\ Granted' \in Nat
  BY LenProperties DEF TypeOK, Granted
<1>3. CASE UNCHANGED <<quota, sent, reading, rounds>> /\ (Granted' = Granted \/ Granted' = 0)
  BY <1>1, <1>2, <1>3 DEF Total
<1>4. ASSUME \/ \E c \in Conns, r \in Requests : ProcessRequest(c, r) \/ ProcessCancel(c, r)
             \/ \E c \in Conns : Drop(c)
             \/ UNCHANGED vars
      PROVE  UNCHANGED <<quota, sent, reading, rounds>> /\ Granted' = Granted
  BY <1>4 DEF ProcessRequest, ProcessCancel, Drop, Granted, vars
<1>5. ASSUME NEW i \in DOMAIN reading, ReadDone(i)
      PROVE  Total' = Total /\ rounds' = rounds
  <2>1. Len(reading') = Len(reading) - 1
    BY <1>5, EraseProperties DEF ReadDone, TypeOK
  <2>2. \/ quota' = quota /\ sent' = sent + 1
        \/ quota' = quota + 1 /\ sent' = sent
    BY <1>5, UploadBlockRate DEF ReadDone
  <2>3. rounds' = rounds /\ Granted' = Granted
    BY <1>5 DEF ReadDone, Granted
  <2>4. Total' = sent' + (Len(reading) - 1) + Granted + quota'
    BY <2>1, <2>3 DEF Total
  <2> QED BY SMTT(30), <1>1, <2>2, <2>3, <2>4 DEF Total
<1>6. ASSUME ProcessUpload
      PROVE  Total' = Total + Quota /\ rounds' = rounds + 1
  <2>1. /\ Granted = 0 /\ Granted' = quota /\ quota' = Quota
        /\ sent' = sent /\ reading' = reading /\ rounds' = rounds + 1
    BY <1>1, <1>6 DEF ProcessUpload, Granted, NoRound
  <2> QED BY <1>1, <2>1 DEF Total
<1>7. ASSUME ProcessPending
      PROVE  Total' = Total /\ rounds' = rounds
  <2> DEFINE c == Head(pending)[1]
             r == Head(pending)[2]
  <2>1. /\ Granted = count /\ rounds' = rounds
        /\ count' = count - 1 => Granted' = count - 1
    BY <1>7 DEF ProcessPending, Granted, NoRound, TypeOK
  <2>2. CASE UNCHANGED <<peer_request, quota, count, reading, sent>>
    BY <2>1, <2>2 DEF Granted, Total
  <2>3. CASE /\ count' = count - 1 /\ UNCHANGED reading
             /\ UploadBlock(Tail(pending), c, r, r \notin Unreadable)
    <3>1. \/ quota' = quota /\ sent' = sent + 1
          \/ quota' = quota + 1 /\ sent' = sent
      BY <2>3, UploadBlockRate
    <3>2. Total' = sent' + Len(reading) + (Granted - 1) + quota'
      BY <2>1, <2>3 DEF Total
    <3> QED BY <1>1, <2>1, <3>1, <3>2 DEF Total
  <2>4. CASE /\ count' = count - 1
             /\ reading' = Append(reading, <<c, r>>)
             /\ UNCHANGED <<peer_request, quota, sent>>
    <3>1. Len(reading') = Len(reading) + 1
      BY <2>4, AppendProperties DEF TypeOK
    <3> QED BY <1>1, <1>2, <2>1, <2>4, <3>1 DEF Total
  <2> QED BY <1>7, <2>2, <2>3, <2>4 DEF ProcessPending
<1>8. ASSUME EndPending
      PROVE  UNCHANGED <<quota, sent, reading, rounds>> /\ Granted' = 0
  BY <1>8 DEF EndPending, Granted
<1>9. Total \in Nat
  BY Numbers
<1>10. CASE Total' = Total /\ rounds' = rounds
  BY <1>9, <1>10
<1> QED BY <1>3, <1>4, <1>5, <1>6, <1>7, <1>8, <1>10 DEF Next

\* The total stays a natural.
LEMMA StepTotalNat ==
  ASSUME TypeOK'
  PROVE  Total' \in Nat
<1>1. quota' \in Nat /\ sent' \in Nat /\ Len(reading') \in Nat /\ Granted' \in Nat
  BY LenProperties DEF TypeOK, Granted
<1> QED BY <1>1 DEF Total

LEMMA StepRateInv == RateInv /\ [Next]_vars => RateInv'
<1> SUFFICES ASSUME RateInv, [Next]_vars PROVE RateInv'
  OBVIOUS
<1>1. TypeOK /\ TypeOK' /\ quota' >= Quota
  BY StepTypeOK, StepQuota DEF RateInv
<1>2. ASSUME Counting PROVE Total' <= Quota * (rounds' + 1)
  <2>1. Total <= Quota * (rounds + 1)
    BY <1>2 DEF RateInv
  <2>2. \/ Total' <= Total /\ rounds' = rounds
        \/ Total' = Total + Quota /\ rounds' = rounds + 1
    BY <1>1, <1>2, StepTotal
  <2>3. /\ Total \in Nat /\ Quota \in Nat /\ rounds \in Nat
        /\ Quota * (rounds + 1) = Quota * rounds + Quota /\ Quota * rounds \in Nat
    BY <1>1, Numbers
  <2>4. Quota * ((rounds + 1) + 1) = Quota * rounds + Quota + Quota
    BY <2>3
  <2>5. Total' \in Nat
    BY <1>1, StepTotalNat
  <2>6. CASE Total' <= Total /\ rounds' = rounds
    BY <2>1, <2>3, <2>5, <2>6
  <2>7. CASE Total' = Total + Quota /\ rounds' = rounds + 1
    BY <2>1, <2>3, <2>4, <2>7
  <2> QED BY <2>2, <2>6, <2>7
<1> QED BY <1>1, <1>2 DEF RateInv

\* What the rate invariant is for: sent blocks are within the quota of the
\* rounds so far, because a whole quota is always left.
LEMMA RateInvImplies == RateInv => UploadRate
<1> SUFFICES ASSUME RateInv, Counting PROVE UploadRate
  BY DEF UploadRate
<1>1. /\ Quota \in Nat /\ quota \in Nat /\ sent \in Nat /\ rounds \in Nat
      /\ Len(reading) \in Nat /\ Granted \in Nat
      /\ Quota * rounds \in Nat /\ Quota * (rounds + 1) = Quota * rounds + Quota
  BY Numbers DEF RateInv
<1>2. Total <= Quota * (rounds + 1) /\ quota >= Quota
  BY DEF RateInv
<1>3. sent <= Quota * rounds
  BY <1>1, <1>2 DEF Total
<1> QED BY <1>2, <1>3 DEF UploadRate, Total

\* However reads are refused, answered late or lost with their connection, no
\* more than quota_per_second blocks are sent for each round of ProcessUpload
\* (BitUploadDispatcher.cpp:33-75).
THEOREM RateIsKept == Spec => []UploadRate
<1>1. Init => RateInv
  <2> SUFFICES ASSUME Init PROVE RateInv
    OBVIOUS
  <2>1. TypeOK
    BY InitTypeOK
  <2>2. Total = Quota /\ quota = Quota /\ rounds = 0
    BY ConstantsAssumption, EmptySeq DEF Init, Granted, Total
  <2>3. Quota * (0 + 1) = Quota /\ Quota \in Nat
    BY ConstantsAssumption
  <2> QED BY <2>1, <2>2, <2>3 DEF RateInv
<1> QED BY <1>1, StepRateInv, RateInvImplies, PTL DEF Spec
=============================================================================
