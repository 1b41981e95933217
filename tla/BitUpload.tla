----------------------------- MODULE BitUpload -----------------------------
(***************************************************************************)
(* Uploading: the REQUEST and CANCEL handlers of BitPeerConnection with    *)
(* its peer_request_ list, and BitUploadDispatcher, which reads blocks     *)
(* from the cache and lets quota_per_second of them out in a round.        *)
(*                                                                         *)
(* A connection keeps at most one request at a time in the dispatcher: it  *)
(* hands over the first when its list becomes non-empty, and the next when *)
(* the answer to the last one comes back (UploadBlock).  The chain of      *)
(* these hand-overs must not break while requests are left.                *)
(*                                                                         *)
(* BitCache::Read answers at once (a cached piece, or a refusal), or later *)
(* and then always with read_ok (BitCache.cpp:146-183).                    *)
(***************************************************************************)
EXTENDS BitRequestList, Functions

CONSTANTS
  Conns,        \* BitPeerConnection instances
  Requests,     \* what a REQUEST message may name
  Asks,         \* Asks[c]: what connection c may ask for
  Unreadable,   \* the requests BitCache::Read refuses
  Quota,        \* quota_per_second
  MaxRequests,  \* the length of peer_request_ at which a REQUEST is ignored
  MaxPending,   \* bound on the hand-overs when a REQUEST comes
  Counting,     \* whether rounds and sent are counted
  MaxRounds     \* bound on rounds, when they are counted

ASSUME ConstantsAssumption ==
  /\ Asks \in [Conns -> SUBSET Requests] /\ Unreadable \subseteq Requests
  /\ Quota \in Nat /\ MaxRequests \in Nat /\ MaxPending \in Nat
  /\ Counting \in BOOLEAN /\ MaxRounds \in Nat

VARIABLES
  alive,         \* the connections that are not destroyed: weak_ptr not expired
  peer_request,  \* peer_request_ of each connection
  pending,       \* pending_list_: pairs <<connection, request>>
  quota,         \* upload_blocks_quota_
  count,         \* what is left of ProcessPending's count, NoRound outside it
  reading,       \* the reads the cache has not answered yet
  rounds,        \* rounds so far
  sent           \* PIECE messages sent so far

vars == <<alive, peer_request, pending, quota, count, reading, rounds, sent>>

NoRound == -1
Pending == Conns \X Requests

Init ==
  /\ alive = Conns
  /\ peer_request = [c \in Conns |-> <<>>]
  /\ pending = <<>>
  /\ quota = Quota
  /\ count = NoRound
  /\ reading = <<>>
  /\ rounds = 0 /\ sent = 0

-----------------------------------------------------------------------------
(* Messages of a peer. *)

\* The hand-over goes before those of the other connections.
PendAtFront(l, c, s) == IF s = <<>> THEN l ELSE <<<<c, Head(s)>>>> \o l

\* PendingUploadRequest of c, whose requests are s, after pending list l.
PendFirst(l, c, s) == IF s = <<>> THEN l ELSE Append(l, <<c, Head(s)>>)

\* The length is taken before the request is added.
StartsUploadOnEmpty(s) == Len(s) = 0

\* "we start upload when the first request is arrived"
StartsUpload(s) == Len(s) = 1

\* Whether another REQUEST is taken; a list that is full already takes one more.
AcceptsOneMore(s) == Len(s) <= MaxRequests
Accepts(s) == Len(s) < MaxRequests

\* ProcessRequest.
ProcessRequest(c, r) ==
  /\ count = NoRound /\ c \in alive /\ r \in Asks[c]
  /\ Accepts(peer_request[c])
  /\ Len(pending) + Len(reading) < MaxPending
  /\ LET s == Append(peer_request[c], r) IN
     /\ peer_request' = [peer_request EXCEPT ![c] = s]
     /\ pending' = IF StartsUpload(s) THEN PendFirst(pending, c, s) ELSE pending
  /\ UNCHANGED <<alive, quota, count, reading, rounds, sent>>

\* ProcessCancel: DelRequest removes every equal request; what is pending stays.
ProcessCancel(c, r) ==
  /\ count = NoRound /\ c \in alive
  /\ peer_request' = [peer_request EXCEPT ![c] = DelRequest(@, r)]
  /\ UNCHANGED <<alive, pending, quota, count, reading, rounds, sent>>

\* The connection is destroyed; its pending entries and reads stay behind.
Drop(c) ==
  /\ count = NoRound /\ c \in alive
  /\ alive' = alive \ {c}
  /\ peer_request' = [peer_request EXCEPT ![c] = <<>>]
  /\ UNCHANGED <<pending, quota, count, reading, rounds, sent>>

-----------------------------------------------------------------------------
(* The dispatcher. *)

\* CacheReadCallback and, while the connection lives, UploadBlock, with l the
\* pending list before it: a request that is still wanted is sent and removed,
\* anything else gives its quota back; then the next request is pended.
Sends(c, r, ok) == c \in alive /\ ok /\ r \in Range(peer_request[c])

RefundAlways(c, r, ok) == 1
Refund(c, r, ok) == IF Sends(c, r, ok) THEN 0 ELSE 1

UploadBlock(l, c, r, ok) ==
  LET s == IF Sends(c, r, ok) THEN DelRequest(peer_request[c], r) ELSE peer_request[c]
  IN  /\ peer_request' = [peer_request EXCEPT ![c] = s]
      /\ pending' = IF c \in alive THEN PendFirst(l, c, s) ELSE l
      /\ quota' = quota + Refund(c, r, ok)
      /\ sent' = IF Counting /\ Sends(c, r, ok) THEN sent + 1 ELSE sent

\* ProcessUpload, a second after the last round: the quota left over by the last
\* round and refunded since is all there is, then it starts afresh.
ProcessUpload ==
  /\ count = NoRound
  /\ Counting => rounds < MaxRounds
  /\ count' = quota
  /\ quota' = Quota
  /\ rounds' = IF Counting THEN rounds + 1 ELSE rounds
  /\ UNCHANGED <<alive, peer_request, pending, reading, sent>>

\* One turn of ProcessPending's loop.  An expired connection costs nothing.
ProcessPending ==
  /\ count > 0 /\ pending # <<>>
  /\ LET c == Head(pending)[1]
         r == Head(pending)[2]
     IN
     \/ /\ c \notin alive
        /\ pending' = Tail(pending)
        /\ UNCHANGED <<peer_request, quota, count, reading, sent>>
     \/ /\ c \in alive /\ count' = count - 1
        /\ UploadBlock(Tail(pending), c, r, r \notin Unreadable)
        /\ UNCHANGED reading
     \/ /\ c \in alive /\ count' = count - 1 /\ r \notin Unreadable
        /\ pending' = Tail(pending)
        /\ reading' = Append(reading, <<c, r>>)
        /\ UNCHANGED <<peer_request, quota, sent>>
  /\ UNCHANGED <<alive, rounds>>

EndPending ==
  /\ count # NoRound /\ (count = 0 \/ pending = <<>>)
  /\ count' = NoRound
  /\ UNCHANGED <<alive, peer_request, pending, quota, reading, rounds, sent>>

\* The cache has read the piece: BitCache::CompleteAsyncReadOps.
ReadDone(i) ==
  /\ count = NoRound
  /\ reading' = Pick(reading, DOMAIN reading \ {i})
  /\ UploadBlock(pending, reading[i][1], reading[i][2], TRUE)
  /\ UNCHANGED <<alive, count, rounds>>

-----------------------------------------------------------------------------
Next ==
  \/ \E c \in Conns, r \in Requests : ProcessRequest(c, r) \/ ProcessCancel(c, r)
  \/ \E i \in DOMAIN reading : ReadDone(i)
  \/ \E c \in Conns : Drop(c)
  \/ ProcessUpload \/ ProcessPending \/ EndPending

Spec == Init /\ [][Next]_vars

\* The main loop keeps turning, and every pass of it takes what the cache has
\* read so far, oldest first at the latest.
Fairness ==
  /\ WF_vars(ProcessUpload \/ ProcessPending \/ EndPending)
  /\ SF_vars(reading # <<>> /\ ReadDone(1))

FairSpec == Spec /\ Fairness

-----------------------------------------------------------------------------
(* What must hold. *)

\* Every variable has its type, and no list of requests grows past the number
\* at which ProcessRequest stops taking them.
TypeOK ==
  /\ alive \in SUBSET Conns
  /\ peer_request \in [Conns -> Seq(Requests)]
  /\ \A c \in Conns : Len(peer_request[c]) <= MaxRequests
  /\ pending \in Seq(Pending)
  /\ quota \in Nat /\ count \in Nat \cup {NoRound}
  /\ reading \in Seq(Pending)
  /\ rounds \in Nat /\ sent \in Nat

\* The hand-overs of c that are on their way: pended or being read.
InChain(c) == \/ \E i \in DOMAIN pending : pending[i][1] = c
              \/ \E i \in DOMAIN reading : reading[i][1] = c

\* A connection that has requests has one in the dispatcher, so that the others
\* get their turn: no CANCEL, repeated request or failed read breaks the chain.
ChainUnbroken == \A c \in alive : peer_request[c] # <<>> => InChain(c)

\* However reads fail, are refunded or come back late, no more than
\* quota_per_second blocks are sent for each round: what is sent, being read,
\* granted to the current round and left for the next is within the total.
Granted == IF count = NoRound THEN 0 ELSE count
UploadRate ==
  Counting => /\ sent + Len(reading) + Granted + quota <= Quota * (rounds + 1)
              /\ sent <= Quota * rounds

\* A request that can be read is served, or cancelled, or its peer leaves,
\* behind whatever the other connections have pending.
RequestsServed ==
  \A c \in Conns, r \in Requests :
    c \in alive /\ r \in Range(peer_request[c])
      ~> c \notin alive \/ r \notin Range(peer_request[c])

=============================================================================
