----------------------------- MODULE BitStreams -----------------------------
(***************************************************************************)
(* StreamUnpacker with its two rules: the messages of a peer, bytes that a *)
(* length prefix (or the constant size of a handshake) frames, and HTTP    *)
(* responses, lines and body that Content-Length frames.  A receive brings *)
(* any part of what was sent.  A prefix has two bytes here, not four.      *)
(***************************************************************************)
EXTENDS Integers, SequencesExt

CONSTANTS
  MaxPayload,   \* payloads have 0..MaxPayload bytes, so have bodies
  MaxMessages   \* bound: messages of a stream

PrefixSize == 2
protocol_string_len == 19
protocol_string == 66   \* the string is one byte here
Handshake == <<protocol_string_len, protocol_string, 0, 0>>
handshake_size == Len(Handshake)

\* No length is so large that its prefix begins as a handshake does, or wraps when
\* its own size is added.
ASSUME StreamsAssumption == MaxPayload \in 0 .. protocol_string_len * 256 - 1 /\ MaxMessages \in Nat

\* Payload bytes look like the first of a handshake.
Framed(n) == <<n \div 256, n % 256>> \o [i \in 1 .. n |-> protocol_string_len]
PeerMessages == {Handshake} \cup {Framed(n) : n \in 0 .. MaxPayload}

Line(kind, n) == [kind |-> kind, n |-> n]
Response(head, n) ==
  <<Line("status", 0)>> \o head \o <<Line("blank", 0)>> \o [i \in 1 .. n |-> Line("body", 0)]
Responses ==
  {Response(<<>>, 0)}
    \cup {Response(<<Line("length", n), Line("other", 0)>>, n) : n \in 0 .. MaxPayload}
    \cup {Response(<<Line("other", 0), Line("length", n)>>, n) : n \in 0 .. MaxPayload}

VARIABLES
  rule,            \* UnpackRuler of the connection, or "none"
  sent,            \* the messages the other side sends
  coming,          \* what has not been received yet
  stream_buffer_,  \* stream_buffer_
  packs            \* what OnUnpackOne was called with

streamVars == <<rule, sent, coming, stream_buffer_, packs>>

-----------------------------------------------------------------------------
(* CanUnpack: the length of the pack, or NoPack.  length_prefix + 4 is an  *)
(* unsigned long.                                                          *)

NoPack == -1

PeerPackLen(s) ==
  LET size == Len(s)
      pack_len == (s[1] * 256 + s[2] + PrefixSize) % 65536
  IN  IF size < PrefixSize THEN NoPack
      ELSE IF s[1] = protocol_string_len /\ size >= handshake_size /\ s[2] = protocol_string
        THEN handshake_size
      ELSE IF size >= pack_len THEN pack_len ELSE NoPack

\* ContentLocator looks for Content-Length in all there is, the body included.  A
\* negative number, which would wrap in std::size_t, is not among the responses.
ResponsePackLen(s) ==
  LET blanks == {i \in DOMAIN s : s[i].kind = "blank"}
      lengths == {i \in DOMAIN s : s[i].kind = "length"}
      content_length_ == IF lengths = {} THEN 0 ELSE s[Min(lengths)].n
      response_length_ == Min(blanks) + content_length_
  IN  IF Head(s).kind # "status" \/ blanks = {} THEN NoPack
      ELSE IF response_length_ > Len(s) THEN NoPack ELSE response_length_

PackLen(s) == IF rule = "peer" THEN PeerPackLen(s) ELSE ResponsePackLen(s)

\* One turn of the loop of StreamDataArrive over stream s: the packs before it, and
\* where they end, which is pack_start.
Turn(s, before) ==
  LET rest == SubSeq(s, before.end + 1, Len(s))
      pack_len == IF rest = <<>> THEN NoPack ELSE PackLen(rest)
  IN  IF pack_len = NoPack THEN before
      ELSE [packs |-> Append(before.packs, SubSeq(rest, 1, pack_len)), end |-> before.end + pack_len]

NoPacks == [packs |-> <<>>, end |-> 0]
UnpackOne(s) == Turn(s, NoPacks)

\* A pack has a byte or more, so that there are no more turns than bytes.
Unpack(s) ==
  LET After[n \in 0 .. Len(s)] == IF n = 0 THEN NoPacks ELSE Turn(s, After[n - 1])
  IN  After[Len(s)]

-----------------------------------------------------------------------------
StreamsInit ==
  rule = "none" /\ sent = <<>> /\ coming = <<>> /\ stream_buffer_ = <<>> /\ packs = <<>>

\* A tracker answers the one request of the connection.
Connect ==
  /\ rule = "none"
  /\ \/ rule' = "peer" /\ \E n \in 1 .. MaxMessages : sent' \in [1 .. n -> PeerMessages]
     \/ rule' = "http" /\ sent' \in [1 .. 1 -> Responses]
  /\ coming' = FlattenSeq(sent')
  /\ UNCHANGED <<stream_buffer_, packs>>

StreamDataArrive(size) ==
  /\ size <= Len(coming)
  /\ LET stream == stream_buffer_ \o SubSeq(coming, 1, size)
         unpacked == Unpack(stream)
     IN  /\ packs' = packs \o unpacked.packs
         /\ stream_buffer_' = SubSeq(stream, unpacked.end + 1, Len(stream))
  /\ coming' = SubSeq(coming, size + 1, Len(coming))
  /\ UNCHANGED <<rule, sent>>

StreamsNext == Connect \/ \E size \in 1 .. Len(coming) : StreamDataArrive(size)

StreamsSpec == StreamsInit /\ [][StreamsNext]_streamVars

-----------------------------------------------------------------------------
(* Properties.                                                             *)

\* Wherever the receives cut the stream, ProcessProtocol sees the messages that
\* were sent, in order, each as soon as it is there as a whole and none in part,
\* and what is kept is the beginning of the next one.  (Responses with a body
\* name its length in the head; a prefix does not wrap.)
FramesWhole ==
  /\ IsPrefix(packs, sent)
  /\ FlattenSeq(packs) \o stream_buffer_ \o coming = FlattenSeq(sent)
  /\ Len(packs) < Len(sent) => Len(stream_buffer_) < Len(sent[Len(packs) + 1])
=============================================================================
