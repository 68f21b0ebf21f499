------------------------------- MODULE TcpSend -------------------------------
(***************************************************************************)
(* TCP_Protocol's sending half: send, onSend and writeHeader.              *)
(*                                                                         *)
(* A packet goes out as a header and a payload through one buffer of       *)
(* BUFFSIZE bytes.  onSend fills the buffer, starts an async_write of what *)
(* it filled and is called again when all of it is written, or on an       *)
(* error.  Offsets and counts are uint32_t: they wrap at Modulus.          *)
(*                                                                         *)
(* The data are abstract: a copy from behind the payload's end sends bytes *)
(* that are not the payload's, if the process survives it.  The buffer     *)
(* itself is an uninitialised pointer (the constructor assigns to locals   *)
(* that shadow the members), so that every copy into it may crash.         *)
(***************************************************************************)
EXTENDS Naturals

CONSTANTS
  BUFFSIZE,  \* the constructor's buffsize (8192)
  Modulus,   \* 2^32
  Headers,   \* bound: lengths of serialised packets (header strings)
  Payloads,  \* bound: lengths of payloads
  MaxSends   \* bound: calls of send

ASSUME SizesAssumption ==
  /\ BUFFSIZE \in Nat /\ BUFFSIZE >= 64
  /\ Modulus \in Nat /\ Modulus > 2 * BUFFSIZE
  /\ Headers \subseteq Nat /\ Payloads \subseteq 0 .. (Modulus - 1)
  /\ MaxSends \in Nat

VARIABLES
  outstate,     \* FREE, or PAYLOAD while a packet is being sent
  alreadysent,  \* uint32_t
  packet,       \* the packet that is being sent: its two lengths
  inflight,     \* bytes of the async_write that is under way; 0: none
  is_open,      \* is the socket open?
  finished,     \* sendFinished was called for this packet (history)
  overlapped,   \* an async_write was started while one was under way (history)
  sends,        \* calls of send (history)
  crashed       \* the process is gone

vars == <<outstate, alreadysent, packet, inflight, is_open,
          finished, overlapped, sends, crashed>>

Least(a, b) == IF a <= b THEN a ELSE b

-----------------------------------------------------------------------------

\* The bytes in front of the header string: a flag, its length and, when there
\* is a payload, the payload's length.
Prefix(p) == IF p > 0 THEN 9 ELSE 5

\* writeHeader refuses what does not leave a byte of the buffer (value_too_large).
HeaderFits(h, p) == Prefix(p) + h < BUFFSIZE

\* uint32_t arithmetic.
Plus(a, b)  == (a + b) % Modulus
Minus(a, b) == (a + Modulus - b) % Modulus

WholeBuffer(offset) == BUFFSIZE

\* What is left of the buffer behind offset.
Room(offset) == BUFFSIZE - offset

\* PAYLOAD: fillsize, when already bytes of the payload count as sent.
Fill(p, offset, already) == Least(Room(offset), Minus(p, already))

CountNothing(already, transferred) == already

\* onSend adds what was transferred to what it has already counted.
CountTransferred(already, transferred) == Plus(already, transferred)

-----------------------------------------------------------------------------

AlwaysAccepted == TRUE

\* send throws EFAULT while a packet is being sent.
Accepts == outstate = "FREE"

\* send(p): FREE and HEADER of onSend, then PAYLOAD behind the header.
Send(h, p) ==
  /\ ~ crashed /\ sends < MaxSends
  /\ Accepts
  /\ HeaderFits(h, p)
  /\ packet' = [header |-> h, payload |-> p]
  /\ sends' = sends + 1
  /\ LET offset == Prefix(p) + h
         fill   == Fill(p, offset, 0)
     IN /\ outstate' = "PAYLOAD"
        /\ alreadysent' = fill
        /\ inflight' = IF is_open THEN offset + fill ELSE 0
  /\ overlapped' = (overlapped \/ (is_open /\ inflight > 0))
  /\ finished' = FALSE
  /\ crashed' \in BOOLEAN
  /\ UNCHANGED is_open

\* Of a header that just does not fit, writeHeader finds out when the bytes in front of it
\* are in the buffer already; of a longer one before it writes anything.
WritesPrefix(h, p) == Prefix(p) + h = BUFFSIZE

\* The header does not fit: onSendError closes the session.
SendTooLarge(h, p) ==
  /\ ~ crashed /\ sends < MaxSends
  /\ Accepts
  /\ ~ HeaderFits(h, p)
  /\ sends' = sends + 1
  /\ is_open' = FALSE
  /\ crashed' \in (IF WritesPrefix(h, p) THEN BOOLEAN ELSE {FALSE})
  /\ UNCHANGED <<outstate, alreadysent, packet, inflight, finished, overlapped>>

\* async_write is done: onSend counts what was transferred.  When that leaves
\* nothing to do, the packet is sent ...
SendFinished ==
  /\ ~ crashed /\ inflight > 0
  /\ LET already == CountTransferred(alreadysent, inflight) IN
       /\ Fill(packet.payload, 0, already) = 0
       /\ alreadysent' = already
  /\ outstate' = "FREE"
  /\ finished' = TRUE
  /\ inflight' = 0
  /\ UNCHANGED <<packet, is_open, overlapped, sends, crashed>>

\* ... and otherwise the buffer is filled again, from its start, with bytes of the
\* payload or from behind its end.
WriteMore ==
  /\ ~ crashed /\ inflight > 0
  /\ LET already == CountTransferred(alreadysent, inflight)
         fill    == Fill(packet.payload, 0, already)
     IN /\ fill > 0
        /\ alreadysent' = Plus(already, fill)
        /\ inflight' = IF is_open THEN fill ELSE 0
  /\ crashed' \in BOOLEAN
  /\ UNCHANGED <<outstate, packet, is_open, finished, overlapped, sends>>

\* async_write fails: onSendError closes the session; outstate stays.
WriteFails ==
  /\ ~ crashed /\ inflight > 0
  /\ inflight' = 0
  /\ is_open' = FALSE
  /\ UNCHANGED <<outstate, alreadysent, packet, finished,
                 overlapped, sends, crashed>>

\* The session is closed for another reason, a write being under way or not.
Closes ==
  /\ ~ crashed /\ is_open
  /\ is_open' = FALSE
  /\ UNCHANGED <<outstate, alreadysent, packet, inflight,
                 finished, overlapped, sends, crashed>>

\* Nothing is left to happen: the process is gone, or the session is closed.
Over == (crashed \/ (~ is_open /\ inflight = 0)) /\ UNCHANGED vars

Init ==
  /\ outstate = "FREE" /\ alreadysent = 0 /\ inflight = 0
  /\ packet = [header |-> 0, payload |-> 0]
  /\ is_open = TRUE
  /\ finished = FALSE /\ overlapped = FALSE /\ sends = 0 /\ crashed = FALSE

Next ==
  \/ \E h \in Headers, p \in Payloads : Send(h, p) \/ SendTooLarge(h, p)
  \/ SendFinished
  \/ WriteMore
  \/ WriteFails
  \/ Closes
  \/ Over

Spec == Init /\ [][Next]_vars

-----------------------------------------------------------------------------
(* Properties.                                                             *)

\* Besides the types: what onSend hands to async_write lies inside outbuffer.
CountersOK ==
  /\ alreadysent \in 0 .. (Modulus - 1)
  /\ packet \in [header : Nat, payload : 0 .. (Modulus - 1)]
  /\ inflight \in 0 .. BUFFSIZE
  /\ sends \in Nat

FlagsOK ==
  /\ outstate \in {"FREE", "PAYLOAD"}
  /\ is_open \in BOOLEAN /\ finished \in BOOLEAN
  /\ overlapped \in BOOLEAN /\ crashed \in BOOLEAN

TypeOK == CountersOK /\ FlagsOK

\* No async_write is started while another of this socket is under way, which asio
\* forbids: outstate is FREE only when nothing is on its way.
NoOverlap == ~ overlapped

\* A packet is found to be sent only if its header and payload happen to make up
\* a multiple of two buffers, whatever else of it was or was not sent: the counts
\* run past every other payload and wrap around.  A packet without payload, which
\* is all that syncNodeList sends, never is, so that its session stays in the
\* transmission state until it is closed.
FinishesOnlyByChance ==
  finished => (Prefix(packet.payload) + packet.header + packet.payload)
              % (2 * BUFFSIZE) = 0

=============================================================================
