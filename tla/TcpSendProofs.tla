---------------------------- MODULE TcpSendProofs ----------------------------
(***************************************************************************)
(* Theorems about TcpSend, for every buffer size, every width of the       *)
(* counters that holds two buffers, and every length of header and payload.*)
(***************************************************************************)
EXTENDS TcpSend, Integers, TLAPS

\* What fillsize can be: it fits behind the offset.
LEMMA FillFits ==
  ASSUME NEW p \in Payloads, NEW offset \in 0 .. BUFFSIZE,
         NEW already \in 0 .. (Modulus - 1)
  PROVE  Fill(p, offset, already) \in 0 .. (BUFFSIZE - offset)
<1>1. Minus(p, already) \in Nat
  BY SizesAssumption DEF Minus
<1>2. Room(offset) \in Nat /\ Room(offset) = BUFFSIZE - offset
  BY SizesAssumption DEF Room
<1>3. QED
  BY <1>1, <1>2 DEF Fill, Least

\* Counting wraps: the result is a uint32_t again.
LEMMA PlusWraps ==
  ASSUME NEW a \in Nat, NEW b \in Nat
  PROVE  Plus(a, b) \in 0 .. (Modulus - 1)
  BY SizesAssumption DEF Plus

\* A write that is under way belongs to a packet that is being sent.
WriteInv == inflight > 0 => outstate = "PAYLOAD"

IInv == CountersOK /\ FlagsOK /\ WriteInv /\ NoOverlap

LEMMA SendInit == Init => IInv
<1> SUFFICES ASSUME Init PROVE IInv
  OBVIOUS
<1>1. CountersOK
  BY SizesAssumption DEF Init, CountersOK
<1>2. FlagsOK /\ NoOverlap
  BY Zenon DEF Init, FlagsOK, NoOverlap
<1>3. WriteInv
  BY DEF Init, WriteInv
<1>4. QED
  BY <1>1, <1>2, <1>3 DEF IInv

LEMMA SendNext == IInv /\ [Next]_vars => IInv'
<1> SUFFICES ASSUME CountersOK, FlagsOK, WriteInv, NoOverlap, [Next]_vars
             PROVE  CountersOK' /\ FlagsOK' /\ WriteInv' /\ NoOverlap'
  BY DEF IInv
<1> DEFINE Kept == CountersOK' /\ FlagsOK' /\ WriteInv' /\ NoOverlap'
<1>1. ASSUME NEW h \in Headers, NEW p \in Payloads, Send(h, p) PROVE Kept
  <2>1. Prefix(p) + h \in 0 .. BUFFSIZE
    BY <1>1, SizesAssumption DEF Send, HeaderFits, Prefix
  <2>2. Fill(p, Prefix(p) + h, 0) \in 0 .. (BUFFSIZE - (Prefix(p) + h))
    BY <2>1, FillFits, SizesAssumption
  <2>3. CountersOK'
    <3>1. inflight' \in 0 .. BUFFSIZE
      BY <1>1, <2>1, <2>2, SizesAssumption DEF Send
    <3>2. alreadysent' \in 0 .. (Modulus - 1)
      BY <1>1, <2>1, <2>2, SizesAssumption DEF Send
    <3>3. packet' \in [header : Nat, payload : 0 .. (Modulus - 1)]
      BY <1>1, SizesAssumption DEF Send
    <3>4. sends' \in Nat
      BY <1>1 DEF Send, CountersOK
    <3>5. QED
      BY <3>1, <3>2, <3>3, <3>4 DEF CountersOK
  <2>4. ~ (inflight > 0)
    BY <1>1 DEF Send, Accepts, WriteInv
  <2>5. FlagsOK' /\ NoOverlap'
    BY <1>1, <2>4, Zenon DEF Send, FlagsOK, NoOverlap
  <2>6. WriteInv'
    BY <1>1 DEF Send, WriteInv
  <2>7. QED
    BY <2>3, <2>5, <2>6
<1>2. ASSUME NEW h \in Headers, NEW p \in Payloads, SendTooLarge(h, p) PROVE Kept
  <2>1. FlagsOK' /\ NoOverlap'
    <3>1. /\ crashed' \in BOOLEAN /\ is_open' = FALSE
          /\ UNCHANGED <<outstate, finished, overlapped>>
      BY <1>2 DEF SendTooLarge
    <3>2. QED
      BY <3>1, Zenon DEF FlagsOK, NoOverlap
  <2>2. CountersOK' /\ WriteInv'
    BY <1>2 DEF SendTooLarge, CountersOK, WriteInv
  <2>3. QED
    BY <2>1, <2>2
<1>3. CountTransferred(alreadysent, inflight) \in 0 .. (Modulus - 1)
  <2>1. alreadysent \in Nat /\ inflight \in Nat
    BY SizesAssumption DEF CountersOK
  <2>2. QED
    BY <2>1, PlusWraps DEF CountTransferred
<1>4. ASSUME SendFinished PROVE Kept
  <2>1. FlagsOK' /\ NoOverlap'
    BY <1>4, Zenon DEF SendFinished, FlagsOK, NoOverlap
  <2>2. CountersOK' /\ WriteInv'
    BY <1>3, <1>4, SizesAssumption DEF SendFinished, CountersOK, WriteInv
  <2>3. QED
    BY <2>1, <2>2
<1>5. ASSUME WriteMore PROVE Kept
  <2> DEFINE already == CountTransferred(alreadysent, inflight)
             fill    == Fill(packet.payload, 0, already)
  <2>1. fill \in 0 .. BUFFSIZE
    <3>1. Minus(packet.payload, already) \in Nat
      BY <1>3, SizesAssumption DEF Minus, CountersOK
    <3>2. Room(0) = BUFFSIZE
      BY SizesAssumption DEF Room
    <3>3. QED
      BY <3>1, <3>2, SizesAssumption DEF Fill, Least
  <2>2. alreadysent' \in 0 .. (Modulus - 1)
    BY <1>3, <1>5, <2>1, PlusWraps, SizesAssumption DEF WriteMore
  <2>3. inflight' \in 0 .. BUFFSIZE
    BY <1>5, <2>1, SizesAssumption DEF WriteMore
  <2>4. CountersOK'
    BY <1>5, <2>2, <2>3 DEF WriteMore, CountersOK
  <2>5. FlagsOK' /\ NoOverlap'
    <3>1. /\ crashed' \in BOOLEAN
          /\ UNCHANGED <<outstate, is_open, finished, overlapped>>
      BY <1>5 DEF WriteMore
    <3>2. QED
      BY <3>1, Zenon DEF FlagsOK, NoOverlap
  <2>6. WriteInv'
    BY <1>5 DEF WriteMore, WriteInv
  <2>7. QED
    BY <2>4, <2>5, <2>6
<1>6. ASSUME WriteFails \/ Closes PROVE Kept
  <2>1. is_open' = FALSE /\ UNCHANGED <<outstate, finished, overlapped, crashed>>
    BY <1>6 DEF WriteFails, Closes
  <2>2. FlagsOK' /\ NoOverlap'
    BY <2>1, Zenon DEF FlagsOK, NoOverlap
  <2>3. CountersOK' /\ WriteInv'
    BY <1>6, SizesAssumption DEF WriteFails, Closes, CountersOK, WriteInv
  <2>4. QED
    BY <2>2, <2>3
<1>7. ASSUME UNCHANGED vars PROVE Kept
  BY <1>7 DEF vars, CountersOK, FlagsOK, WriteInv, NoOverlap
<1>8. QED
  BY <1>1, <1>2, <1>4, <1>5, <1>6, <1>7 DEF Next, Over

\* The counters stay uint32_t and what is handed to async_write lies inside
\* outbuffer, for every length of header and payload (protocol.hpp:101-129).
THEOREM SendTypeCorrect == Spec => []TypeOK
<1>1. IInv => TypeOK
  BY DEF IInv, TypeOK
<1>2. QED
  BY <1>1, SendInit, SendNext, PTL DEF Spec

\* No async_write is started while another is under way (protocol.hpp:135).
THEOREM NoOverlapHolds == Spec => []NoOverlap
<1>1. IInv => NoOverlap
  BY DEF IInv
<1>2. QED
  BY <1>1, SendInit, SendNext, PTL DEF Spec

-----------------------------------------------------------------------------
(* When a packet counts as sent.                                           *)

\* Counts that differ by a multiple of two buffers.
Multiple(x)     == \E k \in Int : x = k * (2 * BUFFSIZE)
Congruent(x, y) == Multiple(x - y)

\* The width of the counters is a number of double buffers: 2^32 and 16384.
WidthIsDoubleBuffers == \E n \in Nat : Modulus = n * (2 * BUFFSIZE)

LEMMA DivMod ==
  ASSUME NEW x \in Int, NEW d \in Nat, d > 0
  PROVE  /\ x % d \in 0 .. (d - 1)
         /\ x \div d \in Int
         /\ x = (d * (x \div d)) + (x % d)
  OBVIOUS

LEMMA MultipleSum ==
  ASSUME NEW x \in Int, NEW y \in Int, Multiple(x), Multiple(y)
  PROVE  Multiple(x + y) /\ Multiple(x - y)
<1> DEFINE d == 2 * BUFFSIZE
<1>1. PICK k \in Int, j \in Int : x = k * d /\ y = j * d
  BY DEF Multiple
<1>2. d \in Int
  BY SizesAssumption
<1> HIDE DEF d
<1>3. x + y = (k + j) * d /\ x - y = (k - j) * d
  BY <1>1, <1>2
<1>4. k + j \in Int /\ k - j \in Int
  OBVIOUS
<1>5. QED
  BY <1>3, <1>4 DEF Multiple, d

\* What is congruent to a multiple is one.
LEMMA CongruentMultiple ==
  ASSUME NEW x \in Int, NEW y \in Int, Congruent(x, y), Multiple(y)
  PROVE  Multiple(x)
<1>1. Multiple((x - y) + y)
  BY MultipleSum DEF Congruent
<1>2. (x - y) + y = x
  OBVIOUS
<1>3. QED
  BY <1>1, <1>2

LEMMA MultipleOfD == Multiple(2 * BUFFSIZE) /\ Multiple(0)
<1> DEFINE d == 2 * BUFFSIZE
<1>1. d \in Int
  BY SizesAssumption
<1> HIDE DEF d
<1>2. d = 1 * d /\ 0 = 0 * d
  BY <1>1
<1>3. QED
  BY <1>2 DEF Multiple, d

\* Wrapping keeps a count's class.
LEMMA WrapCongruent ==
  ASSUME WidthIsDoubleBuffers, NEW x \in Int
  PROVE  Congruent(x % Modulus, x) /\ Congruent(x, x % Modulus)
<1> DEFINE d == 2 * BUFFSIZE
           q == x \div Modulus
<1>1. PICK n \in Nat : Modulus = n * d
  BY DEF WidthIsDoubleBuffers
<1>2. /\ x % Modulus \in Int /\ q \in Int /\ d \in Int
      /\ x = (Modulus * q) + (x % Modulus)
  BY DivMod, SizesAssumption
<1> HIDE DEF d, q
<1>3. x - (x % Modulus) = (n * d) * q
  BY <1>1, <1>2, SizesAssumption
<1>4. (n * d) * q = (n * q) * d
  BY <1>2
<1>5. n * q \in Int
  BY <1>2
<1>6. Multiple(x - (x % Modulus))
  BY <1>3, <1>4, <1>5 DEF Multiple, d
<1>7. Multiple(0 - (x - (x % Modulus)))
  BY <1>2, <1>6, MultipleOfD, MultipleSum
<1>8. 0 - (x - (x % Modulus)) = (x % Modulus) - x
  BY <1>2
<1>9. QED
  BY <1>6, <1>7, <1>8 DEF Congruent

\* uint32_t sums and differences are congruent to the true ones.
LEMMA CountsCongruent ==
  ASSUME WidthIsDoubleBuffers, NEW a \in Nat, NEW b \in Nat
  PROVE  Congruent(Plus(a, b), a + b) /\ Congruent(Minus(a, b), a - b)
<1>1. Congruent(Plus(a, b), a + b)
  BY WrapCongruent DEF Plus
<1>2. DEFINE y == a + Modulus - b
<1>3. y \in Int /\ y % Modulus \in Int
  BY DivMod, SizesAssumption
<1>4. Multiple((y % Modulus) - y)
  BY <1>3, WrapCongruent DEF Congruent
<1>5. Multiple(Modulus)
  BY DEF WidthIsDoubleBuffers, Multiple
<1>6. Multiple(((y % Modulus) - y) + Modulus)
  BY <1>3, <1>4, <1>5, MultipleSum, SizesAssumption
<1>7. ((y % Modulus) - y) + Modulus = (y % Modulus) - (a - b)
  BY <1>3, SizesAssumption
<1>8. QED
  BY <1>1, <1>6, <1>7 DEF Minus, Congruent

Length(p) == Prefix(p.payload) + p.header + p.payload

\* What onSend will find left to send once the write under way is counted.
Left == packet.payload - alreadysent - inflight

\* Every write leaves the packet's length, or its negation, to be sent.
LeftInv ==
  inflight > 0 => Multiple(Left - Length(packet)) \/ Multiple(Left + Length(packet))

ChanceInv == LeftInv /\ (finished => Multiple(Length(packet)))

LEMMA LeftIsInt ==
  ASSUME CountersOK
  PROVE  /\ Left \in Int /\ Length(packet) \in Nat
         /\ alreadysent \in Nat /\ inflight \in Nat /\ packet.payload \in Nat
  BY SizesAssumption DEF CountersOK, Left, Length, Prefix

\* What onSend computes as the rest of the payload is Left, up to wrapping.
LEMMA RestIsLeft ==
  ASSUME WidthIsDoubleBuffers, CountersOK
  PROVE  LET already == CountTransferred(alreadysent, inflight)
             rest    == Minus(packet.payload, already)
         IN already \in Nat /\ rest \in Nat /\ Congruent(rest, Left)
<1> DEFINE already == CountTransferred(alreadysent, inflight)
           rest    == Minus(packet.payload, already)
<1>1. already \in Nat /\ Congruent(already, alreadysent + inflight)
  BY LeftIsInt, PlusWraps, CountsCongruent, SizesAssumption DEF CountTransferred
<1>2. rest \in Nat /\ Congruent(rest, packet.payload - already)
  <2>1. packet.payload \in Nat
    BY LeftIsInt
  <2> HIDE DEF already
  <2>2. rest \in Nat
    BY <1>1, <2>1, SizesAssumption DEF Minus
  <2>3. Congruent(rest, packet.payload - already)
    BY <1>1, <2>1, CountsCongruent
  <2>4. QED
    BY <2>2, <2>3
<1> HIDE DEF already, rest
<1>3. Multiple((rest - (packet.payload - already)) - (already - (alreadysent + inflight)))
  BY <1>1, <1>2, LeftIsInt, MultipleSum DEF Congruent
<1>4. (rest - (packet.payload - already)) - (already - (alreadysent + inflight))
        = rest - Left
  BY <1>1, <1>2, LeftIsInt DEF Left
<1>5. QED
  BY <1>1, <1>2, <1>3, <1>4 DEF Congruent, already, rest

\* The first write leaves the length (it filled the buffer) or its negation.
LEMMA SendLeaves ==
  ASSUME WidthIsDoubleBuffers, CountersOK',
         NEW h \in Headers, NEW p \in Payloads, Send(h, p), inflight' > 0
  PROVE  (Multiple(Left - Length(packet)) \/ Multiple(Left + Length(packet)))'
<1> DEFINE offset == Prefix(p) + h
           fill   == Fill(p, offset, 0)
           rest   == Minus(p, 0)
<1>1. /\ packet'.payload = p /\ packet'.header = h
      /\ alreadysent' = fill /\ inflight' = offset + fill
  BY DEF Send
<1>2. p \in Nat /\ h \in Nat /\ offset \in Nat /\ offset <= BUFFSIZE
  BY SizesAssumption DEF Send, HeaderFits, Prefix
<1>3. rest \in Nat /\ Congruent(rest, p - 0)
  BY <1>2, CountsCongruent, SizesAssumption DEF Minus
<1>4. Left' = p - fill - (offset + fill)
  BY <1>1 DEF Left
<1>5. Length(packet)' = offset + p
  BY <1>1, <1>2 DEF Length, Prefix
<1> HIDE DEF offset
<1>6. CASE fill = BUFFSIZE - offset
  <2>1. Left' - Length(packet)' = 0 - (2 * BUFFSIZE)
    BY <1>2, <1>4, <1>5, <1>6, SizesAssumption
  <2>2. QED
    BY <2>1, MultipleOfD, MultipleSum, SizesAssumption
<1>7. CASE fill = rest
  <2> HIDE DEF fill, rest
  <2>1. Multiple(rest - p) /\ Multiple(0)
    BY <1>2, <1>3, MultipleOfD DEF Congruent
  <2>2. Multiple((rest - p) + (rest - p))
    BY <2>1, <1>2, <1>3, MultipleSum
  <2>3. Multiple(0 - ((rest - p) + (rest - p)))
    BY <2>1, <2>2, <1>2, <1>3, MultipleSum
  <2>4. 0 - ((rest - p) + (rest - p)) = Left' + Length(packet)'
    BY <1>2, <1>3, <1>4, <1>5, <1>7
  <2>5. QED
    BY <2>3, <2>4
<1>8. QED
  BY <1>6, <1>7 DEF Fill, Least, Room

\* A further write keeps what is left (a full buffer) or negates it (the rest).
LEMMA WriteLeaves ==
  ASSUME WidthIsDoubleBuffers, CountersOK, CountersOK', LeftInv, WriteMore, inflight' > 0
  PROVE  (Multiple(Left - Length(packet)) \/ Multiple(Left + Length(packet)))'
<1> DEFINE already == CountTransferred(alreadysent, inflight)
           rest    == Minus(packet.payload, already)
           fill    == Fill(packet.payload, 0, already)
           len     == Length(packet)
           now     == Left
<1>1. /\ packet' = packet /\ alreadysent' = Plus(already, fill) /\ inflight' = fill
  BY DEF WriteMore
<1>2. already \in Nat /\ rest \in Nat /\ Congruent(rest, now)
  BY RestIsLeft
<1>3. fill \in Nat /\ (fill = BUFFSIZE \/ fill = rest)
  BY <1>2, SizesAssumption DEF Fill, Least, Room
<1>4. Congruent(Plus(already, fill), already + fill) /\ Plus(already, fill) \in Nat
  BY <1>2, <1>3, CountsCongruent, PlusWraps, SizesAssumption
<1>5. Congruent(rest, packet.payload - already)
  BY <1>2, LeftIsInt, CountsCongruent
<1>6. Multiple(now - len) \/ Multiple(now + len)
  BY DEF WriteMore, LeftInv
<1>7. now \in Int /\ len \in Nat /\ packet.payload \in Nat
  BY LeftIsInt
<1>8. Left' = packet.payload - Plus(already, fill) - fill /\ Length(packet)' = len
  BY <1>1 DEF Left, Length
<1> DEFINE next == packet.payload - Plus(already, fill) - fill
           sum  == Plus(already, fill)
<1>9. next \in Int
  BY <1>3, <1>4, <1>7
<1> HIDE DEF already, rest, fill, len, now, sum
<1>10. Multiple(next - (rest - (fill + fill)))
  <2>1. /\ Multiple(sum - (already + fill))
        /\ Multiple(rest - (packet.payload - already))
        /\ sum \in Nat
    BY <1>4, <1>5 DEF Congruent, sum
  <2>2. Multiple(0 - (sum - (already + fill)))
    BY <2>1, <1>2, <1>3, MultipleOfD, MultipleSum
  <2>3. Multiple((0 - (sum - (already + fill))) - (rest - (packet.payload - already)))
    <3>1. /\ 0 - (sum - (already + fill)) \in Int
          /\ rest - (packet.payload - already) \in Int
      BY <2>1, <1>2, <1>3, <1>7
    <3>2. QED
      BY <2>1, <2>2, <3>1, MultipleSum
  <2>4. (0 - (sum - (already + fill))) - (rest - (packet.payload - already))
          = next - (rest - (fill + fill))
    BY <2>1, <1>2, <1>3, <1>7 DEF sum
  <2>5. QED
    BY <2>3, <2>4
<1> HIDE DEF next
<1>11. CASE fill = BUFFSIZE
  <2>1. Multiple(next - (rest - 2 * BUFFSIZE))
    BY <1>10, <1>11, SizesAssumption
  <2>2. Multiple((next - (rest - 2 * BUFFSIZE)) - (2 * BUFFSIZE))
    BY <2>1, <1>2, <1>9, MultipleOfD, MultipleSum, SizesAssumption
  <2>3. Multiple(((next - (rest - 2 * BUFFSIZE)) - (2 * BUFFSIZE)) + (rest - now))
    BY <2>2, <1>2, <1>7, <1>9, MultipleSum, SizesAssumption DEF Congruent
  <2>4. ((next - (rest - 2 * BUFFSIZE)) - (2 * BUFFSIZE)) + (rest - now) = next - now
    BY <1>2, <1>7, <1>9, SizesAssumption
  <2>5. Multiple(next - now)
    BY <2>3, <2>4
  <2>6. CASE Multiple(now - len)
    <3>1. Multiple((next - now) + (now - len))
      BY <2>5, <2>6, <1>7, <1>9, MultipleSum
    <3>2. (next - now) + (now - len) = next - len
      BY <1>7, <1>9
    <3>3. QED
      BY <3>1, <3>2, <1>8 DEF next
  <2>7. CASE Multiple(now + len)
    <3>1. Multiple((next - now) + (now + len))
      BY <2>5, <2>7, <1>7, <1>9, MultipleSum
    <3>2. (next - now) + (now + len) = next + len
      BY <1>7, <1>9
    <3>3. QED
      BY <3>1, <3>2, <1>8 DEF next
  <2>8. QED
    BY <2>6, <2>7, <1>6
<1>12. CASE fill = rest
  <2>1. Multiple(next - (rest - (rest + rest)))
    BY <1>10, <1>12
  <2>2. Multiple((next - (rest - (rest + rest))) - (rest - now))
    BY <2>1, <1>2, <1>7, <1>9, MultipleSum DEF Congruent
  <2>3. (next - (rest - (rest + rest))) - (rest - now) = next + now
    BY <1>2, <1>7, <1>9
  <2>4. Multiple(next + now)
    BY <2>2, <2>3
  <2>5. CASE Multiple(now - len)
    <3>1. Multiple((next + now) - (now - len))
      BY <2>4, <2>5, <1>7, <1>9, MultipleSum
    <3>2. (next + now) - (now - len) = next + len
      BY <1>7, <1>9
    <3>3. QED
      BY <3>1, <3>2, <1>8 DEF next
  <2>6. CASE Multiple(now + len)
    <3>1. Multiple((next + now) - (now + len))
      BY <2>4, <2>6, <1>7, <1>9, MultipleSum
    <3>2. (next + now) - (now + len) = next - len
      BY <1>7, <1>9
    <3>3. QED
      BY <3>1, <3>2, <1>8 DEF next
  <2>7. QED
    BY <2>5, <2>6, <1>6
<1>13. QED
  BY <1>3, <1>11, <1>12

\* A packet counts as sent when nothing is left, up to wrapping.
LEMMA FinishLeaves ==
  ASSUME WidthIsDoubleBuffers, CountersOK, LeftInv, SendFinished
  PROVE  Multiple(Length(packet))
<1> DEFINE already == CountTransferred(alreadysent, inflight)
           rest    == Minus(packet.payload, already)
           len     == Length(packet)
           now     == Left
<1>1. already \in Nat /\ rest \in Nat /\ Congruent(rest, now)
  BY RestIsLeft
<1>2. rest = 0
  BY <1>1, SizesAssumption DEF SendFinished, Fill, Least, Room
<1>3. Multiple(now - len) \/ Multiple(now + len)
  BY DEF SendFinished, LeftInv
<1>4. now \in Int /\ len \in Nat
  BY LeftIsInt
<1> HIDE DEF already, rest, len, now
<1>5. Multiple(0 - now) /\ Multiple(0)
  BY <1>1, <1>2, MultipleOfD DEF Congruent
<1>6. CASE Multiple(now + len)
  <2>1. Multiple((0 - now) + (now + len))
    BY <1>4, <1>5, <1>6, MultipleSum
  <2>2. (0 - now) + (now + len) = len
    BY <1>4
  <2>3. QED
    BY <2>1, <2>2 DEF len
<1>7. CASE Multiple(now - len)
  <2>1. Multiple((0 - now) + (now - len))
    BY <1>4, <1>5, <1>7, MultipleSum
  <2>2. Multiple(0 - ((0 - now) + (now - len)))
    BY <2>1, <1>4, <1>5, MultipleSum
  <2>3. 0 - ((0 - now) + (now - len)) = len
    BY <1>4
  <2>4. QED
    BY <2>2, <2>3 DEF len
<1>8. QED
  BY <1>3, <1>6, <1>7

LEMMA ChanceNext ==
  ASSUME WidthIsDoubleBuffers
  PROVE  CountersOK /\ CountersOK' /\ ChanceInv /\ [Next]_vars => ChanceInv'
<1> SUFFICES ASSUME CountersOK, CountersOK', ChanceInv, [Next]_vars PROVE ChanceInv'
  OBVIOUS
<1>1. ASSUME NEW h \in Headers, NEW p \in Payloads, Send(h, p) PROVE ChanceInv'
  BY <1>1, SendLeaves DEF Send, ChanceInv, LeftInv
<1>2. ASSUME NEW h \in Headers, NEW p \in Payloads, SendTooLarge(h, p) PROVE ChanceInv'
  BY <1>2 DEF SendTooLarge, ChanceInv, LeftInv, Left, Length
<1>3. ASSUME SendFinished PROVE ChanceInv'
  <2>1. /\ inflight' = 0 /\ packet' = packet /\ Multiple(Length(packet))
    BY <1>3, FinishLeaves DEF SendFinished, ChanceInv
  <2>2. QED
    BY <2>1 DEF ChanceInv, LeftInv, Length
<1>4. ASSUME WriteMore PROVE ChanceInv'
  <2>1. LeftInv'
    BY <1>4, WriteLeaves DEF ChanceInv, LeftInv
  <2>2. packet' = packet /\ finished' = finished
    BY <1>4 DEF WriteMore
  <2>3. QED
    BY <2>1, <2>2 DEF ChanceInv, Length
<1>5. ASSUME WriteFails PROVE ChanceInv'
  BY <1>5 DEF WriteFails, ChanceInv, LeftInv, Length
<1>6. ASSUME Closes \/ UNCHANGED vars PROVE ChanceInv'
  BY <1>6 DEF Closes, vars, ChanceInv, LeftInv, Left, Length
<1>7. QED
  BY <1>1, <1>2, <1>3, <1>4, <1>5, <1>6 DEF Next, Over

LEMMA MultipleModulo ==
  ASSUME NEW x \in Nat, Multiple(x) PROVE x % (2 * BUFFSIZE) = 0
<1> DEFINE d == 2 * BUFFSIZE
<1>1. PICK k \in Int : x = k * d
  BY DEF Multiple
<1>2. d \in Nat /\ d > 0
  BY SizesAssumption
<1> HIDE DEF d
<1>3. (k * d) % d = 0
  BY <1>2
<1>4. QED
  BY <1>1, <1>3 DEF d

\* A packet counts as sent only if its length is a number of double buffers: onSend
\* counts every byte of a write a second time when it is done (protocol.hpp:101-129).
THEOREM FinishesOnlyByChanceHolds ==
  ASSUME WidthIsDoubleBuffers PROVE Spec => []FinishesOnlyByChance
<1>1. Init => ChanceInv
  BY DEF Init, ChanceInv, LeftInv
<1>2. IInv /\ IInv' /\ ChanceInv /\ [Next]_vars => ChanceInv'
  BY ChanceNext DEF IInv
<1>3. IInv /\ ChanceInv => FinishesOnlyByChance
  <2> SUFFICES ASSUME CountersOK, finished, Multiple(Length(packet))
               PROVE  Length(packet) % (2 * BUFFSIZE) = 0
    BY DEF IInv, ChanceInv, FinishesOnlyByChance, Length
  <2>1. QED
    BY LeftIsInt, MultipleModulo
<1>4. QED
  BY <1>1, <1>2, <1>3, SendInit, SendNext, PTL DEF Spec

\* A packet whose header was refused is never on its way.
FitsInv == inflight > 0 \/ finished => HeaderFits(packet.header, packet.payload)

LEMMA FitsNext == FitsInv /\ [Next]_vars => FitsInv'
<1> SUFFICES ASSUME FitsInv, [Next]_vars PROVE FitsInv'
  OBVIOUS
<1>1. ASSUME NEW h \in Headers, NEW p \in Payloads, Send(h, p) PROVE FitsInv'
  BY <1>1 DEF Send, FitsInv
<1>2. ASSUME NEW h \in Headers, NEW p \in Payloads, SendTooLarge(h, p) PROVE FitsInv'
  BY <1>2 DEF SendTooLarge, FitsInv
<1>3. CASE SendFinished \/ WriteMore \/ WriteFails \/ Closes \/ UNCHANGED vars
  BY <1>3 DEF SendFinished, WriteMore, WriteFails, Closes, vars, FitsInv
<1>4. QED
  BY <1>1, <1>2, <1>3 DEF Next, Over

\* No positive multiple is smaller than what it is a multiple of.
LEMMA SmallMultiple ==
  ASSUME NEW d \in Nat, NEW k \in Int, 0 < k * d PROVE d <= k * d
<1>1. CASE k <= 0
  BY <1>1
<1>2. CASE k >= 1
  <2>1. k * d = (k - 1) * d + d /\ (k - 1) * d >= 0
    BY <1>2
  <2>2. QED
    BY <2>1
<1>3. QED
  BY <1>1, <1>2

\* A packet without payload, which is all that syncNodeList sends (session.cpp:112), is
\* never found to be sent, so that its session stays in the transmission state.
THEOREM EmptyNeverFinishes ==
  ASSUME WidthIsDoubleBuffers PROVE Spec => [](finished => packet.payload > 0)
<1>1. Init => ChanceInv /\ FitsInv
  BY DEF Init, ChanceInv, LeftInv, FitsInv
<1>2. IInv /\ IInv' /\ ChanceInv /\ FitsInv /\ [Next]_vars => ChanceInv' /\ FitsInv'
  BY ChanceNext, FitsNext DEF IInv
<1>3. IInv /\ ChanceInv /\ FitsInv => (finished => packet.payload > 0)
  <2> SUFFICES ASSUME CountersOK, ChanceInv, FitsInv, finished, ~ packet.payload > 0
               PROVE  FALSE
    BY DEF IInv
  <2>1. packet.payload = 0 /\ packet.header \in Nat
    BY SizesAssumption DEF CountersOK
  <2>2. 5 + packet.header < BUFFSIZE
    BY <2>1 DEF FitsInv, HeaderFits, Prefix
  <2>3. Length(packet) = 5 + packet.header
    BY <2>1 DEF Length, Prefix
  <2>4. PICK k \in Int : Length(packet) = k * (2 * BUFFSIZE)
    BY DEF ChanceInv, Multiple
  <2>5. 2 * BUFFSIZE <= 5 + packet.header
    <3> DEFINE d == 2 * BUFFSIZE
    <3>1. d \in Nat
      BY SizesAssumption
    <3>2. 5 + packet.header = k * d /\ 0 < 5 + packet.header
      BY <2>1, <2>3, <2>4
    <3> HIDE DEF d
    <3>3. d <= 5 + packet.header
      BY <3>1, <3>2, SmallMultiple
    <3>4. QED
      BY <3>3 DEF d
  <2>6. QED
    BY <2>1, <2>2, <2>5, SizesAssumption
<1>4. QED
  BY <1>1, <1>2, <1>3, SendInit, SendNext, PTL DEF Spec
=============================================================================
