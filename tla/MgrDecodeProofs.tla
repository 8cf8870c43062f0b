-------------------------- MODULE MgrDecodeProofs --------------------------
(***************************************************************************)
(* Theorems about what MgrMessage decodes, for every choice of the         *)
(* constants: a length that is encoded and decoded is the same length,     *)
(* wherever the stream is cut the decoder makes the server's messages, and *)
(* the game thread is given them as Inbox says.                            *)
(***************************************************************************)
EXTENDS MgrMessageProofs, WellFoundedInduction

-----------------------------------------------------------------------------
(* Induction over an interval, for a set: the library's theorems about     *)
(* well-founded relations have a form without an operator parameter.       *)

LEMMA LeastElement ==
  ASSUME NEW T, T \subseteq Nat, T # {}
  PROVE  \E x \in T : \A y \in T : x <= y
<1> DEFINE R == {ss \in Nat \X Nat : ss[1] < ss[2]}
<1>1. IsWellFoundedOn(R, Nat)
  BY NatLessThanWellFounded DEF OpToRel
<1>2. \A y, x \in Nat : y < x => <<y, x>> \in R
  OBVIOUS
<1> HIDE DEF R
<1>3. PICK x \in T : \A y \in T : ~ (<<y, x>> \in R)
  BY <1>1, WFMin
<1>4. \A y \in T : x <= y
  <2> SUFFICES ASSUME NEW y \in T PROVE x <= y
    OBVIOUS
  <2>1. x \in Nat /\ y \in Nat /\ ~(y < x)
    BY <1>2, <1>3
  <2> QED BY <2>1
<1> QED BY <1>4

LEMMA IntervalInduction ==
  ASSUME NEW h \in Nat, NEW T, 0 \in T,
         \A i \in 1..h : i - 1 \in T => i \in T
  PROVE  \A i \in 0..h : i \in T
<1> DEFINE U == {i \in 0..h : i \notin T}
<1> SUFFICES ASSUME U # {} PROVE FALSE
  OBVIOUS
<1>1. U \subseteq Nat /\ \A i \in 0..h : i \in U <=> i \notin T
  OBVIOUS
<1> HIDE DEF U
<1>2. PICK k \in U : \A j \in U : k <= j
  BY <1>1, LeastElement
<1>3. k \in 0..h /\ k \notin T
  BY DEF U
<1>4. k \in 1..h /\ k - 1 \in 0..h /\ ~(k <= k - 1)
  BY <1>3
<1>5. k - 1 \in T
  BY <1>1, <1>2, <1>4
<1> QED BY <1>3, <1>4, <1>5

-----------------------------------------------------------------------------
(* The length of a frame *)

LEMMA HeaderBase ==
  /\ HeaderLen \in Nat \ {0} /\ ByteBase \in Nat \ {0, 1}
  /\ Byte = 0..ByteBase - 1 /\ PeerMessage \subseteq ByteSeq
BY MgrAssumption

(* The recursion that defines the weights has a solution, so it holds of   *)
(* them.                                                                   *)
LEMMA WeightSteps ==
  Weight[0] = 1 /\ \A i \in 1..HeaderLen : Weight[i] = ByteBase * Weight[i - 1]
<1> DEFINE To(k, f) == /\ f \in [0..k -> Nat] /\ f[0] = 1
                       /\ \A i \in 1..k : f[i] = ByteBase * f[i - 1]
           T == {k \in 0..HeaderLen : \E f : To(k, f)}
<1> USE HeaderBase
<1>1. 0 \in T
  <2>1. To(0, [i \in 0..0 |-> 1])
    OBVIOUS
  <2> HIDE DEF To
  <2> QED BY <2>1
<1>2. ASSUME NEW k \in 1..HeaderLen, k - 1 \in T
      PROVE  k \in T
  <2>1. PICK f : To(k - 1, f)
    <3> HIDE DEF To
    <3> QED BY <1>2
  <2> DEFINE g == [i \in 0..k |-> IF i = k THEN ByteBase * f[k - 1] ELSE f[i]]
  <2>2. To(k, g)
    <3>1. f[k - 1] \in Nat
      BY <2>1
    <3>2. ByteBase * f[k - 1] \in Nat
      BY <3>1
    <3>3. g \in [0..k -> Nat]
      BY <2>1, <3>2
    <3>4. ASSUME NEW i \in 1..k PROVE g[i] = ByteBase * g[i - 1]
      <4>1. i \in 0..k /\ i - 1 \in 0..k /\ i - 1 # k
        OBVIOUS
      <4>2. g[i - 1] = f[i - 1]
        BY <4>1
      <4>3. CASE i = k
        BY <4>1, <4>2, <4>3
      <4>4. CASE i # k
        <5>1. i \in 1..k - 1 /\ g[i] = f[i]
          BY <4>1, <4>4
        <5> QED BY <2>1, <4>2, <5>1
      <4> QED BY <4>3, <4>4
    <3> QED BY <2>1, <3>3, <3>4
  <2> HIDE DEF To, g
  <2> QED BY <2>2
<1>3. PICK f : To(HeaderLen, f)
  <2> HIDE DEF To
  <2>1. HeaderLen \in T
    <3> HIDE DEF T
    <3> QED BY <1>1, <1>2, IntervalInduction
  <2> QED BY <2>1
<1> DEFINE step(w) == [i \in 0..HeaderLen |-> IF i = 0 THEN 1 ELSE ByteBase * w[i - 1]]
<1>4. f = step(f)
  <2>1. \A i \in 0..HeaderLen : f[i] = step(f)[i]
    BY <1>3
  <2> QED BY <1>3, <2>1
<1>5. Weight = step(Weight)
  BY <1>4 DEF Weight
<1> HIDE DEF step
<1>6. \A i \in 0..HeaderLen : Weight[i] = step(Weight)[i]
  BY <1>5
<1> QED BY <1>6 DEF step

LEMMA WeightTypes == \A i \in 0..HeaderLen : Weight[i] \in Nat \ {0}
<1> DEFINE T == {i \in 0..HeaderLen : Weight[i] \in Nat \ {0}}
<1> USE HeaderBase
<1>1. 0 \in T
  BY WeightSteps
<1>2. ASSUME NEW i \in 1..HeaderLen, i - 1 \in T
      PROVE  i \in T
  <2>1. Weight[i - 1] \in Nat \ {0} /\ Weight[i] = ByteBase * Weight[i - 1]
    BY <1>2, WeightSteps
  <2>2. Weight[i] \in Nat \ {0}
    BY <2>1
  <2> QED BY <2>2
<1> HIDE DEF T
<1>3. \A i \in 0..HeaderLen : i \in T
  BY <1>1, <1>2, IntervalInduction
<1> QED BY <1>3 DEF T

(* One more digit of n in base b.                                          *)
LEMMA NextDigit ==
  ASSUME NEW n \in Nat, NEW b \in Nat \ {0}, NEW w \in Nat \ {0}
  PROVE  n % (b * w) = (n % w) + ((n \div w) % b) * w
<1> DEFINE q == n \div w
           r == n % w
           p == q \div b
           s == q % b
<1>1. q \in Nat /\ r \in 0..w-1 /\ n = q * w + r
  OBVIOUS
<1>2. p \in Nat /\ s \in 0..b-1 /\ q = p * b + s
  BY <1>1
<1> HIDE DEF q, r, p, s
<1>3. n = p * (b * w) + (s * w + r)
  BY <1>1, <1>2
<1>4. s * w + r \in 0..(b * w) - 1
  <2>1. s * w <= (b - 1) * w /\ s * w \in Nat
    BY <1>2
  <2>2. (b - 1) * w = b * w - w
    BY <1>2
  <2> QED BY <1>1, <1>2, <2>1, <2>2
<1>5. n % (b * w) = s * w + r
  <2> DEFINE c == b * w
             t == s * w + r
  <2>1. c \in Nat \ {0} /\ t \in 0..c - 1 /\ n = p * c + t
     BY <1>3, <1>4
  <2> HIDE DEF c, t
  <2>2. n % c = t
     BY <1>2, <2>1
  <2> QED BY <2>2 DEF c, t
<1>6. s * w + r = r + s * w
  BY <1>1, <1>2
<1> QED BY <1>5, <1>6 DEF q, r, s

(* A header decodes to the length it was made from: the sum over the first *)
(* i bytes is the length modulo the weight of the next.                    *)
LEMMA DecodeEncode ==
  ASSUME NEW n \in Nat, n < Modulus, NEW buf,
         \A i \in 1..HeaderLen : buf[i] = LengthBytes(n)[i]
  PROVE  DecodeLength(buf) = n
<1> DEFINE step(f) == [i \in 0..HeaderLen |->
                         IF i = 0 THEN 0 ELSE f[i - 1] + buf[i] * Weight[i - 1]]
           rest == [i \in 0..HeaderLen |-> n % Weight[i]]
           upTo == CHOOSE f : f = step(f)
<1> USE HeaderBase
<1>1. \A i \in 1..HeaderLen : rest[i] = rest[i - 1] + buf[i] * Weight[i - 1]
  <2> SUFFICES ASSUME NEW i \in 1..HeaderLen
               PROVE  rest[i] = rest[i - 1] + buf[i] * Weight[i - 1]
    OBVIOUS
  <2> DEFINE w == Weight[i - 1]
  <2>1. /\ w \in Nat \ {0} /\ Weight[i] = ByteBase * w
        /\ i \in 0..HeaderLen /\ i - 1 \in 0..HeaderLen
    BY WeightSteps, WeightTypes
  <2>2. buf[i] = (n \div w) % ByteBase
    BY DEF LengthBytes
  <2> HIDE DEF w
  <2>3. n % (ByteBase * w) = (n % w) + ((n \div w) % ByteBase) * w
    BY <2>1, NextDigit
  <2> QED BY <2>1, <2>2, <2>3 DEF w
<1>2. rest[0] = 0
  BY WeightSteps
<1>3. rest = step(rest)
  <2>1. \A i \in 0..HeaderLen : rest[i] = step(rest)[i]
    <3> SUFFICES ASSUME NEW i \in 0..HeaderLen PROVE rest[i] = step(rest)[i]
      OBVIOUS
    <3>1. CASE i = 0
      BY <1>2, <3>1
    <3>2. CASE i # 0
      <4>1. i \in 1..HeaderLen
        BY <3>2
      <4> HIDE DEF rest
      <4>2. rest[i] = rest[i - 1] + buf[i] * Weight[i - 1]
        BY <1>1, <4>1
      <4> QED BY <3>2, <4>2
    <3> QED BY <3>1, <3>2
  <2>2. /\ step(rest) = [i \in 0..HeaderLen |-> step(rest)[i]]
        /\ rest = [i \in 0..HeaderLen |-> rest[i]]
    OBVIOUS
  <2> HIDE DEF rest, step
  <2> QED BY <2>1, <2>2
<1>4. upTo = step(upTo)
  BY <1>3
<1> HIDE DEF upTo, rest
<1>5. \A i \in 0..HeaderLen : upTo[i] = rest[i]
  <2> DEFINE T == {i \in 0..HeaderLen : upTo[i] = rest[i]}
  <2>1. \A i \in 0..HeaderLen : upTo[i] = step(upTo)[i]
    BY <1>4
  <2>2. 0 \in T
    BY <1>2, <2>1
  <2>3. ASSUME NEW i \in 1..HeaderLen, i - 1 \in T PROVE i \in T
    BY <1>1, <2>1, <2>3
  <2> HIDE DEF T
  <2>4. \A i \in 0..HeaderLen : i \in T
    BY <2>2, <2>3, IntervalInduction
  <2> QED BY <2>4 DEF T
<1>6. upTo[HeaderLen] = n
  <2>1. upTo[HeaderLen] = n % Weight[HeaderLen]
    BY <1>5 DEF rest
  <2>2. Weight[HeaderLen] \in Nat \ {0} /\ n < Weight[HeaderLen]
    BY WeightTypes DEF Modulus
  <2>3. n % Weight[HeaderLen] = n
    BY <2>2
  <2> QED BY <2>1, <2>3
<1> QED BY <1>6 DEF DecodeLength, upTo

-----------------------------------------------------------------------------
(* Frames in the stream *)

LEMMA ConcatFront ==
  ASSUME NEW S, NEW s \in Seq(S), NEW t \in Seq(S), NEW i \in 1..Len(s)
  PROVE  (s \o t)[i] = s[i]
<1>1. Len(s) \in Nat /\ Len(t) \in Nat
  BY LenProperties
<1>2. i \in 1..Len(s) + Len(t) /\ i <= Len(s)
  BY <1>1
<1> QED BY <1>2, ConcatProperties

LEMMA ConcatBack ==
  ASSUME NEW S, NEW s \in Seq(S), NEW t \in Seq(S), NEW i \in 1..Len(t)
  PROVE  (s \o t)[Len(s) + i] = t[i]
<1>1. Len(s) \in Nat /\ Len(t) \in Nat
  BY LenProperties
<1>2. /\ Len(s) + i \in 1..Len(s) + Len(t) /\ ~(Len(s) + i <= Len(s))
      /\ Len(s) + i - Len(s) = i
  BY <1>1
<1> QED BY <1>2, ConcatProperties

LEMMA PrefixIsSubSeq ==
  ASSUME NEW S, NEW s \in Seq(S), NEW t \in Seq(S), Len(t) <= Len(s),
         \A i \in 1..Len(t) : t[i] = s[i]
  PROVE  t = SubSeq(s, 1, Len(t))
<1>1. Len(s) \in Nat /\ Len(t) \in 0..Len(s)
  BY LenProperties
<1>2. SubSeq(s, 1, Len(t)) \in Seq(S) /\ Len(SubSeq(s, 1, Len(t))) = Len(t)
  BY <1>1, SplitAt
<1>3. \A i \in 1..Len(t) : SubSeq(s, 1, Len(t))[i] = s[i]
  <2>1. \A i \in 1..Len(t) : s[i] \in S
    BY <1>1, ElementOfSeq
  <2>2. \A i \in 1..Len(t) - 1 + 1 : SubSeq(s, 1, Len(t))[i] = s[1 + i - 1]
    BY <1>1, <2>1, SubSeqProperties
  <2>3. \A i \in 1..Len(t) : i \in 1..Len(t) - 1 + 1 /\ 1 + i - 1 = i
    BY <1>1
  <2> QED BY <2>2, <2>3
<1> QED BY <1>2, <1>3, SeqEqual

LEMMA FrameBytes ==
  ASSUME NEW m \in PeerMessage
  PROVE  /\ m \in Seq(Byte) /\ Len(m) \in Nat
         /\ HeaderLen + Len(m) \in 0..Modulus - 1 /\ Len(m) < Modulus
         /\ Encode(m) \in Seq(Byte) /\ Len(Encode(m)) = HeaderLen + Len(m)
         /\ \A i \in 1..HeaderLen : Encode(m)[i] = LengthBytes(Len(m))[i]
         /\ \A i \in 1..Len(m) : Encode(m)[HeaderLen + i] = m[i]
<1> DEFINE h == LengthBytes(Len(m))
<1> USE HeaderBase
<1>1. m \in Seq(Byte) /\ Len(m) \in Nat /\ Len(m) < Modulus - HeaderLen
  BY MgrAssumption DEF ByteSeq
<1>2. Modulus \in Nat
  BY WeightTypes DEF Modulus
<1>3. h \in Seq(Byte) /\ Len(h) = HeaderLen
  <2>1. ASSUME NEW i \in 1..HeaderLen
        PROVE  (Len(m) \div Weight[i - 1]) % ByteBase \in Byte
    <3>1. Weight[i - 1] \in Nat \ {0}
      BY WeightTypes
    <3>2. Len(m) \div Weight[i - 1] \in Nat
      BY <1>1, <3>1
    <3> QED BY <3>2
  <2> QED BY <2>1 DEF LengthBytes
<1> HIDE DEF h
<1>4. /\ h \o m \in Seq(Byte) /\ Len(h \o m) = HeaderLen + Len(m)
      /\ \A i \in 1..HeaderLen : (h \o m)[i] = h[i]
      /\ \A i \in 1..Len(m) : (h \o m)[HeaderLen + i] = m[i]
  <2> DEFINE u == h \o m
  <2>1. u \in Seq(Byte) /\ Len(u) = Len(h) + Len(m)
    BY <1>1, <1>3, ConcatProperties
  <2>2. \A i \in 1..Len(h) : u[i] = h[i]
    BY <1>1, <1>3, ConcatFront
  <2>3. \A i \in 1..Len(m) : u[Len(h) + i] = m[i]
    BY <1>1, <1>3, ConcatBack
  <2> HIDE DEF u
  <2> QED BY <1>3, <2>1, <2>2, <2>3 DEF u
<1> QED BY <1>1, <1>2, <1>4 DEF Encode, h

(* What one side frames the other decodes: the length the decoder reads is *)
(* that of the message, for every message the server sends.                *)
THEOREM FrameRoundTrip ==
  ASSUME NEW m \in PeerMessage
  PROVE  DecodeLength(Encode(m)) = Len(m)
BY FrameBytes, DecodeEncode

(* What the decoder has in hand is the next part of what was written.      *)
LEMMA ArrivedBytes ==
  ASSUME RecvInv, ErrInv, ioPc = "deliver"
  PROVE  /\ RecvData \in Seq(Byte) /\ Len(RecvData) \in Nat
         /\ Len(consumed) \in Nat /\ Len(peerSent) \in Nat
         /\ Len(consumed) + Len(RecvData) <= Len(peerSent)
         /\ \A i \in 1..Len(RecvData) : RecvData[i] = peerSent[Len(consumed) + i]
<1>1. missing = 0
  BY DEF RecvInv, RecvTypes, ErrInv, ErrorPcs
<1>2. /\ Filled = RecvData /\ RecvData \in Seq(Byte)
      /\ consumed \in Seq(Byte) /\ netIn \in Seq(Byte) /\ peerSent \in Seq(Byte)
  BY <1>1, FilledWhole DEF RecvInv, RecvTypes, ByteSeq
<1>3. /\ Len(RecvData) \in Nat /\ Len(consumed) \in Nat /\ Len(netIn) \in Nat
      /\ Len(peerSent) \in Nat
  BY <1>2, LenProperties
<1> DEFINE had == consumed \o RecvData
           all == had \o netIn
<1>4. /\ had \in Seq(Byte) /\ Len(had) = Len(consumed) + Len(RecvData)
      /\ \A i \in 1..Len(RecvData) : had[Len(consumed) + i] = RecvData[i]
  BY <1>2, ConcatProperties, ConcatBack
<1> HIDE DEF had
<1>5. /\ all \in Seq(Byte) /\ Len(all) = Len(had) + Len(netIn)
      /\ \A i \in 1..Len(had) : all[i] = had[i]
  BY <1>2, <1>4, ConcatProperties, ConcatFront
<1>6. Len(all) <= Len(peerSent) /\ \A i \in 1..Len(all) : all[i] = peerSent[i]
  <2>1. Len(all) <= Len(peerSent) /\ all = SubSeq(peerSent, 1, Len(all))
    BY <1>2 DEF RecvInv, ReceivedStream, had
  <2> HIDE DEF all
  <2>2. Len(all) \in 0..Len(peerSent)
    BY <1>3, <1>4, <1>5, <2>1
  <2>3. \A i \in 1..Len(all) : peerSent[i] \in Byte
    BY <1>2, <1>3, <2>2, ElementOfSeq
  <2>4. \A i \in 1..Len(all) - 1 + 1 :
          SubSeq(peerSent, 1, Len(all))[i] = peerSent[1 + i - 1]
    BY <2>2, <2>3, SubSeqProperties
  <2>5. \A i \in 1..Len(all) : i \in 1..Len(all) - 1 + 1 /\ 1 + i - 1 = i
    BY <2>2
  <2> QED BY <2>1, <2>4, <2>5
<1> HIDE DEF all
<1>7. \A i \in 1..Len(RecvData) : Len(consumed) + i \in 1..Len(had)
                                  /\ Len(consumed) + i \in 1..Len(all)
  BY <1>3, <1>4, <1>5
<1>8. Len(consumed) + Len(RecvData) <= Len(peerSent)
  BY <1>3, <1>4, <1>5, <1>6
<1> QED BY <1>2, <1>3, <1>4, <1>5, <1>6, <1>7, <1>8

-----------------------------------------------------------------------------
(* The frames tile the stream.  ends[k] is where the k-th frame ends in    *)
(* what the server has written and will write of the messages it has       *)
(* begun; the decoder stands at the end of the last frame it has taken.    *)

Stream == peerSent \o peerRest

FrameEnds(ends) ==
  /\ ends \in [0..Len(peerMsgs) -> Nat] /\ ends[0] = 0
  /\ \A k \in 1..Len(peerMsgs) :
       ends[k] = ends[k - 1] + (HeaderLen + Len(peerMsgs[k]))
  /\ Len(Stream) = ends[Len(peerMsgs)]

Frames(ends) ==
  \A k \in 1..Len(peerMsgs) : \A i \in 1..HeaderLen + Len(peerMsgs[k]) :
    Stream[ends[k - 1] + i] = Encode(peerMsgs[k])[i]

DecodedSoFar(ends) ==
  /\ Len(decoded) <= Len(peerMsgs)
  /\ \A i \in 1..Len(decoded) : decoded[i] = peerMsgs[i]
  /\ Len(consumed) = ends[Len(decoded)]

WireTypes ==
  /\ peerMsgs \in Seq(PeerMessage) /\ decoded \in Seq(PeerMessage)
  /\ peerRest \in Seq(Byte) /\ peerSent \in Seq(Byte) /\ consumed \in Seq(Byte)

WireInv ==
  /\ WireTypes
  /\ \E ends : FrameEnds(ends) /\ Frames(ends) /\ DecodedSoFar(ends)

NothingWritten ==
  /\ peerMsgs = << >> /\ decoded = << >> /\ peerRest = << >>
  /\ peerSent = << >> /\ consumed = << >>

LEMMA WireEmpty == NothingWritten => WireInv
<1> SUFFICES ASSUME NothingWritten PROVE WireInv
  OBVIOUS
<1> USE DEF NothingWritten
<1> DEFINE ends == [i \in 0..0 |-> 0]
<1>1. WireTypes
  BY EmptySeq DEF WireTypes
<1>2. Stream = << >> /\ Len(Stream) = 0 /\ Len(peerMsgs) = 0 /\ Len(decoded) = 0
      /\ Len(consumed) = 0
  BY EmptySeq, ConcatEmptySeq DEF Stream
<1>3. FrameEnds(ends)
  BY <1>2 DEF FrameEnds
<1>4. Frames(ends) /\ DecodedSoFar(ends)
  BY <1>2 DEF Frames, DecodedSoFar
<1> HIDE DEF ends
<1> QED BY <1>1, <1>3, <1>4 DEF WireInv

(* No frame ends after the stream.                                         *)
LEMMA EndsGrow ==
  ASSUME WireTypes, NEW ends, FrameEnds(ends), NEW k \in 0..Len(peerMsgs)
  PROVE  ends[k] \in Nat /\ Len(Stream) \in Nat /\ ends[k] <= Len(Stream)
<1> DEFINE c == Len(peerMsgs)
           T == {j \in 0..c : ends[c - j] <= ends[c]}
<1>1. c \in Nat
  BY LenProperties DEF WireTypes
<1>2. /\ ends \in [0..c -> Nat] /\ Len(Stream) = ends[c]
      /\ \A j \in 1..c : ends[j] = ends[j - 1] + (HeaderLen + Len(peerMsgs[j]))
  BY DEF FrameEnds
<1>3. 0 \in T
  BY <1>1, <1>2
<1>4. ASSUME NEW j \in 1..c, j - 1 \in T
      PROVE  j \in T
  <2>1. /\ j \in 0..c /\ c - j \in 0..c /\ c - j + 1 \in 1..c /\ c \in 0..c
        /\ c - j + 1 \in 0..c /\ c - (j - 1) = c - j + 1 /\ (c - j + 1) - 1 = c - j
    BY <1>1
  <2>2. ends[c - j + 1] <= ends[c]
    BY <1>4, <2>1
  <2>3. ends[c - j + 1] = ends[c - j] + (HeaderLen + Len(peerMsgs[c - j + 1]))
    BY <1>2, <2>1
  <2>4. HeaderLen + Len(peerMsgs[c - j + 1]) \in Nat
    <3>1. peerMsgs[c - j + 1] \in PeerMessage
      BY <2>1, ElementOfSeq DEF WireTypes
    <3> QED BY <3>1, FrameBytes, HeaderBase
  <2>5. ends[c - j] \in Nat /\ ends[c] \in Nat
    BY <1>2, <2>1
  <2>6. ends[c - j] <= ends[c]
    BY <2>2, <2>3, <2>4, <2>5
  <2> QED BY <2>1, <2>6
<1>5. c - k \in 0..c /\ c - (c - k) = k /\ k \in 0..c /\ c \in 0..c
  BY <1>1
<1> HIDE DEF T
<1>6. c - k \in T
  <2> HIDE DEF c
  <2> QED BY <1>1, <1>3, <1>4, <1>5, IntervalInduction
<1> QED BY <1>2, <1>5, <1>6 DEF T

LEMMA WireKept ==
  ASSUME WireInv, UNCHANGED <<peerMsgs, decoded, consumed>>, Stream' = Stream,
         peerRest' \in Seq(Byte), peerSent' \in Seq(Byte)
  PROVE  WireInv'
<1>1. WireTypes'
  BY DEF WireInv, WireTypes
<1>2. PICK ends : FrameEnds(ends) /\ Frames(ends) /\ DecodedSoFar(ends)
  BY DEF WireInv
<1>3. FrameEnds(ends)'
  BY <1>2 DEF FrameEnds
<1>4. Frames(ends)'
  BY <1>2 DEF Frames, Encode, LengthBytes
<1>5. DecodedSoFar(ends)'
  BY <1>2 DEF DecodedSoFar
<1> QED BY <1>1, <1>3, <1>4, <1>5 DEF WireInv

(* The server begins a message: one more frame at the end of the stream.   *)
LEMMA WireNewFrame ==
  ASSUME WireInv, NEW m \in PeerMessage, Stream' = Stream \o Encode(m),
         peerMsgs' = Append(peerMsgs, m), UNCHANGED <<decoded, consumed>>,
         peerRest' \in Seq(Byte), peerSent' \in Seq(Byte)
  PROVE  WireInv'
<1> DEFINE c == Len(peerMsgs)
           e == Encode(m)
           l == HeaderLen + Len(m)
<1>1. /\ c \in Nat /\ Len(peerMsgs') = c + 1 /\ peerMsgs' \in Seq(PeerMessage)
      /\ \A k \in 1..c : peerMsgs'[k] = peerMsgs[k]
      /\ peerMsgs'[c + 1] = m
  BY AppendProperties, LenProperties DEF WireInv, WireTypes
<1>2. WireTypes'
  BY <1>1 DEF WireInv, WireTypes
<1>3. PICK ends : FrameEnds(ends) /\ Frames(ends) /\ DecodedSoFar(ends)
  BY DEF WireInv
<1>4. /\ Stream \in Seq(Byte) /\ Len(Stream) \in Nat
      /\ e \in Seq(Byte) /\ Len(e) = l /\ l \in Nat
  <2>1. Stream \in Seq(Byte)
    BY ConcatProperties DEF Stream, WireInv, WireTypes
  <2> QED BY <2>1, FrameBytes, LenProperties, HeaderBase
<1> HIDE DEF e, l
<1>5. /\ Len(Stream') = Len(Stream) + l
      /\ \A i \in 1..Len(Stream) : Stream'[i] = Stream[i]
      /\ \A i \in 1..l : Stream'[Len(Stream) + i] = e[i]
  <2> DEFINE longer == Stream'
  <2>1. longer = Stream \o e
    BY DEF e
  <2> HIDE DEF longer
  <2>2. Len(longer) = Len(Stream) + Len(e)
    BY <1>4, <2>1, ConcatProperties
  <2>3. \A i \in 1..Len(Stream) : longer[i] = Stream[i]
    BY <1>4, <2>1, ConcatFront
  <2>4. \A i \in 1..Len(e) : longer[Len(Stream) + i] = e[i]
    BY <1>4, <2>1, ConcatBack
  <2> QED BY <1>4, <2>2, <2>3, <2>4 DEF longer
<1>6. /\ ends \in [0..c -> Nat] /\ ends[0] = 0 /\ Len(Stream) = ends[c]
      /\ \A k \in 1..c : ends[k] = ends[k - 1] + (HeaderLen + Len(peerMsgs[k]))
  BY <1>3 DEF FrameEnds
<1>7. PICK more : /\ more \in [0..c + 1 -> Nat]
                  /\ more[c + 1] = Len(Stream) + l
                  /\ \A k \in 0..c : more[k] = ends[k]
  <2> DEFINE more == [k \in 0..c + 1 |-> IF k = c + 1 THEN Len(Stream) + l
                                                      ELSE ends[k]]
  <2>1. /\ more \in [0..c + 1 -> Nat] /\ more[c + 1] = Len(Stream) + l
        /\ \A k \in 0..c : more[k] = ends[k]
    BY <1>1, <1>4, <1>6
  <2> HIDE DEF more
  <2> QED BY <2>1
<1>8. FrameEnds(more)'
  <2>1. ASSUME NEW k \in 1..c + 1
        PROVE  more[k] = more[k - 1] + (HeaderLen + Len(peerMsgs'[k]))
    <3>1. CASE k = c + 1
      <4>1. k - 1 = c /\ c \in 0..c
        BY <1>1, <3>1
      <4> QED BY <1>1, <1>6, <1>7, <3>1, <4>1 DEF l
    <3>2. CASE k # c + 1
      <4>1. k \in 1..c /\ k \in 0..c /\ k - 1 \in 0..c
        BY <1>1, <3>2
      <4> QED BY <1>1, <1>6, <1>7, <4>1
    <3> QED BY <3>1, <3>2
  <2>2. 0 \in 0..c
    BY <1>1
  <2>3. more[0] = 0
    BY <1>6, <1>7, <2>2
  <2> QED BY <1>1, <1>5, <1>7, <2>1, <2>3 DEF FrameEnds
<1>9. Frames(more)'
  <2> SUFFICES ASSUME NEW k \in 1..c + 1, NEW i \in 1..HeaderLen + Len(peerMsgs'[k])
               PROVE  Stream'[more[k - 1] + i] = Encode(peerMsgs'[k])[i]
    BY <1>1 DEF Frames, Encode, LengthBytes
  <2>1. CASE k = c + 1
    <3>1. k - 1 = c /\ c \in 0..c
      BY <1>1, <2>1
    <3>2. more[k - 1] = Len(Stream) /\ i \in 1..l /\ Encode(peerMsgs'[k]) = e
      BY <1>1, <1>6, <1>7, <2>1, <3>1 DEF l, e
    <3> QED BY <1>5, <3>2
  <2>2. CASE k # c + 1
    <3>1. /\ k \in 1..c /\ k - 1 \in 0..c /\ peerMsgs'[k] = peerMsgs[k]
          /\ k \in 0..c
      BY <1>1, <2>2
    <3>2. Stream[ends[k - 1] + i] = Encode(peerMsgs[k])[i]
      BY <1>3, <3>1 DEF Frames
    <3>3. ends[k - 1] + i \in 1..Len(Stream)
      <4> DEFINE before == ends[k - 1]
                 size == HeaderLen + Len(peerMsgs[k])
      <4>1. ends[k] <= Len(Stream)
        BY <1>3, <3>1, EndsGrow DEF WireInv
      <4>2. before \in Nat /\ ends[k] = before + size
        BY <1>6, <3>1
      <4>3. size \in Nat /\ i \in 1..size
        <5>1. peerMsgs[k] \in PeerMessage
          BY <3>1, ElementOfSeq DEF WireInv, WireTypes
        <5> QED BY <3>1, <5>1, FrameBytes, HeaderBase
      <4> HIDE DEF before, size
      <4>4. before + i \in 1..Len(Stream)
        BY <1>4, <4>1, <4>2, <4>3
      <4> QED BY <4>4 DEF before
    <3> QED BY <1>5, <1>7, <3>1, <3>2, <3>3
  <2> QED BY <2>1, <2>2
<1>10. DecodedSoFar(more)'
  <2>1. Len(decoded) <= c /\ Len(decoded) \in Nat
    BY <1>3, LenProperties DEF DecodedSoFar, WireInv, WireTypes
  <2>2. Len(decoded) \in 0..c /\ Len(decoded) <= c + 1
    BY <1>1, <2>1
  <2>3. \A i \in 1..Len(decoded) : decoded[i] = peerMsgs'[i]
    BY <1>1, <1>3, <2>1 DEF DecodedSoFar
  <2>4. Len(consumed) = more[Len(decoded)]
    BY <1>3, <1>7, <2>2 DEF DecodedSoFar
  <2> QED BY <1>1, <2>2, <2>3, <2>4 DEF DecodedSoFar
<1> QED BY <1>2, <1>8, <1>9, <1>10 DEF WireInv

(* What is in hand when the decoder finds a frame ready: the next message  *)
(* the server has begun is there whole, and its length is not cut.         *)
LEMMA FrameInHand ==
  ASSUME WireTypes, NEW ends, FrameEnds(ends), Frames(ends), DecodedSoFar(ends),
         RecvInv, ErrInv, ioPc = "deliver", FrameReady
  PROVE  LET k == Len(decoded) + 1
             m == peerMsgs[k]
         IN  /\ k \in 1..Len(peerMsgs) /\ m \in PeerMessage
             /\ DecodeLength(RecvData) = Len(m)
             /\ (HeaderLen + Len(m)) % Modulus = HeaderLen + Len(m)
             /\ HeaderLen + Len(m) \in 1..Len(RecvData)
             /\ SubSeq(RecvData, HeaderLen + 1, HeaderLen + Len(m)) = m
<1> DEFINE c == Len(peerMsgs)
           k == Len(decoded) + 1
           m == peerMsgs[k]
           at == Len(consumed)
           size == HeaderLen + Len(m)
<1>1. /\ RecvData \in Seq(Byte) /\ Len(RecvData) \in Nat
      /\ at \in Nat /\ Len(peerSent) \in Nat
      /\ at + Len(RecvData) <= Len(peerSent)
      /\ \A i \in 1..Len(RecvData) : RecvData[i] = peerSent[at + i]
  BY ArrivedBytes
<1>2. c \in Nat /\ Len(decoded) \in 0..c /\ at = ends[Len(decoded)]
  BY LenProperties DEF WireTypes, DecodedSoFar
<1>3. /\ Len(Stream) = Len(peerSent) + Len(peerRest) /\ Len(peerRest) \in Nat
  BY ConcatProperties, LenProperties DEF WireTypes, Stream
<1>4. \A i \in 1..Len(peerSent) : Stream[i] = peerSent[i]
  BY ConcatFront DEF WireTypes, Stream
<1>5. Len(RecvData) > HeaderLen
  BY DEF FrameReady
<1>6. k \in 1..c
  <2>1. CASE Len(decoded) = c
    <3>1. at = Len(Stream)
      BY <1>2, <2>1 DEF FrameEnds
    <3> HIDE DEF at
    <3> QED BY <1>1, <1>3, <1>5, <3>1, HeaderBase
  <2> QED BY <1>2, <2>1
<1>7. m \in PeerMessage
  BY <1>6, ElementOfSeq DEF WireTypes
<1> HIDE DEF m
<1>8. /\ m \in Seq(Byte) /\ Len(m) \in Nat /\ size \in 0..Modulus - 1
      /\ Len(m) < Modulus /\ HeaderLen \in Nat \ {0}
  BY <1>7, FrameBytes, HeaderBase
<1>9. \A i \in 1..Len(RecvData) : i <= size => RecvData[i] = Encode(m)[i]
  <2> SUFFICES ASSUME NEW i \in 1..Len(RecvData), i <= size
               PROVE  RecvData[i] = Encode(m)[i]
    OBVIOUS
  <2>1. i \in 1..size
    BY <1>1, <1>8
  <2>2. at + i \in 1..Len(peerSent)
    <3> HIDE DEF at
    <3> QED BY <1>1
  <2>3. k - 1 = Len(decoded)
    BY <1>2
  <2>4. Stream[ends[k - 1] + i] = Encode(m)[i]
    BY <1>6, <2>1 DEF Frames, m
  <2> QED BY <1>1, <1>2, <1>4, <2>2, <2>3, <2>4
<1>10. DecodeLength(RecvData) = Len(m)
  <2>1. \A i \in 1..HeaderLen : RecvData[i] = LengthBytes(Len(m))[i]
    <3>1. \A i \in 1..HeaderLen : i \in 1..Len(RecvData) /\ i <= size
      BY <1>1, <1>5, <1>8
    <3>2. \A i \in 1..HeaderLen : Encode(m)[i] = LengthBytes(Len(m))[i]
      BY <1>7, FrameBytes
    <3> QED BY <1>9, <3>1, <3>2
  <2> QED BY <1>8, <2>1, DecodeEncode
<1>11. size % Modulus = size
  <2>1. Modulus \in Nat \ {0}
    BY WeightTypes, HeaderBase DEF Modulus
  <2> HIDE DEF size
  <2> QED BY <1>8, <2>1
<1>12. size \in 1..Len(RecvData)
  <2>1. Len(RecvData) >= size
    BY <1>10, <1>11 DEF FrameReady
  <2> QED BY <1>1, <1>8, <2>1
<1> DEFINE body == SubSeq(RecvData, HeaderLen + 1, size)
<1>13. body = m
  <2>1. \A i \in HeaderLen + 1..size : RecvData[i] \in Byte
    BY <1>1, <1>8, <1>12, ElementOfSeq
  <2>2. /\ body \in Seq(Byte)
        /\ Len(body) = IF HeaderLen + 1 <= size THEN size - (HeaderLen + 1) + 1 ELSE 0
        /\ \A i \in 1..size - (HeaderLen + 1) + 1 :
             body[i] = RecvData[HeaderLen + 1 + i - 1]
    BY <1>8, <2>1, SubSeqProperties
  <2> HIDE DEF body
  <2>3. Len(body) = Len(m)
    BY <1>8, <2>2
  <2>4. ASSUME NEW i \in 1..Len(m) PROVE body[i] = m[i]
    <3>1. /\ HeaderLen + 1 + i - 1 = HeaderLen + i
          /\ HeaderLen + i \in 1..Len(RecvData) /\ HeaderLen + i <= size
          /\ i \in 1..size - (HeaderLen + 1) + 1
      BY <1>1, <1>8, <1>12
    <3>2. body[i] = RecvData[HeaderLen + i]
      BY <2>2, <3>1
    <3>3. RecvData[HeaderLen + i] = Encode(m)[HeaderLen + i]
      BY <1>9, <3>1
    <3>4. Encode(m)[HeaderLen + i] = m[i]
      BY <1>7, FrameBytes
    <3> QED BY <3>2, <3>3, <3>4
  <2> QED BY <1>8, <2>2, <2>3, <2>4, SeqEqual
<1> QED BY <1>6, <1>7, <1>10, <1>11, <1>12, <1>13 DEF m

LEMMA WireDecode ==
  ASSUME WireInv, RecvInv, ErrInv, ioPc = "deliver", FrameReady, Decode
  PROVE  WireInv'
<1> DEFINE k == Len(decoded) + 1
           m == peerMsgs[k]
           size == HeaderLen + Len(m)
<1>1. PICK ends : FrameEnds(ends) /\ Frames(ends) /\ DecodedSoFar(ends)
  BY DEF WireInv
<1>2. WireTypes
  BY DEF WireInv
<1>3. /\ k \in 1..Len(peerMsgs) /\ m \in PeerMessage
      /\ DecodeLength(RecvData) = Len(m)
      /\ size % Modulus = size /\ size \in 1..Len(RecvData)
      /\ SubSeq(RecvData, HeaderLen + 1, size) = m
  BY <1>1, <1>2, FrameInHand
<1> HIDE DEF m, size
<1>4. /\ CallbackConsume(size) /\ decoded' = Append(decoded, m)
      /\ UNCHANGED <<peerMsgs, peerRest>>
  BY <1>3 DEF Decode, peerVars, size
<1>5. /\ consumed' = consumed \o SubSeq(RecvData, 1, size)
      /\ UNCHANGED peerSent
  BY <1>4 DEF CallbackConsume
<1>6. RecvData \in Seq(Byte)
  BY ArrivedBytes
<1>7. consumed' \in Seq(Byte) /\ Len(consumed') = Len(consumed) + size
  <2>1. size \in 0..Len(RecvData)
    BY <1>3
  <2>2. SubSeq(RecvData, 1, size) \in Seq(Byte) /\ Len(SubSeq(RecvData, 1, size)) = size
    BY <1>6, <2>1, SplitAt
  <2> QED BY <1>2, <1>5, <2>2, ConcatProperties DEF WireTypes
<1>8. /\ decoded' \in Seq(PeerMessage) /\ Len(decoded') = k
      /\ \A i \in 1..Len(decoded) : decoded'[i] = decoded[i]
      /\ decoded'[k] = m /\ Len(decoded) \in Nat
  BY <1>2, <1>3, <1>4, AppendProperties, LenProperties DEF WireTypes
<1>9. WireTypes'
  BY <1>2, <1>4, <1>5, <1>7, <1>8 DEF WireTypes
<1>10. Stream' = Stream
  BY <1>4, <1>5 DEF Stream
<1>11. FrameEnds(ends)'
  BY <1>1, <1>4, <1>10 DEF FrameEnds
<1>12. Frames(ends)'
  BY <1>1, <1>4, <1>10 DEF Frames, Encode, LengthBytes
<1>13. DecodedSoFar(ends)'
  <2>1. Len(decoded') <= Len(peerMsgs)
    BY <1>3, <1>8
  <2>2. \A i \in 1..Len(decoded') : decoded'[i] = peerMsgs[i]
    <3> SUFFICES ASSUME NEW i \in 1..k PROVE decoded'[i] = peerMsgs[i]
      BY <1>8
    <3>1. CASE i = k
      BY <1>8, <3>1 DEF m
    <3>2. CASE i # k
      <4>1. i \in 1..Len(decoded)
        BY <1>8, <3>2
      <4> QED BY <1>1, <1>8, <4>1 DEF DecodedSoFar
    <3> QED BY <3>1, <3>2
  <2>3. Len(consumed') = ends[Len(decoded')]
    <3>1. ends[k] = ends[k - 1] + size
      BY <1>1, <1>3 DEF FrameEnds, size, m
    <3>2. k - 1 = Len(decoded) /\ Len(consumed) = ends[Len(decoded)]
      BY <1>1, <1>8 DEF DecodedSoFar
    <3> QED BY <1>7, <1>8, <3>1, <3>2
  <2> QED BY <1>4, <2>1, <2>2, <2>3 DEF DecodedSoFar
<1> QED BY <1>9, <1>11, <1>12, <1>13 DEF WireInv

(* What the server writes was still to write, or begins a new frame.       *)
LEMMA WirePeerWrites ==
  ASSUME WireInv, NEW m \in PeerMessage, NEW n, PeerWrites(m, n)
  PROVE  WireInv'
<1> DEFINE bytes == IF peerRest = << >> THEN Encode(m) ELSE peerRest
           now == SubSeq(bytes, 1, n)
           rest == SubSeq(bytes, n + 1, Len(bytes))
<1>1. /\ n \in 1..Len(bytes) /\ peerSent' = peerSent \o now /\ peerRest' = rest
      /\ peerMsgs' = IF peerRest = << >> THEN Append(peerMsgs, m) ELSE peerMsgs
      /\ UNCHANGED <<decoded, consumed>>
  BY DEF PeerWrites, PeerSends, mgrVars, inVars
<1>2. WireTypes /\ bytes \in Seq(Byte)
  BY FrameBytes DEF WireInv, WireTypes
<1> HIDE DEF bytes
<1>3. n \in 0..Len(bytes)
  BY <1>1, <1>2, LenProperties
<1>4. now \in Seq(Byte) /\ rest \in Seq(Byte) /\ bytes = now \o rest
  BY <1>2, <1>3, SplitAt
<1> HIDE DEF now, rest
<1>5. peerSent' \in Seq(Byte) /\ peerRest' \in Seq(Byte)
  BY <1>1, <1>2, <1>4, ConcatProperties DEF WireTypes
<1>6. Stream' = peerSent \o bytes
  <2>1. peerSent \in Seq(Byte)
    BY <1>2 DEF WireTypes
  <2>2. (peerSent \o now) \o rest = peerSent \o (now \o rest)
    BY <1>4, <2>1, ConcatAssociative
  <2> QED BY <1>1, <1>4, <2>2 DEF Stream
<1>7. CASE peerRest = << >>
  <2>1. Stream = peerSent
    BY <1>2, <1>7, ConcatEmptySeq DEF WireTypes, Stream
  <2>2. Stream' = Stream \o Encode(m)
    BY <1>6, <1>7, <2>1 DEF bytes
  <2> QED BY <1>1, <1>5, <1>7, <2>2, WireNewFrame
<1>8. CASE peerRest # << >>
  <2>1. Stream' = Stream
    BY <1>6, <1>8 DEF Stream, bytes
  <2> QED BY <1>1, <1>5, <1>8, <2>1, WireKept
<1> QED BY <1>7, <1>8

LEMMA WireAlone ==
  ASSUME WireInv, UNCHANGED <<peerMsgs, peerRest, decoded, consumed, peerSent>>
  PROVE  WireInv'
<1>1. Stream' = Stream
  BY DEF Stream
<1> QED BY <1>1, WireKept DEF WireInv, WireTypes

LEMMA WireNewSession == NewSession => WireInv'
<1>1. NewSession => NothingWritten'
  BY DEF NewSession, Connect, NothingWritten
<1> QED BY <1>1, WireEmpty, PTL

LEMMA WireStep ==
  ASSUME WireInv, RecvInv, ErrInv, [MgrNext]_allVars
  PROVE  WireInv'
<1> DEFINE Alone == UNCHANGED <<peerMsgs, peerRest, decoded, consumed, peerSent>>
<1>1. CASE Initialize \/ MgrConnect
  BY <1>1, WireNewSession DEF Initialize, MgrConnect
<1>2. CASE MgrDisconnect \/ Deinitialize \/ MgrJoinDone \/ MgrExecuteTask
  <2>1. DisconnectAndEmpty \/ MgrJoinDone \/ MgrExecuteTask
    BY <1>2 DEF MgrDisconnect, Deinitialize
  <2>2. Alone
    BY <2>1 DEF DisconnectAndEmpty, Disconnect, MgrJoinDone, JoinDone,
                MgrExecuteTask, ExecuteTask, mgrVars, peerVars, inVars, vars
  <2> QED BY <2>2, WireAlone
<1>3. CASE (\E m \in AppMessage : SendMessage(m)) \/ TickDispatch \/ TickEnds
  <2>1. Alone
    BY <1>3 DEF SendMessage, Send, TickDispatch, TickEnds, mgrVars, peerVars,
                inVars, vars
  <2> QED BY <2>1, WireAlone
<1>4. CASE DecoderStep
  <2>1. CASE ioPc = "deliver" /\ FrameReady /\ Decode
    BY <2>1, WireDecode
  <2>2. CASE CallbackReturn /\ UNCHANGED <<mgrVars, peerVars>>
    <3>1. Alone
      BY <2>2 DEF CallbackReturn, mgrVars, peerVars, inVars
    <3> QED BY <3>1, WireAlone
  <2> QED BY <1>4, <2>1, <2>2 DEF DecoderStep
<1>5. CASE IoRunOutsideDecoder
  <2>1. /\ ioPc # "deliver" /\ IoThread
        /\ UNCHANGED <<peerMsgs, peerRest, decoded>>
    BY <1>5 DEF IoRunOutsideDecoder, mgrVars, peerVars
  <2>2. UNCHANGED <<consumed, peerSent>>
    BY <2>1 DEF IoThread, IoInit, InitFailsSilently, InitCannotConnect,
                InitConnects, IoRun, RunLoopTop, RunPeek, SendData, SendFails,
                RunCheck, RunPending, RecvSome, RecvFails, RunReceived,
                CallbackConsume, CallbackReturn, Exit, Goto, inVars
  <2> QED BY <2>1, <2>2, WireAlone
<1>6. CASE \E m \in PeerMessage, n \in 1..MaxIn : PeerWrites(m, n)
  BY <1>6, WirePeerWrites
<1>7. CASE NetworkStep \/ UNCHANGED allVars
  <2>1. Alone
    BY <1>7 DEF NetworkStep, PeerReads, LinkBreaks, mgrVars, peerVars, allVars,
                vars, inVars
  <2> QED BY <2>1, WireAlone
<1> QED BY <1>1, <1>2, <1>3, <1>4, <1>5, <1>6, <1>7 DEF MgrNext, MgrIoThread

(* The connection's invariants hold of UMgrMessage, which only does what   *)
(* the connection allows.                                                  *)
LEMMA MgrSessionInv == MgrSpec => [](SessionInv /\ SessionBounds)
<1>1. Init => SessionInv /\ SessionBounds
  <2>1. Init => LinkWithThread
    BY DEF Init, LinkWithThread
  <2>2. Init => SessionBounds
    <3> SUFFICES ASSUME Init PROVE SessionBounds
      OBVIOUS
    <3>1. session = 0 /\ closer = 0 /\ closedBy = << >>
      BY DEF Init, User
    <3> QED BY <3>1, ConstantsAssumption DEF SessionBounds
  <2> QED BY <2>1, <2>2, LifeInit, ErrInit, SendInit, RecvInit DEF SessionInv
<1>2. SessionInv /\ SessionBounds /\ [Next]_vars => (SessionInv /\ SessionBounds)'
  BY LifeStep, ErrStep, SendStep, RecvStep, LinkStep, BoundsStep DEF SessionInv
<1> QED BY <1>1, <1>2, MgrRefinesTcpThm, PTL

(* With UMgrMessage on top of it, its decoder taking bytes off RecvData    *)
(* when it likes, the connection is still the ByteSession of TcpSocket.    *)
THEOREM MgrSessionThm == MgrSpec => ImplementsByteSession
<1>1. Init => Session!Init
  BY DEF Init, Session!Init
<1>2. SessionInv => RecvInv
  BY DEF SessionInv
<1> QED BY <1>1, <1>2, MgrSessionInv, MgrRefinesTcpThm, SessionStep, PTL
           DEF ImplementsByteSession, Session!Spec

(* The frames tile the stream, and the decoder is at the end of one.       *)
THEOREM WireInvariant == MgrSpec => []WireInv
<1>1. MgrInit => WireInv
  BY WireEmpty DEF MgrInit, Init, NothingWritten
<1>2. WireInv /\ SessionInv /\ [MgrNext]_allVars => WireInv'
  BY WireStep DEF SessionInv
<1> QED BY <1>1, <1>2, MgrSessionInv, PTL DEF MgrSpec

(* However the network cuts the stream and whatever a callback leaves for  *)
(* the next, the decoder makes the server's messages of this connection,   *)
(* whole, in order and once.                                               *)
THEOREM DecodedThm == MgrSpec => []DecodedArePeerMessages
<1>1. WireInv => DecodedArePeerMessages
  <2> SUFFICES ASSUME WireInv PROVE DecodedArePeerMessages
    OBVIOUS
  <2>1. /\ peerMsgs \in Seq(PeerMessage) /\ decoded \in Seq(PeerMessage)
        /\ Len(decoded) <= Len(peerMsgs)
        /\ \A i \in 1..Len(decoded) : decoded[i] = peerMsgs[i]
    BY DEF WireInv, WireTypes, DecodedSoFar
  <2>2. decoded = SubSeq(peerMsgs, 1, Len(decoded))
    BY <2>1, PrefixIsSubSeq
  <2> QED BY <2>1, <2>2 DEF DecodedArePeerMessages
<1> QED BY <1>1, WireInvariant, PTL

-----------------------------------------------------------------------------
(* Types, and where the game thread can be *)

Queued == [session : 1..MaxSessions, n : Nat \ {0}, body : PeerMessage]

GameThreadInv ==
  /\ phase \in {"new", "on", "off"} /\ ticking \in BOOLEAN
  /\ ticking => gamePc = "idle"
  /\ phase = "new" => ~runnable /\ ~ticking /\ MessageQueue = << >>
  /\ ioPc = "init" => peerMsgs = << >>

QueueOfPeer ==
  /\ MessageQueue \in Seq(Queued)
  /\ lastDispatched \in [session : 0..MaxSessions, n : Nat]

(* A step after which the game thread is where it was, or is back from a   *)
(* wait, and that makes no connection.                                     *)
LEMMA GameThreadKept ==
  ASSUME GameThreadInv, UNCHANGED <<phase, ticking, runnable, peerMsgs>>,
         gamePc' \in {gamePc, "idle"}, ioPc' = "init" => ioPc = "init",
         phase = "new" => MessageQueue' = << >>
  PROVE  GameThreadInv'
BY DEF GameThreadInv

LEMMA GameThreadStep ==
  ASSUME GameThreadInv, SessionInv, [MgrNext]_allVars
  PROVE  GameThreadInv'
<1>0. Threads /\ LinkWithThread
  BY DEF SessionInv, LifeInv
<1> USE DEF Goto, gameVars, flagVars, mgrVars, peerVars
<1>1. CASE Initialize \/ MgrConnect
  <2>1. /\ phase' = "on" /\ ticking' = ticking /\ peerMsgs' = << >> /\ ~ticking
    BY <1>1 DEF Initialize, MgrConnect, NewSession, FreeGameThread, GameThreadInv
  <2> QED BY <2>1 DEF GameThreadInv
<1>2. CASE MgrDisconnect \/ Deinitialize
  <2>1. /\ DisconnectAndEmpty /\ phase = "on" /\ ~ticking
        /\ phase' \in {"on", "off"} /\ ticking' = ticking /\ peerMsgs' = peerMsgs
    BY <1>2 DEF MgrDisconnect, Deinitialize, FreeGameThread, DisconnectAndEmpty
  <2>2. ioPc' = ioPc
    BY <2>1 DEF DisconnectAndEmpty, Disconnect, vars
  <2> QED BY <2>1, <2>2 DEF GameThreadInv
<1>3. CASE MgrJoinDone
  <2>1. /\ gamePc = "joining" /\ UNCHANGED <<phase, ticking, peerMsgs, ioPc>>
    BY <1>3 DEF MgrJoinDone, JoinDone
  <2>2. runnable /\ ~ticking /\ phase # "new"
    BY <1>0, <2>1 DEF Threads, GameThreadInv
  <2> QED BY <2>1, <2>2 DEF GameThreadInv
<1>4. CASE MgrExecuteTask
  <2>1. /\ ~ticking /\ UNCHANGED <<phase, ticking, MessageQueue, peerMsgs, ioPc>>
        /\ runnable' = runnable
    BY <1>4 DEF MgrExecuteTask, ExecuteTask, StopAndJoin
  <2> QED BY <2>1 DEF GameThreadInv
<1>5. CASE (\E m \in AppMessage : SendMessage(m)) \/ NetworkStep
             \/ UNCHANGED allVars
  <2>1. UNCHANGED <<phase, ticking, MessageQueue, peerMsgs, ioPc, gamePc, runnable>>
    BY <1>5 DEF SendMessage, Send, NetworkStep, PeerReads, LinkBreaks, allVars, vars
  <2> QED BY <2>1 DEF GameThreadInv
<1>6. CASE TickDispatch \/ TickEnds
  <2>1. /\ gamePc = "idle" /\ ticking' \in BOOLEAN
        /\ UNCHANGED <<phase, peerMsgs, ioPc, gamePc, runnable>>
        /\ TickEnds => ticking' = FALSE /\ UNCHANGED MessageQueue
    BY <1>6 DEF TickDispatch, TickEnds, vars
  <2>2. TickDispatch => phase # "new"
    BY DEF TickDispatch, GameThreadInv
  <2> QED BY <1>6, <2>1, <2>2 DEF GameThreadInv
<1>7. CASE DecoderStep
  <2>1. /\ ioPc = "deliver" /\ ioPc' \in {"deliver", "top"}
        /\ UNCHANGED <<phase, ticking, peerMsgs, gamePc, runnable>>
    BY <1>7 DEF DecoderStep, Decode, CallbackConsume, CallbackReturn
  <2>2. phase # "new"
    BY <1>0, <2>1 DEF Threads, GameThreadInv
  <2> QED BY <2>1, <2>2 DEF GameThreadInv
<1>8. CASE IoRunOutsideDecoder
  <2>1. UNCHANGED <<phase, ticking, MessageQueue, peerMsgs>> /\ IoThread
    BY <1>8 DEF IoRunOutsideDecoder
  <2>2. /\ runnable' = runnable /\ gamePc' \in {gamePc, "idle"} /\ ioPc' # "init"
    <3>1. CASE IoInit
      BY <3>1 DEF IoInit, InitFailsSilently, InitCannotConnect, InitConnects
    <3>2. CASE IoRun \/ Exit
      BY <3>2 DEF IoRun, RunLoopTop, RunPeek, SendData, SendFails,
                  RunCheck, RunPending, RecvSome, RecvFails, RunReceived,
                  CallbackConsume, CallbackReturn, Exit
    <3> QED BY <2>1, <3>1, <3>2 DEF IoThread
  <2> QED BY <2>1, <2>2 DEF GameThreadInv
<1>9. CASE \E m \in PeerMessage, n \in 1..MaxIn : PeerWrites(m, n)
  <2>1. /\ link = "up"
        /\ UNCHANGED <<phase, ticking, MessageQueue, ioPc, gamePc, runnable>>
    BY <1>9 DEF PeerWrites, PeerSends
  <2>2. ioPc # "init"
    BY <1>0, <2>1 DEF LinkWithThread
  <2> QED BY <2>1, <2>2 DEF GameThreadInv
<1> QED BY <1>1, <1>2, <1>3, <1>4, <1>5, <1>6, <1>7, <1>8, <1>9
        DEF MgrNext, MgrIoThread

LEMMA QueueOfPeerStep ==
  ASSUME QueueOfPeer, SessionInv, SessionBounds, WireInv, WireInv',
         [MgrNext]_allVars
  PROVE  QueueOfPeer'
<1> DEFINE Same == UNCHANGED <<MessageQueue, lastDispatched>>
<1>0. Same => QueueOfPeer'
  BY DEF QueueOfPeer
<1>1. CASE TickDispatch
  <2>1. /\ MessageQueue # << >> /\ MessageQueue' = Tail(MessageQueue)
        /\ lastDispatched' = [session |-> Head(MessageQueue).session,
                              n |-> Head(MessageQueue).n]
    BY <1>1 DEF TickDispatch
  <2>2. Head(MessageQueue) \in Queued /\ Tail(MessageQueue) \in Seq(Queued)
    BY <2>1, HeadTailProperties DEF QueueOfPeer
  <2>3. lastDispatched' \in [session : 0..MaxSessions, n : Nat]
    BY <2>1, <2>2, ConstantsAssumption DEF Queued
  <2> QED BY <2>1, <2>2, <2>3 DEF QueueOfPeer, Queued
<1>2. CASE Decode
  <2> DEFINE body == SubSeq(RecvData, HeaderLen + 1,
                            HeaderLen + DecodeLength(RecvData))
             new == [session |-> session, n |-> Len(decoded'), body |-> body]
  <2>1. /\ decoded' = Append(decoded, body) /\ UNCHANGED lastDispatched
        /\ MessageQueue' = Append(MessageQueue, new)
        /\ ioPc = "deliver"
    BY <1>2 DEF Decode, CallbackConsume
  <2> HIDE DEF body
  <2>2. /\ decoded \in Seq(PeerMessage) /\ decoded' \in Seq(PeerMessage)
    BY DEF WireInv, WireTypes
  <2>3. /\ Len(decoded) \in Nat /\ Len(decoded') = Len(decoded) + 1
        /\ decoded'[Len(decoded) + 1] = body
    BY <2>1, <2>2, AppendAny DEF IsSeq
  <2>4. body \in PeerMessage /\ Len(decoded') \in Nat \ {0}
    <3>1. Len(decoded) + 1 \in 1..Len(decoded')
      BY <2>3
    <3>2. decoded'[Len(decoded) + 1] \in PeerMessage
      BY <2>2, <3>1, ElementOfSeq
    <3> QED BY <2>3, <3>2
  <2>5. session \in 1..MaxSessions
    <3>1. runnable
      BY <2>1 DEF SessionInv, LifeInv, Threads
    <3>2. session > 0 /\ session \in 0..MaxSessions
      BY <3>1 DEF SessionInv, LifeInv, Threads, SessionBounds
    <3> QED BY <3>2, ConstantsAssumption
  <2>6. new \in Queued
    BY <2>4, <2>5 DEF Queued
  <2> HIDE DEF new
  <2>7. MessageQueue' \in Seq(Queued)
    BY <2>1, <2>6, AppendProperties DEF QueueOfPeer
  <2> QED BY <2>1, <2>7 DEF QueueOfPeer, Queued
<1>3. CASE DisconnectAndEmpty \/ MgrJoinDone
  <2>1. MessageQueue' \in {MessageQueue, << >>} /\ UNCHANGED lastDispatched
    BY <1>3 DEF DisconnectAndEmpty, MgrJoinDone
  <2>2. << >> \in Seq(Queued)
    BY EmptySeq
  <2> QED BY <2>1, <2>2 DEF QueueOfPeer, Queued
<1>4. CASE Initialize \/ MgrConnect \/ MgrExecuteTask
             \/ (\E m \in AppMessage : SendMessage(m)) \/ TickEnds
             \/ IoRunOutsideDecoder
             \/ (CallbackReturn /\ UNCHANGED <<mgrVars, peerVars>>)
             \/ (\E m \in PeerMessage, n \in 1..MaxIn : PeerWrites(m, n))
             \/ NetworkStep \/ UNCHANGED allVars
  <2>1. Same
    BY <1>4 DEF Initialize, MgrConnect, MgrExecuteTask, SendMessage, TickEnds,
                IoRunOutsideDecoder, PeerWrites, NetworkStep, mgrVars, allVars
  <2> QED BY <1>0, <2>1
<1> QED BY <1>1, <1>2, <1>3, <1>4
        DEF MgrNext, MgrIoThread, DecoderStep, MgrDisconnect, Deinitialize

(* All that is known of UMgrMessage and the connection it owns.            *)
MgrInv ==
  SessionInv /\ SessionBounds /\ WireInv /\ GameThreadInv /\ QueueOfPeer

THEOREM MgrInvariant == MgrSpec => []MgrInv
<1>1. MgrInit => GameThreadInv /\ QueueOfPeer
  <2> SUFFICES ASSUME MgrInit PROVE GameThreadInv /\ QueueOfPeer
    OBVIOUS
  <2>1. /\ phase = "new" /\ ticking = FALSE /\ MessageQueue = << >> /\ ~runnable
        /\ lastDispatched = [session |-> 0, n |-> 0] /\ ioPc = "done"
    BY DEF MgrInit, Init
  <2>2. << >> \in Seq(Queued)
    BY EmptySeq
  <2>3. 0 \in 0..MaxSessions
    BY ConstantsAssumption
  <2> QED BY <2>1, <2>2, <2>3 DEF GameThreadInv, QueueOfPeer
<1>2. GameThreadInv /\ SessionInv /\ [MgrNext]_allVars => GameThreadInv'
  BY GameThreadStep
<1>3. QueueOfPeer /\ SessionInv /\ SessionBounds /\ WireInv /\ WireInv'
        /\ [MgrNext]_allVars => QueueOfPeer'
  BY QueueOfPeerStep
<1> QED BY <1>1, <1>2, <1>3, MgrSessionInv, WireInvariant, PTL
           DEF MgrSpec, MgrInv

(* UMgrMessage's variables have their types, and the game thread does not  *)
(* wait for a thread while it dispatches.                                  *)
THEOREM MgrTypeOKThm == MgrSpec => []MgrTypeOK
<1>1. MgrInv => MgrTypeOK
  <2> SUFFICES ASSUME MgrInv PROVE MgrTypeOK
    OBVIOUS
  <2>1. PeerMessage \subseteq ByteSeq
    BY MgrAssumption
  <2>2. /\ decoded \in Seq(ByteSeq) /\ peerMsgs \in Seq(PeerMessage)
        /\ peerRest \in ByteSeq
    BY <2>1 DEF MgrInv, WireInv, WireTypes, ByteSeq
  <2>3. MessageQueue \in Seq(QueuedMessage)
    <3>1. Queued \subseteq QueuedMessage
      BY <2>1 DEF Queued, QueuedMessage
    <3> QED BY <3>1 DEF MgrInv, QueueOfPeer
  <2> QED BY <2>2, <2>3 DEF MgrTypeOK, MgrInv, GameThreadInv, QueueOfPeer
<1> QED BY <1>1, MgrInvariant, PTL

-----------------------------------------------------------------------------
(* MgrMessage implements Inbox.  The client's sequence is the bodies in    *)
(* the queue, then what the server has begun to write and the decoder has  *)
(* not made: decoding moves a message from the one part to the other.      *)

Bodies(q) == [i \in 1..Len(q) |-> q[i].body]

ToClient == Bodies(MessageQueue) \o (IF Connected THEN Undecoded ELSE << >>)

LEMMA TailOfConcat ==
  ASSUME NEW S, NEW s \in Seq(S), NEW t \in Seq(S), s # << >>
  PROVE  s \o t # << >> /\ Tail(s \o t) = Tail(s) \o t
<1> DEFINE u == s \o t
           v == Tail(s) \o t
<1>1. Len(s) \in Nat \ {0} /\ Len(t) \in Nat
  BY LenProperties, EmptySeq
<1>2. u \in Seq(S) /\ Len(u) = Len(s) + Len(t)
  BY ConcatProperties
<1>3. Tail(s) \in Seq(S) /\ Len(Tail(s)) = Len(s) - 1
      /\ \A i \in 1..Len(Tail(s)) : Tail(s)[i] = s[i + 1]
  BY HeadTailProperties
<1>4. v \in Seq(S) /\ Len(v) = Len(Tail(s)) + Len(t)
  BY <1>3, ConcatProperties
<1>5. \A i \in 1..Len(s) : u[i] = s[i]
  BY ConcatFront
<1>6. \A i \in 1..Len(t) : u[Len(s) + i] = t[i]
  BY ConcatBack
<1>7. \A i \in 1..Len(Tail(s)) : v[i] = Tail(s)[i]
  BY <1>3, ConcatFront
<1>8. \A i \in 1..Len(t) : v[Len(Tail(s)) + i] = t[i]
  BY <1>3, ConcatBack
<1> HIDE DEF u, v
<1>9. u # << >>
  BY <1>1, <1>2, EmptySeq
<1>10. Tail(u) \in Seq(S) /\ Len(Tail(u)) = Len(u) - 1
       /\ \A i \in 1..Len(Tail(u)) : Tail(u)[i] = u[i + 1]
  BY <1>2, <1>9, HeadTailProperties
<1>11. Len(Tail(u)) = Len(v)
  BY <1>1, <1>2, <1>3, <1>4, <1>10
<1>12. ASSUME NEW i \in 1..Len(Tail(u)) PROVE Tail(u)[i] = v[i]
  <2>1. CASE i <= Len(s) - 1
    <3>1. i \in 1..Len(Tail(s)) /\ i + 1 \in 1..Len(s)
      BY <1>1, <1>3, <2>1
    <3> QED BY <1>3, <1>5, <1>7, <1>10, <3>1
  <2>2. CASE ~(i <= Len(s) - 1)
    <3> DEFINE j == i + 1 - Len(s)
    <3>1. /\ j \in 1..Len(t) /\ i + 1 = Len(s) + j /\ i = Len(Tail(s)) + j
      BY <1>1, <1>2, <1>3, <1>10, <2>2
    <3> HIDE DEF j
    <3> QED BY <1>6, <1>8, <1>10, <3>1
  <2> QED BY <2>1, <2>2
<1>13. Tail(u) = v
  BY <1>4, <1>10, <1>11, <1>12, SeqEqual
<1> QED BY <1>9, <1>13 DEF u, v

LEMMA RestOfAppend ==
  ASSUME NEW S, NEW s \in Seq(S), NEW x \in S, NEW k \in 0..Len(s)
  PROVE  SubSeq(Append(s, x), k + 1, Len(s) + 1)
           = Append(SubSeq(s, k + 1, Len(s)), x)
<1> DEFINE t == Append(s, x)
           u == SubSeq(t, k + 1, Len(s) + 1)
           v == SubSeq(s, k + 1, Len(s))
<1>1. /\ Len(s) \in Nat /\ t \in Seq(S) /\ Len(t) = Len(s) + 1
      /\ \A i \in 1..Len(s) : t[i] = s[i]
      /\ t[Len(s) + 1] = x
  BY LenProperties, AppendProperties
<1> HIDE DEF t
<1>2. \A i \in k + 1..Len(s) + 1 : t[i] \in S
  <2>1. \A i \in k + 1..Len(s) + 1 : i \in 1..Len(t)
    BY <1>1
  <2> QED BY <1>1, <2>1, ElementOfSeq
<1>3. /\ u \in Seq(S) /\ Len(u) = Len(s) - k + 1
      /\ \A i \in 1..Len(s) - k + 1 : u[i] = t[k + i]
  <2>1. /\ u \in Seq(S)
        /\ Len(u) = IF k + 1 <= Len(s) + 1 THEN Len(s) + 1 - (k + 1) + 1 ELSE 0
        /\ \A i \in 1..Len(s) + 1 - (k + 1) + 1 : u[i] = t[k + 1 + i - 1]
    BY <1>1, <1>2, SubSeqProperties
  <2> HIDE DEF u
  <2>2. \A i \in 1..Len(s) - k + 1 :
          i \in 1..Len(s) + 1 - (k + 1) + 1 /\ k + 1 + i - 1 = k + i
    BY <1>1
  <2> QED BY <1>1, <2>1, <2>2
<1>4. /\ v \in Seq(S) /\ Len(v) = Len(s) - k
      /\ \A i \in 1..Len(s) - k : v[i] = s[k + i]
  <2>1. \A i \in k + 1..Len(s) : s[i] \in S
    <3>1. \A i \in k + 1..Len(s) : i \in 1..Len(s)
      BY <1>1
    <3> QED BY <3>1, ElementOfSeq
  <2>2. /\ v \in Seq(S)
        /\ Len(v) = IF k + 1 <= Len(s) THEN Len(s) - (k + 1) + 1 ELSE 0
        /\ \A i \in 1..Len(s) - (k + 1) + 1 : v[i] = s[k + 1 + i - 1]
    BY <1>1, <2>1, SubSeqProperties
  <2> HIDE DEF v
  <2>3. \A i \in 1..Len(s) - k :
          i \in 1..Len(s) - (k + 1) + 1 /\ k + 1 + i - 1 = k + i
    BY <1>1
  <2> QED BY <1>1, <2>2, <2>3
<1> HIDE DEF u, v
<1>5. /\ Append(v, x) \in Seq(S) /\ Len(Append(v, x)) = Len(v) + 1
      /\ \A i \in 1..Len(v) : Append(v, x)[i] = v[i]
      /\ Append(v, x)[Len(v) + 1] = x
  BY <1>4, AppendProperties
<1>6. ASSUME NEW i \in 1..Len(u) PROVE u[i] = Append(v, x)[i]
  <2>1. CASE i = Len(s) - k + 1
    <3>1. k + i = Len(s) + 1 /\ i = Len(v) + 1 /\ i \in 1..Len(s) - k + 1
      BY <1>1, <1>4, <2>1
    <3> QED BY <1>1, <1>3, <1>5, <3>1
  <2>2. CASE i # Len(s) - k + 1
    <3>1. /\ i \in 1..Len(s) - k /\ i \in 1..Len(v) /\ k + i \in 1..Len(s)
          /\ i \in 1..Len(s) - k + 1
      BY <1>1, <1>3, <1>4, <2>2
    <3> QED BY <1>1, <1>3, <1>4, <1>5, <3>1
  <2> QED BY <2>1, <2>2
<1>7. u = Append(v, x)
  <2>1. Len(u) = Len(Append(v, x))
    BY <1>1, <1>3, <1>4, <1>5
  <2> QED BY <1>3, <1>5, <1>6, <2>1, SeqEqual
<1> QED BY <1>7 DEF u, v, t

LEMMA BodiesOf ==
  ASSUME NEW q \in Seq(Queued)
  PROVE  /\ Bodies(q) \in Seq(PeerMessage) /\ Len(Bodies(q)) = Len(q)
         /\ Len(q) \in Nat
         /\ \A i \in 1..Len(q) : Bodies(q)[i] = q[i].body
<1>1. Len(q) \in Nat
  BY LenProperties
<1>2. \A i \in 1..Len(q) : q[i].body \in PeerMessage
  <2>1. \A i \in 1..Len(q) : q[i] \in Queued
    BY ElementOfSeq
  <2> QED BY <2>1 DEF Queued
<1> QED BY <1>1, <1>2 DEF Bodies

LEMMA BodiesAppend ==
  ASSUME NEW q \in Seq(Queued), NEW x \in Queued
  PROVE  Bodies(Append(q, x)) = Append(Bodies(q), x.body)
<1> DEFINE p == Append(q, x)
           b == Bodies(q)
           c == Append(b, x.body)
<1>1. /\ p \in Seq(Queued) /\ Len(p) = Len(q) + 1
      /\ \A i \in 1..Len(q) : p[i] = q[i]
      /\ p[Len(q) + 1] = x
  BY AppendProperties
<1>2. /\ b \in Seq(PeerMessage) /\ Len(b) = Len(q) /\ Len(q) \in Nat
      /\ \A i \in 1..Len(q) : b[i] = q[i].body
  BY BodiesOf
<1> HIDE DEF p, b
<1>3. x.body \in PeerMessage
  BY DEF Queued
<1>4. /\ c \in Seq(PeerMessage) /\ Len(c) = Len(q) + 1
      /\ \A i \in 1..Len(q) : c[i] = b[i]
      /\ c[Len(q) + 1] = x.body
  BY <1>2, <1>3, AppendProperties
<1>5. /\ Bodies(p) \in Seq(PeerMessage) /\ Len(Bodies(p)) = Len(p)
      /\ \A i \in 1..Len(p) : Bodies(p)[i] = p[i].body
  BY <1>1, BodiesOf
<1> HIDE DEF c
<1>6. ASSUME NEW i \in 1..Len(p) PROVE Bodies(p)[i] = c[i]
  <2>1. CASE i = Len(q) + 1
    BY <1>1, <1>4, <1>5, <2>1
  <2>2. CASE i # Len(q) + 1
    <3>1. i \in 1..Len(q)
      BY <1>1, <1>2, <2>2
    <3> QED BY <1>1, <1>2, <1>4, <1>5, <3>1
  <2> QED BY <2>1, <2>2
<1>7. Bodies(p) = c
  BY <1>1, <1>4, <1>5, <1>6, SeqEqual
<1> QED BY <1>7 DEF p, c, b

LEMMA BodiesTail ==
  ASSUME NEW q \in Seq(Queued), q # << >>
  PROVE  Bodies(q) # << >> /\ Bodies(Tail(q)) = Tail(Bodies(q))
<1> DEFINE p == Tail(q)
           b == Bodies(q)
<1>1. /\ p \in Seq(Queued) /\ Len(p) = Len(q) - 1 /\ Len(q) \in Nat \ {0}
      /\ \A i \in 1..Len(p) : p[i] = q[i + 1]
  BY HeadTailProperties, LenProperties, EmptySeq
<1>2. /\ b \in Seq(PeerMessage) /\ Len(b) = Len(q)
      /\ \A i \in 1..Len(q) : b[i] = q[i].body
  BY BodiesOf
<1> HIDE DEF p, b
<1>3. b # << >>
  BY <1>1, <1>2, EmptySeq
<1>4. /\ Tail(b) \in Seq(PeerMessage) /\ Len(Tail(b)) = Len(b) - 1
      /\ \A i \in 1..Len(Tail(b)) : Tail(b)[i] = b[i + 1]
  BY <1>2, <1>3, HeadTailProperties
<1>5. /\ Bodies(p) \in Seq(PeerMessage) /\ Len(Bodies(p)) = Len(p)
      /\ \A i \in 1..Len(p) : Bodies(p)[i] = p[i].body
  BY <1>1, BodiesOf
<1>6. ASSUME NEW i \in 1..Len(p) PROVE Bodies(p)[i] = Tail(b)[i]
  <2>1. i + 1 \in 1..Len(q) /\ i \in 1..Len(Tail(b))
    BY <1>1, <1>2, <1>4
  <2> QED BY <1>1, <1>2, <1>4, <1>5, <2>1
<1>7. Bodies(p) = Tail(b)
  <2>1. Len(Tail(b)) = Len(p)
    BY <1>1, <1>2, <1>4
  <2> QED BY <1>4, <1>5, <1>6, <2>1, SeqEqual
<1> QED BY <1>3, <1>7 DEF p, b

LEMMA InboxTypes ==
  ASSUME MgrInv
  PROVE  /\ Bodies(MessageQueue) \in Seq(PeerMessage)
         /\ Undecoded \in Seq(PeerMessage) /\ ToClient \in Seq(PeerMessage)
         /\ peerMsgs \in Seq(PeerMessage) /\ Len(peerMsgs) \in Nat
         /\ Len(decoded) \in 0..Len(peerMsgs)
<1>1. Bodies(MessageQueue) \in Seq(PeerMessage)
  BY BodiesOf DEF MgrInv, QueueOfPeer
<1>2. /\ peerMsgs \in Seq(PeerMessage) /\ Len(peerMsgs) \in Nat
      /\ Len(decoded) \in Nat /\ Len(decoded) <= Len(peerMsgs)
  BY LenProperties DEF MgrInv, WireInv, WireTypes, DecodedSoFar
<1>3. Undecoded \in Seq(PeerMessage)
  BY <1>2, SplitAt DEF Undecoded
<1>4. << >> \in Seq(PeerMessage)
  BY EmptySeq
<1> QED BY <1>1, <1>2, <1>3, <1>4, ConcatProperties DEF ToClient

(* With no connection the sequence is what the queue holds.                *)
LEMMA InboxOffline == MgrInv /\ ~Connected => ToClient = Bodies(MessageQueue)
BY InboxTypes, ConcatEmptySeq DEF ToClient

LEMMA InboxOfflineNext ==
  (MgrInv /\ ~Connected => ToClient = Bodies(MessageQueue))'
BY InboxOffline, PTL

LEMMA InboxStutters ==
  ASSUME UNCHANGED <<Connected, ToClient>>
  PROVE  [In!Next]_In!vars
BY DEF In!vars, ToClient, Bodies

LEMMA InboxSame ==
  ASSUME Connected' = Connected, UNCHANGED <<MessageQueue, peerMsgs, decoded>>
  PROVE  [In!Next]_In!vars
<1>1. UNCHANGED <<Connected, ToClient>>
  BY DEF ToClient, Bodies, Undecoded
<1> QED BY <1>1, InboxStutters

(* With no connection before or after, only the queue counts.              *)
LEMMA InboxClosed ==
  ASSUME MgrInv, MgrInv', ~Connected, ~Connected',
         MessageQueue' \in {MessageQueue, << >>}
  PROVE  [In!Next]_In!vars
<1>1. ToClient = Bodies(MessageQueue)
  BY InboxOffline
<1>2. ToClient' = Bodies(MessageQueue')
  BY InboxOfflineNext DEF Bodies
<1>3. CASE MessageQueue' = MessageQueue
  <2>1. UNCHANGED <<Connected, ToClient>>
    BY <1>1, <1>2, <1>3 DEF Connected
  <2> QED BY <2>1, InboxStutters
<1>4. CASE MessageQueue' = << >>
  <2>1. Bodies(MessageQueue') = << >>
    BY <1>4, EmptySeq DEF Bodies
  <2>2. ToClient' = << >> /\ Connected' = Connected
    BY <1>2, <2>1 DEF Connected
  <2>3. In!Empty
    BY <2>2 DEF In!Empty, ToClient, Bodies
  <2> QED BY <2>3 DEF In!Next
<1> QED BY <1>3, <1>4

LEMMA InboxHandle ==
  ASSUME MgrInv, TickDispatch
  PROVE  [In!Next]_In!vars
<1> DEFINE rest == IF Connected THEN Undecoded ELSE << >>
<1>1. /\ MessageQueue # << >> /\ MessageQueue' = Tail(MessageQueue)
      /\ UNCHANGED <<ioPc, peerMsgs, decoded>>
  BY DEF TickDispatch, vars, peerVars
<1>2. MessageQueue \in Seq(Queued)
  BY DEF MgrInv, QueueOfPeer
<1>3. /\ Bodies(MessageQueue) # << >>
      /\ Bodies(MessageQueue') = Tail(Bodies(MessageQueue))
  BY <1>1, <1>2, BodiesTail
<1>4. rest' = rest /\ Connected' = Connected
  BY <1>1 DEF Connected, Undecoded
<1>5. Bodies(MessageQueue) \in Seq(PeerMessage) /\ rest \in Seq(PeerMessage)
  BY InboxTypes, EmptySeq
<1>6. ToClient = Bodies(MessageQueue) \o rest
      /\ ToClient' = Bodies(MessageQueue') \o rest'
  BY DEF ToClient, Bodies
<1> HIDE DEF rest
<1>7. ToClient # << >> /\ ToClient' = Tail(ToClient)
  BY <1>3, <1>4, <1>5, <1>6, TailOfConcat
<1>8. In!Handle
  BY <1>4, <1>7 DEF In!Handle, ToClient, Bodies
<1> QED BY <1>8 DEF In!Next

(* The decoder makes a message of the first of those not made yet.         *)
LEMMA InboxDecode ==
  ASSUME MgrInv, MgrInv', Decode
  PROVE  [In!Next]_In!vars
<1> DEFINE k == Len(decoded) + 1
           body == SubSeq(RecvData, HeaderLen + 1,
                          HeaderLen + DecodeLength(RecvData))
           new == [session |-> session, n |-> Len(decoded'), body |-> body]
<1>1. /\ ioPc = "deliver" /\ ioPc' = "deliver" /\ UNCHANGED peerMsgs
      /\ decoded' = Append(decoded, body)
      /\ MessageQueue' = Append(MessageQueue, new)
  BY DEF Decode, CallbackConsume, peerVars
<1> HIDE DEF body
<1>2. /\ peerMsgs \in Seq(PeerMessage) /\ Len(peerMsgs) \in Nat
      /\ Len(decoded) \in 0..Len(peerMsgs)
      /\ Bodies(MessageQueue) \in Seq(PeerMessage)
      /\ Undecoded \in Seq(PeerMessage)
  BY InboxTypes
<1>3. /\ decoded \in Seq(PeerMessage)
      /\ Len(decoded') <= Len(peerMsgs)
      /\ \A i \in 1..Len(decoded') : decoded'[i] = peerMsgs[i]
  BY <1>1 DEF MgrInv, WireInv, WireTypes, DecodedSoFar
<1>4. Len(decoded') = k /\ decoded'[k] = body
  BY <1>1, <1>3, AppendAny DEF IsSeq
<1>5. k \in 1..Len(peerMsgs) /\ body = peerMsgs[k]
  BY <1>2, <1>3, <1>4
<1>6. body \in PeerMessage
  BY <1>2, <1>5, ElementOfSeq
<1>7. Undecoded = SubSeq(peerMsgs, k, Len(peerMsgs))
      /\ Undecoded' = SubSeq(peerMsgs, k + 1, Len(peerMsgs))
  BY <1>1, <1>4 DEF Undecoded
<1>8. Undecoded # << >> /\ Head(Undecoded) = body /\ Tail(Undecoded) = Undecoded'
  <2>1. Len(peerMsgs) \in k..Len(peerMsgs)
    BY <1>2, <1>5
  <2>2. /\ Head(SubSeq(peerMsgs, k, Len(peerMsgs))) = peerMsgs[k]
        /\ Tail(SubSeq(peerMsgs, k, Len(peerMsgs)))
             = SubSeq(peerMsgs, k + 1, Len(peerMsgs))
    BY <1>2, <1>5, <2>1, HeadTailOfSubSeq
  <2>3. Len(Undecoded) = Len(peerMsgs) - Len(decoded)
    BY <1>2, SplitAt DEF Undecoded
  <2>4. Undecoded # << >>
    <3>1. Len(Undecoded) # 0
      BY <1>2, <1>5, <2>3
    <3> QED BY <1>2, <3>1, EmptySeq
  <2> QED BY <1>5, <1>7, <2>2, <2>4
<1>9. Bodies(MessageQueue') = Append(Bodies(MessageQueue), body)
  <2>1. MessageQueue \in Seq(Queued) /\ MessageQueue' \in Seq(Queued)
    BY DEF MgrInv, QueueOfPeer, Queued
  <2>2. new \in Queued
    <3> HIDE DEF new
    <3>1. IsSeq(MessageQueue)
      BY <2>1 DEF IsSeq
    <3>2. /\ Len(MessageQueue) + 1 \in 1..Len(MessageQueue')
          /\ MessageQueue'[Len(MessageQueue) + 1] = new
      BY <1>1, <3>1, AppendAny
    <3> QED BY <2>1, <3>2, ElementOfSeq
  <2>3. Bodies(Append(MessageQueue, new)) = Append(Bodies(MessageQueue), new.body)
    BY <2>1, <2>2, BodiesAppend
  <2> QED BY <1>1, <2>3
<1>10. Append(Bodies(MessageQueue), body) \o Undecoded'
         = Bodies(MessageQueue) \o Undecoded
  BY <1>2, <1>8, HeadThenTail
<1>11. /\ ToClient = Bodies(MessageQueue) \o Undecoded
       /\ ToClient' = Bodies(MessageQueue') \o Undecoded'
  BY <1>1 DEF ToClient, Connected, Bodies
<1>12. UNCHANGED <<Connected, ToClient>>
  BY <1>1, <1>9, <1>10, <1>11 DEF Connected
<1> QED BY <1>12, InboxStutters

LEMMA InboxPeerWrites ==
  ASSUME MgrInv, NEW m \in PeerMessage, NEW n, PeerWrites(m, n)
  PROVE  [In!Next]_In!vars
<1>1. /\ link = "up" /\ UNCHANGED <<ioPc, MessageQueue, decoded>>
      /\ peerMsgs' = IF peerRest = << >> THEN Append(peerMsgs, m) ELSE peerMsgs
  BY DEF PeerWrites, PeerSends, mgrVars
<1>2. Connected /\ Connected'
  BY <1>1 DEF Connected, MgrInv, SessionInv, LinkWithThread
<1>3. CASE peerRest # << >>
  <2>1. Connected' = Connected /\ UNCHANGED peerMsgs
    BY <1>1, <1>3 DEF Connected
  <2> QED BY <1>1, <2>1, InboxSame
<1>4. CASE peerRest = << >>
  <2>1. peerMsgs' = Append(peerMsgs, m)
    BY <1>1, <1>4
  <2>2. /\ peerMsgs \in Seq(PeerMessage) /\ Len(decoded) \in 0..Len(peerMsgs)
        /\ Bodies(MessageQueue) \in Seq(PeerMessage)
        /\ Undecoded \in Seq(PeerMessage)
    BY InboxTypes
  <2>3. Len(Append(peerMsgs, m)) = Len(peerMsgs) + 1
    BY <2>2, AppendProperties
  <2>4. SubSeq(Append(peerMsgs, m), Len(decoded) + 1, Len(peerMsgs) + 1)
          = Append(SubSeq(peerMsgs, Len(decoded) + 1, Len(peerMsgs)), m)
    BY <2>2, RestOfAppend
  <2>5. Undecoded' = Append(Undecoded, m)
    BY <1>1, <2>1, <2>3, <2>4 DEF Undecoded
  <2>6. Bodies(MessageQueue) \o Append(Undecoded, m)
          = Append(Bodies(MessageQueue) \o Undecoded, m)
    BY <2>2, ConcatAppend
  <2>7. ToClient = Bodies(MessageQueue) \o Undecoded
        /\ ToClient' = Bodies(MessageQueue) \o Undecoded'
    BY <1>1, <1>2 DEF ToClient, Bodies
  <2>8. ToClient' = Append(ToClient, m)
    BY <2>5, <2>6, <2>7
  <2>9. In!PeerSends
    BY <1>2, <2>8 DEF In!PeerSends, In!Sends, ToClient, Bodies
  <2> QED BY <2>9 DEF In!Next
<1> QED BY <1>3, <1>4

(* The thread makes a connection, or it ends and leaves the queue.         *)
LEMMA InboxBegins ==
  ASSUME MgrInv, InitConnects, UNCHANGED <<mgrVars, peerVars>>
  PROVE  [In!Next]_In!vars
<1>1. /\ ioPc = "init" /\ ioPc' = "top"
      /\ UNCHANGED <<MessageQueue, peerMsgs, decoded>>
  BY DEF InitConnects, Goto, mgrVars, peerVars
<1>2. peerMsgs = << >>
  BY <1>1 DEF MgrInv, GameThreadInv
<1>3. ~Connected /\ Connected' = TRUE
  BY <1>1 DEF Connected
<1>4. Undecoded' = << >>
  <2>1. Len(peerMsgs) < Len(decoded) + 1 /\ Len(decoded) + 1 \in Int
        /\ Len(peerMsgs) \in Int
    BY <1>2, InboxTypes, EmptySeq
  <2> QED BY <1>1, <2>1, SubSeqEmpty DEF Undecoded
<1>5. Bodies(MessageQueue) \in Seq(PeerMessage)
  BY InboxTypes
<1>6. ToClient' = ToClient
  <2>1. ToClient' = Bodies(MessageQueue) \o Undecoded'
    BY <1>1, <1>3 DEF ToClient, Bodies
  <2>2. Bodies(MessageQueue) \o << >> = Bodies(MessageQueue)
    BY <1>5, ConcatEmptySeq
  <2> QED BY <1>3, <1>4, <2>1, <2>2, InboxOffline
<1>7. In!Connect
  BY <1>3, <1>6 DEF In!Connect, ToClient, Bodies
<1> QED BY <1>7 DEF In!Next

LEMMA InboxEnds ==
  ASSUME MgrInv, Exit, UNCHANGED <<mgrVars, peerVars>>
  PROVE  [In!Next]_In!vars
<1>1. /\ ioPc = "exit" /\ ioPc' = "done"
      /\ UNCHANGED <<MessageQueue, peerMsgs, decoded>>
  BY DEF Exit, Goto, mgrVars, peerVars
<1>2. Connected /\ Connected' = FALSE
  BY <1>1 DEF Connected
<1> DEFINE b == Bodies(MessageQueue)
<1>3. /\ b \in Seq(PeerMessage) /\ Undecoded \in Seq(PeerMessage)
      /\ ToClient = b \o Undecoded
  BY <1>2, InboxTypes DEF ToClient
<1>4. ToClient' = b
  <2>1. ToClient' = b \o << >>
    BY <1>1, <1>2 DEF ToClient, Bodies
  <2> HIDE DEF b
  <2> QED BY <1>3, <2>1, ConcatEmptySeq
<1> HIDE DEF b
<1>5. SubSeq(ToClient, 1, Len(b)) = b
  BY <1>3, FrontOfConcat
<1>6. Len(b) \in 0..Len(ToClient)
  BY <1>3, ConcatProperties, LenProperties
<1>7. \E k \in 0..Len(ToClient) : ToClient' = SubSeq(ToClient, 1, k)
  BY <1>4, <1>5, <1>6
<1>8. In!End
  BY <1>2, <1>7 DEF In!End, ToClient, Bodies
<1> QED BY <1>8 DEF In!Next

LEMMA InboxStep ==
  ASSUME MgrInv, MgrInv', [MgrNext]_allVars
  PROVE  [In!Next]_In!vars
<1>0. Threads
  BY DEF MgrInv, SessionInv, LifeInv
<1> USE DEF Goto, mgrVars, peerVars
<1>1. CASE Initialize \/ MgrConnect
  <2>1. /\ Connect /\ UNCHANGED MessageQueue
    BY <1>1 DEF Initialize, MgrConnect, NewSession
  <2>2. ~runnable /\ ioPc' = "init"
    BY <2>1 DEF Connect
  <2>3. ~Connected /\ ~Connected'
    BY <1>0, <2>2 DEF Threads, Connected
  <2> QED BY <2>1, <2>3, InboxClosed
<1>2. CASE MgrDisconnect \/ Deinitialize
  <2>1. DisconnectAndEmpty
    BY <1>2 DEF MgrDisconnect, Deinitialize
  <2>2. CASE runnable
    <3>1. UNCHANGED <<ioPc, MessageQueue, peerMsgs, decoded>>
      BY <2>1, <2>2 DEF DisconnectAndEmpty, Disconnect
    <3> QED BY <3>1, InboxSame DEF Connected
  <2>3. CASE ~runnable
    <3>1. MessageQueue' = << >> /\ UNCHANGED ioPc
      BY <2>1, <2>3 DEF DisconnectAndEmpty, vars
    <3>2. ~Connected /\ ~Connected'
      BY <1>0, <2>3, <3>1 DEF Threads, Connected
    <3> QED BY <3>1, <3>2, InboxClosed
  <2> QED BY <2>2, <2>3
<1>3. CASE MgrJoinDone
  <2>1. /\ ioPc = "done" /\ ioPc' = "done"
        /\ MessageQueue' \in {MessageQueue, << >>}
    BY <1>3 DEF MgrJoinDone, JoinDone
  <2> QED BY <2>1, InboxClosed DEF Connected
<1>4. CASE MgrExecuteTask \/ (\E m \in AppMessage : SendMessage(m))
             \/ TickEnds \/ NetworkStep \/ UNCHANGED allVars
  <2>1. UNCHANGED <<ioPc, MessageQueue, peerMsgs, decoded>>
    BY <1>4 DEF MgrExecuteTask, ExecuteTask, SendMessage, Send, TickEnds,
                NetworkStep, PeerReads, LinkBreaks, allVars, vars
  <2> QED BY <2>1, InboxSame DEF Connected
<1>5. CASE TickDispatch
  BY <1>5, InboxHandle
<1>6. CASE DecoderStep
  <2>1. CASE Decode
    BY <2>1, InboxDecode
  <2>2. CASE CallbackReturn /\ UNCHANGED <<mgrVars, peerVars>>
    <3>1. /\ ioPc = "deliver" /\ ioPc' = "top"
          /\ UNCHANGED <<MessageQueue, peerMsgs, decoded>>
      BY <2>2 DEF CallbackReturn
    <3> QED BY <3>1, InboxSame DEF Connected
  <2> QED BY <1>6, <2>1, <2>2 DEF DecoderStep
<1>7. CASE IoRunOutsideDecoder
  <2>1. UNCHANGED <<mgrVars, peerVars>> /\ IoThread
    BY <1>7 DEF IoRunOutsideDecoder
  <2>2. CASE InitFailsSilently \/ InitCannotConnect
    <3>1. ioPc = "init" /\ ioPc' = "done" /\ UNCHANGED MessageQueue
      BY <2>1, <2>2 DEF InitFailsSilently, InitCannotConnect
    <3> QED BY <3>1, InboxClosed DEF Connected
  <2>3. CASE InitConnects
    BY <2>1, <2>3, InboxBegins
  <2>4. CASE IoRun
    <3>1. ioPc \notin {"init", "done"} /\ ioPc' \notin {"init", "done"}
      BY <2>4 DEF IoRun, RunLoopTop, RunPeek, SendData, SendFails,
                  RunCheck, RunPending, RecvSome, RecvFails, RunReceived,
                  CallbackConsume, CallbackReturn
    <3> QED BY <2>1, <3>1, InboxSame DEF Connected
  <2>5. CASE Exit
    BY <2>1, <2>5, InboxEnds
  <2> QED BY <2>1, <2>2, <2>3, <2>4, <2>5 DEF IoThread, IoInit
<1>8. CASE \E m \in PeerMessage, n \in 1..MaxIn : PeerWrites(m, n)
  BY <1>8, InboxPeerWrites
<1> QED BY <1>1, <1>2, <1>3, <1>4, <1>5, <1>6, <1>7, <1>8
        DEF MgrNext, MgrIoThread

(* To the game thread the IO thread, the frames, the queue and the ends of *)
(* the connections are one sequence of the server's messages, handled      *)
(* whole, in order and once, of which only an end loses any, at the back.  *)
THEOREM InboxThm == MgrSpec => ImplementsInbox
<1>1. MgrInit => In!Init
  <2> SUFFICES ASSUME MgrInit PROVE In!Init
    OBVIOUS
  <2>1. MessageQueue = << >> /\ ioPc = "done"
    BY DEF MgrInit, Init
  <2>2. ~Connected
    BY <2>1 DEF Connected
  <2>3. Bodies(MessageQueue) = << >>
    BY <2>1, EmptySeq DEF Bodies
  <2>4. << >> \o << >> = << >>
    BY EmptySeq, ConcatEmptySeq
  <2>5. ToClient = << >>
    BY <2>2, <2>3, <2>4 DEF ToClient
  <2>6. Connected \in BOOLEAN
    BY DEF Connected
  <2> QED BY ONLY <2>5, <2>6 DEF In!Init, ToClient, Bodies
<1>2. MgrInv /\ MgrInv' /\ [MgrNext]_allVars => [In!Next]_In!vars
  BY InboxStep
<1> QED BY <1>1, <1>2, MgrInvariant, PTL DEF MgrSpec, ImplementsInbox, In!Spec
=============================================================================
