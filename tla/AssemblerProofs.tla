-------------------------- MODULE AssemblerProofs --------------------------
(***************************************************************************)
(* The assembler hands over whole PDUs, in order, all those it got whole,  *)
(* and its callback always finds one: for any lengths, limits and numbers. *)
(***************************************************************************)
EXTENDS Assembler, SequenceTheorems, TLAPS

Byte == Nat \X Nat
Pdu == [length : 0..MaxLength, bytes : 0..(MaxLength + 1), headed : BOOLEAN]
Stage == assembler.recombination_stage
Left == assembler.remaining_sdu_continuation_packet_size

Members == {a \in [recombination_stage : Seq(Byte),
                   remaining_sdu_continuation_packet_size : 0..(SizeT - 1),
                   enqueue_registered : BOOLEAN,
                   incoming_queue : Seq(Seq(Byte))] :
              Len(a.incoming_queue) <= kMaxQueuedPacketsPerConnection + 1}

(* What the assembler takes for the whole of a PDU. *)
Full(pdu) == kL2capBasicFrameHeaderSize + Claimed(pdu)

(* The types of all variables, and how far the peer is with its last PDU. *)
RemoteInv ==
  /\ pdus \in Seq(Pdu) /\ offset \in Nat /\ lost \subseteq DOMAIN pdus
  /\ Last > 0 => offset <= Total(Last)

TypeInv ==
  /\ assembler \in Members
  /\ queue \in Seq(Seq(Byte)) /\ received \in Seq(Seq(Byte)) /\ Len(queue) <= QueueSize
  /\ connection \in {"early", "known", "gone"}
  /\ registered \in BOOLEAN /\ front_of_empty \in BOOLEAN
  /\ RemoteInv

(* The callback is registered exactly while there is a PDU for it. *)
FrontInv ==
  /\ registered <=> assembler.enqueue_registered
  /\ registered <=> assembler.incoming_queue # <<>>
  /\ ~front_of_empty

(* An unfinished PDU is the last one, as far as it was sent, and has not   *)
(* been handed over yet.                                                   *)
StageInv ==
  connection = "known" /\ Left > 0 =>
    /\ Last > 0 /\ Stage = Bytes(Last, 0, Len(Stage))
    /\ ~Finished => /\ Len(Stage) = offset
                    /\ Left + offset = Full(pdus[Last])
    /\ \A i \in DOMAIN Output : Output[i][1][1] < Last

(* Nothing of a PDU that came before the connection was kept, and a PDU    *)
(* that may still arrive whole is being assembled.                         *)
LostInv ==
  /\ connection = "early" => DOMAIN pdus \subseteq lost /\ Left = 0
  /\ connection = "known" /\ Last > 0 /\ Last \notin lost /\ ~Finished =>
       Left > 0 /\ Total(Last) = Full(pdus[Last])

PduInv == StageInv /\ LostInv /\ WholePdusInOrder /\ NothingElseLost

LEMMA SizeTIsPositive == SizeT \in Nat \ {0}
  BY DEF SizeT

(***************************************************************************)
(* Fragments.                                                              *)
(***************************************************************************)
LEMMA BytesProperties ==
  ASSUME NEW p \in Nat, NEW from \in Nat, NEW n \in Nat
  PROVE  /\ Bytes(p, from, n) \in Seq(Byte) /\ Len(Bytes(p, from, n)) = n
         /\ \A i \in 1..n : Bytes(p, from, n)[i] = <<p, from + i>>
         /\ n > 0 => Head(Bytes(p, from, n)) = <<p, from + 1>>
  <1> DEFINE b == Bytes(p, from, n)
  <1>1. b \in [1..n -> Byte]
    BY DEF Bytes, Byte
  <1>2. b \in Seq(Byte)
    BY <1>1, IsASeq
  <1>3. Len(b) = n
    BY <1>1, <1>2, LenProperties DEF Bytes
  <1>4. \A i \in 1..n : b[i] = <<p, from + i>>
    BY DEF Bytes
  <1>5. n > 0 => Head(b) = b[1]
    BY <1>2, <1>3, EmptySeq, HeadTailProperties
  <1> HIDE DEF b
  <1>6. b \in Seq(Byte) /\ Len(b) = n /\ (\A i \in 1..n : b[i] = <<p, from + i>>)
        /\ (n > 0 => Head(b) = <<p, from + 1>>)
    BY <1>2, <1>3, <1>4, <1>5
  <1> QED
    BY <1>6 DEF b

(* Two fragments, one after the other. *)
LEMMA BytesJoin ==
  ASSUME NEW p \in Nat, NEW k \in Nat, NEW n \in Nat
  PROVE  Bytes(p, 0, k) \o Bytes(p, k, n) = Bytes(p, 0, k + n)
  <1> DEFINE b == Bytes(p, 0, k)
             c == Bytes(p, k, n)
             d == Bytes(p, 0, k + n)
  <1>a. b \in Seq(Byte) /\ Len(b) = k /\ \A i \in 1..k : b[i] = <<p, 0 + i>>
    BY BytesProperties
  <1>b. c \in Seq(Byte) /\ Len(c) = n /\ \A i \in 1..n : c[i] = <<p, k + i>>
    BY BytesProperties
  <1>c. d \in Seq(Byte) /\ Len(d) = k + n /\ \A i \in 1..(k + n) : d[i] = <<p, 0 + i>>
    BY BytesProperties, k + n \in Nat
  <1> HIDE DEF b, c, d
  <1>2. b \o c \in Seq(Byte) /\ Len(b \o c) = k + n
    BY <1>a, <1>b, ConcatProperties
  <1>3. \A i \in 1..(k + n) : (b \o c)[i] = IF i <= k THEN b[i] ELSE c[i - k]
    BY <1>a, <1>b, ConcatProperties
  <1>4. \A i \in 1..(k + n) : (b \o c)[i] = d[i]
    <2> TAKE i \in 1..(k + n)
    <2>1. CASE i <= k
      <3>1. i \in 1..k
        BY <2>1
      <3> QED
        BY <1>a, <1>c, <1>3, <2>1, <3>1
    <2>2. CASE ~(i <= k)
      <3>1. i - k \in 1..n /\ k + (i - k) = 0 + i
        BY <2>2
      <3> QED
        BY <1>b, <1>c, <1>3, <2>2, <3>1
    <2> QED
      BY <2>1, <2>2
  <1>5. b \o c = d
    BY <1>c, <1>2, <1>4, SeqEqual
  <1> QED
    BY <1>5 DEF b, c, d

(***************************************************************************)
(* What the assembler does with a fragment.                                *)
(***************************************************************************)
Pushed(a, b, payload) ==
  \/ b.incoming_queue = Append(a.incoming_queue, payload) /\ b.enqueue_registered
  \/ /\ Len(a.incoming_queue) > kMaxQueuedPacketsPerConnection
     /\ b.incoming_queue = a.incoming_queue /\ b.enqueue_registered = a.enqueue_registered

Kept(a, b) ==
  b.incoming_queue = a.incoming_queue /\ b.enqueue_registered = a.enqueue_registered

LEMMA PushResult ==
  ASSUME NEW a \in Members, NEW payload \in Seq(Byte)
  PROVE  LET b == push(a, payload) IN
         /\ b \in Members /\ Pushed(a, b, payload)
         /\ b.recombination_stage = a.recombination_stage
         /\ b.remaining_sdu_continuation_packet_size =
              a.remaining_sdu_continuation_packet_size
  <1> USE AssemblerAssumption
  <1> DEFINE q == a.incoming_queue
  <1>1. q \in Seq(Seq(Byte)) /\ Len(q) \in Nat
    BY LenProperties DEF Members
  <1>2. Append(q, payload) \in Seq(Seq(Byte)) /\ Len(Append(q, payload)) = Len(q) + 1
    BY <1>1, AppendProperties
  <1>3. CASE Len(q) > kMaxQueuedPacketsPerConnection
    BY <1>3 DEF push, Pushed
  <1>4. CASE ~(Len(q) > kMaxQueuedPacketsPerConnection)
    <2> DEFINE t == Append(q, payload)
               b == [a EXCEPT !.incoming_queue = t, !.enqueue_registered = TRUE]
    <2>1. push(a, payload) = b
      BY <1>4 DEF push
    <2>2. t \in Seq(Seq(Byte)) /\ Len(t) <= kMaxQueuedPacketsPerConnection + 1
      BY <1>1, <1>2, <1>4
    <2> HIDE DEF t
    <2>3. /\ b \in Members /\ b.incoming_queue = t /\ b.enqueue_registered
          /\ b.recombination_stage = a.recombination_stage
          /\ b.remaining_sdu_continuation_packet_size =
               a.remaining_sdu_continuation_packet_size
      BY <2>2 DEF Members
    <2> QED
      BY <2>1, <2>3 DEF Pushed, t
  <1> QED
    BY <1>3, <1>4

(* The size of a PDU, as the assembler sees it, and of its bytes. *)
LEMMA FullSize ==
  ASSUME NEW pdu \in Pdu
  PROVE  /\ Claimed(pdu) \in 0..MaxLength /\ Full(pdu) \in Nat \ {0}
         /\ Full(pdu) <= kL2capBasicFrameHeaderSize + MaxLength
  <1>1. Claimed(pdu) \in 0..MaxLength
    BY AssemblerAssumption DEF Claimed, Pdu
  <1> QED
    BY <1>1, AssemblerAssumption DEF Full

(* A starting fragment of n bytes, and the PDU that it starts. *)
Starts(n, pdu) ==
  /\ pdu \in Pdu /\ n \in Nat /\ n <= Full(pdu) + 1
  /\ pdu.headed <=> n >= kL2capBasicFrameHeaderSize

(* Sizes of size_t: a remainder below zero is a large one. *)
LEMMA Wraps ==
  ASSUME NEW f \in Nat, NEW n \in Nat, f + 1 < SizeT, n <= f + 1
  PROVE  LET r == (f + SizeT - n) % SizeT
         IN r \in 0..(SizeT - 1) /\ (n <= f => r = f - n) /\ (n > f => r > 0)
  <1> DEFINE r == (f + SizeT - n) % SizeT
  <1>1. n <= f => r = f - n
    BY DEF SizeT
  <1>2. n > f => r = SizeT - 1
    BY DEF SizeT
  <1> HIDE DEF r
  <1>3. CASE n <= f
    <2>1. r = f - n
      BY <1>1, <1>3
    <2> QED
      BY <1>3, <2>1, SizeTIsPositive DEF r
  <1>4. CASE n > f
    <2>1. r = SizeT - 1
      BY <1>2, <1>4
    <2> QED
      BY <1>4, <2>1, SizeTIsPositive DEF r
  <1> QED
    BY <1>3, <1>4

(* What is left of a PDU after its starting fragment. *)
LEMMA RemainingResult ==
  ASSUME NEW p \in Nat, NEW sent, NEW n \in Nat, Starts(n, sent[p])
  PROVE  LET left == remaining(Bytes(p, 0, n), sent) IN
         /\ left \in 0..(SizeT - 1)
         /\ n <= Full(sent[p]) => left = Full(sent[p]) - n
         /\ n > Full(sent[p]) => left > 0
  <1> USE AssemblerAssumption
  <1> DEFINE b == Bytes(p, 0, n)
             l == Claimed(sent[p])
             f == Full(sent[p])
  <1>1. /\ n \in Nat /\ l \in 0..MaxLength /\ f = kL2capBasicFrameHeaderSize + l /\ n <= f + 1
        /\ f \in Nat /\ f + 1 < SizeT
    <2>1. l \in 0..MaxLength
      BY FullSize DEF Starts
    <2>2. f = kL2capBasicFrameHeaderSize + l /\ n \in Nat /\ n <= f + 1
      BY DEF Starts, Full
    <2> HIDE DEF l, f
    <2> QED
      BY <2>1, <2>2, SizeTIsPositive
  <1>2. Len(b) = n /\ (n > 0 => Head(b)[1] = p)
    <2>1. Len(b) = n /\ (n > 0 => Head(b) = <<p, 0 + 1>>)
      BY <1>1, BytesProperties
    <2> QED
      BY <2>1
  <1>3. GetL2capPduSize(b, sent) = l
    <2>1. CASE n < kL2capBasicFrameHeaderSize
      BY <1>1, <1>2, <2>1 DEF Starts, GetL2capPduSize, Claimed
    <2>2. CASE ~(n < kL2capBasicFrameHeaderSize)
      <3>1. n > 0 /\ sent[p].headed
        BY <1>1, <2>2 DEF Starts
      <3> QED
        BY <1>1, <1>2, <2>2, <3>1 DEF GetL2capPduSize, Claimed
    <2> QED
      BY <2>1, <2>2
  <1> DEFINE r == remaining(b, sent)
  <1>4. r = (f + SizeT - n) % SizeT
    <2> HIDE DEF b, l, f
    <2>1. l + kL2capBasicFrameHeaderSize = f
      BY <1>1
    <2> QED
      BY <1>2, <1>3, <2>1 DEF remaining
  <1> HIDE DEF r, b, l, f
  <1>6. r \in 0..(SizeT - 1) /\ (n <= f => r = f - n) /\ (n > f => r > 0)
    BY <1>1, <1>4, Wraps
  <1> QED
    BY <1>6 DEF r, b, f

(* A starting fragment completes its PDU, or begins a new one. *)
LEMMA StartResult ==
  ASSUME NEW a \in Members, NEW p \in Nat, NEW sent, NEW n \in Nat, Starts(n, sent[p])
  PROVE  LET payload == Bytes(p, 0, n)
             b == starting_fragment(a, payload, sent)
         IN /\ b \in Members
            /\ n = Full(sent[p]) =>
                 Pushed(a, b, payload) /\ b.remaining_sdu_continuation_packet_size = 0
            /\ n # Full(sent[p]) =>
                 /\ Kept(a, b) /\ b.recombination_stage = payload
                 /\ b.remaining_sdu_continuation_packet_size > 0
                 /\ n < Full(sent[p]) =>
                      b.remaining_sdu_continuation_packet_size = Full(sent[p]) - n
  <1> USE AssemblerAssumption
  <1> DEFINE payload == Bytes(p, 0, n)
             left == remaining(payload, sent)
             l == Full(sent[p])
             c == [a EXCEPT !.remaining_sdu_continuation_packet_size = left]
             b == starting_fragment(a, payload, sent)
  <1>0. n \in Nat /\ l \in Nat
    BY FullSize DEF Starts
  <1>1. /\ left \in 0..(SizeT - 1)
        /\ n <= l => left = l - n
        /\ n > l => left > 0
    BY RemainingResult
  <1>2. payload \in Seq(Byte)
    BY <1>0, BytesProperties
  <1>3. b = IF left > 0 THEN [c EXCEPT !.recombination_stage = payload] ELSE push(c, payload)
    BY DEF starting_fragment
  <1> HIDE DEF payload, left, l
  <1>4. /\ c \in Members /\ Kept(a, c) /\ c.remaining_sdu_continuation_packet_size = left
        /\ [c EXCEPT !.recombination_stage = payload] \in Members
        /\ Kept(a, [c EXCEPT !.recombination_stage = payload])
        /\ [c EXCEPT !.recombination_stage = payload].recombination_stage = payload
        /\ [c EXCEPT !.recombination_stage = payload].remaining_sdu_continuation_packet_size
             = left
    BY <1>1, <1>2 DEF Members, Kept
  <1> HIDE DEF c, b
  <1>5. /\ push(c, payload) \in Members /\ Pushed(c, push(c, payload), payload)
        /\ push(c, payload).remaining_sdu_continuation_packet_size = left
    BY <1>2, <1>4, PushResult
  <1>6. Pushed(a, push(c, payload), payload)
    BY <1>4, <1>5 DEF Pushed, Kept
  <1>7. CASE n = l
    <2>1. left = 0
      BY <1>0, <1>1, <1>7
    <2>2. b = push(c, payload)
      BY <1>3, <2>1
    <2> QED
      BY <1>5, <1>6, <1>7, <2>1, <2>2 DEF b, payload, l
  <1>8. CASE n # l
    <2>1. left > 0 /\ (n < l => left = l - n)
      BY <1>0, <1>1, <1>8
    <2>2. b = [c EXCEPT !.recombination_stage = payload]
      BY <1>3, <2>1
    <2> QED
      BY <1>4, <1>8, <2>1, <2>2 DEF b, payload, l
  <1> QED
    BY <1>7, <1>8

(* A continuing fragment is too long, not the last one, or completes its PDU. *)
LEMMA ContinueResult ==
  ASSUME NEW a \in Members, NEW payload \in Seq(Byte)
  PROVE  LET b == continuing_fragment(a, payload)
             left == a.remaining_sdu_continuation_packet_size
             stage == a.recombination_stage \o payload
         IN /\ b \in Members
            /\ left < Len(payload) =>
                 Kept(a, b) /\ b.remaining_sdu_continuation_packet_size = 0
            /\ left > Len(payload) =>
                 /\ Kept(a, b) /\ b.recombination_stage = stage
                 /\ b.remaining_sdu_continuation_packet_size = left - Len(payload)
            /\ left = Len(payload) =>
                 Pushed(a, b, stage) /\ b.remaining_sdu_continuation_packet_size = 0
  <1> DEFINE stage == a.recombination_stage \o payload
             left == a.remaining_sdu_continuation_packet_size
             k == Len(payload)
             rest == left - k
             b == continuing_fragment(a, payload)
             c == [a EXCEPT !.recombination_stage = <<>>,
                            !.remaining_sdu_continuation_packet_size = 0]
             d == [a EXCEPT !.recombination_stage = stage,
                            !.remaining_sdu_continuation_packet_size = rest]
  <1>1. left \in 0..(SizeT - 1) /\ k \in Nat /\ SizeT \in Nat
    BY LenProperties, SizeTIsPositive DEF Members
  <1>2. stage \in Seq(Byte)
    BY ConcatProperties DEF Members
  <1>3. b = IF left < k THEN c ELSE IF rest # 0 THEN d ELSE push(c, stage)
    BY DEF continuing_fragment
  <1> HIDE DEF stage, left, k
  <1>4. c \in Members /\ Kept(a, c) /\ c.remaining_sdu_continuation_packet_size = 0
    <2>1. <<>> \in Seq(Byte) /\ 0 \in 0..(SizeT - 1)
      BY EmptySeq, SizeTIsPositive
    <2> QED
      BY <2>1 DEF Members, Kept
  <1>5. left >= k => rest \in 0..(SizeT - 1)
    BY <1>1
  <1> HIDE DEF rest
  <1>6. left >= k =>
          /\ d \in Members /\ Kept(a, d) /\ d.recombination_stage = stage
          /\ d.remaining_sdu_continuation_packet_size = rest
    BY <1>2, <1>5 DEF Members, Kept
  <1> HIDE DEF c, d, b
  <1>7. /\ push(c, stage) \in Members /\ Pushed(c, push(c, stage), stage)
        /\ push(c, stage).remaining_sdu_continuation_packet_size = 0
    BY <1>2, <1>4, PushResult
  <1>8. Pushed(a, push(c, stage), stage)
    BY <1>4, <1>7 DEF Pushed, Kept
  <1>9. CASE left < k
    <2>1. b = c
      BY <1>3, <1>9
    <2>2. ~(left > k) /\ left # k
      BY <1>1, <1>9
    <2> QED
      BY <1>4, <1>9, <2>1, <2>2 DEF b, stage, left, k
  <1>10. CASE left > k
    <2>1. rest # 0 /\ left >= k /\ ~(left < k) /\ left # k
      BY <1>1, <1>10 DEF rest
    <2>2. b = d
      BY <1>3, <2>1
    <2> QED
      BY <1>6, <1>10, <2>1, <2>2 DEF b, stage, left, k, rest
  <1>11. CASE left = k
    <2>1. rest = 0 /\ ~(left < k) /\ ~(left > k)
      BY <1>1, <1>11 DEF rest
    <2>2. b = push(c, stage)
      BY <1>3, <2>1
    <2> QED
      BY <1>7, <1>8, <1>11, <2>1, <2>2 DEF b, stage, left, k
  <1>12. left < k \/ left > k \/ left = k
    BY <1>1
  <1> QED
    BY <1>9, <1>10, <1>11, <1>12

(* The callback is registered with the first PDU in incoming_queue_. *)
LEMMA FrontKept ==
  ASSUME TypeInv, FrontInv, NEW b \in Members, NEW payload \in Seq(Byte),
         Kept(assembler, b) \/ Pushed(assembler, b, payload), Becomes(b),
         UNCHANGED front_of_empty
  PROVE  FrontInv' /\ registered' \in BOOLEAN
  <1> USE AssemblerAssumption
  <1>1. /\ assembler.incoming_queue \in Seq(Seq(Byte)) /\ assembler' = b
        /\ b.enqueue_registered \in BOOLEAN /\ assembler.enqueue_registered \in BOOLEAN
        /\ registered \in BOOLEAN
    BY DEF TypeInv, Members, Becomes
  <1>2. registered' = (registered \/ (b.enqueue_registered /\ ~assembler.enqueue_registered))
    BY DEF Becomes
  <1>3. CASE Kept(assembler, b)
    BY <1>1, <1>2, <1>3 DEF FrontInv, Kept
  <1>4. CASE b.incoming_queue = Append(assembler.incoming_queue, payload) /\ b.enqueue_registered
    <2>1. b.incoming_queue # <<>>
      <3> DEFINE q == assembler.incoming_queue
      <3>1. q \in Seq(Seq(Byte)) /\ b.incoming_queue = Append(q, payload)
        BY <1>1, <1>4
      <3> HIDE DEF q
      <3> QED
        BY <3>1, AppendProperties
    <2> QED
      BY <1>1, <1>2, <1>4, <2>1 DEF FrontInv
  <1> QED
    BY <1>3, <1>4 DEF Pushed, Kept

(***************************************************************************)
(* The PDUs handed over.                                                   *)
(***************************************************************************)
LEMMA AppendAfter ==
  ASSUME NEW S, NEW s \in Seq(S), NEW t \in Seq(S), NEW x \in S
  PROVE  s \o Append(t, x) = Append(s \o t, x)
  <1>1. <<x>> \in Seq(S) /\ s \o t \in Seq(S)
    BY ConcatProperties
  <1>2. Append(t, x) = t \o <<x>> /\ Append(s \o t, x) = (s \o t) \o <<x>>
    BY <1>1, AppendIsConcat
  <1> QED
    BY <1>1, <1>2, ConcatAssociative

LEMMA MoveFirst ==
  ASSUME NEW S, NEW s \in Seq(S), NEW t \in Seq(S), t # <<>>
  PROVE  Append(s, Head(t)) \o Tail(t) = s \o t
  <1>1. Head(t) \in S /\ Tail(t) \in Seq(S) /\ Len(t) \in Nat \ {0} /\ Head(t) = t[1]
    BY EmptySeq, HeadTailProperties
  <1>2. <<Head(t)>> \in Seq(S)
    BY <1>1
  <1>3. <<Head(t)>> \o Tail(t) = t
    <2>1. SubSeq(t, 1, Len(t)) = <<t[1]>> \o SubSeq(t, 2, Len(t))
      BY <1>1, SubSeqRecursiveFirst
    <2>2. SubSeq(t, 1, Len(t)) = t /\ SubSeq(t, 2, Len(t)) = Tail(t)
      BY SubSeqFull, TailIsSubSeq
    <2> QED
      BY <1>1, <2>1, <2>2
  <1>4. Append(s, Head(t)) = s \o <<Head(t)>>
    BY <1>1, AppendIsConcat
  <1> QED
    BY <1>1, <1>2, <1>3, <1>4, ConcatAssociative

LEMMA OutputType ==
  ASSUME TypeInv
  PROVE  /\ Output \in Seq(Seq(Byte)) /\ received \o queue \in Seq(Seq(Byte))
         /\ assembler.incoming_queue \in Seq(Seq(Byte))
         /\ Output = (received \o queue) \o assembler.incoming_queue
         /\ DOMAIN Output = 1..Len(Output) /\ Len(Output) \in Nat
  <1>1. assembler.incoming_queue \in Seq(Seq(Byte)) /\ received \in Seq(Seq(Byte))
        /\ queue \in Seq(Seq(Byte))
    BY DEF TypeInv, Members
  <1>2. received \o queue \in Seq(Seq(Byte))
    BY <1>1, ConcatProperties
  <1>3. Output \in Seq(Seq(Byte))
    BY <1>1, <1>2, ConcatProperties DEF Output
  <1> QED
    BY <1>1, <1>2, <1>3, LenProperties DEF Output

(* A PDU goes to the end of incoming_queue_. *)
LEMMA OutputAppends ==
  ASSUME TypeInv, NEW x \in Seq(Byte), UNCHANGED <<queue, received>>,
         assembler'.incoming_queue = Append(assembler.incoming_queue, x)
  PROVE  Output' = Append(Output, x)
  <1> DEFINE s == received \o queue
             t == assembler.incoming_queue
  <1>1. s \in Seq(Seq(Byte)) /\ t \in Seq(Seq(Byte)) /\ Output = s \o t
    BY OutputType
  <1>2. Output' = s \o Append(t, x)
    BY DEF Output
  <1> HIDE DEF s, t
  <1> QED
    BY <1>1, <1>2, AppendAfter

(* The first bytes of the PDUs handed over say which ones they are. *)
LEMMA OutputNames ==
  ASSUME TypeInv, WholePdusInOrder
  PROVE  \A i \in DOMAIN Output : Output[i][1][1] \in 1..Last
  <1> USE AssemblerAssumption
  <1> TAKE i \in DOMAIN Output
  <1>1. pdus \in Seq(Pdu) /\ Last \in Nat /\ DOMAIN pdus = 1..Last
    BY LenProperties DEF TypeInv, RemoteInv, Last
  <1>2. PICK p \in 1..Last :
          Output[i] = Bytes(p, 0, Full(pdus[p]))
    BY <1>1 DEF WholePdusInOrder, Full
  <1> DEFINE m == Full(pdus[p])
  <1>3. m \in Nat /\ 1 \in 1..m /\ p \in Nat
    <2>1. pdus[p] \in Pdu
      BY <1>1, ElementOfSeq DEF Last
    <2> QED
      BY <1>1, <2>1, FullSize
  <1> HIDE DEF m
  <1>4. Bytes(p, 0, m)[1] = <<p, 0 + 1>>
    <2>1. p \in Nat /\ 0 \in Nat /\ m \in Nat
      BY <1>3
    <2>2. \A j \in 1..m : Bytes(p, 0, m)[j] = <<p, 0 + j>>
      BY ONLY <2>1, BytesProperties
    <2> QED
      BY <1>3, <2>2
  <1>5. Output[i][1][1] = p
    BY <1>2, <1>4 DEF m
  <1> QED
    BY <1>5

(* A new PDU is handed over after all the others. *)
LEMMA OrderKept ==
  ASSUME TypeInv, TypeInv', WholePdusInOrder, NEW p \in 1..Last',
         \A q \in 1..Last : q \in 1..Last' /\ pdus'[q] = pdus[q],
         \A i \in DOMAIN Output : Output[i][1][1] < p,
         Output' = Append(Output, Bytes(p, 0, Full(pdus'[p])))
  PROVE  /\ WholePdusInOrder'
         /\ \A i \in DOMAIN Output : i \in DOMAIN Output' /\ Output'[i] = Output[i]
         /\ \E i \in DOMAIN Output' : Output'[i][1][1] = p
         /\ \A i \in DOMAIN Output' : Output'[i][1][1] <= p
  <1> USE AssemblerAssumption
  <1>1. /\ pdus \in Seq(Pdu) /\ Last \in Nat /\ DOMAIN pdus = 1..Last
        /\ pdus' \in Seq(Pdu) /\ Last' \in Nat /\ DOMAIN pdus' = 1..Last'
    BY LenProperties DEF TypeInv, RemoteInv, Last
  <1> DEFINE m == Full(pdus'[p])
             x == Bytes(p, 0, m)
             k == Len(Output)
  <1>2. m \in Nat /\ 1 \in 1..m /\ p \in Nat
    <2>1. pdus'[p] \in Pdu
      BY <1>1, ElementOfSeq DEF Last
    <2> QED
      BY <1>1, <2>1, FullSize
  <1> HIDE DEF m
  <1>3. x \in Seq(Byte) /\ x[1] = <<p, 0 + 1>>
    BY <1>2, BytesProperties
  <1>4. x[1][1] = p
    BY <1>3
  <1>5. Output \in Seq(Seq(Byte)) /\ k \in Nat /\ DOMAIN Output = 1..k
    BY OutputType
  <1>6. Output' = Append(Output, x)
    BY DEF m
  <1> HIDE DEF x
  <1>7. /\ Len(Output') = k + 1 /\ Output' \in Seq(Seq(Byte))
        /\ \A i \in 1..k : Output'[i] = Output[i]
        /\ Output'[k + 1] = x
    BY <1>3, <1>5, <1>6, AppendProperties
  <1>8. DOMAIN Output' = 1..(k + 1)
    BY <1>7, LenProperties
  <1> HIDE DEF k
  <1>9. \A i \in DOMAIN Output' : i \in 1..k \/ i = k + 1
    BY <1>5, <1>8
  <1>10. \A i \in DOMAIN Output' :
           \E q \in DOMAIN pdus' :
             Output'[i] = Bytes(q, 0, Full(pdus'[q]))
    <2> TAKE i \in DOMAIN Output'
    <2>1. CASE i \in 1..k
      <3>1. PICK q \in 1..Last :
              Output[i] = Bytes(q, 0, Full(pdus[q]))
        BY <1>1, <1>5, <2>1 DEF WholePdusInOrder, Full
      <3> QED
        BY <1>1, <1>7, <2>1, <3>1
    <2>2. CASE i = k + 1
      <3>1. Output'[i] = Bytes(p, 0, Full(pdus'[p]))
        BY <1>7, <2>2 DEF x, m
      <3> QED
        BY <1>1, <3>1
    <2> QED
      BY <1>9, <2>1, <2>2
  <1>11. \A i \in 1..k : Output'[i][1][1] < p /\ Output'[i][1][1] \in Nat
    <2> TAKE i \in 1..k
    <2>1. Output[i][1][1] \in 1..Last /\ Output[i][1][1] < p
      BY <1>5, OutputNames
    <2> DEFINE q == Output[i][1][1]
    <2>2. q \in Nat /\ q < p
      BY <1>1, <2>1
    <2>3. Output'[i][1][1] = q
      BY <1>7
    <2> HIDE DEF q
    <2> QED
      BY <2>2, <2>3
  <1>12. Output'[k + 1][1][1] = p
    BY <1>4, <1>7
  <1>13. \A i, j \in DOMAIN Output' : i < j => Output'[i][1][1] < Output'[j][1][1]
    <2> SUFFICES ASSUME NEW i \in DOMAIN Output', NEW j \in DOMAIN Output', i < j
                 PROVE  Output'[i][1][1] < Output'[j][1][1]
      OBVIOUS
    <2>1. i \in 1..k
      BY <1>5, <1>8
    <2>2. CASE j \in 1..k
      <3>1. Output[i][1][1] < Output[j][1][1]
        BY <1>5, <2>1, <2>2 DEF WholePdusInOrder, Full
      <3> QED
        BY <1>7, <2>1, <2>2, <3>1
    <2>3. CASE j = k + 1
      BY <1>11, <1>12, <2>1, <2>3
    <2> QED
      BY <1>9, <2>2, <2>3
  <1>14. WholePdusInOrder'
    BY <1>10, <1>13 DEF WholePdusInOrder, Full
  <1>15. \A i \in DOMAIN Output : i \in DOMAIN Output' /\ Output'[i] = Output[i]
    BY <1>5, <1>7, <1>8
  <1>16. \E i \in DOMAIN Output' : Output'[i][1][1] = p
    BY <1>5, <1>8, <1>12
  <1>17. \A i \in DOMAIN Output' : Output'[i][1][1] <= p
    BY <1>2, <1>9, <1>11, <1>12
  <1> QED
    BY <1>14, <1>15, <1>16, <1>17

(* Nothing new is handed over. *)
LEMMA OrderSame ==
  ASSUME TypeInv, TypeInv', WholePdusInOrder,
         \A q \in 1..Last : q \in 1..Last' /\ pdus'[q] = pdus[q],
         Output' = Output
  PROVE  WholePdusInOrder'
  <1>1. DOMAIN pdus = 1..Last /\ DOMAIN pdus' = 1..Last'
    BY LenProperties DEF TypeInv, RemoteInv, Last
  <1>2. \A i \in DOMAIN Output' :
          \E q \in DOMAIN pdus' :
            Output'[i] = Bytes(q, 0, Full(pdus'[q]))
    <2> TAKE i \in DOMAIN Output'
    <2>1. PICK q \in 1..Last :
            Output[i] = Bytes(q, 0, Full(pdus[q]))
      BY <1>1 DEF WholePdusInOrder, Full
    <2> QED
      BY <1>1, <2>1
  <1>3. \A i, j \in DOMAIN Output' : i < j => Output'[i][1][1] < Output'[j][1][1]
    BY DEF WholePdusInOrder, Full
  <1> QED
    BY <1>2, <1>3 DEF WholePdusInOrder, Full

(***************************************************************************)
(* The types, and the callback that finds a PDU.                           *)
(***************************************************************************)
IInv == TypeInv /\ FrontInv

(* What is known of the last PDU. *)
LEMMA LastPdu ==
  ASSUME RemoteInv
  PROVE  /\ Last \in Nat /\ DOMAIN pdus = 1..Last
         /\ Last > 0 => /\ pdus[Last] \in Pdu
                        /\ pdus[Last].length \in Nat /\ pdus[Last].bytes \in Nat
                        /\ Total(Last) \in Nat
                        /\ Total(Last) = kL2capBasicFrameHeaderSize + pdus[Last].bytes
  <1> USE AssemblerAssumption
  <1>1. pdus \in Seq(Pdu) /\ Last \in Nat /\ DOMAIN pdus = 1..Last
    BY LenProperties DEF RemoteInv, Last
  <1>2. ASSUME Last > 0
        PROVE  pdus[Last] \in Pdu
    <2>1. Last \in 1..Len(pdus)
      BY <1>1, <1>2 DEF Last
    <2> QED
      BY <1>1, <2>1, ElementOfSeq
  <1> QED
    BY <1>1, <1>2 DEF Pdu, Total

(* A new PDU follows the others. *)
LEMMA NewPdu ==
  ASSUME RemoteInv, NEW length \in 0..MaxLength, NEW bytes \in 0..(MaxLength + 1),
         NEW n \in Sizes, PeerStarts(length, bytes, n)
  PROVE  LET pdu == pdus'[Last + 1]
         IN /\ RemoteInv' /\ Last' = Last + 1 /\ Last + 1 \in Nat
            /\ \A q \in 1..Last : q \in 1..Last' /\ pdus'[q] = pdus[q]
            /\ Starts(n, pdu) /\ Full(pdu) \in Nat /\ Total(Last)' \in Nat
            /\ offset' = n /\ n <= Total(Last)' /\ (n > Full(pdu) => n = Total(Last)')
            /\ lost' = IF Total(Last)' # Full(pdu) \/ Loses(n = Total(Last)')
                       THEN lost \cup {Last + 1} ELSE lost
  <1> USE AssemblerAssumption
  <1> DEFINE x == [length |-> length, bytes |-> bytes, headed |-> n >= kL2capBasicFrameHeaderSize]
             t == kL2capBasicFrameHeaderSize + bytes
  <1>0. n \in Nat
    BY DEF Sizes
  <1>1. pdus \in Seq(Pdu) /\ Last \in Nat /\ DOMAIN pdus = 1..Last
    BY LastPdu DEF RemoteInv
  <1>2. x \in Pdu
    BY DEF Pdu
  <1>3. /\ pdus' = Append(pdus, x) /\ offset' = n /\ n <= t /\ bytes \in {length, length + 1}
        /\ lost' = IF bytes # Claimed(x) \/ Loses(n = t) THEN lost \cup {Last + 1} ELSE lost
    BY DEF PeerStarts
  <1>a. /\ x.length = length /\ x.bytes = bytes
        /\ x.headed <=> n >= kL2capBasicFrameHeaderSize
    OBVIOUS
  <1>b. Claimed(x) \in Nat /\ Full(x) = kL2capBasicFrameHeaderSize + Claimed(x)
    BY <1>2, FullSize DEF Full
  <1>c. n <= Full(x) + 1 /\ (n > Full(x) => n = t)
    <2>1. CASE n >= kL2capBasicFrameHeaderSize
      <3>1. Claimed(x) = length
        BY <2>1 DEF Claimed
      <3> QED
        BY <1>0, <1>3, <1>b, <3>1
    <2>2. CASE ~(n >= kL2capBasicFrameHeaderSize)
      <3> HIDE DEF x
      <3> QED
        BY <1>0, <1>b, <2>2
    <2> QED
      BY <2>1, <2>2
  <1> HIDE DEF x
  <1>4. /\ pdus' \in Seq(Pdu) /\ Last' = Last + 1 /\ pdus'[Last + 1] = x
        /\ \A q \in 1..Last : pdus'[q] = pdus[q]
    BY <1>1, <1>2, <1>3, AppendProperties DEF Last
  <1>5. DOMAIN pdus' = 1..(Last + 1)
    BY <1>4, LenProperties DEF Last
  <1>6. Total(Last)' = t /\ t \in Nat
    BY <1>4, <1>a DEF Total
  <1>7. bytes # Claimed(x) <=> t # Full(x)
    BY <1>b
  <1>8. RemoteInv'
    <2>1. pdus' \in Seq(Pdu) /\ offset' \in Nat
      BY <1>0, <1>3, <1>4
    <2>2. lost' \subseteq DOMAIN pdus'
      <3>1. lost \subseteq 1..Last /\ lost' \subseteq lost \cup {Last + 1}
        BY <1>1, <1>3 DEF RemoteInv
      <3> QED
        BY <1>1, <1>5, <3>1
    <2>3. offset' <= Total(Last)'
      BY <1>3, <1>6
    <2> QED
      BY <2>1, <2>2, <2>3 DEF RemoteInv
  <1>9. Starts(n, x) /\ Full(x) \in Nat
    BY <1>0, <1>2, <1>a, <1>b, <1>c DEF Starts
  <1> HIDE DEF t
  <1>10. lost' = IF t # Full(x) \/ Loses(n = t) THEN lost \cup {Last + 1} ELSE lost
    BY <1>3, <1>7
  <1>11. /\ \A q \in 1..Last : q \in 1..Last' /\ pdus'[q] = pdus[q]
         /\ Last + 1 \in Nat
    BY <1>1, <1>4
  <1>12. /\ RemoteInv' /\ Last' = Last + 1 /\ Starts(n, x) /\ Full(x) \in Nat /\ t \in Nat
         /\ offset' = n /\ n <= t /\ (n > Full(x) => n = t)
    BY <1>3, <1>4, <1>6, <1>8, <1>9, <1>c
  <1> QED
    BY <1>4, <1>6, <1>10, <1>11, <1>12

(* The first fragment of a new PDU comes to the assembler. *)
LEMMA NewPduResult ==
  ASSUME TypeInv, NEW length \in 0..MaxLength, NEW bytes \in 0..(MaxLength + 1),
         NEW n \in Sizes, PeerStarts(length, bytes, n), connection = "known"
  PROVE  LET payload == Bytes(Last + 1, 0, n)
             full == Full(pdus'[Last + 1])
         IN /\ assembler' \in Members /\ Becomes(assembler') /\ payload \in Seq(Byte)
            /\ n = full => Pushed(assembler, assembler', payload) /\ Left' = 0
            /\ n # full => /\ Kept(assembler, assembler') /\ Stage' = payload
                           /\ Left' > 0 /\ (n < full => Left' = full - n)
  <1> DEFINE payload == Bytes(Last + 1, 0, n)
             full == Full(pdus'[Last + 1])
             b == starting_fragment(assembler, payload, pdus')
  <1>1. Last + 1 \in Nat /\ Starts(n, pdus'[Last + 1]) /\ n \in Nat
    BY NewPdu DEF TypeInv, Starts
  <1>2. payload \in Seq(Byte)
    BY <1>1, BytesProperties DEF Starts
  <1>3. Becomes(b)
    BY DEF PeerStarts, dequeue_and_route_acl_packet_to_connection, on_incoming_packet
  <1>6. assembler \in Members /\ assembler' = b
    BY <1>3 DEF TypeInv, Becomes
  <1>7. /\ b \in Members
        /\ n = full =>
             Pushed(assembler, b, payload) /\ b.remaining_sdu_continuation_packet_size = 0
        /\ n # full =>
             /\ Kept(assembler, b) /\ b.recombination_stage = payload
             /\ b.remaining_sdu_continuation_packet_size > 0
             /\ n < full => b.remaining_sdu_continuation_packet_size = full - n
    BY <1>1, <1>6, StartResult
  <1> HIDE DEF b, payload, full
  <1>8. Left' = b.remaining_sdu_continuation_packet_size /\ Stage' = b.recombination_stage
    BY <1>6 DEF Left, Stage
  <1>9. /\ assembler' \in Members /\ Becomes(assembler') /\ payload \in Seq(Byte)
        /\ n = full => Pushed(assembler, assembler', payload) /\ Left' = 0
        /\ n # full => /\ Kept(assembler, assembler') /\ Stage' = payload
                       /\ Left' > 0 /\ (n < full => Left' = full - n)
    BY <1>2, <1>3, <1>6, <1>7, <1>8
  <1> QED
    BY <1>9 DEF payload, full

(* A further fragment of the last PDU comes to the assembler. *)
LEMMA ContinuedResult ==
  ASSUME TypeInv, NEW n \in Sizes, PeerContinues(n), connection = "known"
  PROVE  LET payload == Bytes(Last, offset, n)
         IN /\ assembler' \in Members /\ Becomes(assembler') /\ Stage \o payload \in Seq(Byte)
            /\ Left < n => Kept(assembler, assembler') /\ Left' = 0
            /\ Left > n => /\ Kept(assembler, assembler') /\ Stage' = Stage \o payload
                           /\ Left' = Left - n
            /\ Left = n => Pushed(assembler, assembler', Stage \o payload) /\ Left' = 0
  <1> USE AssemblerAssumption
  <1> DEFINE payload == Bytes(Last, offset, n)
             b == continuing_fragment(assembler, payload)
  <1>1. Last \in Nat /\ offset \in Nat /\ n \in Nat
    BY LastPdu DEF TypeInv, RemoteInv, Sizes
  <1>2. payload \in Seq(Byte) /\ Len(payload) = n
    BY <1>1, BytesProperties
  <1>3. Becomes(b)
    BY DEF PeerContinues, dequeue_and_route_acl_packet_to_connection, on_incoming_packet
  <1>4. assembler \in Members /\ assembler' = b
    BY <1>3 DEF TypeInv, Becomes
  <1>5. Stage \o payload \in Seq(Byte)
    BY <1>2, <1>4, ConcatProperties DEF Stage, Members
  <1> HIDE DEF payload
  <1>6. /\ b \in Members
        /\ Left < n => Kept(assembler, b) /\ b.remaining_sdu_continuation_packet_size = 0
        /\ Left > n =>
             /\ Kept(assembler, b) /\ b.recombination_stage = Stage \o payload
             /\ b.remaining_sdu_continuation_packet_size = Left - n
        /\ Left = n => /\ Pushed(assembler, b, Stage \o payload)
                       /\ b.remaining_sdu_continuation_packet_size = 0
    BY <1>2, <1>4, ContinueResult DEF Stage, Left
  <1> HIDE DEF b
  <1>7. Left' = b.remaining_sdu_continuation_packet_size /\ Stage' = b.recombination_stage
    BY <1>4 DEF Left, Stage
  <1>8. /\ assembler' \in Members /\ Becomes(assembler') /\ Stage \o payload \in Seq(Byte)
        /\ Left < n => Kept(assembler, assembler') /\ Left' = 0
        /\ Left > n => /\ Kept(assembler, assembler') /\ Stage' = Stage \o payload
                       /\ Left' = Left - n
        /\ Left = n => Pushed(assembler, assembler', Stage \o payload) /\ Left' = 0
    BY <1>3, <1>4, <1>5, <1>6, <1>7
  <1> QED
    BY <1>8 DEF payload

(* A starting fragment. *)
LEMMA PeerStartsStep ==
  ASSUME IInv, NEW length \in 0..MaxLength, NEW bytes \in 0..(MaxLength + 1),
         NEW n \in Sizes, PeerStarts(length, bytes, n)
  PROVE  IInv'
  <1>1. RemoteInv'
    BY NewPdu DEF IInv, TypeInv
  <1>2. UNCHANGED <<queue, received, connection, front_of_empty>>
    BY DEF PeerStarts
  <1>3. CASE connection = "known"
    <2> DEFINE payload == Bytes(Last + 1, 0, n)
    <2>1. /\ assembler' \in Members /\ Becomes(assembler') /\ payload \in Seq(Byte)
          /\ Kept(assembler, assembler') \/ Pushed(assembler, assembler', payload)
      BY <1>3, NewPduResult DEF IInv
    <2> HIDE DEF payload
    <2>2. FrontInv' /\ registered' \in BOOLEAN
      BY <1>2, <2>1, FrontKept DEF IInv
    <2> QED
      BY <1>1, <1>2, <2>1, <2>2 DEF IInv, TypeInv
  <1>4. CASE connection # "known"
    <2>1. UNCHANGED <<assembler, registered>>
      BY <1>4 DEF PeerStarts, dequeue_and_route_acl_packet_to_connection
    <2> QED
      BY <1>1, <1>2, <2>1 DEF IInv, TypeInv, FrontInv
  <1> QED
    BY <1>3, <1>4

(* A continuing fragment. *)
LEMMA PeerContinuesStep ==
  ASSUME IInv, NEW n \in Sizes, PeerContinues(n)
  PROVE  IInv'
  <1> USE AssemblerAssumption
  <1>1. RemoteInv'
    <2>1. /\ pdus' = pdus /\ offset' = offset + n /\ offset' <= Total(Last) /\ Last > 0
          /\ lost' \subseteq lost \cup {Last}
      BY DEF PeerContinues
    <2>2. Last' = Last /\ Total(Last)' = Total(Last)
      BY <2>1 DEF Last, Total
    <2>3. Last \in Nat /\ DOMAIN pdus = 1..Last
      BY LastPdu DEF IInv, TypeInv
    <2>4. offset' \in Nat
      BY <2>1 DEF IInv, TypeInv, RemoteInv, Sizes
    <2>5. lost' \subseteq DOMAIN pdus'
      BY <2>1, <2>3 DEF IInv, TypeInv, RemoteInv
    <2> QED
      BY <2>1, <2>2, <2>4, <2>5 DEF IInv, TypeInv, RemoteInv
  <1>2. UNCHANGED <<queue, received, connection, front_of_empty>>
    BY DEF PeerContinues
  <1>3. CASE connection = "known"
    <2> DEFINE payload == Stage \o Bytes(Last, offset, n)
    <2>1. Left < n \/ Left > n \/ Left = n
      BY SizeTIsPositive DEF IInv, TypeInv, Members, Left, Sizes
    <2>2. /\ assembler' \in Members /\ Becomes(assembler') /\ payload \in Seq(Byte)
          /\ Kept(assembler, assembler') \/ Pushed(assembler, assembler', payload)
      BY <1>3, <2>1, ContinuedResult DEF IInv
    <2> HIDE DEF payload
    <2>3. FrontInv' /\ registered' \in BOOLEAN
      BY <1>2, <2>2, FrontKept DEF IInv
    <2> QED
      BY <1>1, <1>2, <2>2, <2>3 DEF IInv, TypeInv
  <1>4. CASE connection # "known"
    <2>1. UNCHANGED <<assembler, registered>>
      BY <1>4 DEF PeerContinues, dequeue_and_route_acl_packet_to_connection
    <2> QED
      BY <1>1, <1>2, <2>1 DEF IInv, TypeInv, FrontInv
  <1> QED
    BY <1>3, <1>4

(* The peer gives the rest of its PDU up. *)
LEMMA PeerFlushesStep ==
  ASSUME IInv, PeerFlushes
  PROVE  IInv' /\ Last > 0
  <1> USE AssemblerAssumption
  <1>1. /\ UNCHANGED <<assembler, registered, queue, received, connection, pdus, front_of_empty>>
        /\ offset' = Total(Last) /\ lost' = lost \cup {Last} /\ Last > 0
    BY DEF PeerFlushes, Finished
  <1>2. /\ Last \in Nat /\ DOMAIN pdus = 1..Last /\ Total(Last) \in Nat
    BY <1>1, LastPdu DEF IInv, TypeInv
  <1>3. Last' = Last /\ Total(Last)' = Total(Last)
    BY <1>1 DEF Last, Total
  <1>4. lost' \subseteq DOMAIN pdus'
    BY <1>1, <1>2 DEF IInv, TypeInv, RemoteInv
  <1>5. RemoteInv'
    BY <1>1, <1>2, <1>3, <1>4 DEF IInv, TypeInv, RemoteInv
  <1> QED
    BY <1>1, <1>5 DEF IInv, TypeInv, FrontInv

(* The assembler ignores other packets. *)
LEMMA OtherPacketStep ==
  ASSUME IInv, NEW flag \in {"ACTIVE_PERIPHERAL_BROADCAST", "FIRST_NON_AUTOMATICALLY_FLUSHABLE"},
         OtherPacket(flag)
  PROVE  UNCHANGED vars
  <1>1. UNCHANGED <<queue, received, connection, remote, lost, front_of_empty>>
    BY DEF OtherPacket
  <1>2. CASE connection = "known"
    <2>1. on_incoming_packet(assembler, flag, <<>>, pdus') = assembler
      BY DEF on_incoming_packet
    <2>2. Becomes(assembler)
      BY <1>2, <2>1 DEF OtherPacket, dequeue_and_route_acl_packet_to_connection
    <2>3. assembler' = assembler /\ registered' = registered
      BY <2>2 DEF Becomes, IInv, TypeInv
    <2> QED
      BY <1>1, <2>3 DEF vars
  <1>3. CASE connection # "known"
    BY <1>1, <1>3 DEF vars, OtherPacket, dequeue_and_route_acl_packet_to_connection
  <1> QED
    BY <1>2, <1>3

(* Nothing that the other steps leave alone is in RemoteInv. *)
LEMMA RemoteKept ==
  ASSUME RemoteInv, UNCHANGED <<remote, lost>>
  PROVE  RemoteInv' /\ Last' = Last /\ Finished' = Finished /\ UNCHANGED <<pdus, offset, lost>>
  BY DEF RemoteInv, remote, Last, Total, Finished

LEMMA ConnectionIsAddedStep ==
  ASSUME IInv, ConnectionIsAdded
  PROVE  IInv'
  BY RemoteKept DEF IInv, TypeInv, FrontInv, ConnectionIsAdded

(* The destructor unregisters what is registered. *)
LEMMA ConnectionIsRemovedStep ==
  ASSUME IInv, ConnectionIsRemoved
  PROVE  IInv' /\ assembler'.incoming_queue = <<>>
  <1> USE AssemblerAssumption
  <1>1. RemoteInv'
    BY RemoteKept DEF IInv, TypeInv, ConnectionIsRemoved
  <1>2. <<>> \in Seq(Seq(Byte)) /\ Len(<<>>) = 0
    BY EmptySeq
  <1>3. /\ assembler' \in Members /\ ~assembler'.enqueue_registered
        /\ assembler'.incoming_queue = <<>>
    <2> DEFINE e == <<>>
    <2>1. e \in Seq(Seq(Byte)) /\ Len(e) <= kMaxQueuedPacketsPerConnection + 1
      BY <1>2
    <2>2. assembler' = [assembler EXCEPT !.enqueue_registered = FALSE, !.incoming_queue = e]
      BY DEF ConnectionIsRemoved
    <2> HIDE DEF e
    <2>3. assembler' \in Members /\ ~assembler'.enqueue_registered /\ assembler'.incoming_queue = e
      BY <2>1, <2>2 DEF IInv, TypeInv, Members
    <2> QED
      BY <2>3 DEF e
  <1>4. ~registered'
    BY DEF ConnectionIsRemoved, IInv, FrontInv
  <1> QED
    BY <1>1, <1>3, <1>4 DEF IInv, TypeInv, FrontInv, ConnectionIsRemoved

(* The callback takes the PDU at the front. *)
LEMMA DataReadyStep ==
  ASSUME IInv, on_le_incoming_data_ready
  PROVE  IInv' /\ Output' = Output /\ Left' = Left /\ Stage' = Stage
  <1> USE AssemblerAssumption
  <1> DEFINE q == assembler.incoming_queue
             rest == Tail(q)
             ends == rest = <<>> /\ assembler.enqueue_registered
  <1>1. /\ q # <<>> /\ q \in Seq(Seq(Byte)) /\ assembler.enqueue_registered
        /\ registered /\ queue \in Seq(Seq(Byte)) /\ received \in Seq(Seq(Byte))
        /\ Len(q) <= kMaxQueuedPacketsPerConnection + 1 /\ Len(queue) < QueueSize
    BY DEF on_le_incoming_data_ready, IInv, TypeInv, FrontInv, Members
  <1>2. /\ Head(q) \in Seq(Byte) /\ rest \in Seq(Seq(Byte)) /\ Len(rest) = Len(q) - 1
        /\ Len(q) \in Nat /\ Len(queue) \in Nat
    BY <1>1, HeadTailProperties, LenProperties
  <1>3. /\ queue' = Append(queue, Head(q))
        /\ assembler' = [assembler EXCEPT !.incoming_queue = rest,
                                          !.enqueue_registered = @ /\ ~ends]
        /\ registered' = (registered /\ ~ends)
        /\ UNCHANGED front_of_empty
        /\ UNCHANGED <<received, connection, remote, lost>>
    BY <1>1 DEF on_le_incoming_data_ready
  <1>4. RemoteInv'
    BY <1>3, RemoteKept DEF IInv, TypeInv
  <1>5. queue' \in Seq(Seq(Byte)) /\ Len(queue') <= QueueSize
    BY <1>1, <1>2, <1>3, AppendProperties
  <1>6. Len(rest) <= kMaxQueuedPacketsPerConnection + 1
    BY <1>1, <1>2
  <1>7. Output' = Output
    <2>1. received \o queue \in Seq(Seq(Byte))
      BY OutputType DEF IInv
    <2>2. received \o Append(queue, Head(q)) = Append(received \o queue, Head(q))
      <3> DEFINE h == Head(q)
      <3>1. h \in Seq(Byte)
        BY <1>2
      <3> HIDE DEF h
      <3>2. received \o Append(queue, h) = Append(received \o queue, h)
        BY <1>1, <3>1, AppendAfter
      <3> QED
        BY <3>2 DEF h
    <2>3. Append(received \o queue, Head(q)) \o rest = (received \o queue) \o q
      BY <1>1, <2>1, MoveFirst
    <2>4. assembler'.incoming_queue = rest
      BY <1>3 DEF IInv, TypeInv, Members
    <2> QED
      BY <1>3, <2>2, <2>3, <2>4 DEF Output
  <1>8. /\ assembler' \in Members /\ assembler'.incoming_queue = rest
        /\ assembler'.enqueue_registered = (rest # <<>>)
        /\ Left' = Left /\ Stage' = Stage
    <2> DEFINE flag == assembler.enqueue_registered /\ ~ends
    <2>1. flag = (rest # <<>>) /\ flag \in BOOLEAN
      BY <1>1
    <2>2. assembler' = [assembler EXCEPT !.incoming_queue = rest, !.enqueue_registered = flag]
      BY <1>3
    <2> HIDE DEF flag, rest
    <2> QED
      BY <1>2, <1>6, <2>1, <2>2 DEF IInv, TypeInv, Members, Left, Stage
  <1>9. registered' = (rest # <<>>)
    BY <1>1, <1>3
  <1> HIDE DEF rest
  <1>10. FrontInv'
    BY <1>3, <1>8, <1>9 DEF IInv, FrontInv
  <1>11. TypeInv'
    BY <1>3, <1>4, <1>5, <1>8, <1>9 DEF IInv, TypeInv
  <1> QED
    BY <1>7, <1>8, <1>10, <1>11 DEF IInv

LEMMA ClientDequeuesStep ==
  ASSUME IInv, ClientDequeues
  PROVE  IInv' /\ Output' = Output
  <1> USE AssemblerAssumption
  <1>1. /\ queue # <<>> /\ queue \in Seq(Seq(Byte)) /\ received \in Seq(Seq(Byte))
        /\ received' = Append(received, Head(queue)) /\ queue' = Tail(queue)
        /\ UNCHANGED <<assembler, registered, connection, remote, lost, front_of_empty>>
    BY DEF ClientDequeues, IInv, TypeInv
  <1>2. /\ Head(queue) \in Seq(Byte) /\ queue' \in Seq(Seq(Byte))
        /\ Len(queue') = Len(queue) - 1 /\ Len(queue) \in Nat
    BY <1>1, HeadTailProperties, LenProperties
  <1>3. received' \in Seq(Seq(Byte))
    BY <1>1, <1>2, AppendProperties
  <1>4. RemoteInv'
    BY <1>1, RemoteKept DEF IInv, TypeInv
  <1>5. received' \o queue' = received \o queue
    BY <1>1, MoveFirst
  <1>6. Len(queue') <= QueueSize
    BY <1>2 DEF IInv, TypeInv
  <1> QED
    BY <1>1, <1>2, <1>3, <1>4, <1>5, <1>6 DEF IInv, TypeInv, FrontInv, Output

LEMMA InitIInv == Init => IInv
  <1> USE AssemblerAssumption
  <1> SUFFICES ASSUME Init PROVE IInv
    OBVIOUS
  <1>1. /\ <<>> \in Seq(Seq(Byte)) /\ <<>> \in Seq(Byte) /\ Len(<<>>) = 0 /\ <<>> \in Seq(Pdu)
        /\ 0 \in 0..(SizeT - 1)
    BY EmptySeq, SizeTIsPositive
  <1>2. assembler \in Members
    BY <1>1 DEF Init, Members
  <1>3. RemoteInv
    BY <1>1 DEF Init, RemoteInv, Last
  <1>4. TypeInv
    <2>1. queue \in Seq(Seq(Byte)) /\ received \in Seq(Seq(Byte)) /\ Len(queue) = 0
      BY <1>1 DEF Init
    <2>2. Len(queue) <= QueueSize
      BY <2>1
    <2>3. connection = "early" /\ registered = FALSE /\ front_of_empty = FALSE
      BY DEF Init
    <2> QED
      BY <1>2, <1>3, <2>1, <2>2, <2>3 DEF TypeInv
  <1>5. FrontInv
    BY DEF Init, FrontInv
  <1> QED
    BY <1>4, <1>5 DEF IInv

LEMMA NextIInv == IInv /\ [Next]_vars => IInv'
  <1> SUFFICES ASSUME IInv, [Next]_vars PROVE IInv'
    OBVIOUS
  <1>1. CASE UNCHANGED vars
    <2>1. RemoteInv'
      BY <1>1, RemoteKept DEF vars, IInv, TypeInv
    <2> QED
      BY <1>1, <2>1 DEF vars, IInv, TypeInv, FrontInv
  <1>2. ASSUME NEW length \in 0..MaxLength, NEW bytes \in 0..(MaxLength + 1),
               NEW n \in Sizes, PeerStarts(length, bytes, n)
        PROVE  IInv'
    BY <1>2, PeerStartsStep
  <1>3. ASSUME NEW n \in Sizes, PeerContinues(n)
        PROVE  IInv'
    BY <1>3, PeerContinuesStep
  <1>4. ASSUME NEW flag \in {"ACTIVE_PERIPHERAL_BROADCAST", "FIRST_NON_AUTOMATICALLY_FLUSHABLE"},
               OtherPacket(flag)
        PROVE  IInv'
    BY <1>1, <1>4, OtherPacketStep
  <1>5. CASE PeerFlushes
    BY <1>5, PeerFlushesStep
  <1>6. CASE ConnectionIsAdded
    BY <1>6, ConnectionIsAddedStep
  <1>7. CASE ConnectionIsRemoved
    BY <1>7, ConnectionIsRemovedStep
  <1>8. CASE on_le_incoming_data_ready
    BY <1>8, DataReadyStep
  <1>9. CASE ClientDequeues
    BY <1>9, ClientDequeuesStep
  <1> QED
    BY <1>1, <1>2, <1>3, <1>4, <1>5, <1>6, <1>7, <1>8, <1>9 DEF Next

(* assembler, queue and callback agree in every reachable state. *)
THEOREM InvariantHolds == Spec => []IInv
  BY InitIInv, NextIInv, PTL DEF Spec

(* incoming_queue_ stays within its limit, and whenever the connection's   *)
(* queue calls on_le_incoming_data_ready there is a PDU for it to take.    *)
THEOREM FrontAlwaysThere == Spec => []Consistent
  <1>1. IInv => Consistent
    <2> SUFFICES ASSUME IInv PROVE Consistent
      OBVIOUS
    <2>1. TypeOK
      BY DEF IInv, TypeInv, RemoteInv, Members, TypeOK, Pdu
    <2> QED
      BY <2>1 DEF IInv, FrontInv, Consistent, FrontIsThere
  <1> QED
    BY <1>1, InvariantHolds, PTL

(***************************************************************************)
(* All and only the whole PDUs, in order, from a controller that passes no *)
(* empty continuing fragments.                                             *)
(***************************************************************************)
(* PDUs that were handed over stay so. *)
LEMMA EarlierPdus ==
  ASSUME TypeInv, NothingElseLost, connection # "gone", lost \subseteq lost',
         \A i \in DOMAIN Output : i \in DOMAIN Output' /\ Output'[i] = Output[i],
         NEW p \in 1..Last, p \notin lost', p < Last \/ Finished
  PROVE  \E i \in DOMAIN Output' : Output'[i][1][1] = p
  <1>1. DOMAIN pdus = 1..Last
    BY LastPdu DEF TypeInv
  <1>2. PICK i \in DOMAIN Output : Output[i][1][1] = p
    BY <1>1 DEF NothingElseLost
  <1> QED
    BY <1>2

(* The PDU before a starting fragment is over: with the fragment a new one *)
(* is handed over, or is unfinished, or is lost.                           *)
LEMMA PeerStartsPdus ==
  ASSUME IInv, PduInv, NEW length \in 0..MaxLength, NEW bytes \in 0..(MaxLength + 1),
         NEW n \in Sizes, PeerStarts(length, bytes, n)
  PROVE  PduInv'
  <1> USE AssemblerAssumption
  <1> DEFINE new == Last + 1
             payload == Bytes(new, 0, n)
             full == Full(pdus'[new])
             total == Total(Last)'
  <1>1. IInv'
    BY PeerStartsStep
  <1>2. /\ Last' = new /\ new \in Nat /\ Last \in Nat
        /\ \A q \in 1..Last : q \in 1..Last' /\ pdus'[q] = pdus[q]
        /\ n \in Nat /\ full \in Nat /\ total \in Nat
        /\ offset' = n /\ n <= total /\ (n > full => n = total)
        /\ lost' = IF total # full \/ Loses(n = total) THEN lost \cup {new} ELSE lost
    BY NewPdu, LastPdu DEF IInv, TypeInv, Starts
  <1>3. Finished /\ UNCHANGED <<queue, received, connection, front_of_empty>>
    BY DEF PeerStarts
  <1>5. Finished' <=> n = total
    <2>1. new > 0
      BY <1>2
    <2> QED
      BY <1>2, <2>1 DEF Finished
  <1> HIDE DEF full, total
  <1>6. lost \subseteq lost' /\ (new \notin lost' => total = full /\ ~Loses(n = total))
    BY <1>2
  <1>7. \A i \in DOMAIN Output : Output[i][1][1] < new
    <2> TAKE i \in DOMAIN Output
    <2>1. Output[i][1][1] \in 1..Last
      BY OutputNames DEF IInv, PduInv
    <2> QED
      BY <1>2, <2>1
  <1>8. DOMAIN pdus' = 1..new /\ \A p \in 1..new : p \in 1..Last \/ p = new
    <2>1. DOMAIN pdus' = 1..Last'
      BY <1>1, LenProperties DEF IInv, TypeInv, RemoteInv, Last
    <2> QED
      BY <1>2, <2>1
  <1>9. ASSUME Output' = Output,
               new \notin lost' /\ n = total /\ connection # "gone" => FALSE
        PROVE  WholePdusInOrder' /\ NothingElseLost'
    <2>1. WholePdusInOrder'
      BY <1>1, <1>2, <1>9, OrderSame DEF IInv, PduInv
    <2>2. ASSUME connection # "gone", NEW p \in 1..new, p \notin lost', p < new \/ Finished'
          PROVE  \E i \in DOMAIN Output' : Output'[i][1][1] = p
      <3>1. p \in 1..Last
        BY <1>5, <1>8, <1>9, <1>2, <2>2
      <3> QED
        BY <1>3, <1>6, <1>9, <2>2, <3>1, EarlierPdus DEF IInv, PduInv
    <2>3. NothingElseLost'
      BY <1>2, <1>3, <1>8, <2>2 DEF NothingElseLost
    <2> QED
      BY <2>1, <2>3
  <1>10. CASE connection # "known"
    <2>1. UNCHANGED <<assembler, registered>>
      BY <1>10 DEF PeerStarts, dequeue_and_route_acl_packet_to_connection
    <2>2. Output' = Output /\ Left' = Left
      BY <1>3, <2>1 DEF Output, Left
    <2>3. new \in lost'
      BY <1>2, <1>10 DEF Loses
    <2>4. StageInv'
      BY <1>3, <1>10 DEF StageInv
    <2>5. LostInv'
      <3>1. ASSUME connection = "early" PROVE DOMAIN pdus' \subseteq lost' /\ Left' = 0
        <4>1. DOMAIN pdus = 1..Last
          BY LastPdu DEF IInv, TypeInv
        <4>2. 1..Last \subseteq lost /\ Left = 0
          BY <3>1, <4>1 DEF PduInv, LostInv
        <4> QED
          BY <1>6, <1>8, <2>2, <2>3, <4>2
      <3> QED
        BY <1>3, <1>10, <3>1 DEF LostInv
    <2> QED
      BY <1>9, <2>2, <2>3, <2>4, <2>5 DEF PduInv
  <1>11. CASE connection = "known"
    <2>1. /\ payload \in Seq(Byte)
          /\ n = full => Pushed(assembler, assembler', payload) /\ Left' = 0
          /\ n # full => /\ Kept(assembler, assembler') /\ Stage' = payload
                           /\ Left' > 0 /\ (n < full => Left' = full - n)
      BY <1>11, NewPduResult DEF IInv, full
    <2>2. CASE n # full
      <3>1. Output' = Output
        BY <1>3, <2>1, <2>2 DEF Output, Kept
      <3>2. StageInv'
        <4>1. Len(Stage') = n /\ Stage' = Bytes(Last', 0, Len(Stage'))
          <5>1. 0 \in Nat
            OBVIOUS
          <5>2. Len(payload) = n
            BY ONLY <1>2, <5>1, BytesProperties
          <5> QED
            BY <1>2, <2>1, <2>2, <5>2
        <4>2. ~Finished' => /\ Len(Stage') = offset'
                            /\ Left' + offset' =
                                 Full(pdus'[Last'])
          <5> SUFFICES ASSUME ~Finished'
                       PROVE  /\ Len(Stage') = offset'
                              /\ Left' + offset' =
                                   Full(pdus'[Last'])
            OBVIOUS
          <5>1. n < full
            BY <1>2, <1>5, <2>2
          <5>2. Left' = full - n
            BY <2>1, <2>2, <5>1
          <5> HIDE DEF payload
          <5> QED
            BY <1>2, <4>1, <5>2 DEF full
        <4>3. Last' > 0 /\ \A j \in DOMAIN Output' : Output'[j][1][1] < Last'
          BY <1>2, <1>7, <3>1
        <4> QED
          BY <4>1, <4>2, <4>3 DEF StageInv
      <3>3. LostInv'
        BY <1>2, <1>3, <1>6, <1>11, <2>1, <2>2 DEF LostInv, full, total
      <3>4. new \notin lost' /\ n = total => FALSE
        BY <1>6, <2>2
      <3> QED
        BY <1>9, <3>1, <3>2, <3>3, <3>4 DEF PduInv
    <2>3. CASE n = full
      <3>1. StageInv'
        BY <2>1, <2>3 DEF StageInv
      <3>2. LostInv'
        BY <1>2, <1>3, <1>5, <1>6, <1>11, <2>3 DEF LostInv
      <3>3. CASE assembler'.incoming_queue = Append(assembler.incoming_queue, payload)
        <4>1. Output' = Append(Output, Bytes(new, 0, Full(pdus'[new])))
          BY <1>3, <2>1, <2>3, <3>3, OutputAppends DEF IInv, full
        <4>2. new \in 1..Last'
          BY <1>2
        <4>3. /\ WholePdusInOrder'
              /\ \A j \in DOMAIN Output : j \in DOMAIN Output' /\ Output'[j] = Output[j]
              /\ \E j \in DOMAIN Output' : Output'[j][1][1] = new
          BY <1>1, <1>2, <1>7, <4>1, <4>2, OrderKept DEF IInv, PduInv
        <4>4. ASSUME NEW p \in 1..new, p \notin lost'
              PROVE  \E j \in DOMAIN Output' : Output'[j][1][1] = p
          BY <1>3, <1>6, <1>8, <1>11, <4>3, <4>4, EarlierPdus DEF IInv, PduInv
        <4>5. NothingElseLost'
          BY <1>8, <4>4 DEF NothingElseLost
        <4> QED
          BY <3>1, <3>2, <4>3, <4>5 DEF PduInv
      <3>4. CASE /\ Len(assembler.incoming_queue) > kMaxQueuedPacketsPerConnection
                 /\ assembler'.incoming_queue = assembler.incoming_queue
        <4>1. Output' = Output
          BY <1>3, <3>4 DEF Output
        <4>2. new \in lost'
          BY <1>2, <2>3, <3>4 DEF Loses
        <4> QED
          BY <1>9, <3>1, <3>2, <4>1, <4>2 DEF PduInv
      <3> QED
        BY <2>1, <2>3, <3>3, <3>4 DEF Pushed
    <2> QED
      BY <2>2, <2>3
  <1> QED
    BY <1>10, <1>11

(* A fragment with a byte continues a PDU that is not over.  If all of it  *)
(* came so far, the assembler waits for exactly what is left of it.        *)
LEMMA PeerContinuesPdus ==
  ASSUME IInv, PduInv, ~EmptyFragments, NEW n \in Sizes, PeerContinues(n)
  PROVE  PduInv'
  <1> USE AssemblerAssumption
  <1> DEFINE payload == Stage \o Bytes(Last, offset, n)
             size == Full(pdus[Last])
  <1>1. IInv'
    BY PeerContinuesStep
  <1>2. /\ Last > 0 /\ offset + n <= Total(Last) /\ n > 0 /\ offset' = offset + n
        /\ UNCHANGED <<pdus, queue, received, connection, front_of_empty>>
        /\ lost' = IF ~Finished /\ Loses(offset' = Total(Last)) THEN lost \cup {Last} ELSE lost
    BY DEF PeerContinues
  <1>3. /\ Last \in Nat /\ DOMAIN pdus = 1..Last /\ Total(Last) \in Nat /\ offset \in Nat
        /\ Total(Last) = kL2capBasicFrameHeaderSize + pdus[Last].bytes /\ size \in Nat
        /\ n \in Nat
    BY <1>2, LastPdu, FullSize DEF IInv, TypeInv, RemoteInv, Sizes
  <1>4. ~Finished
    BY <1>2, <1>3 DEF Finished
  <1>5. Last' = Last /\ (Finished' <=> offset' = Total(Last))
    BY <1>2 DEF Last, Finished, Total
  <1>6. lost \subseteq lost' /\ (Last \notin lost' => ~Loses(offset' = Total(Last)))
    BY <1>2, <1>4
  <1>7. Left \in Nat
    BY SizeTIsPositive DEF IInv, TypeInv, Members, Left
  <1>8. ASSUME Output' = Output,
               Finished' /\ Last \notin lost' /\ connection # "gone" => FALSE
        PROVE  WholePdusInOrder' /\ NothingElseLost'
    <2>1. WholePdusInOrder'
      BY <1>1, <1>2, <1>5, <1>8, OrderSame DEF IInv, PduInv
    <2>2. ASSUME connection # "gone", NEW p \in 1..Last, p \notin lost', p < Last \/ Finished'
          PROVE  \E i \in DOMAIN Output' : Output'[i][1][1] = p
      <3>1. p < Last
        BY <1>3, <1>8, <2>2
      <3> QED
        BY <1>6, <1>8, <2>2, <3>1, EarlierPdus DEF IInv, PduInv
    <2>3. NothingElseLost'
      BY <1>2, <1>3, <1>5, <2>2 DEF NothingElseLost
    <2> QED
      BY <2>1, <2>3
  <1>9. CASE connection # "known"
    <2>1. UNCHANGED <<assembler, registered>>
      BY <1>9 DEF PeerContinues, dequeue_and_route_acl_packet_to_connection
    <2>2. Output' = Output /\ Left' = Left
      BY <1>2, <2>1 DEF Output, Left
    <2>3. Last \in lost'
      BY <1>2, <1>4, <1>9 DEF Loses
    <2>4. StageInv'
      BY <1>2, <1>9 DEF StageInv
    <2>5. LostInv'
      BY <1>2, <1>6, <1>9, <2>2 DEF PduInv, LostInv
    <2> QED
      BY <1>8, <2>2, <2>3, <2>4, <2>5 DEF PduInv
  <1>10. CASE connection = "known"
    <2>1. /\ payload \in Seq(Byte)
          /\ Left < n => Kept(assembler, assembler') /\ Left' = 0
          /\ Left > n => /\ Kept(assembler, assembler') /\ Stage' = payload /\ Left' = Left - n
          /\ Left = n => Pushed(assembler, assembler', payload) /\ Left' = 0
      BY <1>10, ContinuedResult DEF IInv
    <2>2. ASSUME Left > 0
          PROVE  /\ payload = Bytes(Last, 0, offset + n) /\ Len(payload) = offset + n
                 /\ Left + offset = size
                 /\ \A i \in DOMAIN Output : Output[i][1][1] < Last
      <3>1. /\ Stage = Bytes(Last, 0, offset) /\ Left + offset = size
            /\ \A i \in DOMAIN Output : Output[i][1][1] < Last
        BY <1>4, <1>10, <2>2 DEF PduInv, StageInv
      <3>2. payload = Bytes(Last, 0, offset + n)
        <4>1. Bytes(Last, 0, offset) \o Bytes(Last, offset, n) = Bytes(Last, 0, offset + n)
          BY ONLY <1>3, BytesJoin
        <4> QED
          BY <3>1, <4>1
      <3>3. Len(Bytes(Last, 0, offset + n)) = offset + n
        <4>1. 0 \in Nat /\ offset + n \in Nat
          BY <1>3
        <4> QED
          BY <1>3, <4>1, BytesProperties
      <3> QED
        BY <3>1, <3>2, <3>3
    <2>3. ASSUME Last \notin lost'
          PROVE  Left > 0 /\ Total(Last) = Full(pdus[Last]) /\ Left + offset = Total(Last)
      <3>1. Left > 0 /\ Total(Last) = Full(pdus[Last])
        BY <1>2, <1>4, <1>6, <1>10, <2>3 DEF PduInv, LostInv
      <3> QED
        BY <1>3, <2>2, <3>1
    <2> HIDE DEF payload, size
    <2>4. CASE Left < n
      <3>1. Output' = Output
        BY <1>2, <2>1, <2>4 DEF Output, Kept
      <3>2. Last \in lost'
        BY <1>2, <1>3, <1>7, <2>3, <2>4
      <3>3. StageInv'
        BY <2>1, <2>4 DEF StageInv
      <3>4. LostInv'
        BY <1>2, <1>5, <1>10, <3>2 DEF LostInv
      <3> QED
        BY <1>8, <3>1, <3>2, <3>3, <3>4 DEF PduInv
    <2>5. CASE Left > n
      <3>1. Output' = Output /\ Stage' = payload /\ Left' = Left - n /\ Left' > 0 /\ Left > 0
        <4>1. Kept(assembler, assembler') /\ Stage' = payload /\ Left' = Left - n
          BY <2>1, <2>5
        <4>2. Output' = Output
          BY <1>2, <4>1 DEF Output, Kept
        <4>3. Left - n > 0 /\ Left > 0
          BY <1>3, <1>7, <2>5
        <4> QED
          BY <4>1, <4>2, <4>3
      <3>2. StageInv'
        <4>1. Len(Stage') = offset' /\ Stage' = Bytes(Last', 0, Len(Stage'))
          BY <1>2, <1>5, <2>2, <3>1
        <4>2. Left' + offset' = Full(pdus'[Last'])
          BY <1>2, <1>3, <1>5, <1>7, <2>2, <3>1 DEF size
        <4>3. Last' > 0 /\ \A i \in DOMAIN Output' : Output'[i][1][1] < Last'
          BY <1>2, <1>5, <2>2, <3>1
        <4> QED
          BY <4>1, <4>2, <4>3 DEF StageInv
      <3>3. LostInv'
        BY <1>2, <1>5, <1>10, <2>3, <3>1 DEF LostInv, Total
      <3>4. Finished' /\ Last \notin lost' => FALSE
        BY <1>2, <1>3, <1>5, <1>7, <2>3, <2>5
      <3> QED
        BY <1>8, <3>1, <3>2, <3>3, <3>4 DEF PduInv
    <2>6. CASE Left = n
      <3>1. /\ Left' = 0 /\ Pushed(assembler, assembler', payload)
            /\ payload = Bytes(Last, 0, size) /\ offset' = size
            /\ \A i \in DOMAIN Output : Output[i][1][1] < Last
        <4>1. Left > 0 /\ offset + n = n + offset
          BY <1>2, <1>3, <2>6
        <4> QED
          BY <1>2, <2>1, <2>2, <2>6, <4>1
      <3>2. StageInv'
        BY <3>1 DEF StageInv
      <3>3. LostInv'
        <4>1. Last \notin lost' => Finished'
          BY <1>2, <1>3, <1>5, <2>3, <2>6
        <4> QED
          BY <1>2, <1>5, <1>10, <4>1 DEF LostInv
      <3>4. CASE assembler'.incoming_queue = Append(assembler.incoming_queue, payload)
        <4>1. Output' = Append(Output, Bytes(Last, 0, Full(pdus'[Last])))
          <5>1. Output' = Append(Output, payload)
            BY <1>2, <2>1, <3>4, OutputAppends DEF IInv
          <5> QED
            BY <1>2, <3>1, <5>1 DEF size
        <4>2. Last \in 1..Last'
          BY <1>2, <1>3, <1>5
        <4>3. /\ WholePdusInOrder'
              /\ \A j \in DOMAIN Output : j \in DOMAIN Output' /\ Output'[j] = Output[j]
              /\ \E j \in DOMAIN Output' : Output'[j][1][1] = Last
          BY <1>1, <1>2, <1>5, <3>1, <4>1, <4>2, OrderKept DEF IInv, PduInv
        <4>4. ASSUME NEW p \in 1..Last, p \notin lost'
              PROVE  \E j \in DOMAIN Output' : Output'[j][1][1] = p
          <5>1. CASE p = Last
            BY <4>3, <5>1
          <5>2. CASE p # Last
            <6>1. p < Last
              BY <1>3, <5>2
            <6> QED
              BY <1>6, <1>10, <4>3, <4>4, <6>1, EarlierPdus DEF IInv, PduInv
          <5> QED
            BY <5>1, <5>2
        <4>5. NothingElseLost'
          BY <1>2, <1>3, <4>4 DEF NothingElseLost
        <4> QED
          BY <3>2, <3>3, <4>3, <4>5 DEF PduInv
      <3>5. CASE /\ Len(assembler.incoming_queue) > kMaxQueuedPacketsPerConnection
                 /\ assembler'.incoming_queue = assembler.incoming_queue
        <4>1. Output' = Output
          BY <1>2, <3>5 DEF Output
        <4>2. Finished' => Last \in lost'
          BY <1>2, <1>4, <1>5, <3>5 DEF Loses
        <4> QED
          BY <1>8, <3>2, <3>3, <4>1, <4>2 DEF PduInv
      <3> QED
        BY <3>1, <3>4, <3>5 DEF Pushed
    <2> QED
      BY <1>3, <1>7, <2>4, <2>5, <2>6
  <1> QED
    BY <1>9, <1>10

(* A PDU that the peer gives up is lost. *)
LEMMA PeerFlushesPdus ==
  ASSUME IInv, PduInv, PeerFlushes
  PROVE  PduInv'
  <1>1. IInv' /\ Last > 0
    BY PeerFlushesStep
  <1>2. /\ UNCHANGED <<assembler, registered, queue, received, connection, pdus, front_of_empty>>
        /\ offset' = Total(Last) /\ lost' = lost \cup {Last} /\ ~Finished
    BY DEF PeerFlushes
  <1>3. Last' = Last /\ Finished' /\ Last \in Nat /\ DOMAIN pdus = 1..Last
    BY <1>2, LastPdu DEF Last, Finished, Total, IInv, TypeInv
  <1>4. Output' = Output /\ Left' = Left /\ Stage' = Stage
    BY <1>2 DEF Output, Left, Stage
  <1>5. StageInv'
    BY <1>2, <1>3, <1>4 DEF PduInv, StageInv
  <1>6. LostInv'
    BY <1>2, <1>3, <1>4 DEF PduInv, LostInv
  <1>7. WholePdusInOrder'
    BY <1>1, <1>2, <1>3, <1>4, OrderSame DEF IInv, PduInv
  <1>8. NothingElseLost'
    <2>1. ASSUME connection # "gone", NEW p \in 1..Last, p \notin lost'
          PROVE  \E i \in DOMAIN Output' : Output'[i][1][1] = p
      <3>1. p < Last
        BY <1>2, <1>3, <2>1
      <3> QED
        BY <1>2, <1>4, <2>1, <3>1, EarlierPdus DEF IInv, PduInv
    <2> QED
      BY <1>2, <1>3, <2>1 DEF NothingElseLost
  <1> QED
    BY <1>5, <1>6, <1>7, <1>8 DEF PduInv

(* The steps in which the peer has no part. *)
LEMMA LocalPdus ==
  ASSUME IInv, IInv', PduInv, UNCHANGED <<remote, lost>>, Output' = Output,
         connection' = connection, Left' = Left, Stage' = Stage
  PROVE  PduInv'
  <1>1. UNCHANGED <<pdus, offset, lost>> /\ Last' = Last /\ Finished' = Finished
    BY RemoteKept DEF IInv, TypeInv
  <1>2. StageInv'
    BY <1>1 DEF PduInv, StageInv
  <1>3. LostInv'
    BY <1>1 DEF PduInv, LostInv, Total
  <1>4. WholePdusInOrder'
    BY <1>1, OrderSame DEF IInv, PduInv
  <1>5. NothingElseLost'
    BY <1>1 DEF PduInv, NothingElseLost
  <1> QED
    BY <1>2, <1>3, <1>4, <1>5 DEF PduInv

(* All that came before the connection is lost, and nothing of it is kept. *)
LEMMA ConnectionIsAddedPdus ==
  ASSUME IInv, PduInv, ConnectionIsAdded
  PROVE  PduInv'
  <1>1. IInv'
    BY ConnectionIsAddedStep
  <1>2. /\ connection = "early" /\ connection' = "known"
        /\ UNCHANGED <<assembler, registered, queue, received, remote, lost, front_of_empty>>
    BY DEF ConnectionIsAdded
  <1>3. UNCHANGED <<pdus, offset, lost>> /\ Last' = Last /\ Finished' = Finished
    BY <1>2, RemoteKept DEF IInv, TypeInv
  <1>4. Output' = Output /\ Left' = Left
    BY <1>2 DEF Output, Left
  <1>5. DOMAIN pdus \subseteq lost /\ Left = 0 /\ DOMAIN pdus = 1..Last /\ Last \in Nat
    BY <1>2, LastPdu DEF IInv, TypeInv, PduInv, LostInv
  <1>6. StageInv'
    BY <1>4, <1>5 DEF StageInv
  <1>7. LostInv'
    BY <1>2, <1>3, <1>5 DEF LostInv
  <1>8. WholePdusInOrder'
    BY <1>1, <1>3, <1>4, OrderSame DEF IInv, PduInv
  <1>9. NothingElseLost'
    BY <1>3, <1>5 DEF NothingElseLost
  <1> QED
    BY <1>6, <1>7, <1>8, <1>9 DEF PduInv

(* What is in incoming_queue_ goes with the assembler, and it is the end. *)
LEMMA ConnectionIsRemovedPdus ==
  ASSUME IInv, PduInv, ConnectionIsRemoved
  PROVE  PduInv'
  <1>1. IInv' /\ assembler'.incoming_queue = <<>>
    BY ConnectionIsRemovedStep
  <1>2. connection' = "gone" /\ UNCHANGED <<queue, received, remote, lost, front_of_empty>>
    BY DEF ConnectionIsRemoved
  <1>3. UNCHANGED <<pdus, offset, lost>>
    BY <1>2, RemoteKept DEF IInv, TypeInv
  <1> DEFINE s == received \o queue
             t == assembler.incoming_queue
  <1>4. /\ s \in Seq(Seq(Byte)) /\ t \in Seq(Seq(Byte)) /\ Output = s \o t
        /\ DOMAIN Output = 1..Len(Output)
    BY OutputType DEF IInv
  <1>5. Output' = s
    <2>1. s \o <<>> = s
      BY <1>4, ConcatEmptySeq
    <2> QED
      BY <1>1, <1>2, <2>1 DEF Output
  <1> HIDE DEF s, t
  <1>6. \A i \in DOMAIN Output' : i \in DOMAIN Output /\ Output'[i] = Output[i]
    <2> TAKE i \in DOMAIN Output'
    <2>1. Len(s) \in Nat /\ Len(t) \in Nat /\ i \in 1..Len(s)
      BY <1>4, <1>5, LenProperties
    <2>2. Len(s \o t) = Len(s) + Len(t)
          /\ \A j \in 1..(Len(s) + Len(t)) :
               (s \o t)[j] = IF j <= Len(s) THEN s[j] ELSE t[j - Len(s)]
      BY <1>4, ConcatProperties
    <2>3. i \in 1..(Len(s) + Len(t)) /\ i <= Len(s)
      BY <2>1
    <2> QED
      BY <1>4, <1>5, <2>2, <2>3
  <1>7. WholePdusInOrder'
    BY <1>3, <1>6 DEF PduInv, WholePdusInOrder
  <1> QED
    BY <1>2, <1>7 DEF PduInv, StageInv, LostInv, NothingElseLost

LEMMA InitPdus == Init => PduInv
  <1> SUFFICES ASSUME Init PROVE PduInv
    OBVIOUS
  <1>1. DOMAIN Output = {}
    <2>1. Output = <<>> \o <<>> \o <<>>
      BY DEF Init, Output
    <2>2. <<>> \o <<>> \o <<>> = <<>>
      BY EmptySeq, ConcatEmptySeq
    <2> QED
      BY <2>1, <2>2
  <1>2. Left = 0 /\ connection = "early" /\ DOMAIN pdus = {}
    BY DEF Init, Left
  <1> QED
    BY <1>1, <1>2 DEF PduInv, StageInv, LostInv, WholePdusInOrder, NothingElseLost

LEMMA NextPdus ==
  ASSUME ~EmptyFragments
  PROVE  IInv /\ PduInv /\ [Next]_vars => PduInv'
  <1> SUFFICES ASSUME IInv, PduInv, [Next]_vars PROVE PduInv'
    OBVIOUS
  <1>a. IInv'
    BY NextIInv
  <1>1. CASE UNCHANGED vars
    BY <1>a, <1>1, LocalPdus DEF vars, Output, Left, Stage
  <1>2. ASSUME NEW length \in 0..MaxLength, NEW bytes \in 0..(MaxLength + 1),
               NEW n \in Sizes, PeerStarts(length, bytes, n)
        PROVE  PduInv'
    BY <1>2, PeerStartsPdus
  <1>3. ASSUME NEW n \in Sizes, PeerContinues(n)
        PROVE  PduInv'
    BY <1>3, PeerContinuesPdus
  <1>4. ASSUME NEW flag \in {"ACTIVE_PERIPHERAL_BROADCAST", "FIRST_NON_AUTOMATICALLY_FLUSHABLE"},
               OtherPacket(flag)
        PROVE  PduInv'
    BY <1>1, <1>4, OtherPacketStep
  <1>5. CASE PeerFlushes
    BY <1>5, PeerFlushesPdus
  <1>6. CASE ConnectionIsAdded
    BY <1>6, ConnectionIsAddedPdus
  <1>7. CASE ConnectionIsRemoved
    BY <1>7, ConnectionIsRemovedPdus
  <1>8. CASE on_le_incoming_data_ready
    <2>1. Output' = Output /\ Left' = Left /\ Stage' = Stage
      BY <1>8, DataReadyStep
    <2>2. connection' = connection /\ UNCHANGED <<remote, lost>>
      BY <1>8 DEF on_le_incoming_data_ready
    <2> QED
      BY <1>a, <2>1, <2>2, LocalPdus
  <1>9. CASE ClientDequeues
    <2>1. Output' = Output
      BY <1>9, ClientDequeuesStep
    <2>2. connection' = connection /\ UNCHANGED <<remote, lost, assembler>>
      BY <1>9 DEF ClientDequeues
    <2> QED
      BY <1>a, <2>1, <2>2, LocalPdus DEF Left, Stage
  <1> QED
    BY <1>1, <1>2, <1>3, <1>4, <1>5, <1>6, <1>7, <1>8, <1>9 DEF Next

(* From a controller that passes no empty fragments, the assembler hands   *)
(* over, in order, all and only the PDUs that came as long as it takes     *)
(* them for, whatever was missed, given up, longer than it says or begun   *)
(* with a part of the header.  It takes a PDU for as long as its header    *)
(* says, unless the starting fragment does not hold the header: then for   *)
(* the header alone (Assembler_short.cfg).  An empty fragment makes it     *)
(* hand over whatever it has staged (Assembler_empty.cfg).                 *)
THEOREM AllAndOnlyWholePdus ==
  ASSUME ~EmptyFragments
  PROVE  Spec => []PdusArriveWhole
  <1>1. IInv /\ PduInv => PdusArriveWhole
    BY DEF PduInv, PdusArriveWhole
  <1>2. Init => IInv /\ PduInv
    BY InitIInv, InitPdus
  <1>3. IInv /\ PduInv /\ [Next]_vars => (IInv /\ PduInv)'
    BY NextIInv, NextPdus
  <1> QED
    BY <1>1, <1>2, <1>3, PTL DEF Spec
=============================================================================
