-------------------------- MODULE PacketQueueProofs --------------------------
(***************************************************************************)
(* The queue of waiting packets, for any packets and any queue depth: none *)
(* is lost or sealed twice, and one that waits has a handshake to wait for.*)
(***************************************************************************)
EXTENDS PacketQueue, FiniteSetTheorems, SequenceTheorems, TLAPS

\* Where a packet is in a queue, and how often.
Places(q, p) == { i \in 1 .. Len(q) : q[i] = p }
Times(q, p) == Cardinality(Places(q, p))
One(b) == IF b THEN 1 ELSE 0

\* A queue has a packet at finitely many places, and at none when it does not occur.
LEMMA TimesIsNat ==
  ASSUME NEW q \in Seq(Payload), NEW p
  PROVE  /\ IsFiniteSet(Places(q, p)) /\ Times(q, p) \in Nat
         /\ Times(q, p) > 0 <=> \E i \in 1 .. Len(q) : q[i] = p
<1>1. Len(q) \in Nat
  BY LenProperties
<1>2. IsFiniteSet(1 .. Len(q))
  BY <1>1, FS_Interval
<1>3. Places(q, p) \in SUBSET (1 .. Len(q))
  BY DEF Places
<1>4. IsFiniteSet(Places(q, p))
  BY <1>2, <1>3, FS_Subset
<1>5. Times(q, p) \in Nat
  BY <1>4, FS_CardinalityType DEF Times
<1>6. Times(q, p) = 0 <=> Places(q, p) = {}
  BY <1>4, FS_EmptySet DEF Times
<1>7. Places(q, p) = {} <=> ~\E i \in 1 .. Len(q) : q[i] = p
  BY DEF Places
<1>8. Times(q, p) > 0 <=> ~(Times(q, p) = 0)
  BY <1>5
<1> QED BY <1>4, <1>5, <1>6, <1>7, <1>8

\* An appended packet occurs once more.
LEMMA TimesAppend ==
  ASSUME NEW q \in Seq(Payload), NEW e \in Payload, NEW p
  PROVE  Times(Append(q, e), p) = Times(q, p) + One(e = p)
<1>1. Len(q) \in Nat /\ Len(q) + 1 \notin Places(q, p)
  BY LenProperties DEF Places
<1>2. /\ Len(Append(q, e)) = Len(q) + 1
      /\ \A i \in 1 .. Len(q) : Append(q, e)[i] = q[i]
      /\ Append(q, e)[Len(q) + 1] = e
  BY AppendProperties
<1>3. CASE e = p
  <2>1. Places(Append(q, e), p) = Places(q, p) \cup {Len(q) + 1}
    BY <1>1, <1>2, <1>3 DEF Places
  <2> QED BY <1>1, <1>3, <2>1, TimesIsNat, FS_AddElement DEF Times, One
<1>4. CASE e # p
  <2>1. Places(Append(q, e), p) = Places(q, p)
    BY <1>1, <1>2, <1>4 DEF Places
  <2> QED BY <1>4, <2>1, TimesIsNat DEF Times, One
<1> QED BY <1>3, <1>4

\* A queue has what its tail has, and its head.
LEMMA TimesTail ==
  ASSUME NEW q \in Seq(Payload), q # <<>>, NEW p
  PROVE  Times(q, p) = Times(Tail(q), p) + One(Head(q) = p)
<1> DEFINE A == Places(Tail(q), p)
           B == Places(q, p) \ {1}
           f == [i \in A |-> i + 1]
<1>1. /\ Len(q) \in Nat \ {0} /\ Tail(q) \in Seq(Payload) /\ Len(Tail(q)) = Len(q) - 1
      /\ \A i \in 1 .. Len(Tail(q)) : Tail(q)[i] = q[i + 1]
  BY EmptySeq, HeadTailProperties
<1>2. Head(q) = q[1]
  BY <1>1
<1>3. f \in [A -> B]
  BY <1>1 DEF Places
<1>4. \A a, b \in A : f[a] = f[b] => a = b
  BY <1>1 DEF Places
<1>5. \A b \in B : \E a \in A : f[a] = b
  <2> SUFFICES ASSUME NEW b \in B PROVE b - 1 \in A /\ f[b - 1] = b
    OBVIOUS
  <2>1. b \in 2 .. Len(q) /\ q[b] = p
    BY <1>1 DEF Places
  <2>2. b - 1 \in 1 .. Len(Tail(q)) /\ (b - 1) + 1 = b
    BY <1>1, <2>1
  <2> QED BY <1>1, <2>1, <2>2 DEF Places
<1>6. f \in Bijection(A, B)
  <2> HIDE DEF A, B, f
  <2> QED BY <1>3, <1>4, <1>5 DEF Bijection, Injection, Surjection, IsInjective
<1>7. Cardinality(B) = Times(Tail(q), p)
  <2>1. ExistsBijection(A, B)
    BY <1>6 DEF ExistsBijection
  <2>2. IsFiniteSet(A)
    BY <1>1, TimesIsNat
  <2> HIDE DEF A, B
  <2>3. Cardinality(B) = Cardinality(A)
    BY <2>1, <2>2, FS_Bijection
  <2> QED BY <2>3 DEF Times, A
<1>8. Cardinality(B) = IF 1 \in Places(q, p) THEN Times(q, p) - 1 ELSE Times(q, p)
  BY TimesIsNat, FS_RemoveElement DEF Times
<1>9. 1 \in Places(q, p) <=> Head(q) = p
  BY <1>1, <1>2 DEF Places
<1>10. Times(q, p) \in Nat
  BY TimesIsNat
<1> QED BY <1>7, <1>8, <1>9, <1>10 DEF One

\* A set has a packet once or not at all.
LEMMA OnceInSet ==
  ASSUME NEW D, NEW p
  PROVE  Cardinality({p} \cap D) = One(p \in D)
<1>1. CASE p \in D
  <2>1. {p} \cap D = {p}
    BY <1>1
  <2> QED BY <1>1, <2>1, FS_Singleton DEF One
<1>2. CASE p \notin D
  <2>1. {p} \cap D = {}
    BY <1>2
  <2> QED BY <1>2, <2>1, FS_EmptySet DEF One
<1> QED BY <1>1, <1>2

\* A packet that was read is waiting, sealed or given up, once all in all.
Tally(p) == Times(queue, p) + sent[p] + One(p \in dropped)

Balanced == "small" \notin faults => \A p \in Packets : Tally(p) = One(p \in offered)
Kept == \A p \in offered : Times(queue, p) > 0 \/ sent[p] > 0 \/ p \in dropped

\* The two invariants about packets, in these terms, before and after a step.
LEMMA InTheseTerms ==
  /\ (EveryPacketOnce <=> Balanced) /\ (NothingLost <=> Kept)
  /\ (EveryPacketOnce' <=> Balanced') /\ (NothingLost' <=> Kept')
<1>1. \A p : Queued(p) = Times(queue, p) /\ Queued(p)' = Times(queue', p)
  BY DEF Queued, Times, Places
<1>2. (EveryPacketOnce <=> Balanced) /\ (NothingLost <=> Kept)
  BY <1>1, OnceInSet DEF EveryPacketOnce, NothingLost, Tally, Balanced, Kept
<1>3. (EveryPacketOnce' <=> Balanced') /\ (NothingLost' <=> Kept')
  BY <1>1, OnceInSet DEF EveryPacketOnce, NothingLost, Tally, Balanced, Kept
<1> QED BY <1>2, <1>3

-----------------------------------------------------------------------------
(***************************************************************************)
(* encapsulate                                                             *)
(***************************************************************************)

\* What may be passed to encapsulate, on the queue that it works on.
Encapsulating(q, e, result, fits) ==
  /\ q \in Seq(Payload) /\ Len(q) <= MaxDepth /\ e \in Payload
  /\ result \in Results /\ fits \in Fits
  /\ Encapsulate(q, e, result, fits)

\* The queue stays a queue within its bound, also when send_queued_packet puts a packet back.
LEMMA EncapsulateTyped ==
  ASSUME TypeOK, NEW q, NEW e, NEW result, NEW fits, Encapsulating(q, e, result, fits)
  PROVE  /\ queue' \in Seq(Payload) /\ Len(queue') <= MaxDepth
         /\ {state', previous'} \subseteq Handshake
         /\ sent' \in [Packets -> Nat] /\ dropped' \subseteq Packets
<1>1. /\ q \in Seq(Payload) /\ Len(q) \in Nat /\ Len(q) <= MaxDepth /\ MaxDepth \in Nat \ {0}
      /\ e \in Payload
  BY QueueAssumption, LenProperties DEF Encapsulating
<1>2. ASSUME NEW r \in Seq(Payload), Len(r) <= MaxDepth
      PROVE  /\ QueuePacket(r, e) \in Seq(Payload) /\ Len(QueuePacket(r, e)) <= MaxDepth
             /\ RequeuePacket(r, e) \in Seq(Payload) /\ Len(RequeuePacket(r, e)) <= MaxDepth
  <2>1. /\ Append(r, e) \in Seq(Payload) /\ Len(Append(r, e)) = Len(r) + 1
        /\ <<e>> \in Seq(Payload) /\ Len(<<e>>) = 1
        /\ Len(r) \in Nat
    BY <1>1, AppendProperties, LenProperties
  <2>2. <<e>> \o r \in Seq(Payload) /\ Len(<<e>> \o r) = 1 + Len(r)
    BY <2>1, ConcatProperties
  <2> QED BY <1>1, <1>2, <2>1, <2>2 DEF QueuePacket, RequeuePacket
<1>3. /\ QueuePacket(q, e) \in Seq(Payload) /\ Len(QueuePacket(q, e)) <= MaxDepth
      /\ RequeuePacket(QueuePacket(q, e), e) \in Seq(Payload)
      /\ Len(RequeuePacket(QueuePacket(q, e), e)) <= MaxDepth
  BY <1>1, <1>2
<1>4. queue' \in {q, QueuePacket(q, e), RequeuePacket(QueuePacket(q, e), e)}
  BY DEF Encapsulating, Encapsulate
<1>5. {state', previous'} \subseteq Handshake
  BY DEF Encapsulating, Encapsulate, Initiation, TypeOK, Handshake
<1>6. sent' \in [Packets -> Nat]
  BY <1>1 DEF Encapsulating, Encapsulate, TypeOK, Payload
<1>7. dropped' \subseteq Packets
  BY <1>1 DEF Encapsulating, Encapsulate, TypeOK, Payload, Overflow
<1> QED BY <1>1, <1>3, <1>4, <1>5, <1>6, <1>7

\* The packet that is passed goes to one place, and the others stay where they are.
LEMMA EncapsulateOnce ==
  ASSUME TypeOK, NEW q, NEW e, NEW result, NEW fits, Encapsulating(q, e, result, fits),
         "small" \notin faults, Len(q) < MaxDepth \/ e \notin dropped, NEW p \in Packets
  PROVE  Tally(p)' = Times(q, p) + sent[p] + One(p \in dropped) + One(e = p)
<1>1. /\ q \in Seq(Payload) /\ e \in Payload /\ result # "Err"
      /\ Times(q, p) \in Nat /\ sent[p] \in Nat
  BY TimesIsNat DEF Encapsulating, Encapsulate, Initiation, Fits, TypeOK
<1>2. Keepalive # p /\ (One(p \in dropped) \in {0, 1}) /\ (One(e = p) \in {0, 1})
  BY QueueAssumption DEF One
<1>3. CASE session
  <2>1. queue' = q /\ dropped' = dropped
    BY <1>3 DEF Encapsulating, Encapsulate
  <2>2. sent'[p] = sent[p] + One(e = p)
    BY <1>1, <1>2, <1>3 DEF Encapsulating, Encapsulate, TypeOK, Payload, One
  <2> QED BY <1>1, <1>2, <2>1, <2>2 DEF Tally
<1>4. CASE ~session
  <2>1. queue' = QueuePacket(q, e) /\ dropped' = dropped \cup (Overflow(q, e) \ {Keepalive}) /\ sent' = sent
    BY <1>1, <1>4 DEF Encapsulating, Encapsulate
  <2>2. CASE Len(q) < MaxDepth
    <3>1. queue' = Append(q, e) /\ dropped' = dropped
      BY <2>1, <2>2 DEF QueuePacket, Overflow
    <3>2. Times(queue', p) = Times(q, p) + One(e = p)
      BY <1>1, <3>1, TimesAppend
    <3>3. One(p \in dropped') = One(p \in dropped) /\ sent'[p] = sent[p]
      BY <2>1, <3>1
    <3>4. Tally(p)' = Times(queue', p) + sent'[p] + One(p \in dropped')
      BY DEF Tally
    <3> QED BY <1>1, <1>2, <3>2, <3>3, <3>4
  <2>3. CASE ~(Len(q) < MaxDepth)
    <3>1. queue' = q /\ dropped' = dropped \cup ({e} \ {Keepalive}) /\ e \notin dropped
      BY <2>1, <2>3 DEF QueuePacket, Overflow
    <3>2. One(p \in dropped') = One(p \in dropped) + One(e = p)
      BY <1>2, <3>1 DEF One
    <3> QED BY <1>1, <1>2, <2>1, <3>1, <3>2 DEF Tally
  <2> QED BY <2>2, <2>3
<1> QED BY <1>3, <1>4

\* Whatever fails, neither the packet that is passed nor one that was there vanishes.
LEMMA EncapsulateLosesNone ==
  ASSUME TypeOK, NEW q, NEW e, NEW result, NEW fits, Encapsulating(q, e, result, fits),
         NEW p \in Packets,
         Times(q, p) > 0 \/ e = p \/ sent[p] > 0 \/ p \in dropped
  PROVE  Times(queue', p) > 0 \/ sent'[p] > 0 \/ p \in dropped'
<1>1. q \in Seq(Payload) /\ e \in Payload /\ sent[p] \in Nat /\ p # Keepalive
  BY QueueAssumption DEF Encapsulating, TypeOK
<1>2. CASE session
  <2>1. queue' = q /\ dropped' = dropped
    BY <1>2 DEF Encapsulating, Encapsulate
  <2>2. sent'[p] = IF e = p THEN sent[p] + 1 ELSE sent[p]
    BY <1>1, <1>2 DEF Encapsulating, Encapsulate, TypeOK, Payload
  <2> QED BY <1>1, <2>1, <2>2
<1>3. CASE ~session
  <2>1. dropped' = dropped \cup (Overflow(q, e) \ {Keepalive}) /\ sent' = sent
    BY <1>3 DEF Encapsulating, Encapsulate
  <2>2. ASSUME NEW r \in Seq(Payload), NEW n \in {Append(r, e), <<e>> \o r}
        PROVE  n \in Seq(Payload) /\ (Times(r, p) > 0 \/ e = p => Times(n, p) > 0)
    <3>1. Len(r) \in Nat
      BY LenProperties
    <3>2. CASE n = Append(r, e)
      <4>1. /\ n \in Seq(Payload) /\ Len(n) = Len(r) + 1 /\ n[Len(r) + 1] = e
            /\ \A i \in 1 .. Len(r) : n[i] = r[i]
        BY <1>1, <3>2, AppendProperties
      <4>2. Len(r) + 1 \in 1 .. Len(n) /\ \A i \in 1 .. Len(r) : i \in 1 .. Len(n)
        BY <3>1, <4>1
      <4> QED BY <4>1, <4>2, TimesIsNat, SMTT(30)
    <3>3. CASE n = <<e>> \o r
      <4>1. <<e>> \in Seq(Payload) /\ Len(<<e>>) = 1 /\ <<e>>[1] = e
        BY <1>1
      <4>2. /\ n \in Seq(Payload) /\ Len(n) = 1 + Len(r)
            /\ \A i \in 1 .. 1 + Len(r) : n[i] = IF i <= 1 THEN <<e>>[i] ELSE r[i - 1]
        BY <3>3, <4>1, ConcatProperties
      <4>3. 1 \in 1 .. Len(n) /\ n[1] = e
        BY <3>1, <4>1, <4>2
      <4>4. \A i \in 1 .. Len(r) : i + 1 \in 1 .. Len(n) /\ n[i + 1] = r[i]
        BY <3>1, <4>2
      <4>5. ASSUME Times(r, p) > 0 PROVE \E j \in 1 .. Len(n) : n[j] = p
        <5>1. PICK i \in 1 .. Len(r) : r[i] = p
          BY <4>5, TimesIsNat
        <5> QED BY <4>4, <5>1
      <4>6. ASSUME e = p PROVE \E j \in 1 .. Len(n) : n[j] = p
        BY <4>3, <4>6
      <4> QED BY <4>2, <4>5, <4>6, TimesIsNat
    <3> QED BY <3>2, <3>3
  <2>3. CASE Len(q) < MaxDepth
    <3>1. QueuePacket(q, e) \in Seq(Payload) /\ (Times(q, p) > 0 \/ e = p => Times(QueuePacket(q, e), p) > 0)
      BY <1>1, <2>2, <2>3 DEF QueuePacket
    <3>2. Times(q, p) > 0 \/ e = p => Times(RequeuePacket(QueuePacket(q, e), e), p) > 0
      BY <2>2, <3>1 DEF RequeuePacket
    <3>3. queue' \in {QueuePacket(q, e), RequeuePacket(QueuePacket(q, e), e)}
      BY <1>3 DEF Encapsulating, Encapsulate
    <3> QED BY <2>1, <3>1, <3>2, <3>3
  <2>4. CASE ~(Len(q) < MaxDepth)
    <3>1. queue' = q /\ Overflow(q, e) = {e}
      BY <1>3, <2>4 DEF Encapsulating, Encapsulate, QueuePacket, RequeuePacket, Overflow
    <3> QED BY <1>1, <2>1, <3>1
  <2> QED BY <2>3, <2>4
<1> QED BY <1>2, <1>3

\* Without a session encapsulate leaves an initiation of ours awaited.
LEMMA EncapsulateTries ==
  ASSUME TypeOK, AlwaysAnswered, faults = {},
         NEW q, NEW e, NEW result, NEW fits, Encapsulating(q, e, result, fits)
  PROVE  /\ state' # "InitReceived"
         /\ IF session THEN state' = state /\ queue' = q /\ result = "WriteToNetwork"
            ELSE state' = "InitSent"
BY DEF AlwaysAnswered, Encapsulating, Encapsulate, Initiation, IsInProgress, Fits

-----------------------------------------------------------------------------
\* A packet is passed to encapsulate between flushes, on the queue as it is.
LEMMA CallKeeps ==
  ASSUME PacketsInv, NEW e \in Payload, ~flushing,
         NEW result \in Results, NEW fits \in Fits, Encapsulate(queue, e, result, fits),
         e \in Packets => e \notin offered,
         offered' = offered \cup ({e} \ {Keepalive}),
         UNCHANGED <<session, spare, flushing, network, faults>>
  PROVE  PacketsInv'
<1>0. TypeOK /\ EveryPacketOnce /\ NothingLost /\ AlwaysAnswered /\ QueuedMeansTrying
  BY DEF PacketsInv
<1>1. Encapsulating(queue, e, result, fits)
  BY <1>0 DEF Encapsulating, TypeOK
<1>2. TypeOK'
  BY <1>0, <1>1, EncapsulateTyped DEF TypeOK, Payload, network
<1>3. EveryPacketOnce'
  <2> SUFFICES ASSUME "small" \notin faults, NEW p \in Packets PROVE Tally(p)' = One(p \in offered')
    BY InTheseTerms DEF Balanced, Kept
  <2>1. \A x \in Packets : Tally(x) = One(x \in offered)
    BY <1>0, InTheseTerms DEF Balanced
  <2>2. queue \in Seq(Payload) /\ sent \in [Packets -> Nat]
    BY <1>0 DEF TypeOK
  <2>3. ASSUME e \in Packets PROVE e \notin dropped
    <3>1. Times(queue, e) \in Nat /\ sent[e] \in Nat
      BY <2>2, <2>3, TimesIsNat
    <3> QED BY <2>1, <2>3, <3>1 DEF Tally, One
  <2>4. e \notin dropped
    BY <1>0, <2>3, SMTT(30) DEF TypeOK
  <2>5. Tally(p)' = Tally(p) + One(e = p)
    BY <1>0, <1>1, <2>4, EncapsulateOnce DEF Tally
  <2>6. p # Keepalive
    BY QueueAssumption
  <2> QED BY <2>1, <2>5, <2>6 DEF One
<1>4. NothingLost'
  <2> SUFFICES ASSUME NEW p \in offered' PROVE Times(queue', p) > 0 \/ sent'[p] > 0 \/ p \in dropped'
    BY InTheseTerms DEF Balanced, Kept
  <2>1. p \in Packets /\ (p \in offered \/ p = e)
    BY <1>0 DEF TypeOK, Payload
  <2>2. Times(queue, p) > 0 \/ e = p \/ sent[p] > 0 \/ p \in dropped
    BY <1>0, <2>1, InTheseTerms DEF Kept
  <2> QED BY <1>0, <1>1, <2>1, <2>2, EncapsulateLosesNone, SMTT(30)
<1>5. AlwaysAnswered' /\ QueuedMeansTrying'
  BY <1>0, <1>1, EncapsulateTries DEF AlwaysAnswered, QueuedMeansTrying
<1> QED BY <1>2, <1>3, <1>4, <1>5 DEF PacketsInv

\* A round of the flush loop takes the head of the queue and passes it to encapsulate.
LEMMA FlushKeeps ==
  ASSUME PacketsInv, FlushStep
  PROVE  PacketsInv'
<1>0. TypeOK /\ EveryPacketOnce /\ NothingLost /\ AlwaysAnswered /\ QueuedMeansTrying
  BY DEF PacketsInv
<1>1. flushing /\ UNCHANGED <<session, spare, udp, offered, faults>>
  BY DEF FlushStep
<1>a. endpoint' \in BOOLEAN
  BY Zenon DEF FlushStep
<1>2. CASE queue = <<>>
  <2>1. UNCHANGED <<queue, state, previous, sent, dropped>> /\ flushing' = FALSE
    BY <1>2 DEF FlushStep
  <2>2. flushing' \in BOOLEAN
    BY <2>1, Zenon
  <2>3. TypeOK'
    BY <1>0, <1>1, <1>a, <2>1, <2>2 DEF TypeOK
  <2>4. EveryPacketOnce' /\ NothingLost'
    BY <1>0, <1>1, <2>1, InTheseTerms, ZenonT(30) DEF Balanced, Kept, Tally
  <2>5. AlwaysAnswered' /\ QueuedMeansTrying'
    BY <1>0, <1>1, <1>2, <2>1, Zenon DEF AlwaysAnswered, QueuedMeansTrying
  <2> QED BY <2>3, <2>4, <2>5, Zenon DEF PacketsInv
<1>3. CASE queue # <<>>
  <2>1. PICK result \in Results, fits \in Fits :
           /\ Encapsulate(Tail(queue), Head(queue), result, fits)
           /\ flushing' = (result = "WriteToNetwork")
    BY <1>3 DEF FlushStep
  <2>a. PICK q, e : q = Tail(queue) /\ e = Head(queue)
    OBVIOUS
  <2>2. /\ e \in Payload /\ q \in Seq(Payload) /\ Len(q) = Len(queue) - 1
        /\ Len(queue) \in Nat /\ Len(queue) <= MaxDepth /\ MaxDepth \in Nat
    BY <1>0, <1>3, <2>a, HeadTailProperties, LenProperties, QueueAssumption DEF TypeOK
  <2>3. Encapsulating(q, e, result, fits) /\ Len(q) < MaxDepth
    BY <2>1, <2>2, <2>a DEF Encapsulating
  <2>4. flushing' \in BOOLEAN
    BY <2>1, Zenon
  <2>5. TypeOK'
    BY <1>0, <1>1, <1>a, <2>3, <2>4, EncapsulateTyped DEF TypeOK
  <2>6. EveryPacketOnce'
    <3> SUFFICES ASSUME "small" \notin faults, NEW p \in Packets PROVE Tally(p)' = One(p \in offered')
      BY <1>1, InTheseTerms DEF Balanced
    <3>1. Tally(p) = One(p \in offered)
      BY <1>0, InTheseTerms DEF Balanced
    <3>2. Tally(p)' = Times(q, p) + sent[p] + One(p \in dropped) + One(e = p)
      BY <1>0, <2>3, EncapsulateOnce
    <3>3. Times(queue, p) = Times(q, p) + One(e = p)
      BY <1>0, <1>3, <2>a, TimesTail, SMTT(30) DEF TypeOK
    <3>4. /\ Times(q, p) \in Nat /\ sent[p] \in Nat
          /\ One(p \in dropped) \in Nat /\ One(e = p) \in Nat
      BY <1>0, <2>2, TimesIsNat, SMTT(30) DEF TypeOK, One
    <3> QED BY <1>1, <3>1, <3>2, <3>3, <3>4 DEF Tally
  <2>7. NothingLost'
    <3> SUFFICES ASSUME NEW p \in offered' PROVE Times(queue', p) > 0 \/ sent'[p] > 0 \/ p \in dropped'
      BY InTheseTerms DEF Kept
    <3>1. p \in Packets /\ p \in offered
      BY <1>0, <1>1, SMTT(30) DEF TypeOK
    <3>2. Times(queue, p) > 0 \/ sent[p] > 0 \/ p \in dropped
      BY <1>0, <3>1, InTheseTerms DEF Kept
    <3>a. Times(q, p) \in Nat
      BY <2>2, TimesIsNat
    <3>3. Times(queue, p) = Times(q, p) + One(e = p)
      BY <1>0, <1>3, <2>a, TimesTail, SMTT(30) DEF TypeOK
    <3>4. Times(q, p) > 0 \/ e = p \/ sent[p] > 0 \/ p \in dropped
      BY <3>2, <3>3, <3>a, SMTT(30) DEF One
    <3> QED BY <1>0, <2>3, <3>1, <3>4, EncapsulateLosesNone, SMTT(30)
  <2>8. AlwaysAnswered' /\ QueuedMeansTrying'
    BY <1>0, <1>1, <2>1, <2>3, EncapsulateTries DEF AlwaysAnswered, QueuedMeansTrying
  <2> QED BY <2>5, <2>6, <2>7, <2>8 DEF PacketsInv
<1> QED BY <1>2, <1>3

\* Calls that touch neither the queue nor the packets.
LEMMA HandshakeKeeps ==
  ASSUME PacketsInv, UNCHANGED <<queue, offered, sent, dropped, faults>>,
         {state', previous'} \subseteq Handshake,
         {session', spare', flushing', endpoint', udp'} \subseteq BOOLEAN,
         faults = {} => state' # "InitReceived",
         faults = {} /\ ~flushing' => state' = "InitSent" \/ (state' = state /\ ~flushing)
  PROVE  PacketsInv'
<1>0. TypeOK /\ EveryPacketOnce /\ NothingLost /\ AlwaysAnswered /\ QueuedMeansTrying
  BY DEF PacketsInv
<1>1. TypeOK'
  BY <1>0 DEF TypeOK
<1>2. EveryPacketOnce' /\ NothingLost'
  BY <1>0 DEF EveryPacketOnce, NothingLost, Queued
<1>3. AlwaysAnswered' /\ QueuedMeansTrying'
  BY <1>0 DEF AlwaysAnswered, QueuedMeansTrying
<1> QED BY <1>1, <1>2, <1>3 DEF PacketsInv

\* update_timers gives up: what waited is counted as given up.
LEMMA ExpireKeeps ==
  ASSUME PacketsInv, Expire
  PROVE  PacketsInv'
<1>0. TypeOK /\ EveryPacketOnce /\ NothingLost
  BY DEF PacketsInv
<1>1. /\ queue' = <<>> /\ state' = "Expired" /\ previous' = "Expired"
      /\ dropped' = dropped \cup { p \in Packets : \E i \in 1 .. Len(queue) : queue[i] = p }
      /\ session' = FALSE /\ spare' = FALSE
      /\ UNCHANGED <<flushing, endpoint, udp, offered, sent, faults>>
  BY DEF Expire, network
<1>2. queue' \in Seq(Payload) /\ Len(queue') = 0 /\ MaxDepth \in Nat
  BY <1>1, EmptySeq, QueueAssumption
<1>3. session' \in BOOLEAN /\ spare' \in BOOLEAN
  BY <1>1, Zenon
<1>4. TypeOK'
  BY <1>0, <1>1, <1>2, <1>3, SMTT(30) DEF TypeOK, Handshake
<1>5. ASSUME NEW p \in Packets
      PROVE  /\ Times(queue, p) \in Nat /\ sent[p] \in Nat /\ Times(queue', p) = 0 /\ sent'[p] = sent[p]
             /\ p \in dropped' <=> p \in dropped \/ Times(queue, p) > 0
  <2>1. ~(Times(queue', p) > 0) /\ Times(queue', p) \in Nat
    <3>1. 1 .. Len(queue') = {}
      BY <1>2
    <3> QED BY <1>2, <3>1, TimesIsNat
  <2>2. Times(queue, p) \in Nat /\ (Times(queue, p) > 0 <=> \E i \in 1 .. Len(queue) : queue[i] = p)
    BY <1>0, TimesIsNat DEF TypeOK
  <2> QED BY <1>0, <1>1, <2>1, <2>2, SMTT(30) DEF TypeOK
<1>6. EveryPacketOnce'
  <2> SUFFICES ASSUME "small" \notin faults, NEW p \in Packets PROVE Tally(p)' = One(p \in offered')
    BY <1>1, InTheseTerms DEF Balanced
  <2>1. Tally(p) = One(p \in offered)
    BY <1>0, InTheseTerms DEF Balanced
  <2>2. Tally(p)' = Times(queue', p) + sent'[p] + One(p \in dropped')
    BY DEF Tally
  <2> QED BY <1>1, <1>5, <2>1, <2>2 DEF Tally, One
<1>7. NothingLost'
  BY <1>0, <1>1, <1>5, InTheseTerms DEF TypeOK, Kept
<1>8. AlwaysAnswered' /\ QueuedMeansTrying'
  BY <1>1 DEF AlwaysAnswered, QueuedMeansTrying
<1> QED BY <1>4, <1>6, <1>7, <1>8 DEF PacketsInv

-----------------------------------------------------------------------------
\* The invariant holds of a new tunnel.
LEMMA InitPackets == Init => PacketsInv
<1> SUFFICES ASSUME Init PROVE PacketsInv
  OBVIOUS
<1>1. queue \in Seq(Payload) /\ Len(queue) = 0 /\ MaxDepth \in Nat
  BY EmptySeq, QueueAssumption DEF Init
<1>2. {session, spare, flushing, endpoint, udp} \subseteq BOOLEAN
  BY Zenon DEF Init
<1>3. TypeOK
  BY <1>1, <1>2 DEF Init, TypeOK, Handshake
<1>4. \A p \in Packets : Times(queue, p) = 0
  <2>1. 1 .. Len(queue) = {}
    BY <1>1
  <2>2. \A p \in Packets : Times(queue, p) \in Nat /\ ~(Times(queue, p) > 0)
    BY <1>1, <2>1, TimesIsNat
  <2> QED BY <2>2
<1>5. EveryPacketOnce
  BY <1>4, InTheseTerms DEF Init, Balanced, Tally, One
<1>6. NothingLost /\ AlwaysAnswered /\ QueuedMeansTrying
  BY DEF Init, NothingLost, AlwaysAnswered, QueuedMeansTrying
<1> QED BY <1>3, <1>5, <1>6 DEF PacketsInv

\* Every handler keeps the invariant.
LEMMA StepPackets == PacketsInv /\ [Next]_vars => PacketsInv'
<1> SUFFICES ASSUME PacketsInv, [Next]_vars PROVE PacketsInv'
  OBVIOUS
<1>0. TypeOK /\ AlwaysAnswered
  BY DEF PacketsInv
<1>1. ASSUME NEW p \in Packets, IfaceRead(p) PROVE PacketsInv'
  <2>1. PICK result \in Results, fits \in Fits : Encapsulate(queue, p, result, fits)
    BY <1>1 DEF IfaceRead
  <2>2. /\ ~flushing /\ p \in Payload /\ p \notin offered /\ offered' = offered \cup ({p} \ {Keepalive})
        /\ UNCHANGED <<session, spare, flushing, network, faults>>
    BY <1>1, QueueAssumption DEF IfaceRead, Payload
  <2> QED BY <2>1, <2>2, CallKeeps
<1>2. CASE KeepaliveTimer
  <2>1. PICK result \in Results, fits \in Fits : Encapsulate(queue, Keepalive, result, fits)
    BY <1>2 DEF KeepaliveTimer
  <2>2. /\ ~flushing /\ Keepalive \in Payload /\ Keepalive \notin Packets
        /\ offered' = offered \cup ({Keepalive} \ {Keepalive})
        /\ UNCHANGED <<session, spare, flushing, network, faults>>
    BY <1>2, QueueAssumption, SMTT(30) DEF KeepaliveTimer, Payload
  <2> QED BY <2>1, <2>2, CallKeeps
<1>3. CASE ForceHandshake
  BY <1>0, <1>3, HandshakeKeeps, SMTT(30) DEF ForceHandshake, TypeOK, Handshake, network
<1>4. CASE HandleInit
  <2>1. {session', spare', flushing', endpoint', udp'} \subseteq BOOLEAN
    BY <1>0, <1>4, Zenon DEF HandleInit, StoreSession, TypeOK, network
  <2> QED BY <1>0, <1>4, <2>1, HandshakeKeeps, SMTT(30) DEF HandleInit, TypeOK, Handshake
<1>5. CASE HandleInitFails
  BY <1>0, <1>5, HandshakeKeeps, SMTT(30) DEF HandleInitFails, TypeOK, Handshake, network
<1>6. CASE CookieReplySent
  <2>1. flushing' \in BOOLEAN
    BY <1>6, Zenon DEF CookieReplySent
  <2> QED BY <1>0, <1>6, <2>1, HandshakeKeeps DEF CookieReplySent, TypeOK, AlwaysAnswered, network
<1>7. CASE HandleResponse
  <2>1. {session', spare', flushing', endpoint', udp'} \subseteq BOOLEAN
    BY <1>0, <1>7, Zenon DEF HandleResponse, TypeOK, network
  <2>2. {state', previous'} \subseteq Handshake /\ (faults = {} => state' # "InitReceived")
    BY <1>0, <1>7, SMTT(30) DEF HandleResponse, TypeOK, AlwaysAnswered, Handshake
  <2> QED BY <1>7, <2>1, <2>2, HandshakeKeeps DEF HandleResponse
<1>8. CASE HandleData
  <2>1. {session', spare', endpoint'} \subseteq BOOLEAN
    BY <1>0, <1>8, Zenon DEF HandleData, TypeOK
  <2> QED BY <1>0, <1>8, <2>1, HandshakeKeeps, SMTT(30) DEF HandleData, TypeOK, AlwaysAnswered
<1>9. CASE FlushStep
  BY <1>9, FlushKeeps, SMTT(30)
<1>10. CASE SessionTimeout
  <2>1. session' \in BOOLEAN /\ spare' \in BOOLEAN
    BY <1>0, <1>10, Zenon DEF SessionTimeout, TypeOK
  <2> QED BY <1>0, <1>10, <2>1, HandshakeKeeps DEF SessionTimeout, TypeOK, AlwaysAnswered, network
<1>11. CASE Expire
  BY <1>11, ExpireKeeps, SMTT(30)
<1>12. CASE SetStaticPrivate
  <2>1. session' \in BOOLEAN /\ spare' \in BOOLEAN
    BY <1>12, Zenon DEF SetStaticPrivate
  <2> QED BY <1>0, <1>12, <2>1, HandshakeKeeps DEF SetStaticPrivate, TypeOK, AlwaysAnswered, network
<1>13. CASE OpenListenSocket
  BY <1>0, <1>13, HandshakeKeeps, SMTT(30) DEF OpenListenSocket, TypeOK, AlwaysAnswered
<1>14. CASE UNCHANGED vars
  BY <1>14 DEF vars, network, PacketsInv, TypeOK, EveryPacketOnce, NothingLost, AlwaysAnswered,
               QueuedMeansTrying, Queued
<1> QED BY <1>1, <1>2, <1>3, <1>4, <1>5, <1>6, <1>7, <1>8, <1>9, <1>10, <1>11, <1>12, <1>13, <1>14
        DEF Next

(* packet_queue stays within MAX_QUEUE_DEPTH and holds packets, and without *)
(* faults an initiation that is taken is answered in the same call.        *)
THEOREM PacketsInvariant == Spec => []PacketsInv
BY InitPackets, StepPackets, PTL DEF Spec

(* encapsulate, send_queued_packet and clear_all leave a packet in exactly *)
(* one place, however the flush loop turns the queue round.                *)
THEOREM EachPacketIsInOnePlace == Spec => []EveryPacketOnce
<1>1. PacketsInv => EveryPacketOnce
  BY DEF PacketsInv
<1> QED BY <1>1, PacketsInvariant, PTL

(* No packet vanishes, also when format_handshake_initiation fails and     *)
(* send_queued_packet puts the packet back.                                *)
THEOREM NoPacketIsLost == Spec => []NothingLost
<1>1. PacketsInv => NothingLost
  BY DEF PacketsInv
<1> QED BY <1>1, PacketsInvariant, PTL

(* Packets wait only while an initiation of ours is awaited, although the  *)
(* peer's initiation displaces ours from handshake.state.                  *)
THEOREM WaitingIsForAResponse == Spec => []QueuedMeansTrying
<1>1. PacketsInv => QueuedMeansTrying
  BY DEF PacketsInv
<1> QED BY <1>1, PacketsInvariant, PTL
=============================================================================
