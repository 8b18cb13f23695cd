---------------------------- MODULE SessionProofs ----------------------------
(***************************************************************************)
(* The session's guarantees for every window size, every counter bound and *)
(* every number of sending and receiving threads.                          *)
(***************************************************************************)
EXTENDS Session, FiniteSetTheorems, TLAPS

\* Division with remainder, as an index is reduced to the bitmap.
LEMMA DivMod ==
  ASSUME NEW n \in Nat \ {0}, NEW a \in Int
  PROVE  /\ a = n * (a \div n) + (a % n)
         /\ a % n \in 0 .. n - 1
         /\ a \div n \in Int
OBVIOUS

\* A value below the modulus is its own remainder (no wrap of a u64).
LEMMA ModSmall ==
  ASSUME NEW n \in Nat \ {0}, NEW a \in 0 .. n - 1
  PROVE  a % n = a
OBVIOUS

\* Two counters of the same window never share a bit of the bitmap.
LEMMA ModDistinct ==
  ASSUME NEW n \in Nat \ {0}, NEW a \in Int, NEW b \in Int,
         a < b, b - a < n
  PROVE  a % n # b % n
<1> DEFINE q == a \div n
           p == b \div n
<1>1. /\ q \in Int /\ a = n * q + (a % n)
      /\ p \in Int /\ b = n * p + (b % n)
  BY DivMod
<1> HIDE DEF q, p
<1>2. SUFFICES ASSUME a % n = b % n PROVE FALSE
  OBVIOUS
<1>3. b - a = n * (p - q)
  BY <1>1, <1>2, DivMod
<1>4. p - q \in Int
  BY <1>1
<1>5. CASE p - q <= 0
  BY <1>3, <1>4, <1>5
<1>6. CASE p - q >= 1
  BY <1>3, <1>4, <1>6
<1> QED BY <1>4, <1>5, <1>6

\* The constants of the window, and where u64 arithmetic does not wrap.
LEMMA WindowFacts ==
  /\ NBits \in Nat \ {0}
  /\ MaxCounter \in Nat
  /\ \A n \in 0 .. MaxCounter + NBits + 1 : Wrap(n) = n
<1>1. NBits \in Nat \ {0} /\ MaxCounter \in Nat /\ Modulus \in Nat \ {0}
      /\ MaxCounter + NBits + 1 < Modulus
  BY WindowAssumption DEF NBits
<1>2. ASSUME NEW n \in 0 .. MaxCounter + NBits + 1
      PROVE  Wrap(n) = n
  <2>1. n \in 0 .. Modulus - 1
    BY <1>1
  <2> QED BY <1>1, <2>1, ModSmall DEF Wrap
<1> QED BY <1>1, <1>2

\* too far back, without the wrap
LEMMA TooFarBackFact ==
  ASSUME NEW v \in Validator, NEW c \in Counters
  PROVE  TooFarBack(v, c) <=> c + NBits < v.next
<1>1. c + NBits \in 0 .. MaxCounter + NBits + 1
  BY WindowFacts DEF Counters
<1> QED BY <1>1, WindowFacts DEF TooFarBack

\* Two counters of one window have different bits.
LEMMA BitsDistinct ==
  ASSUME NEW a \in Counters, NEW b \in Counters, a < b, b < a + NBits
  PROVE  a % NBits # b % NBits
<1>1. a \in Int /\ b \in Int /\ b - a < NBits
  BY WindowFacts DEF Counters
<1> QED BY <1>1, WindowFacts, ModDistinct

\* The bit of a counter lies in the bitmap.
LEMMA BitType ==
  ASSUME NEW c \in Counters
  PROVE  c % NBits \in Bits
<1>1. c \in Int
  BY WindowFacts DEF Counters
<1> QED BY <1>1, WindowFacts, DivMod DEF Bits

\* mark_did_receive refuses exactly the counters will_accept refuses.
LEMMA MarkAgreesWithCheck ==
  ASSUME NEW v \in Validator, NEW c \in Counters
  PROVE  MarkResult(v, c) = "Ok" <=> WillAccept(v, c) = "Ok"
<1>1. v.next \in Nat /\ c \in Nat /\ NBits \in Nat
  BY WindowFacts DEF Validator, Counters
<1> QED BY <1>1, TooFarBackFact DEF MarkResult, WillAccept

\* What marking does to the window when it succeeds.
LEMMA MarkEffect ==
  ASSUME NEW v \in Validator, NEW c \in Counters, MarkResult(v, c) = "Ok",
         NEW w, w = ReceivingCounterMark(v, c)
  PROVE  /\ w \in Validator
         /\ w.receive_cnt = v.receive_cnt + 1
         /\ w.next = IF c < v.next THEN v.next ELSE c + 1
         /\ w.bitmap = IF c < v.next THEN SetBit(v.bitmap, c)
                       ELSE SetBit(ClearSkipped(v.bitmap, v.next, c), c)
<1>1. v.next \in 0 .. MaxCounter + 1 /\ c \in 0 .. MaxCounter /\ v.bitmap \in SUBSET Bits
      /\ v.receive_cnt \in Nat
  BY DEF Validator, Counters
<1>2. Wrap(c + 1) = c + 1 /\ c + 1 \in 0 .. MaxCounter + 1
  BY <1>1, WindowFacts
<1>3. ClearSkipped(v.bitmap, v.next, c) \in SUBSET Bits
  BY <1>1 DEF ClearSkipped
<1>4. SetBit(v.bitmap, c) \in SUBSET Bits
      /\ SetBit(ClearSkipped(v.bitmap, v.next, c), c) \in SUBSET Bits
  BY <1>1, <1>3, BitType DEF SetBit
<1> DEFINE n == IF c < v.next THEN v.next ELSE c + 1
           b == IF c < v.next THEN SetBit(v.bitmap, c)
                ELSE SetBit(ClearSkipped(v.bitmap, v.next, c), c)
<1>5. n \in 0 .. MaxCounter + 1 /\ b \in SUBSET Bits
  BY <1>1, <1>2, <1>4
<1>6. MarkDidReceive(v, c) = [next |-> n, bitmap |-> b, receive_cnt |-> v.receive_cnt]
  BY <1>2 DEF Validator, MarkDidReceive
<1> HIDE DEF n, b
<1>7. w = [next |-> n, bitmap |-> b, receive_cnt |-> v.receive_cnt + 1]
  BY <1>6 DEF ReceivingCounterMark
<1>8. w \in Validator
  BY <1>1, <1>5, <1>7 DEF Validator
<1>9. w.next = n /\ w.bitmap = b /\ w.receive_cnt = v.receive_cnt + 1
  BY <1>7
<1> QED BY <1>8, <1>9 DEF n, b

\* The window keeps telling accepted counters apart after a successful mark.
LEMMA MarkKeepsWindow ==
  ASSUME NEW v \in Validator, NEW A \in SUBSET Counters, NEW c \in Counters,
         MarkResult(v, c) = "Ok",
         \A d \in A : d < v.next,
         \A d \in Counters : d < v.next /\ d + NBits >= v.next =>
            (CheckBit(v.bitmap, d) <=> d \in A),
         NEW w, w = ReceivingCounterMark(v, c)
  PROVE  /\ c \notin A
         /\ \A d \in A \cup {c} : d < w.next
         /\ \A d \in Counters : d < w.next /\ d + NBits >= w.next =>
              (CheckBit(w.bitmap, d) <=> d \in A \cup {c})
<1>1. /\ v.next \in Nat /\ c \in Nat /\ NBits \in Nat \ {0}
      /\ \A d \in Counters : d \in Nat
  BY WindowFacts DEF Validator, Counters
<1>2. c + NBits >= v.next /\ (c < v.next => ~ CheckBit(v.bitmap, c))
  BY <1>1, TooFarBackFact DEF MarkResult
<1>3. c \notin A
  BY <1>1, <1>2
<1>4. CASE c < v.next
  <2>1. w.next = v.next /\ w.bitmap = v.bitmap \cup {c % NBits}
    BY <1>4, MarkEffect DEF SetBit
  <2>2. ASSUME NEW d \in Counters, d < w.next, d + NBits >= w.next
        PROVE  CheckBit(w.bitmap, d) <=> d \in A \cup {c}
    <3>1. CASE d = c
      BY <2>1, <3>1 DEF CheckBit
    <3>2. CASE d # c
      <4>1. d % NBits # c % NBits
        <5>1. CASE d < c
          <6>1. c < d + NBits
            BY <1>1, <1>4, <2>1, <2>2
          <6> QED BY <5>1, <6>1, BitsDistinct
        <5>2. CASE c < d
          <6>1. d < c + NBits
            BY <1>1, <1>2, <2>1, <2>2
          <6> QED BY <5>2, <6>1, BitsDistinct
        <5> QED BY <1>1, <3>2, <5>1, <5>2
      <4> QED BY <2>1, <2>2, <3>2, <4>1 DEF CheckBit
    <3> QED BY <3>1, <3>2
  <2> QED BY <1>3, <1>4, <2>1, <2>2
<1>5. CASE ~ (c < v.next)
  <2>1. w.next = c + 1
        /\ w.bitmap = ClearSkipped(v.bitmap, v.next, c) \cup {c % NBits}
    <3>1. w.next = (IF c < v.next THEN v.next ELSE c + 1)
          /\ w.bitmap = IF c < v.next THEN SetBit(v.bitmap, c)
                         ELSE SetBit(ClearSkipped(v.bitmap, v.next, c), c)
      BY MarkEffect
    <3> QED BY <1>5, <3>1 DEF SetBit
  <2>2. ASSUME NEW d \in A \cup {c}
        PROVE  d < w.next
    <3>1. d \in Nat /\ (d \in A => d < v.next)
      BY <1>1
    <3>2. w.next = c + 1
      BY <2>1
    <3> QED BY <1>1, <1>5, <3>1, <3>2
  <2>3. ASSUME NEW d \in Counters, d < w.next, d + NBits >= w.next
        PROVE  CheckBit(w.bitmap, d) <=> d \in A \cup {c}
    <3>1. CASE d = c
      BY <2>1, <3>1 DEF CheckBit
    <3>2. CASE d # c
      <4>1. d < c /\ c < d + NBits
        BY <1>1, <2>1, <2>3, <3>2
      <4>2. CheckBit(w.bitmap, d) <=> d % NBits \in ClearSkipped(v.bitmap, v.next, c)
        <5>1. d % NBits # c % NBits
          BY <4>1, BitsDistinct
        <5> QED BY <2>1, <5>1 DEF CheckBit
      <4>3. CASE d >= v.next
        <5>1. d \notin A
          BY <1>1, <4>3
        <5>2. d % NBits \notin ClearSkipped(v.bitmap, v.next, c)
          <6>1. d \in v.next .. c - 1
            BY <1>1, <4>1, <4>3
          <6> QED BY <6>1 DEF ClearSkipped
        <5> QED BY <3>2, <4>2, <5>1, <5>2
      <4>4. CASE d < v.next
        <5>1. c - v.next < NBits
          BY <1>1, <4>1, <4>4
        <5>2. ASSUME NEW i \in v.next .. c - 1
              PROVE  i % NBits # d % NBits
          <6>1. i \in Counters /\ d < i /\ i < d + NBits
            BY <1>1, <4>1, <4>4, WindowFacts DEF Counters
          <6> QED BY <6>1, BitsDistinct
        <5>3. d % NBits \in ClearSkipped(v.bitmap, v.next, c) <=> CheckBit(v.bitmap, d)
          BY <1>1, <5>1, <5>2 DEF ClearSkipped, CheckBit
        <5>4. d + NBits >= v.next
          BY <1>1, <1>5, <4>1
        <5> QED BY <3>2, <4>2, <4>4, <5>3, <5>4
      <4> QED BY <1>1, <4>3, <4>4
    <3> QED BY <3>1, <3>2
  <2> QED BY <1>3, <2>2, <2>3
<1> QED BY <1>4, <1>5

-----------------------------------------------------------------------------
\* A window accepts exactly the fresh counters that are not too far back.
LEMMA WindowMeaning ==
  ASSUME SessionInv, NEW c \in Counters
  PROVE  WillAccept(validator, c) = "Ok" <=> c \notin accepted /\ c + NBits >= validator.next
<1>1. validator \in Validator /\ WindowInv
  BY DEF SessionInv, TypeOK
<1>2. validator.next \in Nat /\ c \in Nat /\ NBits \in Nat
  BY <1>1, WindowFacts DEF Validator, Counters
<1>3. TooFarBack(validator, c) <=> c + NBits < validator.next
  BY <1>1, TooFarBackFact
<1>4. CASE c >= validator.next
  BY <1>1, <1>2, <1>4 DEF WillAccept, WindowInv
<1>5. CASE c < validator.next
  BY <1>1, <1>2, <1>3, <1>5 DEF WillAccept, WindowInv
<1> QED BY <1>2, <1>4, <1>5

\* Only a mark changes the set of accepted counters.
LEMMA AcceptedUnchanged == UNCHANGED delivered => accepted' = accepted
BY DEF accepted

\* Finitely many counters are accepted, so that receive_cnt counts them.
LEMMA AcceptedFinite ==
  ASSUME NEW A \in SUBSET Counters
  PROVE  IsFiniteSet(A) /\ Cardinality(A) \in Nat
<1>1. IsFiniteSet(Counters)
  BY WindowFacts, FS_Interval DEF Counters
<1>2. IsFiniteSet(A)
  BY <1>1, FS_Subset
<1> QED BY <1>2, FS_CardinalityType

\* A new session satisfies the invariant (Session::new).
LEMMA SessionInvInit == Init => SessionInv
<1> SUFFICES ASSUME Init PROVE SessionInv
  OBVIOUS
<1>1. TypeOK
  BY WindowFacts DEF Init, TypeOK, EmptyValidator, Validator
<1>2. WindowInv
  BY WindowFacts DEF Init, WindowInv, EmptyValidator, Counters, accepted
<1>3. SendInv /\ OpenInv
  BY DEF Init, SendInv, NonceNeverReused, OpenInv
<1>4. validator.receive_cnt = Cardinality(accepted)
  <2>1. accepted = {}
    BY DEF Init, accepted
  <2> QED BY <2>1, FS_EmptySet DEF Init, EmptyValidator
<1> QED BY <1>1, <1>2, <1>3, <1>4 DEF SessionInv

\* Fetching a counter (format_packet_data) preserves the invariant.
LEMMA FetchCounterStep ==
  ASSUME SessionInv, NEW s \in Senders, FetchCounter(s)
  PROVE  SessionInv'
<1>1. /\ sending_key_counter \in Counters
      /\ sending_key_counter' = sending_key_counter + 1
      /\ taken' = [taken EXCEPT ![s] = sending_key_counter]
      /\ UNCHANGED <<sealed, validator, opening, ret, delivered>>
  BY WindowFacts DEF SessionInv, TypeOK, FetchCounter, Counters, recvVars
<1>2. TypeOK'
  BY <1>1, WindowFacts DEF SessionInv, TypeOK, Counters
<1>3. SendInv'
  <2>1. None \notin Counters
    BY SessionAssumption
  <2>2. ASSUME NEW t \in Senders, taken'[t] # None
        PROVE  /\ taken'[t] \notin sealed'
               /\ taken'[t] < sending_key_counter'
               /\ \A u \in Senders \ {t} : taken'[u] # taken'[t]
    BY <1>1, <2>1, <2>2 DEF SessionInv, TypeOK, SendInv, NonceNeverReused, Counters
  <2>3. \A c \in sealed' : c < sending_key_counter'
    BY <1>1 DEF SessionInv, TypeOK, SendInv, Counters
  <2> QED BY <2>2, <2>3 DEF SendInv, NonceNeverReused
<1> QED BY <1>1, <1>2, <1>3, AcceptedUnchanged DEF SessionInv, WindowInv, OpenInv

\* Sealing a packet (format_packet_data) preserves the invariant.
LEMMA SealStep ==
  ASSUME SessionInv, NEW s \in Senders, Seal(s)
  PROVE  SessionInv'
<1>1. /\ taken[s] \in Counters
      /\ sealed' = sealed \cup {taken[s]}
      /\ taken' = [taken EXCEPT ![s] = None]
      /\ UNCHANGED <<sending_key_counter, validator, opening, ret, delivered>>
  BY DEF SessionInv, TypeOK, Seal, recvVars
<1>2. TypeOK'
  BY <1>1 DEF SessionInv, TypeOK
<1>3. SendInv'
  BY <1>1, SessionAssumption DEF SessionInv, TypeOK, SendInv, NonceNeverReused
<1>4. OpenInv'
  BY <1>1 DEF SessionInv, OpenInv
<1> QED BY <1>1, <1>2, <1>3, <1>4, AcceptedUnchanged DEF SessionInv, WindowInv

\* The quick check (receive_packet_data, will_accept) preserves the invariant.
LEMMA QuickCheckStep ==
  ASSUME SessionInv, NEW r \in Receivers, QuickCheck(r)
  PROVE  SessionInv'
<1>1. PICK p \in Arrivals :
        LET check == IF ~ p.own THEN "WrongIndex" ELSE WillAccept(validator, p.counter)
        IN  IF check = "Ok"
            THEN opening' = [opening EXCEPT ![r] = p] /\ UNCHANGED ret
            ELSE ret' = [ret EXCEPT ![r] = check] /\ UNCHANGED opening
  BY DEF QuickCheck, Return
<1>2. UNCHANGED <<sending_key_counter, taken, sealed, validator, delivered>>
  BY DEF QuickCheck, sendVars
<1>3. p \in Packet /\ (p.authentic => p.counter \in sealed)
  BY DEF Arrivals
<1>4. WillAccept(validator, p.counter) \in Errors \cup {"Ok"}
  BY DEF WillAccept, Errors
<1>5. TypeOK'
  BY <1>1, <1>2, <1>3, <1>4, SMTT(30) DEF SessionInv, TypeOK, Errors
<1>6. OpenInv'
  BY <1>1, <1>2, <1>3 DEF SessionInv, TypeOK, OpenInv
<1> QED BY <1>2, <1>5, <1>6, AcceptedUnchanged DEF SessionInv, WindowInv, SendInv, NonceNeverReused

\* A tag that does not verify (receive_packet_data) leaves the invariant.
LEMMA DecryptFailsStep ==
  ASSUME SessionInv, NEW r \in Receivers, DecryptFails(r)
  PROVE  SessionInv'
<1>1. /\ ret' = [ret EXCEPT ![r] = "InvalidAeadTag"]
      /\ opening' = [opening EXCEPT ![r] = None]
      /\ UNCHANGED <<sending_key_counter, taken, sealed, validator, delivered>>
  BY DEF DecryptFails, Return, sendVars
<1>2. TypeOK'
  BY <1>1 DEF SessionInv, TypeOK, Errors
<1>3. OpenInv'
  BY <1>1 DEF SessionInv, TypeOK, OpenInv
<1> QED BY <1>1, <1>2, <1>3, AcceptedUnchanged DEF SessionInv, WindowInv, SendInv, NonceNeverReused

\* Marking a counter (mark_did_receive) preserves the invariant.
LEMMA MarkStep ==
  ASSUME SessionInv, NEW r \in Receivers, Mark(r)
  PROVE  SessionInv'
<1> DEFINE c == opening[r].counter
<1>1. /\ c \in Counters
      /\ ret' = [ret EXCEPT ![r] = MarkResult(validator, c)]
      /\ validator' = ReceivingCounterMark(validator, c)
      /\ delivered' = IF MarkResult(validator, c) = "Ok"
                      THEN [delivered EXCEPT ![c] = @ + 1] ELSE delivered
      /\ opening' = [opening EXCEPT ![r] = None]
      /\ UNCHANGED <<sending_key_counter, taken, sealed>>
  BY DEF SessionInv, TypeOK, Mark, Return, sendVars, Packet
<1>2. validator \in Validator /\ accepted \in SUBSET Counters /\ WindowInv
      /\ delivered \in [Counters -> Nat]
  BY DEF SessionInv, TypeOK, accepted
<1> HIDE DEF c
<1>3. MarkResult(validator, c) \in Errors \cup {"Ok"}
  BY DEF MarkResult, Errors
<1>4. /\ validator' \in Validator /\ accepted' \in SUBSET Counters
      /\ delivered' \in [Counters -> Nat]
      /\ WindowInv'
      /\ validator'.receive_cnt = Cardinality(accepted')
  <2>1. CASE MarkResult(validator, c) = "Ok"
    <3>1. validator' \in Validator /\ validator'.receive_cnt = validator.receive_cnt + 1
      BY <1>1, <1>2, <2>1, MarkEffect
    <3>2. accepted' = accepted \cup {c} /\ delivered' \in [Counters -> Nat]
      BY <1>1, <1>2, <2>1, SMTT(30) DEF accepted
    <3>3. /\ c \notin accepted
          /\ \A d \in accepted \cup {c} : d < validator'.next
          /\ \A d \in Counters : d < validator'.next /\ d + NBits >= validator'.next =>
               (CheckBit(validator'.bitmap, d) <=> d \in accepted \cup {c})
      BY <1>1, <1>2, <2>1, MarkKeepsWindow, SMTT(30) DEF WindowInv
    <3>4. Cardinality(accepted \cup {c}) = Cardinality(accepted) + 1
      BY <1>2, <3>3, AcceptedFinite, FS_AddElement
    <3> QED BY <1>1, <1>2, <3>1, <3>2, <3>3, <3>4, SMTT(30) DEF SessionInv, WindowInv
  <2>2. CASE MarkResult(validator, c) # "Ok"
    BY <1>1, <1>2, <2>2, AcceptedUnchanged, SMTT(30) DEF SessionInv, WindowInv, ReceivingCounterMark
  <2> QED BY <2>1, <2>2, SMTT(30)
<1>5. TypeOK'
  BY <1>1, <1>3, <1>4, SMTT(30) DEF SessionInv, TypeOK
<1>6. OpenInv' /\ SendInv'
  BY <1>1 DEF SessionInv, TypeOK, OpenInv, SendInv, NonceNeverReused
<1> QED BY <1>4, <1>5, <1>6, SMTT(30) DEF SessionInv

\* Every step of senders and receivers preserves the invariant.
LEMMA SessionInvNext == SessionInv /\ [Next]_vars => SessionInv'
<1> SUFFICES ASSUME SessionInv, [Next]_vars PROVE SessionInv'
  OBVIOUS
<1>1. CASE UNCHANGED vars
  BY <1>1, AcceptedUnchanged DEF vars, SessionInv, TypeOK, WindowInv, SendInv, NonceNeverReused, OpenInv
<1>2. CASE Next
  BY <1>2, FetchCounterStep, SealStep, QuickCheckStep, DecryptFailsStep, MarkStep DEF Next
<1> QED BY <1>1, <1>2

-----------------------------------------------------------------------------
\* The inductive invariant of the session holds for every number of threads,
\* every window geometry and every counter bound short of the u64 wrap.
THEOREM SessionInvariant == Spec => []SessionInv
BY SessionInvInit, SessionInvNext, PTL DEF Spec

\* Every field of the session stays in its type.
THEOREM TypeCorrect == Spec => []TypeOK
<1>1. SessionInv => TypeOK
  BY DEF SessionInv
<1> QED BY <1>1, SessionInvariant, PTL

\* will_accept lets through exactly the counters not yet received and not
\* too far back, whatever the threads and the network did before.
THEOREM WindowIsExact == Spec => []WindowExact
<1>1. SessionInv => WindowExact
  BY WindowMeaning DEF WindowExact
<1> QED BY <1>1, SessionInvariant, PTL

\* fetch_add hands every nonce to one format_packet_data call only.
THEOREM NoncesAreUnique == Spec => []NonceNeverReused
<1>1. SessionInv => NonceNeverReused
  BY DEF SessionInv, SendInv
<1> QED BY <1>1, SessionInvariant, PTL

\* The loss estimate never counts more packets than were expected.
THEOREM LossEstimateIsSound == Spec => []LossEstimateSound
<1>1. ASSUME SessionInv PROVE LossEstimateSound
  <2>1. /\ validator.next \in Nat
        /\ accepted \in SUBSET Counters
        /\ \A c \in accepted : c < validator.next
        /\ validator.receive_cnt = Cardinality(accepted)
    BY <1>1, WindowFacts DEF SessionInv, TypeOK, Validator, WindowInv, accepted
  <2>2. accepted \subseteq 0 .. validator.next - 1
    BY <2>1 DEF Counters
  <2>3. IsFiniteSet(0 .. validator.next - 1) /\ Cardinality(0 .. validator.next - 1) <= validator.next
    <3> DEFINE m == validator.next - 1
    <3>1. 0 \in Int /\ m \in Int
      BY <2>1
    <3> HIDE DEF m
    <3>2. IsFiniteSet(0 .. m) /\ Cardinality(0 .. m) = IF 0 > m THEN 0 ELSE m - 0 + 1
      BY <3>1, FS_Interval, Zenon
    <3> QED BY <2>1, <3>2 DEF m
  <2>4. Cardinality(accepted) <= Cardinality(0 .. validator.next - 1)
    BY <2>2, <2>3, FS_Subset
  <2>5. Cardinality(accepted) \in Nat /\ Cardinality(0 .. validator.next - 1) \in Nat
    BY <2>1, <2>3, AcceptedFinite, FS_CardinalityType
  <2> QED BY <2>1, <2>3, <2>4, <2>5 DEF LossEstimateSound
<1> QED BY <1>1, SessionInvariant, PTL

\* What a mark that returns Ok, or an error, tells about its counter.
LEMMA MarkVerdict ==
  ASSUME SessionInv, NEW r \in Receivers, Mark(r)
  PROVE  /\ ret'[r] = "Ok" <=> MarkResult(validator, opening[r].counter) = "Ok"
         /\ ret'[r] = "Ok" <=>
              /\ opening[r].counter \notin accepted
              /\ opening[r].counter + NBits >= validator.next
<1>1. opening[r].counter \in Counters /\ validator \in Validator
      /\ ret'[r] = MarkResult(validator, opening[r].counter)
  BY DEF SessionInv, TypeOK, Mark, Return, Packet
<1> QED BY <1>1, MarkAgreesWithCheck, WindowMeaning

\* The second check, under the second lock, never accepts a counter again.
THEOREM AcceptsOnce == Spec => AcceptedOnce
<1>1. SessionInv /\ [Next]_vars =>
        [\A r \in Receivers :
           Mark(r) /\ ret'[r] = "Ok" => opening[r].counter \notin accepted]_vars
  BY MarkVerdict
<1> QED BY <1>1, SessionInvariant, PTL DEF Spec, AcceptedOnce

\* A packet that decrypts is refused only as a duplicate or as too old.
THEOREM RefusalsAreJustified == Spec => RefusalJustified
<1>1. SessionInv /\ [Next]_vars =>
        [\A r \in Receivers :
           Mark(r) /\ ret'[r] # "Ok" =>
              LET c == opening[r].counter
              IN  c \in accepted \/ c + NBits < validator.next]_vars
  <2> SUFFICES ASSUME SessionInv, NEW r \in Receivers, Mark(r), ret'[r] # "Ok"
               PROVE  opening[r].counter \in accepted \/ opening[r].counter + NBits < validator.next
    OBVIOUS
  <2>1. opening[r].counter \in Nat /\ validator.next \in Nat /\ NBits \in Nat
    BY WindowFacts DEF SessionInv, TypeOK, Mark, Packet, Counters, Validator
  <2> QED BY <2>1, MarkVerdict
<1> QED BY <1>1, SessionInvariant, PTL DEF Spec, RefusalJustified

\* The session implements at-most-once delivery of what the peer sealed.
THEOREM ImplementsDelivery == Spec => DeliverySpec
<1>1. Init => Delivery!Init
  BY DEF Init, Delivery!Init
<1>2. ASSUME SessionInv, [Next]_vars
      PROVE  [Delivery!Next]_(Delivery!vars)
  <2>1. CASE UNCHANGED vars
    BY <2>1 DEF vars, Delivery!vars
  <2>2. ASSUME NEW s \in Senders, FetchCounter(s)
        PROVE  UNCHANGED Delivery!vars
    BY <2>2 DEF FetchCounter, recvVars, Delivery!vars
  <2>3. ASSUME NEW s \in Senders, Seal(s)
        PROVE  Delivery!SealNew
    BY <1>2, <2>3 DEF SessionInv, TypeOK, SendInv, NonceNeverReused, Seal, recvVars, Delivery!SealNew
  <2>4. ASSUME NEW r \in Receivers, QuickCheck(r) \/ DecryptFails(r)
        PROVE  UNCHANGED Delivery!vars
    BY <2>4 DEF QuickCheck, DecryptFails, sendVars, Delivery!vars
  <2>5. ASSUME NEW r \in Receivers, Mark(r)
        PROVE  Delivery!DeliverOnce \/ UNCHANGED Delivery!vars
    <3>1. CASE ret'[r] = "Ok"
      <4> DEFINE c == opening[r].counter
      <4>1. c \in Counters /\ c \in sealed /\ c \notin accepted
        BY <1>2, <2>5, <3>1, MarkVerdict DEF SessionInv, TypeOK, Packet, OpenInv, Mark
      <4>2. delivered' = [delivered EXCEPT ![c] = @ + 1] /\ UNCHANGED sealed
        BY <1>2, <2>5, <3>1, MarkVerdict DEF Mark, sendVars
      <4>3. delivered[c] = 0
        BY <1>2, <4>1 DEF SessionInv, TypeOK, accepted
      <4> HIDE DEF c
      <4>4. delivered' = [delivered EXCEPT ![c] = 1]
        BY <4>2, <4>3
      <4> QED BY <4>1, <4>2, <4>3, <4>4 DEF Delivery!DeliverOnce
    <3>2. CASE ret'[r] # "Ok"
      BY <1>2, <2>5, <3>2, MarkVerdict DEF Mark, sendVars, Delivery!vars
    <3> QED BY <3>1, <3>2
  <2>6. CASE Next
    BY <2>2, <2>3, <2>4, <2>5, <2>6 DEF Next, Delivery!Next
  <2> QED BY <1>2, <2>1, <2>6
<1> QED BY <1>1, <1>2, SessionInvariant, PTL DEF Spec, DeliverySpec, Delivery!Spec
=============================================================================
