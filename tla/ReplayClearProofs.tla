-------------------------- MODULE ReplayClearProofs --------------------------
(***************************************************************************)
(* The clearing loops of mark_did_receive forget exactly the skipped       *)
(* counters, for every word size, every number of words and every skip.    *)
(***************************************************************************)
EXTENDS ReplayClear, TLAPS

\* Division with remainder, as the bit operations split an index.
LEMMA DivMod ==
  ASSUME NEW n \in Nat \ {0}, NEW a \in Int
  PROVE  /\ a = n * (a \div n) + (a % n)
         /\ a % n \in 0 .. n - 1
         /\ a \div n \in Int
OBVIOUS

\* Quotient and remainder are unique.
LEMMA DivModUnique ==
  ASSUME NEW n \in Nat \ {0}, NEW q \in Int, NEW r \in 0 .. n - 1
  PROVE  /\ (n * q + r) % n = r
         /\ (n * q + r) \div n = q
OBVIOUS

\* The position inside a word does not depend on the reduction to the window.
LEMMA ModOfMod ==
  ASSUME NEW w \in Nat \ {0}, NEW k \in Nat \ {0}, NEW a \in Int
  PROVE  (a % (w * k)) % w = a % w
<1> DEFINE n == w * k
           q == a \div n
           r == a % n
           p == r \div w
           s == r % w
<1>1. n \in Nat \ {0}
  OBVIOUS
<1>2. q \in Int /\ r \in 0 .. n - 1 /\ a = n * q + r
  BY <1>1, DivMod
<1>3. p \in Int /\ s \in 0 .. w - 1 /\ r = w * p + s
  BY <1>2, DivMod
<1> HIDE DEF q, p, r, s
<1>4. a = w * (k * q + p) + s
  BY <1>2, <1>3
<1> DEFINE u == k * q + p
<1>5. u \in Int
  BY <1>2, <1>3
<1> HIDE DEF u
<1>6. (w * u + s) % w = s
  BY <1>3, <1>5, DivModUnique
<1> QED BY <1>4, <1>6 DEF r, s, u

\* The bitmap of the validator has at least one bit.
LEMMA NBitsType == NBits \in Nat \ {0}
BY WindowAssumption DEF NBits

\* Every index has a bit.
LEMMA BitType ==
  ASSUME NEW j \in Int
  PROVE  j % NBits \in Bits
BY NBitsType, DivMod DEF Bits

\* The bits of a word-aligned index and of the WordSize - 1 indices after it are the
\* bits of one word of the bitmap.
LEMMA WordOfAligned ==
  ASSUME NEW a \in Int, a % WordSize = 0
  PROVE  /\ ((a + WordSize) \div WordSize) * WordSize = a + WordSize
         /\ \A d \in 0 .. WordSize - 1 :
              /\ (a + d) % NBits = (a % NBits) + d
              /\ ((a + d) % NBits) \div WordSize = (a % NBits) \div WordSize
         /\ \A bit \in 0 .. NBits - 1 :
              bit \div WordSize = (a % NBits) \div WordSize =>
                \E d \in 0 .. WordSize - 1 : bit = (a + d) % NBits
<1> DEFINE q == a \div NBits
           r == a % NBits
           p == r \div WordSize
<1>1. /\ NBits \in Nat \ {0} /\ NBits = WordSize * NWords
      /\ WordSize \in Nat \ {0} /\ NWords \in Nat \ {0}
  BY NBitsType, WindowAssumption DEF NBits
<1>2. q \in Int /\ r \in 0 .. NBits - 1 /\ a = NBits * q + r
  BY <1>1, DivMod
<1>3. p \in Int /\ r = WordSize * p
  <2>1. r % WordSize = 0
    BY <1>1, ModOfMod
  <2>2. r \in Int
    BY <1>2
  <2> QED BY <1>1, <2>1, <2>2, DivMod
<1>4. p <= NWords - 1
  <2>1. WordSize * p < WordSize * NWords
    BY <1>1, <1>2, <1>3
  <2> QED BY <1>1, <2>1, <1>3
<1>5. r + WordSize <= NBits
  BY <1>1, <1>3, <1>4
<1>6. ((a + WordSize) \div WordSize) * WordSize = a + WordSize
  <2> DEFINE u == a \div WordSize
  <2>1. u \in Int /\ a = WordSize * u
    BY <1>1, DivMod
  <2> HIDE DEF u
  <2> DEFINE v == u + 1
  <2>2. v \in Int /\ a + WordSize = WordSize * v + 0
    BY <1>1, <2>1
  <2> HIDE DEF v
  <2>3. (a + WordSize) \div WordSize = v
    BY <1>1, <2>2, DivModUnique
  <2> QED BY <1>1, <2>2, <2>3
<1>7. ASSUME NEW d \in 0 .. WordSize - 1
      PROVE  (a + d) % NBits = r + d /\ (r + d) \div WordSize = p
  <2> HIDE DEF q, r, p
  <2> DEFINE t == r + d
  <2>1. t \in 0 .. NBits - 1
    BY <1>1, <1>2, <1>5
  <2>2. a + d = NBits * q + t
    BY <1>1, <1>2
  <2> HIDE DEF t
  <2>3. (NBits * q + t) % NBits = t
    <3>1. NBits \in Nat \ {0} /\ q \in Int
      BY <1>1, <1>2
    <3> QED BY <2>1, <3>1, DivModUnique, Zenon
  <2>4. (WordSize * p + d) \div WordSize = p
    BY <1>1, <1>3, DivModUnique
  <2> QED BY <1>3, <2>2, <2>3, <2>4 DEF t
<1>8. ASSUME NEW bit \in 0 .. NBits - 1, bit \div WordSize = p
      PROVE  \E d \in 0 .. WordSize - 1 : bit = (a + d) % NBits
  <2> DEFINE d == bit % WordSize
  <2>1. bit \in Int
    BY <1>1
  <2>2. d \in 0 .. WordSize - 1 /\ bit = WordSize * p + d
    BY <1>1, <1>8, <2>1, DivMod
  <2>3. bit = r + d
    BY <1>3, <2>2
  <2> HIDE DEF r, p, d
  <2> QED BY <2>2, <2>3, <1>7
<1> QED
  <2>1. \A d \in 0 .. WordSize - 1 : (a + d) % NBits = r + d /\ ((a + d) % NBits) \div WordSize = p
    BY <1>7
  <2> QED BY <1>6, <2>1, <1>8

\* clear_word at a word boundary clears the bits of that word's counters.
LEMMA ClearWordEffect ==
  ASSUME NEW b \in SUBSET Bits, NEW a \in Nat, a % WordSize = 0
  PROVE  /\ ClearWord(b, a) = b \ { j % NBits : j \in a .. a + WordSize - 1 }
         /\ NextWord(a) = a + WordSize
<1>1. WordSize \in Nat \ {0} /\ NWords \in Nat \ {0} /\ a \in Int
  BY WindowAssumption
<1>2. /\ ((a + WordSize) \div WordSize) * WordSize = a + WordSize
      /\ \A d \in 0 .. WordSize - 1 :
           /\ (a + d) % NBits = (a % NBits) + d
           /\ ((a + d) % NBits) \div WordSize = (a % NBits) \div WordSize
      /\ \A bit \in 0 .. NBits - 1 :
           bit \div WordSize = (a % NBits) \div WordSize =>
             \E d \in 0 .. WordSize - 1 : bit = (a + d) % NBits
  BY <1>1, WordOfAligned
<1>3. ASSUME NEW bit \in Bits
      PROVE  bit \div WordSize = (a % NBits) \div WordSize
               <=> bit \in { j % NBits : j \in a .. a + WordSize - 1 }
  <2>1. ASSUME bit \div WordSize = (a % NBits) \div WordSize
        PROVE  bit \in { j % NBits : j \in a .. a + WordSize - 1 }
    <3>1. PICK d \in 0 .. WordSize - 1 : bit = (a + d) % NBits
      BY <1>2, <2>1 DEF Bits
    <3>2. a + d \in a .. a + WordSize - 1
      BY <1>1
    <3> QED BY <3>1, <3>2
  <2>2. ASSUME NEW j \in a .. a + WordSize - 1, bit = j % NBits
        PROVE  bit \div WordSize = (a % NBits) \div WordSize
    <3> DEFINE d == j - a
    <3>1. d \in 0 .. WordSize - 1 /\ j = a + d
      BY <1>1
    <3> QED BY <1>2, <2>2, <3>1
  <2> QED BY <2>1, <2>2
<1> QED BY <1>2, <1>3 DEF ClearWord, NextWord

\* The loop invariant holds when mark_did_receive enters the loops.
LEMMA LoopInvInit == Init => LoopInv
<1> SUFFICES ASSUME Init PROVE LoopInv
  OBVIOUS
<1>1. first \in Counters /\ counter \in Counters /\ first < counter /\ i = first
  BY WindowAssumption DEF Init, Counters
<1>2. old \in SUBSET Bits
  <2>1. \A j \in 0 .. first - 1 : j % NBits \in Bits
    BY BitType
  <2> QED BY <2>1 DEF Init
<1>3. i \in first .. counter
  BY <1>1 DEF Counters
<1>4. first .. i - 1 = {}
  BY <1>1 DEF Counters
<1>5. NBits \in Int /\ first \in Int /\ counter \in Int
  BY <1>1, NBitsType DEF Counters
<1>6. CASE counter - first >= NBits
  BY <1>1, <1>2, <1>3, <1>5, <1>6 DEF Init, LoopInv, TypeOK, Loops, Bits
<1>7. CASE counter - first < NBits
  BY <1>1, <1>2, <1>3, <1>4, <1>5, <1>7 DEF Init, LoopInv, TypeOK, Loops
<1> QED BY <1>5, <1>6, <1>7

\* Each iteration of each loop keeps the loop invariant.
LEMMA LoopInvNext == LoopInv /\ [Next]_vars => LoopInv'
<1> SUFFICES ASSUME LoopInv, [Next]_vars PROVE LoopInv'
  OBVIOUS
<1>0. /\ WordSize \in Nat \ {0} /\ NBits \in Nat \ {0}
      /\ first \in Nat /\ counter \in Nat /\ i \in Nat
      /\ first <= i /\ i <= counter /\ bitmap \in SUBSET Bits
  BY NBitsType, WindowAssumption DEF LoopInv, TypeOK, Counters
<1>1. ASSUME pc # "done", i < counter, bitmap' = ClearBit(bitmap, i), i' = i + 1,
             UNCHANGED <<first, counter, old, pc>>, pc # "words"
      PROVE  LoopInv'
  <2>1. counter - first < NBits
    BY <1>0, <1>1 DEF LoopInv
  <2>2. first .. i' - 1 = (first .. i - 1) \cup {i}
    BY <1>0, <1>1
  <2>3. bitmap' = old \ { j % NBits : j \in first .. i' - 1 }
    BY <2>1, <2>2, <1>1 DEF LoopInv, ClearBit
  <2>4. i' \in first .. counter
    BY <1>0, <1>1
  <2>5. bitmap' \in SUBSET Bits
    BY <1>0, <1>1 DEF ClearBit
  <2> QED BY <1>0, <1>1, <2>1, <2>3, <2>4, <2>5 DEF LoopInv, TypeOK
<1>2. CASE AlignLoop
  <2>1. CASE i % WordSize # 0 /\ i < counter
    BY <1>1, <1>2, <2>1 DEF AlignLoop
  <2>2. CASE ~ (i % WordSize # 0 /\ i < counter)
    <3>1. i % WordSize = 0 \/ i = counter
      BY <1>0, <2>2
    <3> QED BY <1>0, <1>2, <2>2, <3>1 DEF AlignLoop, LoopInv, TypeOK, Loops
  <2> QED BY <2>1, <2>2
<1>3. CASE WordLoop
  <2>1. CASE i + WordSize < counter
    <3>1. counter - first < NBits /\ i % WordSize = 0
      BY <1>0, <1>3, <2>1 DEF WordLoop, LoopInv
    <3>2. i' = i + WordSize
      BY <1>0, <1>3, <2>1, <3>1, ClearWordEffect DEF WordLoop
    <3>3. bitmap' = bitmap \ { j % NBits : j \in i .. i + WordSize - 1 }
      BY <1>0, <1>3, <2>1, <3>1, ClearWordEffect, SMTT(30) DEF WordLoop
    <3>4. first .. i' - 1 = (first .. i - 1) \cup (i .. i + WordSize - 1)
      BY <1>0, <3>2
    <3>5. bitmap' = old \ { j % NBits : j \in first .. i' - 1 }
      BY <3>1, <3>3, <3>4 DEF LoopInv
    <3>6. i' \in first .. counter
      BY <1>0, <2>1, <3>2
    <3>7. i' % WordSize = 0
      <4> DEFINE q == i \div WordSize
      <4>1. q \in Int /\ i = WordSize * q
        BY <1>0, <3>1, DivMod
      <4> HIDE DEF q
      <4> DEFINE u == q + 1
      <4>2. u \in Int /\ i' = WordSize * u + 0
        BY <1>0, <3>2, <4>1
      <4> HIDE DEF u
      <4> QED BY <1>0, <4>2, DivModUnique
    <3> QED BY <1>0, <1>3, <2>1, <3>1, <3>3, <3>5, <3>6, <3>7
            DEF WordLoop, LoopInv, TypeOK, Loops
  <2>2. CASE ~ (i + WordSize < counter)
    BY <1>0, <1>3, <2>2 DEF WordLoop, LoopInv, TypeOK, Loops
  <2> QED BY <2>1, <2>2
<1>4. CASE RestLoop
  <2>1. CASE i < counter
    BY <1>1, <1>4, <2>1 DEF RestLoop
  <2>2. CASE ~ (i < counter)
    <3>1. i = counter
      BY <1>0, <2>2
    <3> QED BY <1>0, <1>4, <2>2, <3>1 DEF RestLoop, LoopInv, TypeOK, Loops
  <2> QED BY <2>1, <2>2
<1>5. CASE UNCHANGED vars
  BY <1>5 DEF vars, LoopInv, TypeOK
<1> QED BY <1>2, <1>3, <1>4, <1>5 DEF Next

\* The loop invariant of mark_did_receive's clearing loops always holds.
THEOREM LoopInvariant == Spec => []LoopInv
<1>1. Init => LoopInv
  BY LoopInvInit
<1>2. LoopInv /\ [Next]_vars => LoopInv'
  BY LoopInvNext
<1> QED BY <1>1, <1>2, PTL DEF Spec

\* When the loops of mark_did_receive end, they have cleared exactly the bits
\* of the skipped counters.
THEOREM ClearingIsExact == Spec => []ClearsExactlySkipped
<1>1. LoopInv => ClearsExactlySkipped
  <2> SUFFICES ASSUME LoopInv, pc = "done"
               PROVE  bitmap = ClearSkipped(old, first, counter)
    BY DEF ClearsExactlySkipped
  <2>1. NBits \in Int /\ first \in Int /\ counter \in Int
    BY NBitsType DEF LoopInv, TypeOK, Counters
  <2>2. CASE counter - first >= NBits
    BY <2>2 DEF LoopInv, ClearSkipped
  <2>3. CASE counter - first < NBits
    BY <2>1, <2>3 DEF LoopInv, ClearSkipped
  <2> QED BY <2>1, <2>2, <2>3
<1> QED BY <1>1, LoopInvariant, PTL
=============================================================================
