---------------------------- MODULE DeviceProofs ----------------------------
(* The tables of a device, for any number of keys, peers, networks, addresses *)
(* and sockets; and, for words of any width and any polynomial whose highest  *)
(* bit is set, that the indices of its peers are distinct.                    *)
EXTENDS Device, SequenceTheorems, WellFoundedInduction, TLAPS

-----------------------------------------------------------------------------
(* The generator of indices *)

\* Shifting a word loses only its lowest bit.
LEMMA ShiftedInjective ==
    ASSUME NEW v \in Word, NEW w \in Word, Shifted(v) = Shifted(w)
    PROVE  v \ {0} = w \ {0}
<1>1. \A x \in Word : \A i \in Int : i \in Shifted(x) <=> i + 1 \in x \ {0}
  BY LfsrAssumption DEF Word, Shifted
<1>2. \A x \in Word : \A i \in x \ {0} : i - 1 \in Int /\ (i - 1) + 1 = i
  BY LfsrAssumption DEF Word
<1>3. \A i \in v \ {0} : i \in w \ {0}
  BY <1>1, <1>2
<1>4. \A i \in w \ {0} : i \in v \ {0}
  BY <1>1, <1>2
<1> QED BY <1>3, <1>4, Zenon

\* A shifted word has no highest bit, so the highest bit of the register's next
\* value tells whether the polynomial was mixed in.
LEMMA HighestBit ==
    ASSUME NEW w \in Word
    PROVE  /\ Shifted(w) \in Word
           /\ Width - 1 \notin Shifted(w)
           /\ Step(w) \in Word
           /\ Width - 1 \in Step(w) <=> 0 \in w
<1>1. Shifted(w) \in Word /\ Width - 1 \notin Shifted(w)
  <2>1. \A i \in w \ {0} : i - 1 \in 0 .. Width - 1 /\ i - 1 # Width - 1
    BY LfsrAssumption DEF Word
  <2>2. \A j \in Shifted(w) : j \in 0 .. Width - 1 /\ j # Width - 1
    BY <2>1, Zenon DEF Shifted
  <2> QED BY <2>2, Zenon DEF Word
<1>2. Step(w) \in Word
  BY <1>1, LfsrAssumption, Zenon DEF Word, Step, Xor
<1>3. Width - 1 \in Step(w) <=> 0 \in w
  BY <1>1, LfsrAssumption, Zenon DEF Step, Xor
<1> QED BY <1>1, <1>2, <1>3, Zenon

\* The register's step loses nothing: two registers with the same next value
\* are equal.
LEMMA StepInjective ==
    ASSUME NEW v \in Word, NEW w \in Word, Step(v) = Step(w)
    PROVE  v = w
<1>1. 0 \in v <=> 0 \in w
  BY HighestBit, Zenon
<1>2. Shifted(v) = Shifted(w)
  <2>1. CASE 0 \in v
    <3>1. Xor(Shifted(v), Poly) = Xor(Shifted(w), Poly)
      BY <2>1, <1>1, Zenon DEF Step
    <3> QED BY <3>1, Zenon DEF Xor
  <2>2. CASE 0 \notin v
    <3>1. Xor(Shifted(v), {}) = Xor(Shifted(w), {})
      BY <2>2, <1>1, Zenon DEF Step
    <3> QED BY <3>1, Zenon DEF Xor
  <2> QED BY <2>1, <2>2, Zenon
<1>3. v \ {0} = w \ {0}
  BY <1>2, ShiftedInjective, Zenon
<1> QED BY <1>1, <1>3

\* A register that is not zero has a next value that is not zero.
LEMMA StepNotZero ==
    ASSUME NEW w \in Word \ {{}}
    PROVE  Step(w) \in Word \ {{}}
<1>1. {} \in Word /\ Step({}) = {}
  BY Zenon DEF Word, Step, Shifted, Xor
<1>2. Step(w) # {}
  BY <1>1, StepInjective, Zenon
<1> QED BY <1>2, HighestBit, Zenon

\* What subtracting one does to a word: its lowest one is the lowest zero of the
\* result, and the bits above are kept.
LEMMA DecrementBits ==
    ASSUME NEW w \in Word \ {{}}
    PROVE  \E low \in w : /\ \A j \in w : low <= j
                          /\ \A j \in Nat : j \in Decrement(w) <=> (j \in w /\ j # low) \/ j < low
<1>1. w \subseteq Nat /\ w # {}
  BY LfsrAssumption DEF Word
<1> DEFINE less == {ss \in Nat \X Nat : ss[1] < ss[2]}
<1>2. IsWellFoundedOn(less, Nat)
  BY NatLessThanWellFounded, Zenon DEF OpToRel
<1>3. \A j, k \in Nat : j < k => <<j, k>> \in less
  BY Zenon
<1> HIDE DEF less
<1>4. PICK low \in w : \A j \in w : <<j, low>> \notin less
  BY <1>1, <1>2, WFMin, Zenon
<1>5. \A j \in w : low <= j
  <2> TAKE j \in w
  <2>1. j \in Nat /\ low \in Nat /\ ~(j < low)
    BY <1>1, <1>3, <1>4, Zenon
  <2> QED BY <2>1
<1>6. PICK m \in w : /\ \A j \in w : m <= j
                     /\ Decrement(w) = (w \ {m}) \cup 0 .. m - 1
  BY <1>5, Zenon DEF Decrement
<1>7. \A j \in Nat : j \in Decrement(w) <=> (j \in w /\ j # m) \/ j < m
  <2> TAKE j \in Nat
  <2>1. m \in Nat
    BY <1>1, Zenon
  <2>2. j \in 0 .. m - 1 <=> j < m
    BY <2>1
  <2> QED BY <1>6, <2>2, Zenon
<1> QED BY <1>6, <1>7, Zenon

\* Subtracting one from words other than zero loses nothing.
LEMMA DecrementInjective ==
    ASSUME NEW v \in Word \ {{}}, NEW w \in Word \ {{}}, Decrement(v) = Decrement(w)
    PROVE  v = w
<1>1. v \subseteq Nat /\ w \subseteq Nat
  BY LfsrAssumption DEF Word
<1>2. PICK lv \in v :
         /\ \A j \in v : lv <= j
         /\ \A j \in Nat : j \in Decrement(v) <=> (j \in v /\ j # lv) \/ j < lv
  BY DecrementBits, Zenon
<1>3. PICK lw \in w :
         /\ \A j \in w : lw <= j
         /\ \A j \in Nat : j \in Decrement(w) <=> (j \in w /\ j # lw) \/ j < lw
  BY DecrementBits, Zenon
<1>4. lv \in Nat /\ lw \in Nat
  BY <1>1, Zenon
<1>5. lv \notin Decrement(v) /\ lw \notin Decrement(w)
  BY <1>2, <1>3, <1>4
<1>6. ~(lv < lw) /\ ~(lw < lv)
  BY <1>2, <1>3, <1>4, <1>5, Zenon
<1>7. lv = lw
  BY <1>4, <1>6
<1>8. \A j \in Nat : j \in v <=> j \in w
  <2> TAKE j \in Nat
  <2>1. CASE j = lv
    BY <2>1, <1>7, Zenon
  <2>2. CASE j < lv
    <3>1. ~(lv <= j)
      BY <2>2, <1>4
    <3> QED BY <3>1, <1>2, <1>3, <1>7, Zenon
  <2>3. CASE j # lv /\ ~(j < lv)
    BY <2>3, <1>2, <1>3, <1>7, Zenon
  <2> QED BY <2>1, <2>2, <2>3, Zenon
<1> QED BY <1>1, <1>8, Zenon

\* Different registers return different indices.
LEMMA IndexInjective ==
    ASSUME NEW v \in Word \ {{}}, NEW w \in Word \ {{}}, Index(v) = Index(w)
    PROVE  v = w
<1>1. Decrement(v) = Decrement(w)
  BY Zenon DEF Index, Xor
<1> QED BY <1>1, DecrementInjective, Zenon

\* The chain of registers holds at first.
LEMMA InitLfsr == LfsrInit => LfsrInv
<1> SUFFICES ASSUME LfsrInit PROVE LfsrInv
  BY Zenon
<1>1. past = <<>> /\ lfsr = initial /\ lfsr \in Word \ {{}} /\ mask \in Word
  BY LfsrAssumption, Zenon DEF LfsrInit, RandomIndex
<1>2. Len(past) = 0 /\ past \in Seq(Word \ {{}}) /\ Registers = <<lfsr>>
  BY <1>1 DEF Registers
<1> QED BY <1>1, <1>2 DEF LfsrInv

\* A draw keeps the chain: the register that next() stores is new.
LEMMA DrawKeepsLfsr == LfsrInv /\ [Draw]_lfsrVars => LfsrInv'
<1>1. ASSUME LfsrInv, Draw PROVE LfsrInv'
  <2> DEFINE n == Len(past)
  <2>1. /\ lfsr' \in Word \ {{}}
        /\ past' \in Seq(Word \ {{}})
        /\ past' = Registers
        /\ Len(past') = n + 1
        /\ n \in Nat
    BY <1>1, StepNotZero DEF LfsrInv, Draw, Registers
  <2>2. /\ \A i \in 1 .. n + 1 : Registers'[i] = Registers[i] /\ Registers[i] \in Word
        /\ Registers'[n + 2] = lfsr'
        /\ Registers[n + 1] = lfsr
    BY <1>1, <2>1 DEF LfsrInv, Registers
  <2>3. mask' \in Word /\ Registers'[1] = initial'
    BY <1>1, <2>1, <2>2 DEF LfsrInv, Draw
  <2>4. \A i \in 1 .. n + 1 : Registers'[i + 1] = Step(Registers'[i])
    <3> TAKE i \in 1 .. n + 1
    <3>1. CASE i = n + 1
      BY <3>1, <1>1, <2>1, <2>2 DEF Draw
    <3>2. CASE i \in 1 .. n
      BY <3>2, <1>1, <2>1, <2>2 DEF LfsrInv
    <3> QED BY <3>1, <3>2, <2>1
  <2>5. \A i \in 1 .. n + 1 : Registers[i] # lfsr'
    <3> SUFFICES ASSUME NEW i \in 1 .. n + 1, Registers[i] = lfsr' PROVE FALSE
      BY Zenon
    <3>1. lfsr' = Step(lfsr) /\ lfsr \in Word
      BY <1>1, Zenon DEF Draw, LfsrInv
    <3>2. CASE i = 1
      BY <3>1, <3>2, <1>1, Zenon DEF LfsrInv, Draw, Exhausted
    <3>3. CASE i # 1
      <4>1. i - 1 \in 1 .. n /\ (i - 1) + 1 = i
        BY <3>3, <2>1
      <4>2. Registers[i] = Step(Registers[i - 1]) /\ Registers[i - 1] \in Word
        BY <4>1, <1>1, <2>1, <2>2 DEF LfsrInv
      <4>3. Registers[i - 1] = Registers[n + 1]
        BY <4>2, <3>1, <2>2, StepInjective, Zenon
      <4> QED BY <4>1, <4>3, <1>1, <2>1 DEF LfsrInv
    <3> QED BY <3>2, <3>3, Zenon
  <2>6. \A i, j \in 1 .. n + 2 : i # j => Registers'[i] # Registers'[j]
    <3> SUFFICES ASSUME NEW i \in 1 .. n + 2, NEW j \in 1 .. n + 2, i # j
                 PROVE  Registers'[i] # Registers'[j]
      BY Zenon
    <3>1. CASE i = n + 2
      <4>1. j \in 1 .. n + 1
        BY <3>1, <2>1
      <4> QED BY <4>1, <3>1, <2>2, <2>5, Zenon
    <3>2. CASE j = n + 2
      <4>1. i \in 1 .. n + 1
        BY <3>2, <2>1
      <4> QED BY <4>1, <3>2, <2>2, <2>5, Zenon
    <3>3. CASE i # n + 2 /\ j # n + 2
      <4>1. i \in 1 .. n + 1 /\ j \in 1 .. n + 1
        BY <3>3, <2>1
      <4>2. Registers[i] # Registers[j]
        BY <4>1, <1>1, Zenon DEF LfsrInv
      <4> QED BY <4>1, <4>2, <2>2, Zenon
    <3> QED BY <3>1, <3>2, <3>3, Zenon
  <2>7. \A i \in 1 .. Len(past') : Registers'[i + 1] = Step(Registers'[i])
    BY <2>1, <2>4, Zenon
  <2>8. \A i, j \in 1 .. Len(past') + 1 : i # j => Registers'[i] # Registers'[j]
    BY <2>1, <2>6
  <2> QED BY <2>1, <2>3, <2>7, <2>8, Zenon DEF LfsrInv
<1>2. ASSUME LfsrInv, UNCHANGED lfsrVars PROVE LfsrInv'
  BY <1>2, Zenon DEF LfsrInv, Registers, lfsrVars
<1> QED BY <1>1, <1>2, Zenon

\* In the chain no index appears twice.
LEMMA ChainIndices == LfsrInv => IndicesUnique
<1> SUFFICES ASSUME LfsrInv, NEW i \in DOMAIN past, NEW j \in DOMAIN past, i # j
             PROVE  Index(past[i]) # Index(past[j])
  BY Zenon DEF IndicesUnique
<1>1. i \in 1 .. Len(past) /\ j \in 1 .. Len(past)
  BY DEF LfsrInv
<1>2. past[i] = Registers[i] /\ past[j] = Registers[j]
  BY <1>1 DEF LfsrInv, Registers
<1>3. past[i] # past[j] /\ past[i] \in Word \ {{}} /\ past[j] \in Word \ {{}}
  BY <1>1, <1>2 DEF LfsrInv
<1> QED BY <1>3, IndexInjective, Zenon

\* The index that is drawn next was not drawn before, and is a word.
LEMMA FreshIndex ==
    ASSUME LfsrInv
    PROVE  /\ Index(lfsr) \in Word
           /\ \A j \in 1 .. Len(past) : Index(past[j]) # Index(lfsr)
<1>1. lfsr \in Word \ {{}} /\ mask \in Word /\ past \in Seq(Word \ {{}}) /\ Len(past) \in Nat
  BY DEF LfsrInv
<1>2. Decrement(lfsr) \in Word
  <2>1. PICK low \in lfsr : Decrement(lfsr) = (lfsr \ {low}) \cup 0 .. low - 1
    BY <1>1, DecrementBits, Zenon DEF Decrement
  <2>2. low \in 0 .. Width - 1
    BY <1>1, Zenon DEF Word
  <2>3. 0 .. low - 1 \subseteq 0 .. Width - 1
    BY <2>2, LfsrAssumption
  <2> QED BY <1>1, <2>1, <2>3, Zenon DEF Word
<1>3. Index(lfsr) \in Word
  BY <1>1, <1>2, Zenon DEF Index, Xor, Word
<1>4. ASSUME NEW j \in 1 .. Len(past)
      PROVE  Index(past[j]) # Index(lfsr)
  <2>1. Registers[j] = past[j] /\ Registers[Len(past) + 1] = lfsr
    BY <1>1 DEF Registers
  <2>2. past[j] # lfsr /\ past[j] \in Word \ {{}}
    BY <1>1, <2>1 DEF LfsrInv
  <2> QED BY <1>1, <2>2, IndexInjective, Zenon
<1> QED BY <1>3, <1>4, Zenon

\* The chain of registers never repeats a value and never holds zero.
THEOREM LfsrInvariant == LfsrSpec => []LfsrInv
<1> QED BY InitLfsr, DrawKeepsLfsr, PTL DEF LfsrSpec

\* next() may subtract one from the register: it is never zero.
THEOREM RegisterIsNeverZero == LfsrSpec => []NeverZero
<1>1. LfsrInv => NeverZero
  BY Zenon DEF LfsrInv, NeverZero
<1> QED BY <1>1, LfsrInvariant, PTL

\* No index is given to two peers of a device, whatever the width and the
\* polynomial, because the generator stops before its first repetition.
THEOREM IndicesAreUnique == LfsrSpec => []IndicesUnique
BY ChainIndices, LfsrInvariant, PTL

-----------------------------------------------------------------------------
(* Records and tables *)

\* A function on 1 .. n is a sequence of length n.
LEMMA MapIsSeq ==
    ASSUME NEW S, NEW n \in Nat, NEW f \in [1 .. n -> S]
    PROVE  f \in Seq(S) /\ Len(f) = n /\ DOMAIN f = 1 .. n
OBVIOUS

\* What the fields of a peer are after its connection changed.
LEMMA PeerConn ==
    ASSUME NEW r \in PeerRecord, NEW c \in Nat \cup {None}
    PROVE  LET n == [r EXCEPT !.conn = c]
           IN  /\ n \in PeerRecord /\ n.conn = c /\ n.addr = r.addr
               /\ n.index = r.index /\ n.allowed_ips = r.allowed_ips
               /\ n.key = r.key /\ n.limiter = r.limiter
               /\ n.should_reset_rr = r.should_reset_rr
BY Zenon DEF PeerRecord

\* The same after its address changed.
LEMMA PeerAddr ==
    ASSUME NEW r \in PeerRecord, NEW a \in Endpoints \cup {None}
    PROVE  LET n == [r EXCEPT !.addr = a]
           IN  /\ n \in PeerRecord /\ n.addr = a
               /\ n.conn = r.conn /\ n.index = r.index /\ n.allowed_ips = r.allowed_ips
               /\ n.key = r.key /\ n.limiter = r.limiter /\ n.should_reset_rr = r.should_reset_rr
BY Zenon DEF PeerRecord

\* The same after its key changed.
LEMMA PeerKey ==
    ASSUME NEW r \in PeerRecord, NEW k \in Keys
    PROVE  LET n == [r EXCEPT !.key = k]
           IN  /\ n \in PeerRecord /\ n.key = k
               /\ n.conn = r.conn /\ n.addr = r.addr /\ n.index = r.index
               /\ n.allowed_ips = r.allowed_ips /\ n.limiter = r.limiter /\ n.should_reset_rr = r.should_reset_rr
BY Zenon DEF PeerRecord

\* The same after its limiter changed.
LEMMA PeerLimiter ==
    ASSUME NEW r \in PeerRecord, NEW l \in Limiters
    PROVE  LET n == [r EXCEPT !.limiter = l]
           IN  /\ n \in PeerRecord /\ n.limiter = l
               /\ n.conn = r.conn /\ n.addr = r.addr /\ n.index = r.index
               /\ n.allowed_ips = r.allowed_ips /\ n.key = r.key /\ n.should_reset_rr = r.should_reset_rr
BY Zenon DEF PeerRecord

\* The same after it was told who resets the count of its limiter.
LEMMA PeerReset ==
    ASSUME NEW r \in PeerRecord, NEW b \in BOOLEAN
    PROVE  LET n == [r EXCEPT !.should_reset_rr = b]
           IN  /\ n \in PeerRecord /\ n.should_reset_rr = b
               /\ n.conn = r.conn /\ n.addr = r.addr /\ n.index = r.index
               /\ n.allowed_ips = r.allowed_ips /\ n.key = r.key /\ n.limiter = r.limiter
BY Zenon DEF PeerRecord

\* What shutting a socket down leaves alone.
LEMMA SocketShut ==
    ASSUME NEW r \in SocketRecord
    PROVE  LET n == [r EXCEPT !.shut = TRUE]
           IN  /\ n \in SocketRecord /\ n.shut = TRUE /\ n.kind = r.kind /\ n.port = r.port
               /\ n.addr = r.addr /\ n.mark = r.mark /\ n.peer = r.peer
<1>1. PICK b \in BOOLEAN : b = TRUE
  BY Zenon
<1>2. PICK n : n = [r EXCEPT !.shut = b]
  BY Zenon
<1>3. /\ n \in SocketRecord /\ n.shut = b /\ n.kind = r.kind /\ n.port = r.port
      /\ n.addr = r.addr /\ n.mark = r.mark /\ n.peer = r.peer
  BY <1>2, Zenon DEF SocketRecord
<1> QED BY <1>1, <1>2, <1>3, Zenon

\* What marking a socket leaves alone.
LEMMA SocketMarked ==
    ASSUME NEW r \in SocketRecord, NEW m \in Marks
    PROVE  LET n == [r EXCEPT !.mark = m]
           IN  /\ n \in SocketRecord /\ n.shut = r.shut /\ n.kind = r.kind /\ n.port = r.port
               /\ n.addr = r.addr /\ n.mark = m /\ n.peer = r.peer
BY Zenon DEF SocketRecord

\* The peers of the device are among the objects made so far.
LEMMA LiveAre ==
    ASSUME TypeOK
    PROVE  /\ Live \subseteq DOMAIN objects
           /\ None \notin Live
           /\ DOMAIN objects = 1 .. Len(objects) /\ Len(objects) \in Nat
           /\ DOMAIN sockets = 1 .. Len(sockets) /\ Len(sockets) \in Nat
           /\ None \notin DOMAIN objects /\ None \notin DOMAIN sockets
<1>1. objects \in Seq(PeerRecord) /\ sockets \in Seq(SocketRecord)
  BY Zenon DEF TypeOK
<1>2. /\ DOMAIN objects = 1 .. Len(objects) /\ Len(objects) \in Nat
      /\ DOMAIN sockets = 1 .. Len(sockets) /\ Len(sockets) \in Nat
  BY <1>1
<1>3. None \notin DOMAIN objects /\ None \notin DOMAIN sockets
  BY <1>2, DeviceAssumption
<1>4. Live \subseteq DOMAIN objects /\ None \notin Live
  BY Zenon DEF TypeOK, Live
<1> QED BY <1>2, <1>3, <1>4, Zenon

\* Peer::shutdown_endpoint of some peers changes nothing but their connections
\* and whether those sockets are shut down.
LEMMA ShutEffect ==
    ASSUME TypeOK, NEW os \in SUBSET DOMAIN objects
    PROVE  /\ Disconnected(objects, os) \in Seq(PeerRecord)
           /\ Len(Disconnected(objects, os)) = Len(objects)
           /\ DOMAIN Disconnected(objects, os) = DOMAIN objects
           /\ \A o \in DOMAIN objects :
                 LET n == Disconnected(objects, os)[o]
                 IN  /\ n.index = objects[o].index /\ n.allowed_ips = objects[o].allowed_ips
                     /\ n.key = objects[o].key /\ n.limiter = objects[o].limiter
                     /\ n.should_reset_rr = objects[o].should_reset_rr
                     /\ n.addr = objects[o].addr
                     /\ o \in os => n.conn = None
                     /\ o \notin os => n.conn = objects[o].conn
           /\ ShutConns(os) \in Seq(SocketRecord)
           /\ Len(ShutConns(os)) = Len(sockets)
           /\ DOMAIN ShutConns(os) = DOMAIN sockets
           /\ \A s \in DOMAIN sockets :
                 LET n == ShutConns(os)[s]
                 IN  /\ n.kind = sockets[s].kind /\ n.port = sockets[s].port
                     /\ n.addr = sockets[s].addr /\ n.mark = sockets[s].mark
                     /\ n.peer = sockets[s].peer
                     /\ (\E o \in os : objects[o].conn = s) => n.shut
                     /\ (~\E o \in os : objects[o].conn = s) => n = sockets[s]
<1> DEFINE O == Disconnected(objects, os)
           S == ShutConns(os)
           conns == {objects[o].conn : o \in os}
<1>1. /\ objects \in Seq(PeerRecord) /\ sockets \in Seq(SocketRecord)
      /\ DOMAIN objects = 1 .. Len(objects) /\ Len(objects) \in Nat
      /\ DOMAIN sockets = 1 .. Len(sockets) /\ Len(sockets) \in Nat
  BY LiveAre, Zenon DEF TypeOK
<1>2. ASSUME NEW o \in DOMAIN objects
      PROVE  /\ O[o] \in PeerRecord
             /\ LET n == O[o]
                IN  /\ n.index = objects[o].index /\ n.allowed_ips = objects[o].allowed_ips
                    /\ n.key = objects[o].key /\ n.limiter = objects[o].limiter
                    /\ n.should_reset_rr = objects[o].should_reset_rr
                    /\ n.addr = objects[o].addr
                    /\ o \in os => n.conn = None
                    /\ o \notin os => n.conn = objects[o].conn
  <2>1. objects[o] \in PeerRecord
    BY <1>1
  <2>2. O[o] = IF o \in os THEN [objects[o] EXCEPT !.conn = None] ELSE objects[o]
    BY Zenon DEF Disconnected
  <2> QED BY <2>1, <2>2, PeerConn
<1>3. O = [o \in 1 .. Len(objects) |-> O[o]]
  BY <1>1, Zenon DEF Disconnected
<1>4. O \in [1 .. Len(objects) -> PeerRecord]
  <2> HIDE DEF O
  <2> QED BY <1>1, <1>2, <1>3, Zenon
<1>5. ASSUME NEW s \in DOMAIN sockets
      PROVE  /\ S[s] \in SocketRecord
             /\ LET n == S[s]
                IN  /\ n.kind = sockets[s].kind /\ n.port = sockets[s].port
                    /\ n.addr = sockets[s].addr /\ n.mark = sockets[s].mark
                    /\ n.peer = sockets[s].peer
                    /\ s \in conns => n.shut
                    /\ s \notin conns => n = sockets[s]
  <2>1. sockets[s] \in SocketRecord
    BY <1>1
  <2>2. S[s] = IF s \in conns THEN [sockets[s] EXCEPT !.shut = TRUE] ELSE sockets[s]
    BY Zenon DEF ShutConns
  <2> HIDE DEF S, conns
  <2> QED BY <2>1, <2>2, SocketShut, Zenon
<1>6. S = [s \in 1 .. Len(sockets) |-> S[s]]
  BY <1>1, Zenon DEF ShutConns
<1>7. S \in [1 .. Len(sockets) -> SocketRecord]
  <2> HIDE DEF S
  <2> QED BY <1>1, <1>5, <1>6, Zenon
<1>8. O \in Seq(PeerRecord) /\ Len(O) = Len(objects) /\ DOMAIN O = DOMAIN objects
  <2> HIDE DEF O
  <2> QED BY <1>1, <1>4, MapIsSeq, Zenon
<1>9. S \in Seq(SocketRecord) /\ Len(S) = Len(sockets) /\ DOMAIN S = DOMAIN sockets
  <2> HIDE DEF S
  <2> QED BY <1>1, <1>7, MapIsSeq, Zenon
<1>10. \A s : s \in conns <=> \E o \in os : objects[o].conn = s
  BY Zenon
<1> HIDE DEF O, S, conns
<1> QED BY <1>2, <1>5, <1>8, <1>9, <1>10, Zenon DEF O, S

-----------------------------------------------------------------------------
(* What most steps leave as it was *)

\* The tables agree after a step that changes no table, and no index and no
\* allowed_ips of a peer.
LEMMA TablesKept ==
    ASSUME TypeOK, IndicesAre, RoutesAre, TablesAgree, UNCHANGED tables,
           DOMAIN objects' = DOMAIN objects, Len(objects') = Len(objects),
           \A o \in DOMAIN objects : /\ objects'[o].index = objects[o].index
                                     /\ objects'[o].allowed_ips = objects[o].allowed_ips
    PROVE  /\ IndicesAre' /\ RoutesAre' /\ TablesAgree' /\ Live' = Live
           /\ peers' \in [PeerKeys -> (DOMAIN objects') \cup {None}]
<1>1. /\ peers' = peers /\ peers_by_idx' = peers_by_idx /\ peers_by_ip' = peers_by_ip
      /\ initial' = initial /\ lfsr' = lfsr /\ mask' = mask /\ past' = past
  BY Zenon DEF tables, lfsrVars
<1>2. Live' = Live
  BY <1>1, Zenon DEF Live
<1>3. Live \subseteq DOMAIN objects
  BY LiveAre, Zenon
<1>4. IndicesAre'
  <2>1. LfsrInv'
    BY <1>1, Zenon DEF IndicesAre, LfsrInv, Registers
  <2>2. \A o \in DOMAIN objects' : objects'[o].index = Index(past[o])'
    BY <1>1, Zenon DEF IndicesAre, Index
  <2> QED BY <1>1, <2>1, <2>2, Zenon DEF IndicesAre
<1>5. RoutesAre'
  <2>1. ASSUME NEW net \in DOMAIN peers_by_ip
        PROVE  net \in DOMAIN objects'[peers_by_ip[net]].allowed_ips
    <3>1. peers_by_ip[net] \in DOMAIN objects
      BY <1>3, Zenon DEF RoutesAre, IsTable
    <3> QED BY <3>1, Zenon DEF RoutesAre
  <2> QED BY <1>1, <1>2, <2>1, Zenon DEF RoutesAre, IsTable
<1>6. TablesAgree'
  <2>1. ASSUME NEW i \in DOMAIN peers_by_idx
        PROVE  objects'[peers_by_idx[i]].index = i
    <3>1. peers_by_idx[i] \in DOMAIN objects
      BY <1>3, Zenon DEF RoutesAre, IsTable
    <3> QED BY <3>1, Zenon DEF TablesAgree
  <2> QED BY <1>1, <1>2, <2>1, Zenon DEF TablesAgree
<1>7. peers' \in [PeerKeys -> (DOMAIN objects') \cup {None}]
  BY <1>1, Zenon DEF TypeOK
<1> QED BY <1>2, <1>4, <1>5, <1>6, <1>7, Zenon

\* The keys agree after a step that adds no peer and gives no key to anyone.
LEMMA KeysKept ==
    ASSUME KeysAgree, Live' \subseteq Live, UNCHANGED <<key_pair, rate_limiter>>,
           \A o \in Live : /\ objects'[o].key = objects[o].key
                           /\ objects'[o].limiter = objects[o].limiter
                           /\ objects'[o].should_reset_rr = objects[o].should_reset_rr
    PROVE  KeysAgree'
BY Zenon DEF KeysAgree

\* The connections match after a step that changes no connection and no socket.
LEMMA ConnsKept ==
    ASSUME TypeOK, ConnsAre, ConnMatches, Live' \subseteq Live,
           UNCHANGED <<objects, sockets, events, listen_port, fwmark, udp4, privileged>>
    PROVE  ConnsAre' /\ ConnMatches'
<1>1. ConnsAre'
  BY Zenon DEF ConnsAre
<1>2. ConnMatches'
  BY Zenon DEF ConnMatches
<1> QED BY <1>1, <1>2, Zenon

\* The connections match after some peers were disconnected.
LEMMA ShutKeepsConns ==
    ASSUME TypeOK, ConnsAre, ConnMatches, Live' \subseteq Live,
           NEW os \in SUBSET Live, ShutdownEndpoints(os),
           UNCHANGED <<events, listen_port, fwmark, udp4, privileged>>
    PROVE  ConnsAre' /\ ConnMatches'
<1>0. os \in SUBSET DOMAIN objects
  BY LiveAre, Zenon
<1>1. /\ Live \subseteq DOMAIN objects /\ DOMAIN objects' = DOMAIN objects
      /\ DOMAIN sockets' = DOMAIN sockets
  BY <1>0, LiveAre, ShutEffect, Zenon DEF ShutdownEndpoints
<1>2. ASSUME NEW o \in DOMAIN objects
      PROVE  /\ objects'[o].addr = objects[o].addr
             /\ o \in os => objects'[o].conn = None
             /\ o \notin os => objects'[o].conn = objects[o].conn
  BY <1>0, ShutEffect, Zenon DEF ShutdownEndpoints
<1>3. ASSUME NEW s \in DOMAIN sockets
      PROVE  /\ sockets'[s].kind = sockets[s].kind /\ sockets'[s].port = sockets[s].port
             /\ sockets'[s].addr = sockets[s].addr /\ sockets'[s].mark = sockets[s].mark
             /\ sockets'[s].peer = sockets[s].peer
             /\ (\E o \in os : objects[o].conn = s) => sockets'[s].shut
             /\ (~\E o \in os : objects[o].conn = s) => sockets'[s] = sockets[s]
  BY <1>0, ShutEffect, Zenon DEF ShutdownEndpoints
<1>4. ConnsAre'
  <2>1. ASSUME NEW o \in Live', objects'[o].conn # None
        PROVE  /\ objects'[o].conn \in DOMAIN sockets'
               /\ sockets'[objects'[o].conn].kind = "conn" /\ sockets'[objects'[o].conn].peer = o
    <3>1. o \in Live /\ objects'[o].conn = objects[o].conn
      BY <1>1, <1>2, <2>1, Zenon
    <3> QED BY <1>1, <1>3, <2>1, <3>1 DEF ConnsAre
  <2>2. \A s \in DOMAIN sockets' : sockets'[s].kind = "conn" => sockets'[s].peer \in DOMAIN objects'
    BY <1>1, <1>3, Zenon DEF ConnsAre
  <2>3. udp4' # None => sockets'[udp4'].kind = "listen"
    BY <1>3, Zenon DEF ConnsAre, TypeOK
  <2> QED BY <2>1, <2>2, <2>3, Zenon DEF ConnsAre
<1>5. ASSUME NEW o \in Live', objects'[o].conn # None
      PROVE  /\ <<objects'[o].conn, "own">> \in events'
             /\ ~sockets'[objects'[o].conn].shut
             /\ sockets'[objects'[o].conn].port = listen_port'
             /\ sockets'[objects'[o].conn].addr = objects'[o].addr
             /\ privileged' => sockets'[objects'[o].conn].mark = fwmark'
  <2>1. o \in Live /\ o \in DOMAIN objects /\ o \notin os /\ objects'[o].conn = objects[o].conn
    BY <1>1, <1>2, <1>5, Zenon
  <2>2. PICK s : s = objects[o].conn
    BY Zenon
  <2>3. s \in DOMAIN sockets /\ sockets[s].peer = o /\ sockets[s].kind = "conn"
    BY <1>5, <2>1, <2>2, Zenon DEF ConnsAre
  <2>4. ~sockets[s].shut /\ <<s, "own">> \in events
    BY <1>5, <2>1, <2>2, Zenon DEF ConnMatches
  <2>5. /\ sockets[s].port = listen_port /\ sockets[s].addr = objects[o].addr
        /\ privileged => sockets[s].mark = fwmark
    BY <1>5, <2>1, <2>2, Zenon DEF ConnMatches
  <2>6. ASSUME NEW p \in os
        PROVE  objects[p].conn # s
    <3>1. SUFFICES ASSUME objects[p].conn = s PROVE FALSE
      BY Zenon
    <3> QED BY <1>5, <2>1, <2>2, <2>3, <2>4, <3>1 DEF ConnsAre
  <2>7. sockets'[s] = sockets[s]
    BY <1>3, <2>3, <2>6, Zenon
  <2> QED BY <1>2, <2>1, <2>2, <2>4, <2>5, <2>7, Zenon
<1>6. ASSUME NEW fd \in events', sockets'[fd[1]].kind = "conn", ~sockets'[fd[1]].shut,
             sockets'[fd[1]].peer \in Live'
      PROVE  objects'[sockets'[fd[1]].peer].conn = fd[1]
  <2>1. fd[1] \in DOMAIN sockets
    BY Zenon DEF TypeOK
  <2>2. ~\E o \in os : objects[o].conn = fd[1]
    BY <1>3, <1>6, <2>1, Zenon
  <2>3. sockets'[fd[1]] = sockets[fd[1]]
    BY <1>3, <2>1, <2>2, Zenon
  <2>4. objects[sockets[fd[1]].peer].conn = fd[1]
    BY <1>6, <2>3, Zenon DEF ConnMatches
  <2> QED BY <1>1, <1>2, <1>6, <2>2, <2>3, <2>4, Zenon
<1>7. ConnMatches'
  BY <1>5, <1>6, Zenon DEF ConnMatches
<1> QED BY <1>4, <1>7, Zenon

Requests == {None, DeviceRequest} \cup SectionRecord

\* A step that changes only how far the request was read, or which event loops
\* run.
LEMMA QuietKeeps ==
    ASSUME DeviceInv, UNCHANGED <<config, tables, objects, sockets, events, privileged>>,
           request' \in Requests, threads' \in Nat
    PROVE  DeviceInv'
<1>1. /\ TypeOK /\ IndicesAre /\ RoutesAre /\ ConnsAre
      /\ TablesAgree /\ KeysAgree /\ ConnMatches
  BY Zenon DEF DeviceInv
<1>2. UNCHANGED <<key_pair, rate_limiter, fwmark, listen_port, udp4>>
  BY Zenon DEF config
<1>3. /\ IndicesAre' /\ RoutesAre' /\ TablesAgree' /\ Live' = Live
      /\ peers' \in [PeerKeys -> (DOMAIN objects') \cup {None}]
  BY <1>1, TablesKept, Zenon
<1>4. KeysAgree'
  BY <1>1, <1>2, <1>3, KeysKept, Zenon
<1>5. ConnsAre' /\ ConnMatches'
  BY <1>1, <1>2, <1>3, ConnsKept, Zenon
<1>6. TypeOK'
  BY <1>1, <1>2, <1>3, Zenon DEF TypeOK, Requests
<1> QED BY <1>3, <1>4, <1>5, <1>6, Zenon DEF DeviceInv

\* The lines of a request that change nothing but the request.
LEMMA RequestKeeps ==
    ASSUME DeviceInv,
           \/ SetRequest \/ RequestEnds \/ PeerSetting
           \/ \E k \in PeerKeys : PublicKey(k)
    PROVE  DeviceInv'
<1>1. TypeOK
  BY Zenon DEF DeviceInv
<1>2. CASE SetRequest
  <2>1. request' \in Requests /\ threads' \in Nat
    BY <1>1, <1>2, Zenon DEF SetRequest, Requests, TypeOK
  <2> QED BY <1>2, <2>1, QuietKeeps, Zenon DEF SetRequest
<1>3. CASE RequestEnds
  <2>1. request' \in Requests /\ threads' \in Nat
    BY <1>1, <1>3, Zenon DEF RequestEnds, Requests, TypeOK
  <2> QED BY <1>3, <2>1, QuietKeeps, Zenon DEF RequestEnds
<1>4. CASE PeerSetting
  <2>1. request \in SectionRecord
    BY <1>1, <1>4 DEF PeerSetting, InSection, Reading, TypeOK, DeviceRequest
  <2>2. ASSUME NEW b \in BOOLEAN
        PROVE  [request EXCEPT !.remove = b] \in SectionRecord
    BY <2>1, Zenon DEF SectionRecord
  <2>3. ASSUME NEW a \in Endpoints
        PROVE  [request EXCEPT !.endpoint = a] \in SectionRecord
    BY <2>1, Zenon DEF SectionRecord
  <2>4. ASSUME NEW ip \in IPs
        PROVE  [request EXCEPT !.allowed_ips = @ \cup {ip}] \in SectionRecord
    <3>1. request.allowed_ips \cup {ip} \in SUBSET IPs
      BY <2>1, Zenon DEF SectionRecord
    <3>2. [request EXCEPT !.allowed_ips = @ \cup {ip}]
          = [request EXCEPT !.allowed_ips = request.allowed_ips \cup {ip}]
      BY Zenon
    <3> QED BY <2>1, <3>1, <3>2, Zenon DEF SectionRecord
  <2>5. request' \in SectionRecord
    BY <1>4, <2>2, <2>3, <2>4, Zenon DEF PeerSetting
  <2>6. request' \in Requests /\ threads' \in Nat
    BY <1>1, <1>4, <2>5, Zenon DEF PeerSetting, Requests, TypeOK
  <2> QED BY <1>4, <2>6, QuietKeeps, Zenon DEF PeerSetting
<1>5. ASSUME NEW k \in PeerKeys, PublicKey(k)
      PROVE  DeviceInv'
  <2>1. Section(k) \in SectionRecord
    BY Zenon DEF Section, SectionRecord
  <2>2. request' \in Requests /\ threads' \in Nat
    BY <1>1, <1>5, <2>1, Zenon DEF PublicKey, Requests, TypeOK
  <2> QED BY <1>5, <2>2, QuietKeeps, Zenon DEF PublicKey
<1> QED BY <1>2, <1>3, <1>4, <1>5, Zenon

\* The steps in which event loops end.
LEMMA PanicKeeps ==
    ASSUME DeviceInv, Panic \/ DatagramBeforeKey \/ PacketUnconnected
    PROVE  DeviceInv'
<1>1. TypeOK
  BY Zenon DEF DeviceInv
<1>2. CASE Panic
  <2>1. request' \in Requests /\ threads' \in Nat
    BY <1>1, <1>2, Zenon DEF Panic, Requests, TypeOK
  <2> QED BY <1>2, <2>1, QuietKeeps, Zenon DEF Panic
<1>3. CASE DatagramBeforeKey
  <2>1. request' \in Requests /\ threads' \in Nat
    BY <1>1, <1>3 DEF DatagramBeforeKey, Idle, Running, Requests, TypeOK
  <2> QED BY <1>3, <2>1, QuietKeeps, Zenon DEF DatagramBeforeKey
<1>4. CASE PacketUnconnected
  <2>1. request' \in Requests /\ threads' \in Nat
    BY <1>1, <1>4 DEF PacketUnconnected, Idle, Running, Requests, TypeOK
  <2> QED BY <1>4, <2>1, QuietKeeps, Zenon DEF PacketUnconnected
<1> QED BY <1>2, <1>3, <1>4, Zenon

\* The endpoint of a peer expires.
LEMMA ExpireKeeps ==
    ASSUME DeviceInv, NEW o \in Live, Expire(o)
    PROVE  DeviceInv'
<1>1. /\ TypeOK /\ IndicesAre /\ RoutesAre /\ ConnsAre
      /\ TablesAgree /\ KeysAgree /\ ConnMatches
  BY Zenon DEF DeviceInv
<1>2. /\ ShutdownEndpoints({o})
      /\ UNCHANGED <<key_pair, rate_limiter, fwmark, listen_port, udp4, tables>>
      /\ UNCHANGED <<events, request, threads, privileged>>
  BY Zenon DEF Expire, config
<1>3. {o} \in SUBSET Live /\ {o} \in SUBSET DOMAIN objects /\ Live \subseteq DOMAIN objects
  BY <1>1, LiveAre, Zenon
<1>4. /\ objects' \in Seq(PeerRecord) /\ sockets' \in Seq(SocketRecord)
      /\ DOMAIN objects' = DOMAIN objects /\ Len(objects') = Len(objects)
      /\ DOMAIN sockets' = DOMAIN sockets
  BY <1>1, <1>2, <1>3, ShutEffect, Zenon DEF ShutdownEndpoints
<1>5. \A p \in DOMAIN objects :
         /\ objects'[p].index = objects[p].index /\ objects'[p].allowed_ips = objects[p].allowed_ips
         /\ objects'[p].key = objects[p].key /\ objects'[p].limiter = objects[p].limiter
         /\ objects'[p].should_reset_rr = objects[p].should_reset_rr
  BY <1>1, <1>2, <1>3, ShutEffect, Zenon DEF ShutdownEndpoints
<1>6. /\ IndicesAre' /\ RoutesAre' /\ TablesAgree' /\ Live' = Live
      /\ peers' \in [PeerKeys -> (DOMAIN objects') \cup {None}]
  BY <1>1, <1>2, <1>4, <1>5, TablesKept, Zenon
<1>7. KeysAgree'
  BY <1>1, <1>2, <1>3, <1>5, <1>6, KeysKept, Zenon
<1>8. ConnsAre' /\ ConnMatches'
  BY <1>1, <1>2, <1>3, <1>6, ShutKeepsConns, Zenon
<1>9. TypeOK'
  BY <1>1, <1>2, <1>4, <1>6, Zenon DEF TypeOK
<1> QED BY <1>6, <1>7, <1>8, <1>9, Zenon DEF DeviceInv

\* The event of a socket that was shut down is cancelled.
LEMMA EndOfFileKeeps ==
    ASSUME DeviceInv, NEW fd \in events, EndOfFile(fd)
    PROVE  DeviceInv'
<1>1. /\ TypeOK /\ IndicesAre /\ RoutesAre /\ ConnsAre
      /\ TablesAgree /\ KeysAgree /\ ConnMatches
  BY Zenon DEF DeviceInv
<1>2. /\ sockets[fd[1]].shut /\ events' = events \ {fd}
      /\ UNCHANGED <<key_pair, rate_limiter, fwmark, listen_port, udp4, tables>>
      /\ UNCHANGED <<objects, sockets, request, threads, privileged>>
  BY Zenon DEF EndOfFile, config, ClearEventByFd
<1>3. /\ IndicesAre' /\ RoutesAre' /\ TablesAgree' /\ Live' = Live
      /\ peers' \in [PeerKeys -> (DOMAIN objects') \cup {None}]
  BY <1>1, <1>2, TablesKept, Zenon
<1>4. KeysAgree'
  BY <1>1, <1>2, <1>3, KeysKept, Zenon
<1>5. ConnsAre'
  BY <1>1, <1>2, <1>3, Zenon DEF ConnsAre
<1>6. ConnMatches'
  <2>1. ASSUME NEW o \in Live, objects[o].conn # None
        PROVE  <<objects[o].conn, "own">> \in events'
    <3>1. <<objects[o].conn, "own">> \in events /\ ~sockets[objects[o].conn].shut
      BY <1>1, <2>1, Zenon DEF ConnMatches
    <3>2. <<objects[o].conn, "own">> # fd
      BY <1>2, <3>1
    <3> QED BY <1>2, <3>1, <3>2, Zenon
  <2>2. \A x \in events' : x \in events
    BY <1>2, Zenon
  <2> QED BY <1>1, <1>2, <1>3, <2>1, <2>2, Zenon DEF ConnMatches
<1>7. TypeOK'
  BY <1>1, <1>2, <1>3, Zenon DEF TypeOK
<1> QED BY <1>3, <1>4, <1>5, <1>6, <1>7, Zenon DEF DeviceInv

\* fwmark: all connections are marked, or none can be.
LEMMA FwmarkKeeps ==
    ASSUME DeviceInv, NEW m \in Marks, Fwmark(m)
    PROVE  DeviceInv'
<1>1. /\ TypeOK /\ IndicesAre /\ RoutesAre /\ ConnsAre
      /\ TablesAgree /\ KeysAgree /\ ConnMatches
  BY Zenon DEF DeviceInv
<1>2. /\ SetFwmark(m) /\ fwmark' = m
      /\ UNCHANGED <<key_pair, rate_limiter, listen_port, udp4, tables>>
      /\ UNCHANGED <<objects, events, threads, privileged>>
  BY Zenon DEF Fwmark, SetFwmark
<1>3. /\ IndicesAre' /\ RoutesAre' /\ TablesAgree' /\ Live' = Live
      /\ peers' \in [PeerKeys -> (DOMAIN objects') \cup {None}]
  BY <1>1, <1>2, TablesKept, Zenon
<1>4. KeysAgree'
  BY <1>1, <1>2, <1>3, KeysKept, Zenon
<1> DEFINE marked == Conns \cup ({udp4} \ {None})
<1>5. /\ sockets' \in Seq(SocketRecord) /\ DOMAIN sockets' = DOMAIN sockets
      /\ \A s \in DOMAIN sockets :
            /\ sockets'[s].shut = sockets[s].shut /\ sockets'[s].kind = sockets[s].kind
            /\ sockets'[s].port = sockets[s].port /\ sockets'[s].addr = sockets[s].addr
            /\ sockets'[s].peer = sockets[s].peer
            /\ privileged /\ s \in marked => sockets'[s].mark = m
  <2>1. CASE sockets' = sockets /\ ~privileged
    BY <1>1, <2>1, Zenon DEF TypeOK
  <2>2. CASE sockets' = [s \in DOMAIN sockets |->
                 IF s \in marked THEN [sockets[s] EXCEPT !.mark = m] ELSE sockets[s]]
    <3> HIDE DEF marked
    <3>1. /\ sockets \in Seq(SocketRecord) /\ DOMAIN sockets = 1 .. Len(sockets)
          /\ Len(sockets) \in Nat
      BY <1>1, LiveAre, Zenon DEF TypeOK
    <3>2. ASSUME NEW s \in DOMAIN sockets
          PROVE  /\ sockets'[s] \in SocketRecord
                 /\ sockets'[s].shut = sockets[s].shut /\ sockets'[s].kind = sockets[s].kind
                 /\ sockets'[s].port = sockets[s].port /\ sockets'[s].addr = sockets[s].addr
                 /\ sockets'[s].peer = sockets[s].peer
                 /\ s \in marked => sockets'[s].mark = m
      <4>1. sockets[s] \in SocketRecord
        BY <3>1
      <4>2. sockets'[s] = IF s \in marked THEN [sockets[s] EXCEPT !.mark = m] ELSE sockets[s]
        BY <2>2, Zenon
      <4> QED BY <4>1, <4>2, SocketMarked
    <3>3. sockets' \in [1 .. Len(sockets) -> SocketRecord]
      BY <2>2, <3>1, <3>2, Zenon
    <3>4. sockets' \in Seq(SocketRecord) /\ DOMAIN sockets' = DOMAIN sockets
      BY <3>1, <3>3, MapIsSeq, Zenon
    <3> QED BY <3>2, <3>4, Zenon
  <2> QED BY <1>2, <2>1, <2>2, Zenon DEF SetFwmark
<1>6. request' \in {None, DeviceRequest} \cup SectionRecord
  BY <1>1, <1>2, Zenon DEF SetFwmark, TypeOK
<1>7. \A o \in Live : objects[o].conn # None => objects[o].conn \in marked
  BY Zenon DEF Conns
<1> HIDE DEF marked
<1>8. ConnsAre'
  <2>1. ASSUME NEW o \in Live, objects[o].conn # None
        PROVE  /\ objects[o].conn \in DOMAIN sockets'
               /\ sockets'[objects[o].conn].kind = "conn" /\ sockets'[objects[o].conn].peer = o
    BY <1>1, <1>5, <2>1, Zenon DEF ConnsAre
  <2>2. \A s \in DOMAIN sockets' : sockets'[s].kind = "conn" => sockets'[s].peer \in DOMAIN objects'
    BY <1>1, <1>2, <1>5, Zenon DEF ConnsAre
  <2>3. udp4' # None => sockets'[udp4'].kind = "listen"
    BY <1>1, <1>2, <1>5, Zenon DEF ConnsAre, TypeOK
  <2> QED BY <1>2, <1>3, <2>1, <2>2, <2>3, Zenon DEF ConnsAre
<1>9. ConnMatches'
  <2>1. ASSUME NEW o \in Live, objects[o].conn # None
        PROVE  /\ <<objects[o].conn, "own">> \in events
               /\ ~sockets'[objects[o].conn].shut
               /\ sockets'[objects[o].conn].port = listen_port
               /\ sockets'[objects[o].conn].addr = objects[o].addr
               /\ privileged => sockets'[objects[o].conn].mark = m
    <3>1. objects[o].conn \in DOMAIN sockets
      BY <1>1, <2>1, Zenon DEF ConnsAre
    <3>2. /\ <<objects[o].conn, "own">> \in events /\ ~sockets[objects[o].conn].shut
          /\ sockets[objects[o].conn].port = listen_port
          /\ sockets[objects[o].conn].addr = objects[o].addr
      BY <1>1, <2>1, Zenon DEF ConnMatches
    <3> QED BY <1>5, <1>7, <2>1, <3>1, <3>2, Zenon
  <2>2. ASSUME NEW fd \in events, sockets'[fd[1]].kind = "conn", ~sockets'[fd[1]].shut,
               sockets'[fd[1]].peer \in Live
        PROVE  objects[sockets'[fd[1]].peer].conn = fd[1]
    <3>1. fd[1] \in DOMAIN sockets
      BY <1>1, Zenon DEF TypeOK
    <3>2. /\ sockets[fd[1]].kind = "conn" /\ ~sockets[fd[1]].shut
          /\ sockets[fd[1]].peer = sockets'[fd[1]].peer
      BY <1>5, <2>2, <3>1, Zenon
    <3> QED BY <1>1, <2>2, <3>2, Zenon DEF ConnMatches
  <2> QED BY <1>2, <1>3, <2>1, <2>2, Zenon DEF ConnMatches
<1>10. TypeOK'
  BY <1>1, <1>2, <1>3, <1>5, <1>6, Zenon DEF TypeOK
<1> QED BY <1>3, <1>4, <1>8, <1>9, <1>10, Zenon DEF DeviceInv

\* listen_port: every connection is closed, whether or not the port can be bound.
LEMMA ListenPortKeeps ==
    ASSUME DeviceInv, NEW port \in Ports, ListenPort(port)
    PROVE  DeviceInv'
<1>1. /\ TypeOK /\ IndicesAre /\ RoutesAre /\ ConnsAre
      /\ TablesAgree /\ KeysAgree /\ ConnMatches
  BY Zenon DEF DeviceInv
<1>2. /\ OpenListenSocket(port)
      /\ UNCHANGED <<key_pair, rate_limiter, fwmark, tables, threads, privileged>>
  BY Zenon DEF ListenPort
<1>3. /\ Live \in SUBSET DOMAIN objects /\ Len(sockets) \in Nat
      /\ DOMAIN sockets = 1 .. Len(sockets) /\ None \notin DOMAIN sockets
  BY <1>1, LiveAre, Zenon
<1>4. PICK S : S = ShutConns(Live)
  BY Zenon
<1>5. /\ S \in Seq(SocketRecord) /\ Len(S) = Len(sockets) /\ DOMAIN S = DOMAIN sockets
      /\ \A s \in DOMAIN sockets :
            /\ S[s].kind = sockets[s].kind /\ S[s].peer = sockets[s].peer
            /\ (\E o \in Live : objects[o].conn = s) => S[s].shut
            /\ (~\E o \in Live : objects[o].conn = s) => S[s] = sockets[s]
  BY <1>1, <1>3, <1>4, ShutEffect, Zenon
<1>6. objects' = Disconnected(objects, Live)
  BY <1>2, Zenon DEF OpenListenSocket, ShutdownEndpoints
<1>7. /\ objects' \in Seq(PeerRecord) /\ DOMAIN objects' = DOMAIN objects
      /\ Len(objects') = Len(objects)
      /\ \A p \in DOMAIN objects :
            /\ objects'[p].index = objects[p].index
            /\ objects'[p].allowed_ips = objects[p].allowed_ips
            /\ objects'[p].key = objects[p].key /\ objects'[p].limiter = objects[p].limiter
            /\ objects'[p].should_reset_rr = objects[p].should_reset_rr
            /\ p \in Live => objects'[p].conn = None
  BY <1>1, <1>3, <1>6, ShutEffect
<1>8. /\ IndicesAre' /\ RoutesAre' /\ TablesAgree' /\ Live' = Live
      /\ peers' \in [PeerKeys -> (DOMAIN objects') \cup {None}]
  BY <1>1, <1>2, <1>7, TablesKept, Zenon
<1>9. KeysAgree'
  BY <1>1, <1>2, <1>3, <1>7, <1>8, KeysKept, Zenon
<1>10. WithoutListener \subseteq events
  BY Zenon DEF WithoutListener, ClearEventByFd
<1>11. ASSUME NEW fd \in events, S[fd[1]].kind = "conn", S[fd[1]].peer \in Live
       PROVE  S[fd[1]].shut
  <2>1. SUFFICES ASSUME ~\E o \in Live : objects[o].conn = fd[1]
                 PROVE  S[fd[1]].shut
    BY <1>1, <1>5, Zenon DEF TypeOK
  <2>2. fd[1] \in DOMAIN sockets
    BY <1>1, Zenon DEF TypeOK
  <2>3. S[fd[1]] = sockets[fd[1]]
    BY <1>5, <2>1, <2>2, Zenon
  <2> QED BY <1>1, <1>11, <2>1, <2>3, Zenon DEF ConnMatches
<1>12. SUFFICES TypeOK' /\ ConnsAre' /\ ConnMatches'
  BY <1>8, <1>9, Zenon DEF DeviceInv
<1>13. CASE /\ sockets' = Append(ShutConns(Live), Listener(port))
            /\ udp4' = Len(sockets) + 1
            /\ events' = NewEvent(WithoutListener, <<udp4', "clone">>)
            /\ listen_port' = port
            /\ UNCHANGED request
  <2>1. PICK l : l = Listener(port)
    BY Zenon
  <2>2. l \in SocketRecord /\ l.kind = "listen"
    BY <2>1, Zenon DEF Listener, SocketRecord
  <2>3. sockets' = Append(S, l)
    BY <1>4, <1>13, <2>1, Zenon
  <2>4. /\ sockets' \in Seq(SocketRecord) /\ DOMAIN sockets' = 1 .. Len(sockets) + 1
        /\ \A s \in DOMAIN sockets : sockets'[s] = S[s]
        /\ sockets'[Len(sockets) + 1] = l
    BY <1>3, <1>5, <2>2, <2>3
  <2>5. \A fd \in events' : fd \in events \/ fd = <<udp4', "clone">>
    BY <1>10, <1>13, Zenon DEF NewEvent
  <2>6. events' \subseteq (DOMAIN sockets') \X {"own", "clone"}
    <3>1. udp4' \in DOMAIN sockets' /\ DOMAIN sockets \subseteq DOMAIN sockets'
      BY <1>3, <1>13, <2>4
    <3>2. events \subseteq (DOMAIN sockets) \X {"own", "clone"}
      BY <1>1, Zenon DEF TypeOK
    <3> QED BY <2>5, <3>1, <3>2, SMTT(30)
  <2>7. TypeOK'
    <3>1. udp4' \in (DOMAIN sockets') \cup {None} /\ sockets' \in Seq(SocketRecord)
      BY <1>3, <1>13, <2>4
    <3>2. listen_port' \in Ports /\ request' = request
      BY <1>13, Zenon
    <3> QED BY <1>1, <1>2, <1>7, <1>8, <2>6, <3>1, <3>2, Zenon DEF TypeOK
  <2>8. ConnsAre'
    <3>1. \A s \in DOMAIN sockets' : sockets'[s].kind = "conn" => sockets'[s].peer \in DOMAIN objects'
      BY <1>1, <1>3, <1>5, <1>7, <2>2, <2>4, SMTT(30) DEF ConnsAre
    <3>2. sockets'[udp4'].kind = "listen"
      BY <1>13, <2>2, <2>4, Zenon
    <3> QED BY <1>3, <1>7, <1>8, <3>1, <3>2, Zenon DEF ConnsAre
  <2>9. ASSUME NEW fd \in events', sockets'[fd[1]].kind = "conn", sockets'[fd[1]].peer \in Live
        PROVE  sockets'[fd[1]].shut
    <3>1. CASE fd = <<udp4', "clone">>
      BY <1>13, <2>2, <2>4, <2>9, <3>1, Zenon
    <3>2. CASE fd \in events
      <4>1. fd[1] \in DOMAIN sockets
        BY <1>1, <3>2, Zenon DEF TypeOK
      <4> QED BY <1>11, <2>4, <2>9, <3>2, <4>1, Zenon
    <3> QED BY <2>5, <3>1, <3>2, Zenon
  <2>10. ConnMatches'
    BY <1>3, <1>7, <1>8, <2>9, Zenon DEF ConnMatches
  <2> QED BY <2>7, <2>8, <2>10, Zenon
<1>14. CASE /\ ShutdownEndpoints(Live) /\ udp4' = None /\ events' = WithoutListener
            /\ request' = None /\ UNCHANGED listen_port
  <2>1. sockets' = S
    BY <1>4, <1>14, Zenon DEF ShutdownEndpoints
  <2>2. TypeOK'
    BY <1>1, <1>2, <1>5, <1>7, <1>8, <1>10, <1>14, <2>1, Zenon DEF TypeOK
  <2>3. ConnsAre'
    BY <1>1, <1>3, <1>5, <1>7, <1>8, <1>14, <2>1 DEF ConnsAre
  <2>4. ConnMatches'
    <3>1. \A fd \in events' : fd \in events
      BY <1>10, <1>14, Zenon
    <3> QED BY <1>3, <1>7, <1>8, <1>11, <2>1, <3>1, Zenon DEF ConnMatches
  <2> QED BY <2>2, <2>3, <2>4, Zenon
<1> QED BY <1>2, <1>13, <1>14, Zenon DEF OpenListenSocket

\* private_key: every peer of the device gets the key and the new limiter.
LEMMA PrivateKeyKeeps ==
    ASSUME DeviceInv, NEW k \in Keys, PrivateKey(k)
    PROVE  DeviceInv'
<1>1. /\ TypeOK /\ IndicesAre /\ RoutesAre /\ ConnsAre
      /\ TablesAgree /\ KeysAgree /\ ConnMatches
  BY Zenon DEF DeviceInv
<1>2. /\ SetKey(k)
      /\ UNCHANGED <<fwmark, listen_port, udp4, tables>>
      /\ UNCHANGED <<sockets, events, request, threads, privileged>>
  BY Zenon DEF PrivateKey
<1>3. CASE k = key_pair /\ UNCHANGED <<key_pair, rate_limiter, objects>>
  BY <1>1, <1>2, <1>3, QuietKeeps, Zenon DEF config, TypeOK, Requests
<1>4. CASE k # key_pair /\ ~UNCHANGED <<key_pair, rate_limiter, objects>>
  <2>1. /\ key_pair' = k /\ rate_limiter' = k
        /\ objects' = [o \in DOMAIN objects |->
              IF o \in Live
              THEN [objects[o] EXCEPT !.key = k, !.limiter = <<"device", k>>,
                                      !.should_reset_rr = FALSE]
              ELSE objects[o]]
    BY <1>2, <1>4, Zenon DEF SetKey
  <2>2. /\ objects \in Seq(PeerRecord) /\ DOMAIN objects = 1 .. Len(objects)
        /\ Len(objects) \in Nat /\ Live \subseteq DOMAIN objects
    BY <1>1, LiveAre, Zenon DEF TypeOK
  <2>3. ASSUME NEW o \in DOMAIN objects
        PROVE  /\ objects'[o] \in PeerRecord
               /\ objects'[o].conn = objects[o].conn /\ objects'[o].addr = objects[o].addr
               /\ objects'[o].index = objects[o].index
               /\ objects'[o].allowed_ips = objects[o].allowed_ips
               /\ o \in Live => objects'[o].key = k /\ objects'[o].limiter = <<"device", k>>
    <3>1. objects[o] \in PeerRecord
      BY <2>2
    <3>2. CASE o \in Live
      <4>1. objects'[o] = [objects[o] EXCEPT !.key = k, !.limiter = <<"device", k>>,
                                             !.should_reset_rr = FALSE]
        BY <2>1, <3>2, Zenon
      <4>2. PICK r : r = objects[o]
        BY Zenon
      <4>3. r \in PeerRecord
        BY <3>1, <4>2, Zenon
      <4>4. PICK l : l = <<"device", k>>
        BY Zenon
      <4>5. l \in Limiters
        BY <4>4, Zenon DEF Limiters
      <4>6. PICK b \in BOOLEAN : b = FALSE
        BY Zenon
      <4>7. objects'[o] = [r EXCEPT !.key = k, !.limiter = l, !.should_reset_rr = b]
        BY <4>1, <4>2, <4>4, <4>6, Zenon
      <4>8. PICK m : m = [r EXCEPT !.key = k]
        BY Zenon
      <4>9. PICK p : p = [m EXCEPT !.limiter = l]
        BY Zenon
      <4>10. PICK n : n = [p EXCEPT !.should_reset_rr = b]
        BY Zenon
      <4>11. [r EXCEPT !.key = k, !.limiter = l, !.should_reset_rr = b] = n
        BY <4>8, <4>9, <4>10, Zenon
      <4>12. objects'[o] = n
        BY <4>7, <4>11, Zenon
      <4>13. /\ n \in PeerRecord /\ n.conn = r.conn /\ n.addr = r.addr
             /\ n.index = r.index /\ n.allowed_ips = r.allowed_ips
             /\ n.key = k /\ n.limiter = l
        <5>1. /\ m \in PeerRecord /\ m.conn = r.conn /\ m.addr = r.addr
              /\ m.index = r.index /\ m.allowed_ips = r.allowed_ips /\ m.key = k
          BY <4>3, <4>8, PeerKey, Zenon
        <5>2. /\ p \in PeerRecord /\ p.conn = r.conn /\ p.addr = r.addr
              /\ p.index = r.index /\ p.allowed_ips = r.allowed_ips /\ p.key = k /\ p.limiter = l
          BY <4>5, <4>9, <5>1, PeerLimiter, Zenon
        <5> QED BY <4>6, <4>10, <5>2, PeerReset, Zenon
      <4> QED BY <4>2, <4>4, <4>12, <4>13, Zenon
    <3>3. CASE o \notin Live
      <4>1. objects'[o] = objects[o]
        BY <2>1, <3>3, Zenon
      <4> QED BY <3>1, <3>3, <4>1, Zenon
    <3> QED BY <3>2, <3>3, Zenon
  <2>4. DOMAIN objects' = 1 .. Len(objects) /\ objects' = [o \in 1 .. Len(objects) |-> objects'[o]]
    BY <2>1, <2>2, Zenon
  <2>5. objects' \in [1 .. Len(objects) -> PeerRecord]
    BY <2>2, <2>3, <2>4, Zenon
  <2>6. objects' \in Seq(PeerRecord) /\ Len(objects') = Len(objects) /\ DOMAIN objects' = DOMAIN objects
    BY <2>2, <2>5, MapIsSeq, Zenon
  <2>7. /\ IndicesAre' /\ RoutesAre' /\ TablesAgree' /\ Live' = Live
        /\ peers' \in [PeerKeys -> (DOMAIN objects') \cup {None}]
    BY <1>1, <1>2, <2>3, <2>6, TablesKept, Zenon
  <2>8. ASSUME NEW o \in Live
        PROVE  /\ objects'[o].key = key_pair' /\ objects'[o].limiter[2] = key_pair'
               /\ objects'[o].limiter = <<"device", rate_limiter'>>
    <3>1. objects'[o].key = k /\ objects'[o].limiter = <<"device", k>>
      BY <2>2, <2>3, Zenon
    <3>2. <<"device", k>>[2] = k
      BY Zenon
    <3> QED BY <2>1, <3>1, <3>2, Zenon
  <2>9. KeysAgree'
    BY <2>1, <2>7, <2>8, Zenon DEF KeysAgree
  <2>10. ConnsAre'
    BY <1>1, <1>2, <2>2, <2>3, <2>6, <2>7 DEF ConnsAre
  <2>11. ConnMatches'
    <3>1. \A o \in Live : objects'[o].conn = objects[o].conn /\ objects'[o].addr = objects[o].addr
      BY <2>2, <2>3, Zenon
    <3> QED BY <1>1, <1>2, <2>7, <3>1, ZenonT(30) DEF ConnMatches
  <2>12. TypeOK'
    <3>1. key_pair' \in Keys \cup {None}
      BY <2>1, Zenon
    <3> QED BY <1>1, <1>2, <2>6, <2>7, <3>1, Zenon DEF TypeOK
  <2> QED BY <2>7, <2>9, <2>10, <2>11, <2>12, Zenon DEF DeviceInv
<1> QED BY <1>2, <1>3, <1>4, Zenon DEF SetKey

-----------------------------------------------------------------------------
(* The steps that change the tables *)

\* The indices are those of the objects after a step that makes no object.
LEMMA IndicesKept ==
    ASSUME IndicesAre, UNCHANGED lfsrVars,
           DOMAIN objects' = DOMAIN objects, Len(objects') = Len(objects),
           \A o \in DOMAIN objects : objects'[o].index = objects[o].index
    PROVE  IndicesAre'
<1>1. initial' = initial /\ lfsr' = lfsr /\ mask' = mask /\ past' = past
  BY Zenon DEF lfsrVars
<1>2. LfsrInv'
  BY <1>1, Zenon DEF IndicesAre, LfsrInv, Registers
<1>3. \A o \in DOMAIN objects' : objects'[o].index = Index(past[o])'
  BY <1>1, Zenon DEF IndicesAre, Index
<1> QED BY <1>1, <1>2, <1>3, Zenon DEF IndicesAre

\* replace_peers: the tables are emptied.
LEMMA ReplacePeersKeeps ==
    ASSUME DeviceInv, ReplacePeers
    PROVE  DeviceInv'
<1>1. /\ TypeOK /\ IndicesAre /\ RoutesAre /\ ConnsAre
      /\ TablesAgree /\ KeysAgree /\ ConnMatches
  BY Zenon DEF DeviceInv
<1>2. /\ peers' = [k \in PeerKeys |-> None] /\ peers_by_idx' = <<>> /\ peers_by_ip' = <<>>
      /\ UNCHANGED <<key_pair, rate_limiter, fwmark, listen_port, udp4, lfsrVars>>
      /\ UNCHANGED <<objects, sockets, events, request, threads, privileged>>
  BY Zenon DEF ReplacePeers, config
<1>3. Live' = {}
  BY <1>2, Zenon DEF Live
<1>4. IndicesAre'
  BY <1>1, <1>2, IndicesKept, Zenon
<1>5. DOMAIN peers_by_idx' = {} /\ DOMAIN peers_by_ip' = {}
  BY <1>2
<1>6. RoutesAre'
  <2>1. IsTable(peers_by_idx', Word, {}) /\ IsTable(peers_by_ip', Networks, {})
    BY <1>2 DEF IsTable
  <2> QED BY <1>3, <1>5, <2>1, Zenon DEF RoutesAre
<1>7. TablesAgree'
  <2>1. Range(peers_by_idx') = {} /\ Range(peers_by_ip') = {}
    BY <1>5, Zenon DEF Range
  <2> QED BY <1>2, <1>3, <1>5, <2>1, Zenon DEF TablesAgree
<1>8. KeysAgree'
  BY <1>1, <1>2, <1>3, KeysKept, Zenon
<1>9. ConnsAre' /\ ConnMatches'
  BY <1>1, <1>2, <1>3, ConnsKept, Zenon
<1>10. TypeOK'
  BY <1>1, <1>2, Zenon DEF TypeOK
<1> QED BY <1>4, <1>6, <1>7, <1>8, <1>9, <1>10, Zenon DEF DeviceInv

\* remove_peer: the peer leaves all three tables and its endpoint is shut down.
LEMMA RemovePeerKeeps ==
    ASSUME DeviceInv, NEW k \in PeerKeys, RemovePeer(k), request' \in Requests,
           UNCHANGED <<config, events, threads, privileged>>
    PROVE  DeviceInv'
<1>1. /\ TypeOK /\ IndicesAre /\ RoutesAre /\ ConnsAre
      /\ TablesAgree /\ KeysAgree /\ ConnMatches
  BY Zenon DEF DeviceInv
<1>2. /\ peers' = [peers EXCEPT ![k] = None] /\ UNCHANGED lfsrVars
      /\ UNCHANGED <<key_pair, rate_limiter, fwmark, listen_port, udp4>>
  BY Zenon DEF RemovePeer, config
<1>3. threads' \in Nat /\ peers \in [PeerKeys -> (DOMAIN objects) \cup {None}]
  BY <1>1, Zenon DEF TypeOK
<1>4. CASE peers[k] = None
  <2>1. peers' = peers
    BY <1>2, <1>3, <1>4, Zenon
  <2> QED BY <1>2, <1>3, <1>4, <2>1, QuietKeeps, Zenon DEF RemovePeer, tables
<1>5. CASE peers[k] # None
  <2>1. PICK o : o = peers[k]
    BY Zenon
  <2>2. /\ ShutdownEndpoints({o})
        /\ peers_by_idx' = Restrict(peers_by_idx, DOMAIN peers_by_idx \ {objects[o].index})
        /\ peers_by_ip' = Remove(peers_by_ip, o)
    BY <1>5, <2>1, Zenon DEF RemovePeer
  <2>3. o \in Live /\ o # None
    BY <1>5, <2>1, Zenon DEF Live
  <2>4. {o} \in SUBSET Live /\ {o} \in SUBSET DOMAIN objects /\ Live \subseteq DOMAIN objects
    BY <1>1, <2>3, LiveAre, Zenon
  <2>5. /\ objects' \in Seq(PeerRecord) /\ sockets' \in Seq(SocketRecord)
        /\ DOMAIN objects' = DOMAIN objects /\ Len(objects') = Len(objects)
        /\ DOMAIN sockets' = DOMAIN sockets
    BY <1>1, <2>2, <2>4, ShutEffect, Zenon DEF ShutdownEndpoints
  <2>6. \A p \in DOMAIN objects :
           /\ objects'[p].index = objects[p].index
           /\ objects'[p].allowed_ips = objects[p].allowed_ips
           /\ objects'[p].key = objects[p].key /\ objects'[p].limiter = objects[p].limiter
           /\ objects'[p].should_reset_rr = objects[p].should_reset_rr
    BY <1>1, <2>2, <2>4, ShutEffect, Zenon DEF ShutdownEndpoints
  <2>7. \A j \in PeerKeys : peers'[j] = IF j = k THEN None ELSE peers[j]
    BY <1>2, <1>3, Zenon
  <2>8. Live' = Live \ {o}
    <3>1. ASSUME NEW j \in PeerKeys, j # k, peers[j] # None
          PROVE  peers[j] # o
      BY <1>1, <2>1, <3>1, Zenon DEF TablesAgree
    <3>2. \A p : p \in Live' <=> p # None /\ \E j \in PeerKeys : p = peers'[j]
      BY Zenon DEF Live
    <3>3. \A p : p \in Live <=> p # None /\ \E j \in PeerKeys : p = peers[j]
      BY Zenon DEF Live
    <3> QED BY <2>1, <2>3, <2>7, <3>1, <3>2, <3>3
  <2>9. IndicesAre'
    BY <1>1, <1>2, <2>5, <2>6, IndicesKept, Zenon
  <2>10. /\ DOMAIN peers_by_idx' = DOMAIN peers_by_idx \ {objects[o].index}
         /\ \A i \in DOMAIN peers_by_idx' : peers_by_idx'[i] = peers_by_idx[i]
    BY <2>2, Zenon DEF Restrict
  <2>11. /\ DOMAIN peers_by_ip' = {net \in DOMAIN peers_by_ip : peers_by_ip[net] # o}
         /\ \A net \in DOMAIN peers_by_ip' : peers_by_ip'[net] = peers_by_ip[net]
    BY <2>2, Zenon DEF Restrict, Remove
  <2>12. \A i \in DOMAIN peers_by_idx : peers_by_idx[i] = o => i = objects[o].index
    BY <1>1, Zenon DEF TablesAgree
  <2>13. \A i \in DOMAIN peers_by_idx' : peers_by_idx'[i] \in Live'
    <3>1. \A i \in DOMAIN peers_by_idx : peers_by_idx[i] \in Live
      BY <1>1, Zenon DEF RoutesAre, IsTable
    <3> QED BY <2>8, <2>10, <2>12, <3>1, Zenon
  <2>14. \A net \in DOMAIN peers_by_ip' : peers_by_ip'[net] \in Live'
    <3>1. \A net \in DOMAIN peers_by_ip : peers_by_ip[net] \in Live
      BY <1>1, Zenon DEF RoutesAre, IsTable
    <3> QED BY <2>8, <2>11, <3>1, Zenon
  <2>15. RoutesAre'
    <3>1. /\ DOMAIN peers_by_idx' \subseteq Word /\ DOMAIN peers_by_ip' \subseteq Networks
      BY <1>1, <2>10, <2>11, Zenon DEF RoutesAre, IsTable
    <3>2. /\ peers_by_idx' = [i \in DOMAIN peers_by_idx' |-> peers_by_idx'[i]]
          /\ peers_by_ip' = [net \in DOMAIN peers_by_ip' |-> peers_by_ip'[net]]
      BY <2>2, Zenon DEF Restrict, Remove
    <3>3. IsTable(peers_by_idx, Word, Live)' /\ IsTable(peers_by_ip, Networks, Live)'
      BY <2>13, <2>14, <3>1, <3>2, Zenon DEF IsTable
    <3>4. ASSUME NEW net \in DOMAIN peers_by_ip'
          PROVE  net \in DOMAIN objects'[peers_by_ip'[net]].allowed_ips
      <4>1. /\ net \in DOMAIN peers_by_ip /\ peers_by_ip'[net] = peers_by_ip[net]
            /\ peers_by_ip[net] \in DOMAIN objects
        BY <1>1, <2>4, <2>11, Zenon DEF RoutesAre, IsTable
      <4> QED BY <1>1, <2>6, <4>1, Zenon DEF RoutesAre
    <3> QED BY <3>3, <3>4, Zenon DEF RoutesAre
  <2>16. TablesAgree'
    <3>1. Range(peers_by_idx') = Live'
      <4>1. \A p \in Live : \E i \in DOMAIN peers_by_idx : p = peers_by_idx[i]
        BY <1>1, Zenon DEF TablesAgree, Range
      <4>2. ASSUME NEW p \in Live'
            PROVE  \E i \in DOMAIN peers_by_idx' : p = peers_by_idx'[i]
        <5>1. PICK i \in DOMAIN peers_by_idx : p = peers_by_idx[i]
          BY <2>8, <4>1, Zenon
        <5>2. PICK l \in DOMAIN peers_by_idx : o = peers_by_idx[l]
          BY <2>3, <4>1, Zenon
        <5>3. objects[p].index = i /\ objects[o].index = l
          BY <1>1, <5>1, <5>2, Zenon DEF TablesAgree
        <5>4. i # objects[o].index
          BY <2>8, <5>1, <5>2, <5>3, Zenon
        <5> QED BY <2>10, <5>1, <5>4, Zenon
      <4> QED BY <2>13, <4>2, Zenon DEF Range
    <3>2. \A i \in DOMAIN peers_by_idx' : objects'[peers_by_idx'[i]].index = i
      <4>1. \A i \in DOMAIN peers_by_idx' : peers_by_idx'[i] \in DOMAIN objects
        BY <2>4, <2>8, <2>13, Zenon
      <4> QED BY <1>1, <2>6, <2>10, <4>1 DEF TablesAgree
    <3>3. Range(peers_by_ip') \subseteq Live'
      BY <2>14, Zenon DEF Range
    <3>4. \A j, l \in PeerKeys : j # l /\ peers'[j] # None => peers'[j] # peers'[l]
      BY <1>1, <2>7, Zenon DEF TablesAgree
    <3> QED BY <3>1, <3>2, <3>3, <3>4, Zenon DEF TablesAgree
  <2>17. KeysAgree'
    BY <1>1, <1>2, <2>4, <2>6, <2>8, KeysKept, Zenon
  <2>18. ConnsAre' /\ ConnMatches'
    BY <1>1, <1>2, <2>2, <2>4, <2>8, ShutKeepsConns, Zenon
  <2>19. peers' \in [PeerKeys -> (DOMAIN objects') \cup {None}]
    BY <1>2, <1>3, <2>5, Zenon
  <2>20. TypeOK'
    BY <1>1, <1>2, <2>5, <2>19, Zenon DEF TypeOK, Requests
  <2> QED BY <2>9, <2>15, <2>16, <2>17, <2>18, <2>20, Zenon DEF DeviceInv
<1> QED BY <1>4, <1>5, Zenon

\* update_peer adds a peer: its index is new, its routes are its allowed_ips, and
\* it has the device's key.
LEMMA AddPeerKeeps ==
    ASSUME DeviceInv, InSection, NEW k \in PeerKeys, k = request.public_key, ~CannotAdd(k),
           AddPeer(k), request' \in Requests, UNCHANGED <<config, events, threads, privileged>>
    PROVE  DeviceInv'
<1>1. /\ TypeOK /\ IndicesAre /\ RoutesAre /\ ConnsAre
      /\ TablesAgree /\ KeysAgree /\ ConnMatches
  BY Zenon DEF DeviceInv
<1>2. PICK o, i : o = Len(objects) + 1 /\ i = Index(lfsr)
  BY Zenon
<1>3. PICK new : new = NewPeer
  BY Zenon
<1>4. PICK ips : ips = request.allowed_ips
  BY Zenon
<1>5. PICK nets : nets = {Network(ip) : ip \in ips}
  BY Zenon
<1>6. /\ Draw /\ objects' = Append(objects, new)
      /\ peers' = [peers EXCEPT ![k] = o]
      /\ peers_by_idx' = [j \in DOMAIN peers_by_idx \cup {i} |-> IF j = i THEN o ELSE peers_by_idx[j]]
      /\ peers_by_ip' = InsertAll(peers_by_ip, ips, o)
      /\ UNCHANGED <<key_pair, rate_limiter, fwmark, listen_port, udp4, sockets>>
  BY <1>2, <1>3, <1>4, Zenon DEF AddPeer, config
<1>7. peers[k] = None /\ key_pair \in Keys
  BY <1>1, Zenon DEF CannotAdd, TypeOK
<1>8. request \in SectionRecord
  BY <1>1 DEF InSection, Reading, TypeOK, DeviceRequest
<1>9. ips \subseteq IPs /\ nets \subseteq Networks
  BY <1>4, <1>5, <1>8, Zenon DEF SectionRecord, Networks
<1>10. /\ objects \in Seq(PeerRecord) /\ DOMAIN objects = 1 .. Len(objects) /\ Len(objects) \in Nat
       /\ Live \subseteq DOMAIN objects /\ None \notin Live
  BY <1>1, LiveAre, Zenon DEF TypeOK
<1>11. o \notin DOMAIN objects /\ o \in Nat /\ o # None
  BY <1>2, <1>10, DeviceAssumption
<1>12. LfsrInv /\ i \in Word /\ \A j \in 1 .. Len(past) : Index(past[j]) # i
  BY <1>1, <1>2, FreshIndex, Zenon DEF IndicesAre
<1>13. /\ new.index = i /\ new.key = key_pair /\ new.limiter = <<"peer", key_pair>>
       /\ new.should_reset_rr = TRUE /\ new.conn = None
       /\ new.allowed_ips = InsertAll(<<>>, ips, TRUE)
  BY <1>2, <1>3, <1>4, Zenon DEF NewPeer
<1>14. DOMAIN new.allowed_ips = nets /\ new.allowed_ips \in NetworkSets
  <2>1. new.allowed_ips = [net \in nets \cup DOMAIN <<>> |-> IF net \in nets THEN TRUE ELSE <<>>[net]]
    BY <1>5, <1>13, Zenon DEF InsertAll
  <2>2. nets \cup DOMAIN <<>> = nets
    OBVIOUS
  <2>3. DOMAIN new.allowed_ips = nets
    BY <2>1, <2>2, Zenon
  <2>4. new.allowed_ips = [net \in nets |-> TRUE]
    BY <2>1, <2>2, Zenon
  <2>5. new.allowed_ips \in [nets -> {TRUE}]
    BY <2>4, Zenon
  <2> QED BY <1>9, <2>3, <2>5, Zenon DEF NetworkSets
<1>15. new \in PeerRecord
  <2>1. <<"peer", key_pair>> \in Limiters
    BY <1>7, Zenon DEF Limiters
  <2>2. request.endpoint \in Endpoints \cup {None}
    BY <1>8, Zenon DEF SectionRecord
  <2>3. PICK l \in Limiters : l = <<"peer", key_pair>>
    BY <2>1, Zenon
  <2>4. PICK b \in BOOLEAN : b = TRUE
    BY Zenon
  <2>5. PICK t \in NetworkSets : t = new.allowed_ips
    BY <1>14, Zenon
  <2>6. new = [index |-> i, key |-> key_pair, limiter |-> l, should_reset_rr |-> b,
               addr |-> request.endpoint, conn |-> None, allowed_ips |-> t]
    BY <1>2, <1>3, <1>4, <1>13, <2>3, <2>4, <2>5, Zenon DEF NewPeer
  <2> QED BY <1>7, <1>12, <2>2, <2>6, Zenon DEF PeerRecord
<1>16. /\ objects' \in Seq(PeerRecord) /\ Len(objects') = o /\ DOMAIN objects' = 1 .. o
       /\ DOMAIN objects' = (DOMAIN objects) \cup {o}
       /\ objects'[o] = new /\ \A p \in DOMAIN objects : objects'[p] = objects[p]
  BY <1>2, <1>6, <1>10, <1>15
<1>17. \A j \in PeerKeys : peers'[j] = IF j = k THEN o ELSE peers[j]
  BY <1>1, <1>6, Zenon DEF TypeOK
<1>18. Live' = Live \cup {o}
  <2>1. \A p : p \in Live' <=> p # None /\ \E j \in PeerKeys : p = peers'[j]
    BY Zenon DEF Live
  <2>2. \A p : p \in Live <=> p # None /\ \E j \in PeerKeys : p = peers[j]
    BY Zenon DEF Live
  <2> QED BY <1>7, <1>11, <1>17, <2>1, <2>2
<1>19. IndicesAre'
  <2>1. LfsrInv'
    BY <1>6, <1>12, DrawKeepsLfsr, Zenon
  <2>2. past \in Seq(Word \ {{}}) /\ Len(past) = Len(objects)
    BY <1>1, <1>12, Zenon DEF LfsrInv, IndicesAre
  <2>3. past' = Append(past, lfsr) /\ mask' = mask
    BY <1>6, Zenon DEF Draw
  <2>4. lfsr \in Word \ {{}}
    BY <1>12, Zenon DEF LfsrInv
  <2>5. Len(past') = o /\ past'[o] = lfsr /\ \A p \in DOMAIN objects : past'[p] = past[p]
    BY <1>2, <1>10, <2>2, <2>3, <2>4
  <2>6. ASSUME NEW p \in DOMAIN objects'
        PROVE  objects'[p].index = Index(past[p])'
    <3>1. CASE p = o
      <4>1. Index(past[p])' = Index(lfsr)
        BY <2>3, <2>5, <3>1, Zenon DEF Index
      <4> QED BY <1>2, <1>13, <1>16, <3>1, <4>1, Zenon
    <3>2. CASE p \in DOMAIN objects
      <4>1. Index(past[p])' = Index(past[p])
        BY <2>3, <2>5, <3>2, Zenon DEF Index
      <4> QED BY <1>1, <1>16, <3>2, <4>1, Zenon DEF IndicesAre
    <3> QED BY <1>16, <3>1, <3>2, Zenon
  <2> QED BY <1>16, <2>1, <2>5, <2>6, Zenon DEF IndicesAre
<1>20. i \notin DOMAIN peers_by_idx
  <2> SUFFICES ASSUME i \in DOMAIN peers_by_idx PROVE FALSE
    BY Zenon
  <2>1. PICK p : p = peers_by_idx[i]
    BY Zenon
  <2>2. p \in DOMAIN objects /\ objects[p].index = i
    BY <1>1, <1>10, <2>1, Zenon DEF RoutesAre, IsTable, TablesAgree
  <2>3. objects[p].index = Index(past[p]) /\ p \in 1 .. Len(past)
    BY <1>1, <1>10, <2>2, Zenon DEF IndicesAre
  <2> QED BY <1>12, <2>2, <2>3, Zenon
<1>21. /\ DOMAIN peers_by_idx' = DOMAIN peers_by_idx \cup {i} /\ peers_by_idx'[i] = o
       /\ \A j \in DOMAIN peers_by_idx : peers_by_idx'[j] = peers_by_idx[j]
  BY <1>6, <1>20, Zenon
<1>22. peers_by_ip' = [net \in nets \cup DOMAIN peers_by_ip |-> IF net \in nets THEN o ELSE peers_by_ip[net]]
  BY <1>5, <1>6, Zenon DEF InsertAll
<1>23. /\ DOMAIN peers_by_ip' = nets \cup DOMAIN peers_by_ip
       /\ \A net \in nets : peers_by_ip'[net] = o
       /\ \A net \in (DOMAIN peers_by_ip) \ nets : peers_by_ip'[net] = peers_by_ip[net]
  BY <1>22, Zenon
<1>24. /\ \A j \in DOMAIN peers_by_idx : j \in Word /\ peers_by_idx[j] \in Live
       /\ \A net \in DOMAIN peers_by_ip : net \in Networks /\ peers_by_ip[net] \in Live
  BY <1>1, Zenon DEF RoutesAre, IsTable
<1>25. RoutesAre'
  <2>1. IsTable(peers_by_idx, Word, Live)'
    <3>1. peers_by_idx' = [j \in DOMAIN peers_by_idx' |-> peers_by_idx'[j]]
      BY <1>6, Zenon
    <3>2. \A j \in DOMAIN peers_by_idx' : j \in Word /\ peers_by_idx'[j] \in Live'
      BY <1>12, <1>18, <1>21, <1>24, Zenon
    <3> QED BY <3>1, <3>2, Zenon DEF IsTable
  <2>2. IsTable(peers_by_ip, Networks, Live)'
    <3>1. peers_by_ip' = [net \in DOMAIN peers_by_ip' |-> peers_by_ip'[net]]
      BY <1>22, Zenon
    <3>2. \A net \in DOMAIN peers_by_ip' : net \in Networks /\ peers_by_ip'[net] \in Live'
      BY <1>9, <1>18, <1>23, <1>24, Zenon
    <3> QED BY <3>1, <3>2, Zenon DEF IsTable
  <2>3. ASSUME NEW net \in DOMAIN peers_by_ip'
        PROVE  net \in DOMAIN objects'[peers_by_ip'[net]].allowed_ips
    <3>1. CASE net \in nets
      BY <1>14, <1>16, <1>23, <3>1, Zenon
    <3>2. CASE net \notin nets
      <4>1. net \in DOMAIN peers_by_ip /\ peers_by_ip'[net] = peers_by_ip[net]
        BY <1>23, <3>2, Zenon
      <4>2. peers_by_ip[net] \in DOMAIN objects
        BY <1>10, <1>24, <4>1, Zenon
      <4> QED BY <1>1, <1>16, <4>1, <4>2, Zenon DEF RoutesAre
    <3> QED BY <3>1, <3>2, Zenon
  <2> QED BY <2>1, <2>2, <2>3, Zenon DEF RoutesAre
<1>26. TablesAgree'
  <2>1. Range(peers_by_idx') = Live'
    <3>1. \A p : p \in Live <=> \E j \in DOMAIN peers_by_idx : p = peers_by_idx[j]
      BY <1>1, Zenon DEF TablesAgree, Range
    <3>2. \A p : p \in Live' <=> \E j \in DOMAIN peers_by_idx' : p = peers_by_idx'[j]
      BY <1>18, <1>21, <3>1, Zenon
    <3> QED BY <3>2, Zenon DEF Range
  <2>2. ASSUME NEW j \in DOMAIN peers_by_idx'
        PROVE  objects'[peers_by_idx'[j]].index = j
    <3>1. CASE j = i
      BY <1>13, <1>16, <1>21, <3>1, Zenon
    <3>2. CASE j # i
      <4>1. j \in DOMAIN peers_by_idx /\ peers_by_idx'[j] = peers_by_idx[j]
        BY <1>21, <3>2, Zenon
      <4>2. peers_by_idx[j] \in DOMAIN objects
        BY <1>10, <1>24, <4>1, Zenon
      <4> QED BY <1>1, <1>16, <4>1, <4>2, Zenon DEF TablesAgree
    <3> QED BY <3>1, <3>2, Zenon
  <2>3. Range(peers_by_ip') \subseteq Live'
    BY <1>18, <1>23, <1>24, Zenon DEF Range
  <2>4. ASSUME NEW j \in PeerKeys, NEW l \in PeerKeys, j # l, peers'[j] # None
        PROVE  peers'[j] # peers'[l]
    <3>1. \A q \in PeerKeys : peers[q] # o
      BY <1>1, <1>11, Zenon DEF TypeOK
    <3> QED BY <1>1, <1>17, <2>4, <3>1, Zenon DEF TablesAgree
  <2> QED BY <2>1, <2>2, <2>3, <2>4, Zenon DEF TablesAgree
<1>27. \A p \in Live : p # o /\ objects'[p] = objects[p]
  BY <1>10, <1>11, <1>16, Zenon
<1>28. KeysAgree'
  <2>1. <<"peer", key_pair>>[2] = key_pair
    BY Zenon
  <2>2. /\ objects'[o].key = key_pair /\ objects'[o].limiter[2] = key_pair
        /\ objects'[o].should_reset_rr
    BY <1>13, <1>16, <2>1, Zenon
  <2>3. \A p \in Live' : p \in Live \/ p = o
    BY <1>18, Zenon
  <2> QED BY <1>1, <1>6, <1>27, <2>2, <2>3, Zenon DEF KeysAgree
<1>29. ConnsAre'
  <2>1. objects'[o].conn = None
    BY <1>13, <1>16, Zenon
  <2> QED BY <1>1, <1>6, <1>16, <1>18, <1>27, <2>1, ZenonT(30) DEF ConnsAre
<1>30. ConnMatches'
  <2>1. objects'[o].conn = None
    BY <1>13, <1>16, Zenon
  <2>2. \A p \in Live' : p \in Live \/ p = o
    BY <1>18, Zenon
  <2>3. \A fd \in events : sockets[fd[1]].kind = "conn" => sockets[fd[1]].peer # o
    <3>1. \A fd \in events : fd[1] \in DOMAIN sockets
      BY <1>1, Zenon DEF TypeOK
    <3> QED BY <1>1, <1>11, <3>1, Zenon DEF ConnsAre
  <2>4. /\ events' = events /\ privileged' = privileged /\ fwmark' = fwmark
        /\ listen_port' = listen_port /\ sockets' = sockets
    BY <1>6, Zenon
  <2>5. ASSUME NEW p \in Live', objects'[p].conn # None
        PROVE  /\ <<objects'[p].conn, "own">> \in events'
               /\ ~sockets'[objects'[p].conn].shut
               /\ sockets'[objects'[p].conn].port = listen_port'
               /\ sockets'[objects'[p].conn].addr = objects'[p].addr
               /\ privileged' => sockets'[objects'[p].conn].mark = fwmark'
    <3>1. p \in Live /\ objects'[p] = objects[p]
      BY <1>27, <2>1, <2>2, <2>5, Zenon
    <3>2. objects[p].conn # None
      BY <2>5, <3>1, Zenon
    <3>3. /\ <<objects[p].conn, "own">> \in events /\ ~sockets[objects[p].conn].shut
          /\ sockets[objects[p].conn].port = listen_port
          /\ sockets[objects[p].conn].addr = objects[p].addr
          /\ privileged => sockets[objects[p].conn].mark = fwmark
      BY <1>1, <3>1, <3>2, Zenon DEF ConnMatches
    <3> QED BY <2>4, <3>1, <3>3
  <2>6. ASSUME NEW fd \in events', sockets'[fd[1]].kind = "conn", ~sockets'[fd[1]].shut,
               sockets'[fd[1]].peer \in Live'
        PROVE  objects'[sockets'[fd[1]].peer].conn = fd[1]
    <3>1. fd \in events /\ sockets' = sockets /\ sockets[fd[1]].peer \in Live
      BY <2>2, <2>3, <2>4, <2>6, Zenon
    <3> QED BY <1>1, <1>27, <2>6, <3>1, Zenon DEF ConnMatches
  <2> QED BY <2>5, <2>6, Zenon DEF ConnMatches
<1>31. TypeOK'
  <2>1. peers' \in [PeerKeys -> (DOMAIN objects') \cup {None}]
    BY <1>1, <1>6, <1>16, Zenon DEF TypeOK
  <2> QED BY <1>1, <1>6, <1>16, <2>1, Zenon DEF TypeOK, Requests
<1> QED BY <1>19, <1>25, <1>26, <1>28, <1>29, <1>30, <1>31, Zenon DEF DeviceInv

-----------------------------------------------------------------------------
(* A peer roams *)

\* The objects after peer o was given the address a and the connection d.
WithEndpoint(o, a, d) == [objects EXCEPT ![o].addr = a, ![o].conn = d]

\* What set_endpoint and a new connection change of the objects.
LEMMA EndpointSet ==
    ASSUME TypeOK, NEW o \in DOMAIN objects, NEW a \in Endpoints, NEW d \in Nat \cup {None},
           objects' = WithEndpoint(o, a, d)
    PROVE  /\ objects' \in Seq(PeerRecord)
           /\ DOMAIN objects' = DOMAIN objects /\ Len(objects') = Len(objects)
           /\ \A p \in DOMAIN objects : p # o => objects'[p] = objects[p]
           /\ objects'[o].addr = a /\ objects'[o].conn = d
           /\ objects'[o].index = objects[o].index
           /\ objects'[o].allowed_ips = objects[o].allowed_ips
           /\ objects'[o].key = objects[o].key /\ objects'[o].limiter = objects[o].limiter
           /\ objects'[o].should_reset_rr = objects[o].should_reset_rr
<1>1. /\ objects \in Seq(PeerRecord) /\ Len(objects) \in Nat /\ DOMAIN objects = 1 .. Len(objects)
  BY LiveAre, Zenon DEF TypeOK
<1>2. PICK r \in PeerRecord : r = objects[o]
  BY <1>1
<1>3. PICK m : m = [r EXCEPT !.addr = a]
  BY Zenon
<1>4. PICK n : n = [m EXCEPT !.conn = d]
  BY Zenon
<1>5. /\ m \in PeerRecord /\ m.addr = a /\ m.index = r.index /\ m.allowed_ips = r.allowed_ips
      /\ m.key = r.key /\ m.limiter = r.limiter /\ m.should_reset_rr = r.should_reset_rr
  BY <1>2, <1>3, PeerAddr
<1>6. /\ n \in PeerRecord /\ n.addr = a /\ n.conn = d
      /\ n.index = r.index /\ n.allowed_ips = r.allowed_ips
      /\ n.key = r.key /\ n.limiter = r.limiter /\ n.should_reset_rr = r.should_reset_rr
  BY <1>4, <1>5, PeerConn, Zenon
<1>7. objects' = [objects EXCEPT ![o] = n]
  <2>1. [objects EXCEPT ![o].addr = a] = [objects EXCEPT ![o] = m]
    BY <1>2, <1>3, Zenon
  <2>2. PICK f : f = [objects EXCEPT ![o] = m]
    BY Zenon
  <2>3. f[o] = m
    BY <2>2, Zenon
  <2>4. objects' = [f EXCEPT ![o].conn = d]
    BY <2>1, <2>2, Zenon DEF WithEndpoint
  <2>5. [f EXCEPT ![o].conn = d] = [f EXCEPT ![o] = n]
    BY <1>4, <2>3, Zenon
  <2>6. [f EXCEPT ![o] = n] = [objects EXCEPT ![o] = n]
    BY <2>2, Zenon
  <2> QED BY <2>4, <2>5, <2>6, Zenon
<1>8. PICK g : g = objects'
  BY Zenon
<1>9. g = [objects EXCEPT ![o] = n]
  BY <1>7, <1>8, Zenon
<1>10. /\ g \in [1 .. Len(objects) -> PeerRecord] /\ g[o] = n
       /\ \A p \in DOMAIN objects : p # o => g[p] = objects[p]
  BY <1>1, <1>6, <1>9
<1>11. g \in Seq(PeerRecord) /\ DOMAIN g = DOMAIN objects /\ Len(g) = Len(objects)
  BY <1>1, <1>10, MapIsSeq, Zenon
<1> QED BY <1>2, <1>6, <1>8, <1>10, <1>11, Zenon

\* A datagram makes a peer roam: its old connection is shut down if its address
\* changed, and a new one, on the device's port and with its mark, may be made.
LEMMA DatagramKeeps ==
    ASSUME DeviceInv, NEW o \in Live, NEW a \in Endpoints, Datagram(o, a)
    PROVE  DeviceInv'
<1>1. /\ TypeOK /\ IndicesAre /\ RoutesAre /\ ConnsAre
      /\ TablesAgree /\ KeysAgree /\ ConnMatches
  BY Zenon DEF DeviceInv
<1>2. /\ Roam(o, a) /\ UNCHANGED tables
      /\ key_pair' = key_pair /\ rate_limiter' = rate_limiter /\ fwmark' = fwmark
      /\ listen_port' = listen_port /\ udp4' = udp4
      /\ request' = request /\ threads' = threads /\ privileged' = privileged
  BY Zenon DEF Datagram, config
<1>3. /\ Live \subseteq DOMAIN objects /\ {o} \in SUBSET DOMAIN objects /\ o \in DOMAIN objects
      /\ DOMAIN objects = 1 .. Len(objects) /\ objects[o] \in PeerRecord
      /\ DOMAIN sockets = 1 .. Len(sockets) /\ Len(sockets) \in Nat
      /\ None \notin DOMAIN sockets /\ sockets \in Seq(SocketRecord)
  BY <1>1, LiveAre DEF TypeOK
<1>4. PICK S : S = IF objects[o].addr # a THEN ShutConns({o}) ELSE sockets
  BY Zenon
<1>5. PICK c : c = IF objects[o].addr # a THEN None ELSE objects[o].conn
  BY Zenon
<1>6. /\ c \in Nat \cup {None}
      /\ c # None => c = objects[o].conn /\ objects[o].addr = a /\ S = sockets
  BY <1>3, <1>4, <1>5, Zenon DEF PeerRecord
<1>7. /\ S \in Seq(SocketRecord) /\ Len(S) = Len(sockets) /\ DOMAIN S = DOMAIN sockets
      /\ \A s \in DOMAIN sockets :
            /\ S[s].kind = sockets[s].kind /\ S[s].peer = sockets[s].peer
            /\ c = None /\ objects[o].conn = s => S[s].shut
            /\ objects[o].conn # s => S[s] = sockets[s]
  <2>1. CASE objects[o].addr # a
    <3>1. S = ShutConns({o})
      BY <1>4, <2>1, Zenon
    <3>2. \A s : (\E p \in {o} : objects[p].conn = s) <=> objects[o].conn = s
      BY Zenon
    <3> QED BY <1>1, <1>3, <3>1, <3>2, ShutEffect
  <2>2. CASE objects[o].addr = a
    <3>1. S = sockets /\ c = objects[o].conn
      BY <1>4, <1>5, <2>2, Zenon
    <3> QED BY <1>3, <3>1, Zenon
  <2> QED BY <2>1, <2>2, ZenonT(30)
<1>8. PICK d \in Nat \cup {None} :
         /\ objects' = WithEndpoint(o, a, d)
         /\ \/ d = c /\ sockets' = S /\ events' = events
            \/ /\ c = None /\ d = Len(sockets) + 1
               /\ fwmark = None \/ privileged
               /\ sockets' = Append(S, Connection(o, a))
               /\ events' = events \cup {<<d, "own">>}
  <2>1. Len(sockets) + 1 \in Nat \cup {None}
    BY <1>3
  <2>2. \/ /\ objects' = [objects EXCEPT ![o].addr = a, ![o].conn = c]
           /\ sockets' = S /\ events' = events
        \/ /\ c = None
           /\ fwmark = None \/ privileged
           /\ objects' = [objects EXCEPT ![o].addr = a, ![o].conn = Len(sockets) + 1]
           /\ sockets' = Append(S, Connection(o, a))
           /\ events' = events \cup {<<Len(sockets) + 1, "own">>}
    BY <1>2, <1>4, <1>5, Zenon DEF Roam, NewEvent
  <2> QED BY <1>6, <2>1, <2>2, Zenon DEF WithEndpoint
<1>9. /\ objects' \in Seq(PeerRecord)
      /\ DOMAIN objects' = DOMAIN objects /\ Len(objects') = Len(objects)
      /\ \A p \in DOMAIN objects : p # o => objects'[p] = objects[p]
      /\ objects'[o].addr = a /\ objects'[o].conn = d
      /\ objects'[o].index = objects[o].index
      /\ objects'[o].allowed_ips = objects[o].allowed_ips
      /\ objects'[o].key = objects[o].key /\ objects'[o].limiter = objects[o].limiter
      /\ objects'[o].should_reset_rr = objects[o].should_reset_rr
  <2>1. objects' = WithEndpoint(o, a, d)
    BY <1>8, Zenon
  <2>2. TypeOK /\ o \in DOMAIN objects /\ a \in Endpoints /\ d \in Nat \cup {None}
    BY <1>1, <1>3, <1>8, Zenon
  <2> QED BY ONLY <2>1, <2>2, EndpointSet, Zenon
<1>10. /\ IndicesAre' /\ RoutesAre' /\ TablesAgree' /\ Live' = Live
       /\ peers' \in [PeerKeys -> (DOMAIN objects') \cup {None}]
  <2>1. \A p \in DOMAIN objects : /\ objects'[p].index = objects[p].index
                                  /\ objects'[p].allowed_ips = objects[p].allowed_ips
    BY <1>9, Zenon
  <2> QED BY <1>1, <1>2, <1>9, <2>1, TablesKept, Zenon
<1>11. KeysAgree'
  <2>1. \A p \in Live : /\ objects'[p].key = objects[p].key
                        /\ objects'[p].limiter = objects[p].limiter
                        /\ objects'[p].should_reset_rr = objects[p].should_reset_rr
    BY <1>3, <1>9, Zenon
  <2> QED BY <1>1, <1>2, <1>10, <2>1, KeysKept, Zenon
<1>12. \A p \in Live : p # o =>
          /\ objects'[p] = objects[p]
          /\ objects[p].conn # None => objects[p].conn # objects[o].conn
  BY <1>1, <1>3, <1>9 DEF ConnsAre
<1>13. SUFFICES TypeOK' /\ ConnsAre' /\ ConnMatches'
  BY <1>10, <1>11, Zenon DEF DeviceInv
<1> DEFINE Good(p, s, SS) ==
             /\ ~SS[s].shut /\ SS[s].port = listen_port
             /\ SS[s].addr = objects'[p].addr
             /\ privileged => SS[s].mark = fwmark
\* The connections that were there before, in S.
<1>14. ASSUME NEW p \in Live, objects'[p].conn # None, p # o \/ d = c
       PROVE  /\ objects'[p].conn \in DOMAIN sockets /\ Good(p, objects'[p].conn, S)
              /\ S[objects'[p].conn].kind = "conn" /\ S[objects'[p].conn].peer = p
              /\ <<objects'[p].conn, "own">> \in events
  <2>1. PICK s : s = objects[p].conn
    BY Zenon
  <2>2. objects'[p].conn = s /\ s # None /\ objects'[p].addr = objects[p].addr
    <3>1. CASE p = o
      BY <1>6, <1>9, <1>14, <2>1, <3>1, Zenon
    <3>2. CASE p # o
      BY <1>3, <1>9, <1>14, <2>1, <3>2, Zenon
    <3> QED BY <3>1, <3>2, Zenon
  <2>3. s \in DOMAIN sockets /\ sockets[s].kind = "conn" /\ sockets[s].peer = p
    BY <1>1, <2>1, <2>2, Zenon DEF ConnsAre
  <2>4. S[s] = sockets[s]
    <3>1. CASE p = o
      BY <1>6, <1>9, <1>14, <3>1, Zenon
    <3>2. CASE p # o
      BY <1>7, <1>12, <2>1, <2>2, <2>3, <3>2
    <3> QED BY <3>1, <3>2, Zenon
  <2>5. /\ <<s, "own">> \in events /\ ~sockets[s].shut /\ sockets[s].port = listen_port
        /\ sockets[s].addr = objects[p].addr
        /\ privileged => sockets[s].mark = fwmark
    BY <1>1, <2>1, <2>2, Zenon DEF ConnMatches
  <2> QED BY <2>2, <2>3, <2>4, <2>5, Zenon
\* The events that were there before.
<1>15. ASSUME NEW fd \in events, S[fd[1]].kind = "conn", ~S[fd[1]].shut, S[fd[1]].peer \in Live
       PROVE  /\ objects'[S[fd[1]].peer].conn = fd[1]
  <2>1. fd[1] \in DOMAIN sockets
    BY <1>1, Zenon DEF TypeOK
  <2>2. PICK p \in Live : p = S[fd[1]].peer
    BY <1>15, Zenon
  <2>3. sockets[fd[1]].kind = "conn" /\ sockets[fd[1]].peer = p /\ ~sockets[fd[1]].shut
    <3>1. CASE objects[o].conn # fd[1]
      BY <1>7, <1>15, <2>1, <2>2, <3>1, Zenon
    <3>2. CASE objects[o].conn = fd[1]
      BY <1>6, <1>7, <1>15, <2>1, <2>2, <3>2, Zenon
    <3> QED BY <3>1, <3>2, Zenon
  <2>4. objects[p].conn = fd[1]
    BY <1>1, <2>3, Zenon DEF ConnMatches
  <2>5. CASE p # o
    BY <1>3, <1>9, <2>2, <2>4, <2>5, Zenon
  <2>6. CASE p = o
    <3>1. c # None
      BY <1>7, <1>15, <2>1, <2>4, <2>6, Zenon
    <3>2. d = c
      BY <1>8, <3>1, Zenon
    <3> QED BY <1>6, <1>9, <2>2, <2>4, <2>6, <3>1, <3>2, Zenon
  <2> QED BY <2>5, <2>6, Zenon
<1>16. CASE d = c /\ sockets' = S /\ events' = events
  <2>1. TypeOK'
    BY <1>1, <1>2, <1>7, <1>9, <1>10, <1>16, Zenon DEF TypeOK
  <2>2. ConnsAre'
    <3>1. \A s \in DOMAIN sockets' : sockets'[s].kind = "conn" => sockets'[s].peer \in DOMAIN objects'
      BY <1>1, <1>7, <1>9, <1>16 DEF ConnsAre
    <3>2. udp4' # None => sockets'[udp4'].kind = "listen"
      BY <1>1, <1>2, <1>7, <1>16, Zenon DEF ConnsAre, TypeOK
    <3> QED BY <1>7, <1>10, <1>14, <1>16, <3>1, <3>2, ZenonT(30) DEF ConnsAre
  <2>3. ConnMatches'
    BY <1>2, <1>10, <1>14, <1>15, <1>16, Zenon DEF ConnMatches
  <2> QED BY <2>1, <2>2, <2>3, Zenon
<1>17. CASE /\ c = None /\ d = Len(sockets) + 1
            /\ fwmark = None \/ privileged
            /\ sockets' = Append(S, Connection(o, a))
            /\ events' = events \cup {<<d, "own">>}
  <2>1. PICK new : new = Connection(o, a)
    BY Zenon
  <2>2. /\ new.kind = "conn" /\ new.port = listen_port /\ new.addr = a /\ new.mark = fwmark
        /\ new.shut = FALSE /\ new.peer = o
    BY <2>1, Zenon DEF Connection
  <2>3. new \in SocketRecord
    <3>1. listen_port \in Ports /\ fwmark \in Marks \cup {None} /\ o \in Nat \cup {None}
      BY <1>1, <1>3 DEF TypeOK
    <3>2. PICK b \in BOOLEAN : b = FALSE
      BY Zenon
    <3>3. new = [kind |-> "conn", port |-> listen_port, addr |-> a, mark |-> fwmark,
                 shut |-> b, peer |-> o]
      BY <2>1, <3>2, Zenon DEF Connection
    <3> QED BY <3>1, <3>3, Zenon DEF SocketRecord
  <2>4. /\ sockets' \in Seq(SocketRecord) /\ DOMAIN sockets' = 1 .. Len(sockets) + 1
        /\ DOMAIN sockets' = (DOMAIN sockets) \cup {d} /\ d \notin DOMAIN sockets
        /\ sockets'[d] = new /\ \A s \in DOMAIN sockets : sockets'[s] = S[s]
    BY <1>3, <1>7, <1>17, <2>1, <2>3, SMTT(30)
  <2>5. \A fd \in events' : fd \in events \/ fd = <<d, "own">>
    BY <1>17, Zenon
  <2>6. \A fd \in events : fd[1] \in DOMAIN sockets
    BY <1>1, Zenon DEF TypeOK
  <2>7. TypeOK'
    <3>1. events' \subseteq (DOMAIN sockets') \X {"own", "clone"}
      <4>1. events \subseteq (DOMAIN sockets) \X {"own", "clone"}
        BY <1>1, Zenon DEF TypeOK
      <4>2. d \in DOMAIN sockets' /\ DOMAIN sockets \subseteq DOMAIN sockets'
        BY <2>4, Zenon
      <4> QED BY <2>5, <4>1, <4>2, SMTT(30)
    <3>2. udp4' \in (DOMAIN sockets') \cup {None}
      BY <1>1, <1>2, <2>4, Zenon DEF TypeOK
    <3> QED BY <1>1, <1>2, <1>9, <1>10, <2>4, <3>1, <3>2, ZenonT(30) DEF TypeOK
  <2>8. ConnsAre'
    <3>1. ASSUME NEW p \in Live, objects'[p].conn # None
          PROVE  /\ objects'[p].conn \in DOMAIN sockets'
                 /\ sockets'[objects'[p].conn].kind = "conn" /\ sockets'[objects'[p].conn].peer = p
      <4>1. CASE p = o
        BY <1>9, <2>2, <2>4, <4>1, Zenon
      <4>2. CASE p # o
        BY <1>14, <2>4, <3>1, <4>2, ZenonT(30)
      <4> QED BY <4>1, <4>2, Zenon
    <3>2. \A s \in DOMAIN sockets' : sockets'[s].kind = "conn" => sockets'[s].peer \in DOMAIN objects'
      BY <1>1, <1>3, <1>7, <1>9, <2>2, <2>4, SMTT(30) DEF ConnsAre
    <3>3. udp4' # None => sockets'[udp4'].kind = "listen"
      BY <1>1, <1>2, <1>7, <2>4, SMTT(30) DEF ConnsAre, TypeOK
    <3> QED BY <1>10, <3>1, <3>2, <3>3, Zenon DEF ConnsAre
  <2>9. ASSUME NEW p \in Live, objects'[p].conn # None
        PROVE  /\ <<objects'[p].conn, "own">> \in events'
               /\ Good(p, objects'[p].conn, sockets')
    <3>1. CASE p = o
      BY <1>9, <1>17, <2>2, <2>4, <3>1, Zenon
    <3>2. CASE p # o
      <4>1. /\ objects'[p].conn \in DOMAIN sockets /\ Good(p, objects'[p].conn, S)
            /\ <<objects'[p].conn, "own">> \in events
        BY <1>14, <2>9, <3>2, Zenon
      <4>2. sockets'[objects'[p].conn] = S[objects'[p].conn]
        BY <2>4, <4>1, Zenon
      <4>3. <<objects'[p].conn, "own">> \in events'
        BY <1>17, <4>1, Zenon
      <4> QED BY <4>1, <4>2, <4>3, Zenon
    <3> QED BY <3>1, <3>2, Zenon
  <2>10. ASSUME NEW fd \in events', sockets'[fd[1]].kind = "conn", ~sockets'[fd[1]].shut,
                sockets'[fd[1]].peer \in Live
         PROVE  objects'[sockets'[fd[1]].peer].conn = fd[1]
    <3>1. CASE fd = <<d, "own">>
      BY <1>9, <2>2, <2>4, <3>1, Zenon
    <3>2. CASE fd \in events
      <4>1. sockets'[fd[1]] = S[fd[1]]
        BY <2>4, <2>6, <3>2, Zenon
      <4> QED BY <1>15, <2>10, <3>2, <4>1, Zenon
    <3> QED BY <2>5, <3>1, <3>2, Zenon
  <2>11. ConnMatches'
    BY <1>2, <1>10, <2>9, <2>10, Zenon DEF ConnMatches
  <2> QED BY <2>7, <2>8, <2>11, Zenon
<1> QED BY <1>8, <1>16, <1>17, Zenon

-----------------------------------------------------------------------------
(* The theorems *)

\* Device::new and the first open_listen_socket.
LEMMA InitDevice == Init => DeviceInv
<1> SUFFICES ASSUME Init PROVE DeviceInv
  BY Zenon
<1>1. PICK l : l = Listener(listen_port)
  BY Zenon
<1>2. /\ key_pair = None /\ rate_limiter = None /\ fwmark = None /\ listen_port \in Ports
      /\ peers = [k \in PeerKeys |-> None] /\ peers_by_idx = <<>> /\ peers_by_ip = <<>>
      /\ LfsrInit /\ objects = <<>> /\ sockets = <<l>> /\ udp4 = 1 /\ events = {<<1, "clone">>}
      /\ request = None /\ threads = Threads /\ privileged \in BOOLEAN
  BY <1>1, Zenon DEF Init
<1>3. l \in SocketRecord /\ l.kind = "listen"
  BY <1>1, <1>2, Zenon DEF Listener, SocketRecord
<1>4. Live = {}
  BY <1>2, Zenon DEF Live
<1>5. /\ objects \in Seq(PeerRecord) /\ Len(objects) = 0 /\ DOMAIN objects = {}
      /\ sockets \in Seq(SocketRecord) /\ DOMAIN sockets = {1} /\ sockets[1] = l
  BY <1>2, <1>3, SMTT(30)
<1>6. TypeOK
  BY <1>2, <1>5, DeviceAssumption, SMTT(30) DEF TypeOK
<1>7. IndicesAre
  <2>1. LfsrInv /\ Len(past) = 0
    BY <1>2, InitLfsr, Zenon DEF LfsrInit
  <2> QED BY <1>5, <2>1, Zenon DEF IndicesAre
<1>8. DOMAIN peers_by_idx = {} /\ DOMAIN peers_by_ip = {}
  BY <1>2
<1>9. RoutesAre
  <2>1. IsTable(peers_by_idx, Word, {}) /\ IsTable(peers_by_ip, Networks, {})
    BY <1>2 DEF IsTable
  <2> QED BY <1>4, <1>8, <2>1, Zenon DEF RoutesAre
<1>10. TablesAgree
  <2>1. Range(peers_by_idx) = {} /\ Range(peers_by_ip) = {}
    BY <1>8, Zenon DEF Range
  <2> QED BY <1>2, <1>4, <1>8, <2>1, Zenon DEF TablesAgree
<1>11. KeysAgree
  BY <1>2, <1>4, Zenon DEF KeysAgree
<1>12. ConnsAre
  BY <1>2, <1>3, <1>4, <1>5, Zenon DEF ConnsAre
<1>13. ConnMatches
  <2>1. \A fd \in events : sockets[fd[1]].kind = "listen"
    BY <1>2, <1>3, <1>5
  <2>2. "listen" # "conn"
    BY Zenon
  <2> QED BY <1>4, <2>1, <2>2, Zenon DEF ConnMatches
<1> QED BY <1>6, <1>7, <1>9, <1>10, <1>11, <1>12, <1>13, Zenon DEF DeviceInv

\* A section of a request is committed, whichever line ends it.
LEMMA UpdatePeerKeeps ==
    ASSUME DeviceInv, InSection, NEW next \in Requests, UpdatePeer(next)
    PROVE  DeviceInv'
<1>1. request \in SectionRecord
  BY DEF DeviceInv, InSection, Reading, TypeOK, DeviceRequest
<1>2. PICK k \in PeerKeys : k = request.public_key
  BY <1>1, Zenon DEF SectionRecord
<1>3. CASE RemovePeer(k) /\ request' = next /\ UNCHANGED <<config, events, threads, privileged>>
  BY <1>3, RemovePeerKeeps, Zenon
<1>4. CASE /\ ~CannotAdd(k) /\ AddPeer(k) /\ request' = next
           /\ UNCHANGED <<config, events, threads, privileged>>
  BY <1>2, <1>4, AddPeerKeeps, Zenon
<1>5. CASE Panic
  BY <1>5, PanicKeeps, Zenon
<1> QED BY <1>2, <1>3, <1>4, <1>5, Zenon DEF UpdatePeer

\* Every step keeps the invariant.
LEMMA StepDevice == DeviceInv /\ [Next]_vars => DeviceInv'
<1> SUFFICES ASSUME DeviceInv, [Next]_vars PROVE DeviceInv'
  BY Zenon
<1>1. CASE SetRequest \/ RequestEnds \/ PeerSetting \/ \E k \in PeerKeys : PublicKey(k)
  BY <1>1, RequestKeeps, Zenon
<1>2. ASSUME NEW k \in Keys, PrivateKey(k) PROVE DeviceInv'
  BY <1>2, PrivateKeyKeeps, Zenon
<1>3. ASSUME NEW p \in Ports, ListenPort(p) PROVE DeviceInv'
  BY <1>3, ListenPortKeeps, Zenon
<1>4. ASSUME NEW m \in Marks, Fwmark(m) PROVE DeviceInv'
  BY <1>4, FwmarkKeeps, Zenon
<1>5. CASE ReplacePeers
  BY <1>5, ReplacePeersKeeps, Zenon
<1>6. ASSUME NEW k \in PeerKeys, NextSection(k) PROVE DeviceInv'
  <2>1. InSection /\ UpdatePeer([request EXCEPT !.public_key = k, !.allowed_ips = {}])
    BY <1>6, Zenon DEF NextSection
  <2>2. request \in SectionRecord
    BY <2>1 DEF DeviceInv, InSection, Reading, TypeOK, DeviceRequest
  <2>3. [request EXCEPT !.public_key = k, !.allowed_ips = {}] \in Requests
    <3>1. [request EXCEPT !.public_key = k, !.allowed_ips = {}] \in SectionRecord
      BY <2>2, Zenon DEF SectionRecord
    <3> QED BY <3>1, Zenon DEF Requests
  <2> QED BY <2>1, <2>3, UpdatePeerKeeps, Zenon
<1>7. CASE LastSectionEnds
  <2>1. None \in Requests
    BY Zenon DEF Requests
  <2> QED BY <1>7, <2>1, UpdatePeerKeeps, Zenon DEF LastSectionEnds
<1>8. ASSUME NEW o \in Live \cup Range(peers_by_idx), NEW a \in Endpoints, Datagram(o, a)
      PROVE  DeviceInv'
  <2>1. o \in Live
    BY Zenon DEF DeviceInv, TablesAgree
  <2> QED BY <1>8, <2>1, DatagramKeeps, Zenon
<1>9. CASE DatagramBeforeKey \/ PacketUnconnected
  BY <1>9, PanicKeeps, Zenon
<1>10. ASSUME NEW o \in Live, Expire(o) PROVE DeviceInv'
  BY <1>10, ExpireKeeps, Zenon
<1>11. ASSUME NEW fd \in events, EndOfFile(fd) PROVE DeviceInv'
  BY <1>11, EndOfFileKeeps, Zenon
<1>12. CASE UNCHANGED vars
  <2>1. /\ UNCHANGED <<config, tables, objects, sockets, events, privileged>>
        /\ request' = request /\ threads' = threads
    BY <1>12, Zenon DEF vars
  <2>2. request' \in Requests /\ threads' \in Nat
    BY <2>1, Zenon DEF DeviceInv, TypeOK, Requests
  <2> QED BY <2>1, <2>2, QuietKeeps, Zenon
<1> QED
  BY <1>1, <1>2, <1>3, <1>4, <1>5, <1>6, <1>7, <1>8, <1>9, <1>10, <1>11, <1>12, Zenon DEF Next

\* The tables, keys, sockets and events of the device satisfy the inductive
\* invariant after any sequence of requests and events, for any sets of keys,
\* networks, endpoints and ports and any number of peers and sockets.
THEOREM DeviceInvariant == Spec => []DeviceInv
BY InitDevice, StepDevice, PTL DEF Spec

\* The tables of peers agree: remove_peer, update_peer and clear_peers each
\* change all three, and an index is never given out twice.
THEOREM TablesDoAgree == Spec => []TablesAgree
<1>1. DeviceInv => TablesAgree
  BY Zenon DEF DeviceInv
<1> QED BY <1>1, DeviceInvariant, PTL

\* The tunnels and the rate limiters of all peers use the device's key.
THEOREM KeysDoAgree == Spec => []KeysAgree
<1>1. DeviceInv => KeysAgree
  BY Zenon DEF DeviceInv
<1> QED BY <1>1, DeviceInvariant, PTL

\* A peer's connected socket is open, has a handler, and is on the device's port
\* and at the peer's address.
THEOREM ConnectionsMatch == Spec => []ConnMatches
<1>1. DeviceInv => ConnMatches
  BY Zenon DEF DeviceInv
<1> QED BY <1>1, DeviceInvariant, PTL

\* No two peers ever made by the device have the same index.
THEOREM PeersHaveOwnIndices == Spec => []IndicesUnique
<1>1. DeviceInv => IndicesUnique
  BY ChainIndices, Zenon DEF DeviceInv, IndicesAre
<1> QED BY <1>1, DeviceInvariant, PTL

\* A table of networks whose lengths are at most the width of an address has a
\* longest match for an address that matches.
LEMMA LongestMatch ==
    ASSUME NEW M, M # {}, \A net \in M : net[2] \in 0 .. AddrBits
    PROVE  \E net \in M : \A other \in M : other[2] <= net[2]
<1> DEFINE less == {ss \in Nat \X Nat : ss[1] < ss[2]}
           missing == {AddrBits - net[2] : net \in M}
<1>1. IsWellFoundedOn(less, Nat)
  BY NatLessThanWellFounded, Zenon DEF OpToRel
<1>2. \A j, k \in Nat : j < k => <<j, k>> \in less
  BY Zenon
<1>3. missing \subseteq Nat /\ missing # {}
  BY AddrBitsAssumption
<1>4. \A net \in M : AddrBits - net[2] \in missing
  BY Zenon
<1>5. \A j \in missing : \E net \in M : j = AddrBits - net[2]
  BY Zenon
<1> HIDE DEF less, missing
<1>6. PICK least \in missing : \A j \in missing : <<j, least>> \notin less
  BY <1>1, <1>3, WFMin, Zenon
<1>7. PICK net \in M : least = AddrBits - net[2]
  BY <1>5, Zenon
<1>8. ASSUME NEW other \in M
      PROVE  other[2] <= net[2]
  <2>1. AddrBits - other[2] \in Nat /\ least \in Nat /\ ~(AddrBits - other[2] < least)
    BY <1>2, <1>3, <1>4, <1>6, Zenon
  <2> QED BY <1>7, <2>1, AddrBitsAssumption
<1> QED BY <1>8, Zenon

\* The peer to which the packets for an address are sent is one from which
\* packets of that address are taken.
THEOREM RoutesAreAllowed == Spec => []RoutedIsAllowed
<1>1. DeviceInv => RoutedIsAllowed
  <2> SUFFICES ASSUME DeviceInv, NEW addr \in 0 .. 2^AddrBits - 1, Matching(peers_by_ip, addr) # {}
               PROVE  Matching(objects[Find(peers_by_ip, addr)].allowed_ips, addr) # {}
    BY Zenon DEF RoutedIsAllowed
  <2>1. PICK M : M = Matching(peers_by_ip, addr)
    BY Zenon
  <2>2. \A net \in Networks : net[2] \in 0 .. AddrBits
    BY DeviceAssumption DEF Networks, Network
  <2>3. /\ M # {} /\ M \subseteq DOMAIN peers_by_ip
        /\ \A net \in M : Truncate(addr, net[2]) = net[1]
    BY <2>1, Zenon DEF Matching
  <2>4. \A net \in M : net[2] \in 0 .. AddrBits
    BY <2>2, <2>3, Zenon DEF DeviceInv, RoutesAre, IsTable
  <2>5. PICK best : best = CHOOSE net \in M : \A other \in M : other[2] <= net[2]
    BY Zenon
  <2>6. best \in M
    BY <2>3, <2>4, <2>5, LongestMatch, Zenon
  <2>7. Find(peers_by_ip, addr) = peers_by_ip[best]
    BY <2>1, <2>5, Zenon DEF Find
  <2>8. best \in DOMAIN objects[Find(peers_by_ip, addr)].allowed_ips
    BY <2>3, <2>6, <2>7, Zenon DEF DeviceInv, RoutesAre
  <2> QED BY <2>3, <2>6, <2>8, Zenon DEF Matching
<1> QED BY <1>1, DeviceInvariant, PTL
=============================================================================
