---------------------------- MODULE IndexLfsr ----------------------------
(* The generator of peer indices, IndexLfsr of device/mod.rs: a shift         *)
(* register with feedback, which Device::next_index asks for the index of     *)
(* each new peer.  A word is the set of its bits that are one, so that        *)
(* exclusive or is symmetric difference.  The code's word has 24 bits and     *)
(* its polynomial is 0xd80000.                                                *)
EXTENDS Integers, Sequences

CONSTANTS
    Width,      \* bits of an index
    Poly,       \* LFSR_POLY
    Random      \* the words OsRng may produce

VARIABLES
    initial,    \* the seed
    lfsr,       \* the register
    mask,       \* what every value is masked with
    past        \* history: the values the register had at each draw

lfsrVars == <<initial, lfsr, mask, past>>

Word == SUBSET (0 .. Width - 1)

ASSUME LfsrAssumption ==
    /\ Width \in Nat \ {0}
    /\ Poly \in Word
    /\ Width - 1 \in Poly
    /\ Random \subseteq Word

Xor(v, w) == (v \ w) \cup (w \ v)

Shifted(w) == {i - 1 : i \in w \ {0}}

\* The register after one step: shifted, and the polynomial mixed in when the
\* bit shifted out was one.
Step(w) == Xor(Shifted(w), IF 0 \in w THEN Poly ELSE {})

\* w - 1, for w other than zero: the lowest one is cleared, the zeros below set.
Decrement(w) ==
    LET low == CHOOSE i \in w : \A j \in w : i <= j
    IN  (w \ {low}) \cup 0 .. low - 1

\* IndexLfsr::random_index draws again until the word is not zero.
RandomIndex == Random \ {{}}

LfsrInit ==
    /\ initial \in RandomIndex
    /\ lfsr = initial
    /\ mask \in RandomIndex
    /\ past = <<>>

\* The index that a draw returns when the register is w.
Index(w) == Xor(Decrement(w), mask)

\* The assertion "Too many peers created" fails.
Exhausted == Step(lfsr) = initial

\* a fault: the register is not stored
DrawStuck ==
    /\ ~Exhausted
    /\ past' = Append(past, lfsr)
    /\ UNCHANGED <<initial, lfsr, mask>>

\* IndexLfsr::next
Draw ==
    /\ ~Exhausted
    /\ lfsr' = Step(lfsr)
    /\ past' = Append(past, lfsr)
    /\ UNCHANGED <<initial, mask>>

LfsrSpec == LfsrInit /\ [][Draw]_lfsrVars

-----------------------------------------------------------------------------
\* The register never becomes zero, as next() takes for granted when it
\* subtracts one ("lfsr will never have value of 0").
NeverZero == lfsr # {}

\* No two peers of a device ever get the same index, also not after others were
\* removed: the assertion in next() stops the generator before its first
\* repetition, so that peers_by_idx leads a packet's receiver index to one peer.
IndicesUnique ==
    \A i, j \in DOMAIN past : i # j => Index(past[i]) # Index(past[j])

\* The values of the register so far, and its present one.
Registers == Append(past, lfsr)

\* The inductive invariant: the registers form a chain from the seed in which
\* no value is repeated and none is zero.
LfsrInv ==
    /\ lfsr \in Word \ {{}}
    /\ mask \in Word
    /\ past \in Seq(Word \ {{}})
    /\ Registers[1] = initial
    /\ \A i \in 1 .. Len(past) : Registers[i + 1] = Step(Registers[i])
    /\ \A i, j \in 1 .. Len(past) + 1 : i # j => Registers[i] # Registers[j]
=============================================================================
