----------------------------- MODULE ReplayClear -----------------------------
(***************************************************************************)
(* The part of mark_did_receive (boringtun/src/noise/session.rs) that      *)
(* forgets the counters skipped between next and counter, one loop         *)
(* iteration per step: single bits up to a word boundary, whole words,     *)
(* then the remaining single bits.  It runs under the validator's mutex,   *)
(* so nothing interleaves with it.                                         *)
(***************************************************************************)
EXTENDS ReplayWindow

VARIABLES
    first,     \* the validator's next on entry
    counter,   \* the counter being marked, ahead of next
    old,       \* the bitmap on entry
    bitmap,    \* the bitmap as it is being cleared
    i,         \* the loop variable
    pc         \* the loop that is running

vars == <<first, counter, old, bitmap, i, pc>>

Loops == {"align", "words", "rest", "done"}

ClearBit(b, idx) == b \ {idx % NBits}

\* every bit of the word that holds the bit of idx
ClearWord(b, idx) ==
    b \ { bit \in Bits : bit \div WordSize = (idx % NBits) \div WordSize }

\* (i + WORD_SIZE) & -WORD_SIZE: the start of the next word
NextWord(idx) == ((idx + WordSize) \div WordSize) * WordSize

Init ==
    /\ first \in 0 .. MaxCounter
    /\ counter \in first + 1 .. MaxCounter
    /\ old \in SUBSET { j % NBits : j \in 0 .. first - 1 }
    /\ first > 0 => CheckBit(old, first - 1)
    /\ IF counter - first >= NBits
       THEN bitmap = {} /\ pc = "done"
       ELSE bitmap = old /\ pc = "align"
    /\ i = first

\* a fault: whole words are cleared from an unaligned index
AlignLoopSkipped ==
    /\ pc = "align"
    /\ pc' = "words"
    /\ UNCHANGED <<first, counter, old, bitmap, i>>

AlignLoop ==
    /\ pc = "align"
    /\ IF i % WordSize # 0 /\ i < counter
       THEN /\ bitmap' = ClearBit(bitmap, i)
            /\ i' = i + 1
            /\ UNCHANGED pc
       ELSE /\ pc' = "words"
            /\ UNCHANGED <<bitmap, i>>
    /\ UNCHANGED <<first, counter, old>>

WordLoop ==
    /\ pc = "words"
    /\ IF i + WordSize < counter
       THEN /\ bitmap' = ClearWord(bitmap, i)
            /\ i' = NextWord(i)
            /\ UNCHANGED pc
       ELSE /\ pc' = "rest"
            /\ UNCHANGED <<bitmap, i>>
    /\ UNCHANGED <<first, counter, old>>

RestLoop ==
    /\ pc = "rest"
    /\ IF i < counter
       THEN /\ bitmap' = ClearBit(bitmap, i)
            /\ i' = i + 1
            /\ UNCHANGED pc
       ELSE /\ pc' = "done"
            /\ UNCHANGED <<bitmap, i>>
    /\ UNCHANGED <<first, counter, old>>

Next == AlignLoop \/ WordLoop \/ RestLoop

Spec == Init /\ [][Next]_vars

-----------------------------------------------------------------------------

\* The loop variable i of mark_did_receive stays between next and counter.
TypeOK ==
    /\ first \in Counters
    /\ counter \in Counters
    /\ old \in SUBSET Bits
    /\ bitmap \in SUBSET Bits
    /\ i \in first .. counter
    /\ pc \in Loops

(***************************************************************************)
(* When the three loops of mark_did_receive end, the bits they cleared are *)
(* exactly those of the skipped counters: whole-word clearing neither      *)
(* spills over the counter being marked, nor wipes a bit that still        *)
(* records an older packet of the window.                                  *)
(***************************************************************************)
ClearsExactlySkipped ==
    pc = "done" => bitmap = ClearSkipped(old, first, counter)

(***************************************************************************)
(* The loop invariant: so far the bits of first..i-1 are cleared, no other *)
(* bit is, and the word loop runs on word boundaries.                      *)
(***************************************************************************)
LoopInv ==
    /\ TypeOK
    /\ first < counter
    /\ counter - first >= NBits => pc = "done" /\ bitmap = {}
    /\ counter - first < NBits => bitmap = old \ { j % NBits : j \in first .. i - 1 }
    /\ pc = "words" => i % WordSize = 0 \/ i = counter
    /\ pc = "done" /\ counter - first < NBits => i = counter
=============================================================================
