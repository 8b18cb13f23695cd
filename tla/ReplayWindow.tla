---------------------------- MODULE ReplayWindow ----------------------------
(***************************************************************************)
(* The sliding window of boringtun/src/noise/session.rs that decides which *)
(* data-packet counters a session still accepts                            *)
(* (ReceivingKeyCounterValidator).                                         *)
(*                                                                         *)
(* A validator is a record: next is the highest counter seen plus one,     *)
(* bitmap the set of the bits that are 1 among the NBits bits of the       *)
(* [u64; N_WORDS] array, receive_cnt the number of packets accepted.       *)
(* The loops that clear the bits of the skipped counters are given here by *)
(* their effect; module ReplayClear has them iteration by iteration and    *)
(* ReplayClearProofs shows that they have this effect.                     *)
(***************************************************************************)
EXTENDS Integers

CONSTANTS
    WordSize,    \* bits in a word of the bitmap (WORD_SIZE, 64 in the code)
    NWords,      \* words in the bitmap (N_WORDS, 16 in the code)
    Modulus,     \* the arithmetic of u64 is modulo this (2^64 in the code)
    MaxCounter   \* the counters a peer uses on one session are 0..MaxCounter

NBits == WordSize * NWords

(***************************************************************************)
(* A session is replaced long before its 64-bit counter is exhausted, so   *)
(* the counters in use stay more than one window away from the wrap.       *)
(***************************************************************************)
ASSUME WindowAssumption ==
    /\ WordSize \in Nat \ {0}
    /\ NWords \in Nat \ {0}
    /\ Modulus \in Nat \ {0}
    /\ MaxCounter \in Nat
    /\ MaxCounter + WordSize * NWords + 1 < Modulus

Counters == 0 .. MaxCounter

Bits == 0 .. NBits - 1

\* u64 addition as a release build does it
Wrap(n) == n % Modulus

Validator == [next : 0 .. MaxCounter + 1, bitmap : SUBSET Bits, receive_cnt : Nat]

EmptyValidator == [next |-> 0, bitmap |-> {}, receive_cnt |-> 0]

-----------------------------------------------------------------------------

CheckBit(bitmap, idx) == (idx % NBits) \in bitmap

SetBit(bitmap, idx) == bitmap \cup {idx % NBits}

\* a fault: the oldest counter of the window counts as too far back
TooFarBackOffByOne(v, counter) == Wrap(counter + NBits) <= v.next

TooFarBack(v, counter) == Wrap(counter + NBits) < v.next

(***************************************************************************)
(* will_accept: "Ok", or the error it returns.                             *)
(***************************************************************************)
WillAccept(v, counter) ==
    IF counter >= v.next THEN "Ok"
    ELSE IF TooFarBack(v, counter) THEN "InvalidCounter"
    ELSE IF ~ CheckBit(v.bitmap, counter) THEN "Ok"
    ELSE "DuplicateCounter"

\* a fault: skipped counters keep the bits of the previous turn of the window
ClearSkippedForgotten(bitmap, next, counter) == bitmap

(***************************************************************************)
(* The bitmap once the counters from next up to (not including) counter    *)
(* have been skipped and are to be reported as not received.               *)
(***************************************************************************)
ClearSkipped(bitmap, next, counter) ==
    IF counter - next >= NBits
    THEN {}
    ELSE bitmap \ { i % NBits : i \in next .. counter - 1 }

\* a fault: the mark relies on the quick check and does not look at the bit again
MarkResultUnchecked(v, counter) ==
    IF TooFarBack(v, counter) THEN "InvalidCounter" ELSE "Ok"

(***************************************************************************)
(* mark_did_receive: its result, and the validator it leaves behind.       *)
(***************************************************************************)
MarkResult(v, counter) ==
    IF TooFarBack(v, counter) THEN "InvalidCounter"
    ELSE IF counter < v.next /\ CheckBit(v.bitmap, counter) THEN "InvalidCounter"
    ELSE "Ok"

MarkDidReceive(v, counter) ==
    IF MarkResult(v, counter) # "Ok" THEN v
    ELSE IF counter < v.next
    THEN [v EXCEPT !.bitmap = SetBit(v.bitmap, counter)]
    ELSE [v EXCEPT !.bitmap = SetBit(ClearSkipped(v.bitmap, v.next, counter), counter),
                   !.next   = Wrap(counter + 1)]

\* a fault: refused packets are counted as received
ReceivingCounterMarkAll(v, counter) ==
    [MarkDidReceive(v, counter) EXCEPT !.receive_cnt = @ + 1]

(***************************************************************************)
(* receiving_counter_mark: the locked section around mark_did_receive.     *)
(***************************************************************************)
ReceivingCounterMark(v, counter) ==
    IF MarkResult(v, counter) = "Ok"
    THEN [MarkDidReceive(v, counter) EXCEPT !.receive_cnt = @ + 1]
    ELSE v
=============================================================================
