----------------------------- MODULE Difficulty -----------------------------
(***************************************************************************)
(* The target of the proof of work.  A header's Bits is a number in compact *)
(* form: an exponent, a sign bit and a mantissa of the three leading digits *)
(* less that bit.  HashToBig reads a hash, little end first, as a number.   *)
(* Digits are bytes in the code; here Base is any even number.             *)
(*                                                                         *)
(* A behaviour is one call of solveBlock's loop body: a hash is calculated  *)
(* for a header with these Bits, and kept as the block's if it is low       *)
(* enough.  Every hash and all Bits are tried, so that the invariants also  *)
(* check the conversions for all numbers of HashDigits digits.              *)
(***************************************************************************)
EXTENDS Integers, Sequences

CONSTANTS
    Base,           \* of the digits, 256 in the code
    HashDigits,     \* length of a hash, 32 in the code
    MaxExponent     \* bound: exponents of Bits, 255 in the code

ASSUME DifficultyAssumption ==
    /\ Base \in Nat \ {0}
    /\ Base % 2 = 0
    /\ HashDigits \in Nat
    /\ MaxExponent \in Nat

VARIABLES
    bits,           \* header.Bits
    hash,           \* block.CalculateHash(), then what HashToBig makes of it
    solved          \* block.Hash = hash

dvars == <<bits, hash, solved>>

-----------------------------------------------------------------------------
\* 1 << 8*k
Power[k \in Nat] == IF k = 0 THEN 1 ELSE Power[k - 1] * Base

\* 0x00800000
SignBit == Power[3] \div 2

Compacts == 0..((MaxExponent + 1) * Power[3] - 1)

Abs(n) == IF n < 0 THEN -n ELSE n

\* len(n.Bytes())
Length(n) == CHOOSE k \in 0..(HashDigits + MaxExponent) :
                Abs(n) < Power[k] /\ (k > 0 => Abs(n) >= Power[k - 1])

\* The mantissa, moved right for small exponents and left for large ones.
Scaled(mantissa, exponent) ==
    IF exponent <= 3 THEN mantissa \div Power[3 - exponent]
                     ELSE mantissa * Power[exponent - 3]

IsNegative(c) == (c \div SignBit) % 2 = 1

\* Mutant: the mask keeps the sign bit in the mantissa.
CompactToBigUnmasked(c) ==
    LET bn == Scaled(c % Power[3], c \div Power[3])
    IN IF IsNegative(c) THEN -bn ELSE bn

CompactToBig(c) ==
    LET bn == Scaled(c % SignBit, c \div Power[3])
    IN IF IsNegative(c) THEN -bn ELSE bn

\* The three leading digits; Rsh of a negative number rounds down.
Mantissa(n) ==
    IF Length(n) <= 3 THEN Abs(n) * Power[3 - Length(n)]
                      ELSE Abs(n \div Power[Length(n) - 3])

\* exponent<<24 | mantissa, and the sign bit
Pack(exponent, mantissa, negative) ==
    exponent * Power[3] + mantissa + (IF negative THEN SignBit ELSE 0)

\* Mutant: a leading digit in the place of the sign bit is left there.
BigToCompactIntoSign(n) ==
    IF n = 0 THEN 0 ELSE Pack(Length(n), Mantissa(n), FALSE)

\* A mantissa that reaches the sign bit gives up its last digit.
BigToCompact(n) ==
    IF n = 0 THEN 0
    ELSE IF (Mantissa(n) \div SignBit) % 2 = 1
         THEN Pack(Length(n) + 1, Mantissa(n) \div Base, n < 0)
         ELSE Pack(Length(n), Mantissa(n), n < 0)

-----------------------------------------------------------------------------
Reversed(h) == [k \in DOMAIN h |-> h[Len(h) + 1 - k]]

\* new(big.Int).SetBytes: big end first.
SetBytes(h) ==
    LET value[k \in 0..Len(h)] == IF k = 0 THEN 0 ELSE value[k - 1] * Base + h[k]
    IN value[Len(h)]

HashToBig(h) == SetBytes(Reversed(h))

\* Mutant: HashToBig works on a copy.
HashAfterCopy(h) == h

\* What HashToBig leaves in the caller's hash: buf is the same array, and the
\* reversal is done in place.
HashAfter(h) == Reversed(h)

\* solveBlock: the hash is at most the target.
SolveWithHash ==
    /\ ~solved
    /\ HashToBig(hash) <= CompactToBig(bits)
    /\ hash' = HashAfter(hash)
    /\ solved' = TRUE
    /\ UNCHANGED bits

DInit ==
    /\ bits \in Compacts
    /\ hash \in [1..HashDigits -> 0..(Base - 1)]
    /\ solved = FALSE

DNext == SolveWithHash

DSpec == DInit /\ [][DNext]_dvars

-----------------------------------------------------------------------------
\* BigToCompact(n) stands for the largest number that any Bits stand for and
\* that is not above n: a target loses its low digits, and no more.
EncodeRoundsDown ==
    LET n == HashToBig(hash)
        kept == CompactToBig(BigToCompact(n))
    IN kept <= n /\ (CompactToBig(bits) <= n => CompactToBig(bits) <= kept)

\* Bits, decoded and encoded again, stand for the same target, whatever their
\* exponent and sign, and however many leading zeros their mantissa has.
BitsKeepTheirTarget ==
    LET target == CompactToBig(bits) IN CompactToBig(BigToCompact(target)) = target

\* The exponent stays within its eight bits: uint32(exponent<<24) loses nothing
\* of a target that came from Bits, nor of a hash, when the mantissa gives up its
\* last digit and the exponent grows by one.
ExponentFits ==
    /\ BigToCompact(CompactToBig(bits)) \in Compacts
    /\ HashDigits < MaxExponent => BigToCompact(HashToBig(hash)) \in Compacts

\* The Hash that a solved block carries, which the other nodes order and store
\* it by, shows the work as printed: read from its first digit on, it is at
\* most the target.
PublishedHashShowsWork == solved => SetBytes(hash) <= CompactToBig(bits)
=============================================================================
