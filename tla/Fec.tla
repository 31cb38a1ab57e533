-------------------------------- MODULE Fec --------------------------------
(***************************************************************************)
(* The Reed-Solomon code of protocol/stearlight_protocol.c: two parity     *)
(* shards for a group of at most ten, over the field of 256 elements.  A   *)
(* byte is the set of its bits that are 1, so XOR is symmetric difference; *)
(* a shard is one byte, since the code treats every byte position alike.   *)
(***************************************************************************)
EXTENDS Naturals, Sequences, FiniteSets, FiniteSetsExt, SequencesExt

MaxShards == 10                     \* STEARLIGHT_FEC_DATA_SHARDS

Byte(n) == {i \in 0 .. 7 : (n \div 2^i) % 2 = 1}
Xor(S, f(_)) == MapThenFoldSet(SymDiff, {}, f, LAMBDA T : CHOOSE x \in T : TRUE, S)

\* Mutant: the carry out of bit 7 is not reduced.
ShiftDropping(a) == {i + 1 : i \in a \ {7}}

\* a <<= 1, reduced by x^8 + x^4 + x^3 + x^2 + 1.
Shift(a) == SymDiff({i + 1 : i \in a \ {7}}, IF 7 \in a THEN {0, 2, 3, 4} ELSE {})

\* gf_mul: shift and add.
GfMul(a, b) ==
  LET Bit(acc, i) == [sum |-> IF i \in b THEN SymDiff(acc.sum, acc.a) ELSE acc.sum,
                      a   |-> Shift(acc.a)]
  IN FoldLeft(Bit, [sum |-> {}, a |-> a], <<0, 1, 2, 3, 4, 5, 6, 7>>).sum

\* gf_pow: square and multiply.
GfPow(value, power) ==
  LET Bit(acc, i) == [result |-> IF i \in Byte(power) THEN GfMul(acc.result, acc.value)
                                 ELSE acc.result,
                      value  |-> GfMul(acc.value, acc.value)]
  IN FoldLeft(Bit, [result |-> {0}, value |-> value], <<0, 1, 2, 3, 4, 5, 6, 7>>).result

\* gf_div: b^254 is the inverse of b.
GfDiv(a, b) == IF a = {} THEN {} ELSE GfMul(a, GfPow(b, 254))

\* The two parity sums over the shards in S; a shard's coefficient is its index
\* plus one, here the position in the sequence data.
ParityP0(data, S) == Xor(S, LAMBDA i : data[i])
ParityP1(data, S) == Xor(S, LAMBDA i : GfMul(Byte(i), data[i]))

Refused == <<>>

\* stearlight_fec_recover: the group with its missing shards rebuilt from the
\* parity shards that arrived, p0 and p1; {} stands for nothing at all.
Recover(data, missing, have0, have1, p0, p1) ==
  LET present == DOMAIN data \ missing
      sum0 == SymDiff(p0, ParityP0(data, present))
      sum1 == SymDiff(p1, ParityP1(data, present))
      first == Min(missing)
      second == Max(missing)
      a == GfDiv(SymDiff(sum1, GfMul(Byte(second), sum0)),
                 SymDiff(Byte(first), Byte(second)))
  IN CASE missing = {} -> data
       [] Cardinality(missing) = 1 /\ have0 -> [data EXCEPT ![first] = sum0]
       [] Cardinality(missing) = 2 /\ have0 /\ have1 ->
            [data EXCEPT ![first] = a, ![second] = SymDiff(sum0, a)]
       [] OTHER -> Refused

----------------------------------------------------------------------------
\* The group as the receiver has it, after the network took the shards in
\* missing and the parity shards it did not keep.
AfterLoss(data, missing, have0, have1) ==
  Recover([i \in DOMAIN data |-> IF i \in missing THEN {} ELSE data[i]],
          missing, have0, have1,
          IF have0 THEN ParityP0(data, DOMAIN data) ELSE {},
          IF have1 THEN ParityP1(data, DOMAIN data) ELSE {})

\* Polynomial arithmetic: x^k modulo the field's polynomial, and the product.
Residue[k \in 0 .. 14] ==
  IF k < 8 THEN {k}
  ELSE SymDiff(SymDiff(Residue[k - 4], Residue[k - 5]),
               SymDiff(Residue[k - 6], Residue[k - 8]))

Product(a, b) ==
  Xor(a \X b, LAMBDA p : Residue[p[1] + p[2]])

\* Every byte value as data of a group of ten, in four groups.
Samples == {[i \in 1 .. MaxShards |-> Byte((26 * i + n) % 256)] : n \in {0, 91, 165, 254}}

\* gf_mul is the product of polynomials and gf_div undoes it for all factors the
\* code forms, coefficients and their differences.
FieldSound ==
  \A c \in 1 .. 15 : \A a \in SUBSET (0 .. 7) :
    /\ GfMul(Byte(c), a) = Product(Byte(c), a)
    /\ GfDiv(GfMul(Byte(c), a), Byte(c)) = a

\* From P0 one lost shard of a group is rebuilt exactly as it was sent, from P0
\* and P1 two; anything else is refused rather than guessed.
RecoveryExact ==
  \A data \in Samples : \A k \in 1 .. MaxShards, have0, have1 \in BOOLEAN :
    LET group == SubSeq(data, 1, k) IN
    \A missing \in UNION {kSubset(n, 1 .. k) : n \in 0 .. Min({3, k})} :
      AfterLoss(group, missing, have0, have1) =
        IF \/ missing = {}
           \/ have0 /\ Cardinality(missing) = 1
           \/ have0 /\ have1 /\ Cardinality(missing) = 2
        THEN group ELSE Refused
=============================================================================
