--------------------------- MODULE RecoveryPassword ---------------------------
(***************************************************************************)
(* CheckRecoveryPassword and the packing of DeriveRecoveryKey (keys.go).   *)
(*                                                                         *)
(* A recovery password is the sequence of its blocks, as strings.Split     *)
(* with "-" gives them; a block is a sequence of characters: the digits    *)
(* 0..9, Plus, or Letter for anything else. A block can hold no minus      *)
(* sign, which separates blocks. Blocks too long for an int are left out.  *)
(***************************************************************************)
EXTENDS Integers, Sequences

Plus == 10
Letter == 11
RecoveryBlocks == 8
BlockLimit == 720896
Uint16Size == 65536

(* strconv.Atoi takes a sign and at least one digit. *)
AtoiAccepts(block) ==
  /\ \A j \in 1..Len(block) : block[j] \in 0..9 \/ (j = 1 /\ block[j] = Plus)
  /\ \E j \in 1..Len(block) : block[j] \in 0..9

(* strconv.Atoi of one character, 0 if it is not a digit. *)
Digit(char) == IF char \in 0..9 THEN char ELSE 0

Atoi(block) ==
  LET upTo[j \in 0..Len(block)] == IF j = 0 THEN 0 ELSE 10 * upTo[j - 1] + Digit(block[j])
  IN  upTo[Len(block)]

(* Mutant of Checksum: the remainder of a negative sum stays negative. *)
Checksum_signed(block) ==
  LET d(j) == Digit(block[j])
      sum == d(1) - d(2) + d(3) - d(4) + d(5)
  IN  IF sum >= 0 THEN sum % 11 ELSE -((-sum) % 11)

(* Go's % has the sign of the sum; a negative remainder is corrected. *)
Checksum(block) ==
  LET d(j) == Digit(block[j])
      sum == d(1) - d(2) + d(3) - d(4) + d(5)
      checksum == IF sum >= 0 THEN sum % 11 ELSE -((-sum) % 11)
  IN  IF checksum < 0 THEN checksum + 11 ELSE checksum

BlockAccepted(block) ==
  /\ AtoiAccepts(block)
  /\ Atoi(block) % 11 = 0
  /\ Atoi(block) < BlockLimit
  /\ Len(block) = 6
  /\ Checksum(block) = Digit(block[6])

CheckRecoveryPassword(password) ==
  IF /\ Len(password) = RecoveryBlocks
     /\ \A j \in 1..Len(password) : BlockAccepted(password[j])
    THEN "nil" ELSE "invalidRecoveryPassword"

(* The eight uint16 that are hashed. *)
KeyWords(password) ==
  [j \in 1..Len(password) |-> (Atoi(password[j]) \div 11) % Uint16Size]
=============================================================================
