SPECIFICATION Spec
CONSTANTS
  Volumes <- MCVolumes
  Passphrases = {"p"}
  RecoveryPasswords <- MCRecoveryPasswords
  VmkKeys <- MCVmkKeys
  Identifiers = {"none", "g1"}
  Beks <- MCBeks
INVARIANTS TypeOK KeyIsJustified OutcomeDeserved StreamsUsable
PROPERTIES KeyNeverLost UnsignedPasswordsExact
