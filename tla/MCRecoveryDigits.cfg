SPECIFICATION Spec
CONSTANTS
  Volumes <- MCRecoveryVolumes
  Passphrases = {"p"}
  RecoveryPasswords <- MCOddPasswords
  VmkKeys <- MCVmkKeys
  Identifiers = {"none", "g1"}
  Beks <- MCBeks
PROPERTY OnlySixDigitBlocks
