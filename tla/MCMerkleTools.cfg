SPECIFICATION Spec
CONSTANTS
  MaxTx = 9
  MaxIndex = 19
  MaxScript = 5
  aux_chain_id = 98
INVARIANTS
  CalculatedProofAccepted
  ProofProvesOnlyItsTransaction
  IndexAgreesOnProofBits
  MinedProofAccepted
  OneHeaderPerParent
