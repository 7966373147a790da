SPECIFICATION Spec
CONSTANTS
  own = own
  op = op
  user = user
  Accounts = {own, op, user}
  Contracts = {own, user}
  Owner = own
  Vault = Vault
  Zero = Zero
  None = None
  Amounts = {0, 1, 2}
  MaxFunds = 2
  MaxDepth = 2
INVARIANTS
  VaultPaysOnce
  VaultInv
PROPERTIES
  RecordedForGood
  ImplementsSponsoredOnce
