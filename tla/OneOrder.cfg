SPECIFICATION OrdersSpec
CONSTANTS
  ca = ca
  cb = cb
  cc = cc
  oa = oa
  ob = ob
  oc = oc
  ua = ua
  ma = ma
  ka = ka
  kb = kb
  kc = kc
  pa = pa
  None = None
  Users = {ua}
  Merchants = {ma}
  Products = {pa}
  ProductOf <- OneProduct
  MerchantOf <- OneMerchant
  Clients = {ca, cb}
  OrderIds = {oa}
  Keys = {ka}
  SKUs <- TwoSKUs
  Baskets <- Ascending
  InitialStock <- StockOf2
  StockInputs <- StockEntries
  Ops = {"CreateOrder", "PayOrder", "CancelOrder", "FinishOrder", "RequestRefund", "MerchantShipOrder", "MerchantApproveRefund"}
  MaxFaults = 1
SYMMETRY Symmetry
INVARIANTS
  TypeOK
  LocksFollowStatus
  StampsFollowStatus
  AckedIsApplied
  JournalIsTrue
  Conservation
PROPERTIES
  LegalSteps
  ImplementsLifecycle
