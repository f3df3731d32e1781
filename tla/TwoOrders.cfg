SPECIFICATION FairSpec
CONSTANTS
  ca = ca
  cb = cb
  cc = cc
  oa = oa
  ob = ob
  oc = oc
  ua = ua
  ma = ma
  ka = ka
  kb = kb
  kc = kc
  pa = pa
  None = None
  Users = {ua}
  Merchants = {ma}
  Products = {pa}
  ProductOf <- OneProduct
  MerchantOf <- OneMerchant
  Clients = {ca, cb}
  OrderIds = {oa, ob}
  Keys = {ka, kb}
  SKUs <- TwoSKUs
  Baskets <- BothOrders
  InitialStock <- StockOf2
  StockInputs <- StockEntries
  Ops = {"CreateOrder", "CancelOrder"}
  MaxFaults = 0
INVARIANTS
  StockBounds
  OneOrderPerKey
PROPERTIES
  EveryCallIsAnswered
