SPECIFICATION ViewSpec
CONSTANTS
  ca = ca
  cb = cb
  cc = cc
  oa = oa
  ob = ob
  oc = oc
  ua = ua
  ma = ma
  ka = ka
  kb = kb
  kc = kc
  pa = pa
  None = None
  Users = {ua}
  Merchants = {ma}
  Products = {pa}
  ProductOf <- OneProduct
  MerchantOf <- OneMerchant
  Clients = {ca, cb}
  OrderIds = {oa}
  Keys = {ka}
  SKUs <- OneSKU
  Baskets <- OddBaskets
  InitialStock <- StockOf2
  StockInputs <- StockEntries
  Ops = {"CreateOrder", "PayOrder", "CancelOrder", "MerchantUpdateSKU", "MerchantSetProductStatus"}
  MaxFaults = 1
SYMMETRY Symmetry
INVARIANTS
  NoNegativeStock
  ViewIsNotBehind
