SPECIFICATION OrdersSpec
CONSTANTS
  ca = ca
  cb = cb
  cc = cc
  oa = oa
  ob = ob
  oc = oc
  ua = ua
  ma = ma
  ka = ka
  kb = kb
  kc = kc
  pa = pa
  None = None
  Users = {ua}
  Merchants = {ma}
  Products = {pa}
  ProductOf <- OneProduct
  MerchantOf <- OneMerchant
  Clients = {ca, cb}
  OrderIds = {oa, ob}
  Keys = {ka}
  SKUs <- OneSKU
  Baskets <- SingleLine
  InitialStock <- StockOf2
  StockInputs <- StockEntries
  Ops = {"CreateOrder"}
  MaxFaults = 0
SYMMETRY Symmetry
PROPERTIES
  RepeatedCreateReturnsOrder
