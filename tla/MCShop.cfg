\* Two customers, two requests at a time, over two products and a code for one use.
SPECIFICATION ShopSpec
CONSTANTS
  r1 = r1  r2 = r2  ann = ann  bob = bob  lamp = lamp  desk = desk  half = half
  Users = {ann, bob}
  Products = {lamp, desk}
  Codes = {half}
  Requests = {r1, r2}
  Stock <- StockOf
  Price <- PriceOf
  OnSale = {lamp, desk}
  Promo <- PromoOf
  NoCode = NoCode
  ShipTo <- Addresses
  MaxRows = 2
  MaxOrders = 2
  MaxQuantity = 2
  Traffic <- SomeTraffic
  Repaired = {"createOrder", "FindByCode"}
SYMMETRY Symmetry
INVARIANTS
  OrdersSound
  UsesCounted
PROPERTIES
  RowsChangeByOwner
