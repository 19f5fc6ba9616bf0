\* Every request of up to three lines over three variants of two garments.
SPECIFICATION Spec
CONSTANTS
  v1 = v1
  v2 = v2
  v3 = v3
  shirt = shirt
  shorts = shorts
  Quotes = {q1}
  Variants <- ThreeVariants
  ItemOf <- Garments
  Price <- Prices3
  Quantities <- OneOrTwo
  Customizations <- NoneToTwo
  MaxLines = 3
  MaxMoney = 9
INVARIANTS
  TypeOK
  ChargedAsRequested
  ListedAsRequested
  CustomizationsFitStored
  OrdersListedAsQuoted
PROPERTIES
  EditsAreExact
