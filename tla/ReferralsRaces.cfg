CONSTANTS
  w1 = w1
  w2 = w2
  buyer = buyer
  other = other
  third = third
  first = first
  second = second
  last = last
  NoPayment = NoPayment
  Nobody = Nobody
  Workers = {w1, w2}
  Users = {buyer, other, third}
  Payments = {first, second, last}
  BuyerOf <- MCBuyerOf
  MaxReferrals = 1
  MaxFailures = 1
SPECIFICATION Spec
SYMMETRY Symmetry
INVARIANTS
  ConvertedWasRewarded
  DiscountSettles
  RacesAreBounded
PROPERTIES
  SettledOnce
