\* Two overlapping transactions.
SPECIFICATION Spec
CONSTANTS
  a1 = a1  a2 = a2  a3 = a3  t1 = t1  t2 = t2
  AddressIds = {a1, a2, a3}
  AddressTypes = {"billing", "shipping"}
  TypeOf <- MCTypeOf
  Transactions = {t1, t2}
  Absent = Absent
SYMMETRY Symmetry
INVARIANTS
  AtMostOneDefault
PROPERTY DefaultIsKept
