SPECIFICATION Spec
CONSTANTS
  Tenant = {t1}
  NoTenant = NoTenant
  Key = {k1, k2}
  Nothing = Nothing
  MaxEntries = 2
  MaxRetries = 1
  MaxSeq = 3
SYMMETRY Symmetry
INVARIANTS TypeOK SeqsIdentify Balanced FirstTriesInOrder
PROPERTY ReadableNotLost
