CONSTANTS
  Workers = {w1, w2}
  Webhook = hook
  HeaderIds = {d1, d2}
  None = none
  Budgets <- MCBudgets
  MerchantId = {m1, m2, m3}
  DemoId = demo
  Addresses = {d1, d2, demoaddr}
  DemoAddress = demoaddr
  PolicyId = {p1, p2, p3}
  CustomerId = {c1, c2}
  PaymentId = {t1, t2}
  Payers = {bob, eve}
  ExternalIds = {x1, x2, x3}
  ListLimit = 1
  Earlier = c0
SPECIFICATION Spec
CHECK_DEADLOCK FALSE
SYMMETRY Symmetry
INVARIANT ConsoleTypeOK
INVARIANT DuplicateAccountsExplained
INVARIANT LastWriteKept
INVARIANT DuplicateCustomersExplained
INVARIANT CustomerOfMerchant
