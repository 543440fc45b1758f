-------------------------- MODULE MCPaymentVoucher --------------------------
(* Instances of PaymentVoucher for TLC: a finance maker, a second finance  *)
(* officer and an administrator; vouchers below and at the thresholds of   *)
(* the default chain, and one whose template brings its own matrix.        *)
EXTENDS PaymentVoucher, TLC

CONSTANTS ann, fred, ada, r1, r2, lines1, lines2

MCRoleOf == (ann :> "FINANCE") @@ (fred :> "FINANCE") @@ (ada :> "ADMIN")

Small ==
    [ lines |-> lines1, totalAmount |-> 249999,
      voucherType |-> "SUPPLIER_PAYMENT", paymentMethod |-> "BANK_TRANSFER",
      bankAccount |-> TRUE, requiresAttachment |-> FALSE,
      allowRecall |-> TRUE, approvalMatrix |-> <<>> ]

Controlled ==
    [Small EXCEPT !.totalAmount = 250000, !.requiresAttachment = TRUE]

Treasury ==
    [Small EXCEPT !.totalAmount = 1000000, !.lines = lines2]

TwoLevels == [Small EXCEPT !.totalAmount = 250000]

CashTax ==
    [Small EXCEPT !.voucherType = "TAX_REMITTANCE", !.bankAccount = FALSE,
                  !.paymentMethod = "CASH", !.allowRecall = FALSE]

Matrix ==
    [Small EXCEPT !.approvalMatrix = << [level |-> 1, role |-> "ADMIN"],
                                        [level |-> 1, role |-> "FINANCE"],
                                        [level |-> 2, role |-> "ADMIN"] >>]

(* Its rows are not in the order of their levels. *)
Unordered ==
    [Small EXCEPT !.approvalMatrix = << [level |-> 2, role |-> "ADMIN"],
                                        [level |-> 1, role |-> "FINANCE"],
                                        [level |-> 2, role |-> "FINANCE"] >>]

SerialContents == {Small, Controlled, Treasury, CashTax, Matrix, Unordered}
OverlapContents == {TwoLevels}

RequestSymmetry == Permutations(Requests)
=============================================================================
