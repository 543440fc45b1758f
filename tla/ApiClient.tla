----------------------------- MODULE ApiClient ------------------------------
(***************************************************************************)
(* What the web application calls: the functions of apps/web/lib/api.ts    *)
(* and the calls its components make themselves, each with its method, its *)
(* path and what it gives.  A parameter of a path is the text of a number. *)
(* A payload is given by its type, all the fields it must and may have; an *)
(* import passes rows of no type, given by the code that builds them.      *)
(***************************************************************************)
EXTENDS ApiRoutes

Call(name, method, path, query, body) ==
    [ name |-> name, method |-> method, path |-> path, query |-> query, body |-> body ]

Fetch(name, path, query) == Call(name, "GET", path, query, Nothing)

Send(name, method, path, body) == Call(name, method, path, Nothing, body)

SendWith(name, method, path, query, body) == Call(name, method, path, query, body)

-----------------------------------------------------------------------------
(* The rows of the imports: administration/page.tsx.                       *)

ChartOfAccountsRow ==
  Given(Str({"code", "name", "type"}) @@ Bool({"isActive", "allowsPosting",
    "isControlAccount"}),
    Str({"description", "parentCode", "controlSource"}))

CustomersRow ==
  Given(Str({"name"}),
    Str({"email", "phone", "line1", "city", "state", "country", "postalCode"}))

ProductsRow ==
  Given(Str({"sku", "name"}) @@ Bool({"isActive"}), Str({"category", "uom"}))

TaxCodesRow ==
  Given(Num({"companyId", "rate"}) @@ Str({"code", "name", "taxType",
      "filingFrequency"}) @@
    Bool({"isInclusive", "recoverable"}),
    Str({"outputAccountCode", "inputAccountCode", "liabilityAccountCode"}))

GlOpeningBalancesRow ==
  Given(Str({"accountCode", "accountName"}) @@ Num({"debit", "credit"}),
    Str({"type", "branchCode", "narration"}))

ArOpeningBalancesRow ==
  Given(Str({"customerName", "invoiceNumber", "invoiceDate", "dueDate",
      "currencyCode"}) @@
    Num({"amount", "outstanding"}),
    Str({"customerEmail", "narration"}))

ApOpeningBalancesRow ==
  Given(Str({"supplierName", "billNumber", "billDate", "dueDate", "currencyCode"}) @@
    Num({"amount", "outstanding"}),
    Str({"supplierEmail", "narration"}))

CustomerReceiptsRow ==
  Given(Str({"customerName", "receiptNumber", "receiptDate", "paymentMethod"}) @@
    Num({"amount"}),
    Str({"invoiceReference", "bankAccountCode", "narration"}))

SupplierPaymentsRow ==
  Given(Str({"supplierName", "paymentReference", "paymentDate", "paymentMethod"}) @@
    Num({"amount"}),
    Str({"billReference", "bankAccountCode", "narration"}))

FixedAssetsRow ==
  Given(Str({"assetCode", "assetName", "category", "acquisitionDate",
      "depreciationMethod"})
    @@ Num({"costPrice", "accumulatedDepreciation", "netBookValue"}),
    Num({"usefulLifeYears"}) @@ Str({"location", "serialNumber", "narration"}))

StockOpeningBalancesRow ==
  Given(Str({"sku", "productName", "warehouseName"}) @@ Num({"quantity", "unitCost",
    "totalValue"}),
    Str({"uom", "narration"}))

SuppliersRow == CustomersRow

-----------------------------------------------------------------------------
(* The payloads: api.ts, and the pages that edit a saved draft.            *)

JournalEntryPayload ==
  GivenWith(Str({"journalType", "journalDate", "postingDate", "currencyCode",
      "narration"}) @@
    Num({"legalEntityId", "branchId", "accountingPeriodId"}) @@ List({"lines"}),
    Str({"sourceType", "sourceModule", "sourceDocumentId", "sourceDocumentNumber",
    "referenceNumber", "externalReference", "description", "autoReverseDate",
    "intercompanyReference", "idempotencyKey"}) @@ Num({"departmentId", "costCenterId",
    "projectId", "fiscalYearId", "exchangeRate", "recurringTemplateId"}) @@
    Bool({"isAutoReversing", "isRecurring", "isIntercompany"}) @@ List({"attachments"}),
    "attachments" :> Given(Str({"fileName", "fileUrl"}), Str({"mimeType"})) @@
      "lines" :> Given(Num({"accountId"}),
              Str({"subledgerType", "subledgerId", "transactionCurrencyCode",
              "lineNarration", "partnerName", "partnerCode"}) @@ Num({"debitAmount",
              "creditAmount", "exchangeRate", "taxCodeId", "taxAmount", "branchId",
              "departmentId", "costCenterId", "projectId"})))

PaymentVoucherPayload ==
  GivenWith(Str({"voucherType", "beneficiaryType", "beneficiaryName", "paymentMethod",
    "currencyCode", "voucherDate", "requestedPaymentDate", "postingDate", "narration",
    "purposeOfPayment"}) @@ Num({"legalEntityId", "branchId", "accountingPeriodId"}) @@
    List({"lines"}),
    Str({"sourceType", "sourceModule", "sourceDocumentId", "sourceDocumentNumber",
    "beneficiaryId", "beneficiaryCode", "paymentChannel", "referenceNumber",
    "externalReference", "invoiceReference", "idempotencyKey"}) @@ Num({"departmentId",
    "costCenterId", "projectId", "supplierId", "payableAccountId", "bankAccountId",
    "cashAccountId", "exchangeRate", "fiscalYearId", "templateId"}) @@
    Bool({"requiresAttachment"}) @@ List({"attachments"}),
    "attachments" :> Given(Str({"fileName", "fileUrl"}), Str({"mimeType"})) @@
      "lines" :> Given(Str({"lineType", "description"}) @@ Num({"accountId",
          "grossAmount",
              "netAmount"}),
              Str({"subledgerType", "subledgerId", "sourceInvoiceId",
              "sourceInvoiceNumber", "sourceExpenseClaimId", "dueDate"}) @@
              Num({"taxCodeId", "taxAmount", "withholdingTaxCodeId",
              "withholdingTaxAmount", "branchId", "departmentId", "costCenterId",
              "projectId"})))

BuildPayload ==
  GivenWith(
    Str({"journalType", "sourceType", "sourceModule", "journalDate", "postingDate",
      "currencyCode", "narration"}) @@
    Num({"legalEntityId", "branchId", "accountingPeriodId"}) @@
    Bool({"isAutoReversing"}) @@ List({"attachments", "lines"}),
    Str({"sourceDocumentNumber", "referenceNumber", "description", "autoReverseDate"}) @@
    Num({"costCenterId", "projectId", "fiscalYearId", "exchangeRate"}),
    "attachments" :> Given(Str({"fileName", "fileUrl"}), NoFields) @@
    "lines" :> Given(Num({"accountId", "branchId"}) @@ Str({"transactionCurrencyCode"}),
                     Num({"debitAmount", "creditAmount", "costCenterId", "projectId",
                       "taxCodeId", "exchangeRate"}) @@ Str({"lineNarration"})))

SavedVoucher ==
  GivenWith(
    Str({"voucherType", "beneficiaryType", "beneficiaryName", "paymentMethod",
      "currencyCode", "voucherDate", "requestedPaymentDate", "postingDate", "narration",
      "purposeOfPayment"}) @@
    Num({"legalEntityId", "branchId", "exchangeRate", "accountingPeriodId"}) @@
    Bool({"requiresAttachment"}) @@ List({"lines"}),
    Num({"supplierId", "bankAccountId", "cashAccountId", "fiscalYearId", "templateId"}) @@
    Str({"referenceNumber"}),
    "lines" :> Given(Str({"lineType", "description"}) @@
                     Num({"accountId", "grossAmount", "taxAmount", "withholdingTaxAmount",
                       "netAmount"}),
                     Num({"taxCodeId", "withholdingTaxCodeId", "costCenterId",
                       "projectId"})))

-----------------------------------------------------------------------------
(* The calls.                                                              *)

HealthCalls == { Fetch("getHealth", <<"health">>, Nothing) }

WorkspaceCalls ==
  { Send("login", "POST", <<"auth", "login">>, Given(Str({"email", "password"}), NoFields)),
    Fetch("getCompanies", <<"org", "companies">>, Given(NoFields, Str({"includeInactive"}))),
    Fetch("getUsers", <<"users">>, Nothing) }

RefreshCalls == { Send("refresh", "POST", <<"auth", "refresh">>, Nothing) }

MfaCalls ==
  { Fetch("checkStatus", <<"auth", "mfa", "status">>, Nothing),
    Send("handleSetup", "POST", <<"auth", "mfa", "setup">>, Nothing),
    Send("handleActivate", "POST", <<"auth", "mfa", "activate">>,
        Given(Str({"token"}), NoFields)),
    Send("handleDisable", "POST", <<"auth", "mfa", "disable">>,
        Given(Str({"token", "password"}), NoFields)) }

VerifyLoginCalls ==
  { Send("handleMfaVerify", "POST", <<"auth", "mfa", "verify-login">>,
        Given(Str({"token"}), Str({"email"}))) }

UserCalls ==
  { Send("createUser", "POST", <<"users">>,
        Given(Str({"email", "password"}),
          Str({"firstName", "lastName"}) @@ Bool({"isActive"}))),
    Send("updateUser", "PATCH", <<"users", ANumber>>,
        Given(NoFields, Str({"firstName", "lastName"}) @@ Bool({"isActive"}))) }

PasswordCalls ==
  { Send("resetUserPassword", "POST", <<"users", ANumber, "reset-password">>,
        Given(Str({"password"}), NoFields)),
    Send("deleteUser", "DELETE", <<"users", ANumber>>, Nothing) }

RoleCalls ==
  { Send("createAdminRole", "POST", <<"admin", "roles">>,
        Given(Str({"name"}), Str({"description"}) @@ List({"permissions"}))),
    Send("createAdminPermission", "POST", <<"admin", "permissions">>,
        Given(Str({"code"}), Str({"description"}))),
    Send("assignAdminRoles", "POST", <<"admin", "users", ANumber, "roles">>,
        Given(List({"roles"}), NoFields)) }

FiscalCalls ==
  { Fetch("getFiscalYears", <<"admin", "fiscal-years">>,
        Given(Numeral({"companyId"}), NoFields)),
    Send("createFiscalYear", "POST", <<"admin", "fiscal-years">>,
        Given(Num({"companyId"}) @@ Str({"name", "startDate", "endDate"}),
          Bool({"generateMonthlyPeriods"}))),
    Send("closeFiscalYear", "POST", <<"admin", "fiscal-years", ANumber, "close">>,
        Given(NoFields, Str({"reason"}))),
    Send("lockFiscalYear", "POST", <<"admin", "fiscal-years", ANumber, "lock">>,
        Given(NoFields, Str({"reason"}))),
    Send("updateAccountingPeriodStatus", "PATCH", <<"admin", "accounting-periods",
        ANumber>>,
        Given(Str({"status"}), Str({"reason"}))) }

CompanyCalls ==
  { Send("createCompany", "POST", <<"org", "companies">>,
        Given(Str({"name", "code"}),
          Str({"legalName", "registrationNumber", "taxId", "email", "phone",
          "addressLine1", "addressLine2", "city", "state", "country", "currencyCode",
          "timezone", "logoUrl", "defaultBranchName", "defaultBranchCode"}) @@
          Num({"fiscalYearStartMonth"}) @@ Bool({"isActive", "useBranches",
          "useInventory", "usePayroll", "useDepartments"}))),
    Send("updateCompany", "PATCH", <<"org", "companies", ANumber>>,
        Given(NoFields,
          Str({"name", "legalName", "code", "registrationNumber", "taxId", "email",
          "phone", "addressLine1", "addressLine2", "city", "state", "country",
          "currencyCode", "timezone", "logoUrl"}) @@ Num({"fiscalYearStartMonth"}) @@
          Bool({"isActive", "useBranches", "useInventory", "usePayroll",
          "useDepartments"}))),
    Send("createBranch", "POST", <<"org", "companies", ANumber, "branches">>,
        Given(Str({"name", "code"}), NoFields)),
    Send("cloneCompany", "POST", <<"org", "companies", ANumber, "clone">>,
        Given(Str({"name"}), Str({"code", "branchCodePrefix"}))) }

CustomerCalls ==
  { Fetch("getSalesCustomers", <<"sales", "customers">>,
        Given(NoFields, Numeral({"companyId"}))),
    Send("createSalesCustomer", "POST", <<"sales", "customers">>,
        Given(Num({"companyId"}) @@ Str({"name"}),
          Str({"email", "phone", "customerType", "onboardingStatus", "contactPerson",
          "industry", "taxId", "addressLine1", "city", "state", "country"}) @@
          Num({"creditLimit"}))),
    SendWith("updateSalesCustomer", "PATCH", <<"sales", "customers", ANumber>>,
        Given(Numeral({"companyId"}), NoFields),
        Given(NoFields,
          Str({"name", "email", "phone", "customerType", "onboardingStatus",
          "contactPerson", "industry", "taxId", "addressLine1", "city", "state",
          "country"}) @@ Num({"creditLimit"}))),
    Fetch("getSalesInvoices", <<"sales", "invoices">>,
        Given(NoFields, Numeral({"companyId"}))),
    Send("createSalesInvoice", "POST", <<"sales", "invoices">>,
        GivenWith(Num({"legalEntityId",
            "customerId"}) @@ Str({"date"}) @@ List({"items"}),
          Str({"dueDate"}) @@ Num({"warehouseId", "arAccountId", "revenueAccountId",
          "taxAccountId"}),
          "items" :> Given(Num({"productId", "quantity", "unitPrice"}),
              Num({"taxRate"})))) }

ReceiptCalls ==
  { Fetch("getCustomerReceiptMetadata", <<"sales", "receipts", "metadata", "options",
      ANumber>>,
        Nothing),
    Fetch("getCustomerReceipts", <<"sales", "receipts">>,
        Given(NoFields, Numeral({"companyId", "branchId"}))),
    Fetch("getCustomerReceipt", <<"sales", "receipts", ANumber>>,
        Given(NoFields, Numeral({"companyId"}))),
    Send("createCustomerReceipt", "POST", <<"sales", "receipts">>,
        GivenWith(Num({"legalEntityId", "branchId", "customerId",
            "receivableAccountId"}) @@
          Str({"paymentMethod", "paymentDate", "postingDate", "currencyCode",
          "narration"}) @@ List({"lines"}),
          Num({"bankAccountId", "cashAccountId", "exchangeRate"}) @@
          Str({"bankReference", "externalReference", "remarks"}),
          "lines" :> Given(Str({"description"}) @@ Num({"appliedAmount"}),
                    Num({"invoiceId"})))),
    Send("postCustomerReceipt", "POST", <<"sales", "receipts", ANumber, "post">>,
        Given(NoFields, Str({"narration"}))) }

StockCalls ==
  { Fetch("getInventoryProducts", <<"inventory", "products">>,
        Given(NoFields, Numeral({"companyId"}))),
    Fetch("getInventoryWarehouses", <<"inventory", "warehouses">>,
        Given(NoFields, Numeral({"companyId"}))),
    Fetch("getInventoryStockMovements", <<"inventory", "stock-movements">>,
        Given(NoFields, Numeral({"companyId"}))),
    Send("createInventoryStockMovement", "POST", <<"inventory", "stock-movements">>,
        Given(Num({"productId", "warehouseId", "quantity"}) @@ Str({"direction"}),
          Str({"reference"}))) }

PurchaseCalls ==
  { Fetch("getPurchaseSuppliers", <<"purchases", "suppliers">>,
        Given(NoFields, Numeral({"companyId"}))),
    Send("createPurchaseSupplier", "POST", <<"purchases", "suppliers">>,
        Given(Num({"companyId"}) @@ Str({"name"}), Str({"email", "phone"}))),
    Fetch("getPurchaseBills", <<"purchases", "bills">>,
        Given(NoFields, Numeral({"companyId"}))),
    Send("createPurchaseBill", "POST", <<"purchases", "bills">>,
        GivenWith(Num({"legalEntityId",
            "supplierId"}) @@ Str({"date"}) @@ List({"items"}),
          Str({"dueDate"}) @@ Num({"warehouseId"}),
          "items" :> Given(Num({"productId", "quantity", "unitCost"}),
              Num({"taxRate"})))) }

TaxCalls ==
  { Fetch("getTaxConfigs", <<"tax", "configs">>,
        Given(Numeral({"companyId"}), NoFields)),
    Send("createTaxConfig", "POST", <<"tax", "configs">>,
        Given(Num({"companyId", "rate"}) @@ Str({"code",
            "name"}) @@ Bool({"isInclusive"}),
          Str({"taxType", "filingFrequency"}) @@ Bool({"recoverable"}) @@
          Num({"outputAccountId", "inputAccountId", "liabilityAccountId"}))),
    Send("updateTaxConfig", "PATCH", <<"tax", "configs", ANumber>>,
        Given(NoFields,
          Str({"code", "name", "taxType", "filingFrequency"}) @@ Num({"rate",
          "outputAccountId", "inputAccountId", "liabilityAccountId"}) @@
          Bool({"isInclusive", "recoverable"}))),
    Fetch("getTaxDashboard", <<"tax", "dashboard">>,
        Given(Numeral({"companyId"}), Str({"from", "to"}))),
    Fetch("getTaxActivity", <<"tax", "activity">>,
        Given(Numeral({"companyId"}), Str({"from", "to"}))) }

AssetCalls ==
  { Fetch("getFixedAssetCategories", <<"fixed-assets", "categories">>, Nothing),
    Send("createFixedAsset", "POST", <<"fixed-assets", "assets">>,
        Given(Str({"name", "tag", "acquisitionDate"}) @@ Num({"categoryId",
          "acquisitionCost"}),
          Num({"branchId", "residualValue"}))),
    Fetch("getFixedAssets", <<"fixed-assets", "assets">>, Nothing),
    Send("runDepreciation", "POST", <<"depreciation", "runs">>,
        Given(Str({"periodStart", "periodEnd"}), Str({"book"}))) }

LoanCalls ==
  { Fetch("getLoans", <<"loans">>, Nothing),
    Send("createLoan", "POST", <<"loans">>,
        Given(Str({"code", "lender", "type", "startDate", "scheduleType"}) @@
          Num({"principal"}),
          Str({"endDate"}) @@ Num({"baseRate", "spread"}))),
    Send("createLoanPayment", "POST", <<"loans", "payments">>,
        Given(Num({"loanId", "principalPaid", "interestPaid"}) @@ Str({"paymentDate"}),
          Num({"feesPaid"}))) }

AccountCalls == { Fetch("getAccountingAccounts", <<"accounting", "accounts">>, Nothing) }

LedgerCalls ==
  { Fetch("getAccountingJournals", <<"accounting", "journals">>, Nothing),
    Fetch("getAccountingVouchers", <<"accounting", "vouchers">>, Nothing),
    Send("createAccountingJournal", "POST", <<"accounting", "journals">>,
        GivenWith(Str({"date"}) @@ List({"lines"}),
          Str({"reference", "description", "type"}),
          "lines" :> Given(Num({"accountId", "debit", "credit"}),
                    Num({"branchId"}) @@ Str({"memo"})))) }

JournalCalls ==
  { Fetch("getJournalMetadata", <<"journals", "metadata", "options">>,
        Given(Numeral({"legalEntityId"}), NoFields)),
    Fetch("getJournalEntries", <<"journals">>,
        Given(NoFields,
          Str({"search", "status", "journalType", "sourceModule"}) @@
          Numeral({"branchId"}))),
    Fetch("getJournalEntry", <<"journals", ANumber>>, Nothing),
    Send("createJournalDraft", "POST", <<"journals">>, JournalEntryPayload),
    Send("updateJournalDraft", "PATCH", <<"journals", ANumber>>, BuildPayload),
    Send("validateJournalEntry", "POST", <<"journals", ANumber, "validate">>,
        Given(Bool({"strict"}), NoFields)) }

JournalSteps ==
  { Send("submitJournalEntry", "POST", <<"journals", ANumber, "submit">>, Nothing),
    Send("recallJournalEntry", "POST", <<"journals", ANumber, "recall">>, Nothing),
    Send("approveJournalEntry", "POST", <<"journals", ANumber, "approve">>,
        Given(NoFields, Str({"comments"}))),
    Send("rejectJournalEntry", "POST", <<"journals", ANumber, "reject">>,
        Given(Str({"reason"}), NoFields)),
    Send("postJournalEntry", "POST", <<"journals", ANumber, "post">>, Nothing),
    Send("reverseJournalEntry", "POST", <<"journals", ANumber, "reverse">>,
        Given(Str({"reversalDate", "reason"}), NoFields)),
    Send("cancelJournalEntry", "POST", <<"journals", ANumber, "cancel">>,
        Given(Str({"reason"}), NoFields)) }

VoucherCalls ==
  { Fetch("getPaymentVoucherMetadata", <<"payment-vouchers", "metadata", "options">>,
        Given(Numeral({"legalEntityId"}), NoFields)),
    Fetch("getPaymentVouchers", <<"payment-vouchers">>,
        Given(NoFields,
          Str({"search", "status", "paymentStatus", "voucherType"}) @@
          Numeral({"branchId"}))),
    Fetch("getPaymentVoucherApprovalQueue", <<"payment-vouchers", "queue">>, Nothing),
    Fetch("getPaymentVoucher", <<"payment-vouchers", ANumber>>, Nothing),
    Send("createPaymentVoucherDraft", "POST", <<"payment-vouchers">>,
        PaymentVoucherPayload),
    Send("updatePaymentVoucherDraft", "PATCH", <<"payment-vouchers", ANumber>>,
        SavedVoucher),
    Send("validatePaymentVoucher", "POST", <<"payment-vouchers", ANumber, "validate">>,
        Given(Bool({"requireAttachments"}), NoFields)) }

VoucherSteps ==
  { Send("submitPaymentVoucher", "POST", <<"payment-vouchers", ANumber, "submit">>,
        Nothing),
    Send("recallPaymentVoucher", "POST", <<"payment-vouchers", ANumber, "recall">>,
        Given(NoFields, Str({"reason"}))),
    Send("approvePaymentVoucher", "POST", <<"payment-vouchers", ANumber, "approve">>,
        Given(NoFields, Str({"comments"}))),
    Send("rejectPaymentVoucher", "POST", <<"payment-vouchers", ANumber, "reject">>,
        Given(Str({"rejectionReason"}), Str({"comments"}))),
    Send("returnPaymentVoucherForCorrection", "POST", <<"payment-vouchers", ANumber,
        "return">>,
        Given(Str({"reason"}), NoFields)),
    Send("postPaymentVoucher", "POST", <<"payment-vouchers", ANumber, "post">>, Nothing),
    Send("initiateVoucherPayment", "POST", <<"payment-vouchers", ANumber,
        "initiate-payment">>,
        Given(NoFields, Str({"paymentChannel", "providerName", "providerReference"}))),
    Send("markPaymentVoucherPaid", "POST", <<"payment-vouchers", ANumber, "mark-paid">>,
        Given(NoFields, Str({"bankReference", "proofFileUrl", "comments"}))),
    Send("cancelPaymentVoucher", "POST", <<"payment-vouchers", ANumber, "cancel">>,
        Given(Str({"reason"}), NoFields)),
    Send("addPaymentVoucherComment", "POST", <<"payment-vouchers", ANumber, "comments">>,
        Given(Str({"body", "commentType"}), NoFields)) }

VoucherPapers ==
  { Fetch("previewPaymentVoucher", <<"payment-vouchers", ANumber, "preview">>, Nothing),
    Send("uploadPaymentVoucherAttachment", "POST", <<"payment-vouchers", ANumber,
        "attachments", "upload">>,
        Nothing),
    Fetch("getPaymentVoucherTemplates", <<"payment-vouchers", "templates", "all">>,
        Nothing),
    Send("createPaymentVoucherTemplate", "POST", <<"payment-vouchers", "templates">>,
        Given(Str({"name", "voucherType"}),
          Str({"templateKind", "paymentMethod", "defaultNarration", "purposeTemplate"})
          @@ Num({"legalEntityId", "branchId", "minAmount", "maxAmount",
          "defaultAccountId"}) @@ Bool({"requiresAttachment", "allowRecall",
          "postAfterFinalApproval", "allowPaymentExecution", "enableGateway"}) @@
          Anything({"approvalMatrix"}))) }

Statements == { "profit-or-loss", "financial-position", "cash-flow", "changes-in-equity",
                "notes" }

Dates == Str({"from", "to"})

Comparison == Dates @@ Str({"compareFrom", "compareTo"})

Scope == Numeral({"companyId", "branchId"})

ReportCalls ==
  { Fetch("getTrialBalance", <<"reports", "trial-balance">>, Given(NoFields, Dates @@ Scope)),
    Fetch("getRatioAnalysis", <<"reports", "ratio-analysis">>,
        Given(NoFields, Comparison @@ Scope)),
    Fetch("getAccountStatementSummary", <<"reports", "account-statement-summary">>,
        Given(NoFields, Dates @@ Scope)),
    Fetch("getAccountStatement", <<"reports", "account-statement">>,
        Given(Numeral({"accountId"}), Dates @@ Scope)) }

StatementCalls ==
  { Fetch("getFinancialStatement", <<"reports", "financial-statements", s>>,
        Given(NoFields, Comparison @@ Scope)) : s \in Statements }

(* The file of any report, with the parameters the pages pass.             *)
DownloadCalls ==
  { Fetch("downloadReportFile", path,
        Given(Str({"format"}) @@
                IF path[2] = "account-statement" THEN Numeral({"accountId"}) ELSE NoFields,
              Dates @@ Scope)) :
      path \in { <<"reports", r>> : r \in { "trial-balance", "account-statement-summary",
                                            "account-statement", "ratio-analysis" } }
              \cup { <<"reports", "financial-statements", s>> : s \in Statements } }

NotificationCalls == { Fetch("getNotifications", <<"notifications">>, Nothing) }

ImportCalls ==
  { Send("importChartOfAccounts", "POST", <<"imports", "chart-of-accounts">>,
        GivenWith(List({"rows"}), NoFields, "rows" :> ChartOfAccountsRow)),
    Send("importCustomers", "POST", <<"imports", "customers">>,
        GivenWith(Num({"companyId"}) @@ List({"rows"}), NoFields,
            "rows" :> CustomersRow)),
    Send("importSuppliers", "POST", <<"imports", "suppliers">>,
        GivenWith(Num({"companyId"}) @@ List({"rows"}), NoFields,
            "rows" :> SuppliersRow)),
    Send("importProducts", "POST", <<"imports", "products">>,
        GivenWith(Num({"companyId"}) @@ List({"rows"}), NoFields, "rows" :> ProductsRow)),
    Send("importTaxConfigs", "POST", <<"imports", "tax-configs">>,
        GivenWith(List({"rows"}), NoFields, "rows" :> TaxCodesRow)) }

MigrationCalls ==
  { Send("importGLOpeningBalances", "POST", <<"imports", "gl-opening-balances">>,
        GivenWith(Num({"companyId"}) @@ Str({"openingDate",
            "reference"}) @@ List({"rows"}), NoFields, "rows" :> GlOpeningBalancesRow)),
    Send("importAROpeningBalances", "POST", <<"imports", "ar-opening-balances">>,
        GivenWith(Num({"companyId"}) @@ Str({"openingDate"}) @@ List({"rows"}), NoFields,
            "rows" :> ArOpeningBalancesRow)),
    Send("importAPOpeningBalances", "POST", <<"imports", "ap-opening-balances">>,
        GivenWith(Num({"companyId"}) @@ Str({"openingDate"}) @@ List({"rows"}), NoFields,
            "rows" :> ApOpeningBalancesRow)),
    Send("importCustomerReceipts", "POST", <<"imports", "customer-receipts">>,
        GivenWith(Num({"companyId"}) @@ List({"rows"}), NoFields,
            "rows" :> CustomerReceiptsRow)),
    Send("importSupplierPayments", "POST", <<"imports", "supplier-payments">>,
        GivenWith(Num({"companyId"}) @@ List({"rows"}), NoFields,
            "rows" :> SupplierPaymentsRow)),
    Send("importFixedAssets", "POST", <<"imports", "fixed-assets">>,
        GivenWith(Num({"companyId"}) @@ Str({"asOfDate"}) @@ List({"rows"}), NoFields,
            "rows" :> FixedAssetsRow)),
    Send("importStockOpeningBalances", "POST", <<"imports", "stock-opening-balances">>,
        GivenWith(Num({"companyId"}) @@ Str({"openingDate"}) @@ List({"rows"}), NoFields,
            "rows" :> StockOpeningBalancesRow)) }

SettingsCalls ==
  { Fetch("getCompanySettings", <<"admin", "settings", ANumber>>, Nothing),
    Send("upsertCompanySettings", "PATCH", <<"admin", "settings", ANumber>>,
        Given(NoFields,
          Bool({"mfaAdmins", "mfaApprovers", "emailApprovals", "failedLoginAlerts"}) @@
          Num({"sessionTimeout", "failedAttempts"}))),
    Send("createApprovalRule", "POST", <<"admin", "approval-rules">>,
        Given(Num({"companyId"}) @@ Str({"module", "transaction", "approvers", "range"}),
          NoFields)),
    Fetch("listApprovalRules", <<"admin", "approval-rules">>,
        Given(Numeral({"companyId"}), NoFields)) }

ClientCalls ==
    HealthCalls \cup WorkspaceCalls \cup RefreshCalls \cup MfaCalls \cup
    VerifyLoginCalls \cup UserCalls \cup PasswordCalls \cup RoleCalls \cup
    FiscalCalls \cup CompanyCalls \cup CustomerCalls \cup ReceiptCalls \cup
    StockCalls \cup PurchaseCalls \cup TaxCalls \cup AssetCalls \cup
    LoanCalls \cup AccountCalls \cup LedgerCalls \cup JournalCalls \cup JournalSteps \cup
    VoucherCalls \cup VoucherSteps \cup VoucherPapers \cup ReportCalls \cup
    StatementCalls \cup DownloadCalls \cup NotificationCalls \cup
    ImportCalls \cup MigrationCalls \cup SettingsCalls

=============================================================================
