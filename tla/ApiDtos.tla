------------------------------ MODULE ApiDtos -------------------------------
(***************************************************************************)
(* The DTO classes of apps/api/src/modules, one definition each: the       *)
(* fields a body or a query must and may have.  The line and journal of    *)
(* accounting/dto.ts are named AccountingLineDto and AccountingJournalDto, *)
(* their names being those of journals.dto.ts too.                         *)
(***************************************************************************)
EXTENDS ApiShapes

-----------------------------------------------------------------------------
(* auth                                                                    *)

RegisterDto == Dto(Str({"email", "password"}), Str({"firstName", "lastName", "role"}))
LoginDto == Dto(Str({"email", "password"}), NoFields)
MfaVerifyDto == Undecorated
MfaDisableDto == Undecorated

-----------------------------------------------------------------------------
(* users                                                                   *)

CreateUserDto ==
  Dto(Str({"email", "password"}),
      Str({"firstName", "lastName", "role"}) @@ Bool({"isActive"}))
UpdateUserDto ==
  Dto(NoFields,
      Str({"email", "firstName", "lastName"}) @@ Bool({"isActive"}))
ResetPasswordDto == Dto(Str({"password"}), NoFields)

-----------------------------------------------------------------------------
(* admin                                                                   *)

CreateRoleDto == Dto(Str({"name"}), Str({"description"}) @@ List({"permissions"}))
CreatePermissionDto == Dto(Str({"code"}), Str({"description"}))
AssignRoleDto == Dto(List({"roles"}), NoFields)
CreateFiscalYearDto ==
  Dto(Num({"companyId"}) @@ Str({"name", "startDate", "endDate"}),
      Bool({"generateMonthlyPeriods"}))
UpdateAccountingPeriodStatusDto == Dto(Str({"status"}), Str({"reason"}))
FiscalYearTransitionDto == Dto(NoFields, Str({"reason"}))
UpsertCompanySettingsDto == Undecorated
CreateApprovalRuleDto == Undecorated

-----------------------------------------------------------------------------
(* org                                                                     *)

CreateCompanyDto ==
  Dto(Str({"name", "code"}),
      Str({"legalName", "registrationNumber", "taxId", "email", "phone", "addressLine1",
      "addressLine2", "city", "state", "country", "currencyCode", "logoUrl", "timezone",
      "defaultBranchName", "defaultBranchCode"}) @@ Num({"fiscalYearStartMonth"}) @@
      Bool({"isActive", "useBranches", "useInventory", "usePayroll", "useDepartments"}))
CreateBranchDto == Dto(Str({"name", "code"}), NoFields)
CloneCompanyDto == Dto(Str({"name"}), Str({"code", "branchCodePrefix"}))
UpdateCompanyDto ==
  Dto(NoFields,
      Str({"name", "legalName", "code", "registrationNumber", "taxId", "email", "phone",
      "addressLine1", "addressLine2", "city", "state", "country", "currencyCode",
      "logoUrl", "timezone"}) @@ Num({"fiscalYearStartMonth"}) @@ Bool({"isActive",
      "useBranches", "useInventory", "usePayroll", "useDepartments"}))

-----------------------------------------------------------------------------
(* accounting                                                              *)

CreateAccountDto == Dto(Str({"code", "name", "type"}), Num({"parentId"}))
AccountingLineDto ==
  Dto(Num({"accountId"}), Num({"debit", "credit", "branchId"}) @@ Str({"memo"}))
AccountingJournalDto ==
  Nested(Str({"date"}) @@ List({"lines"}),
      Str({"reference", "description", "type"}),
      "lines" :> AccountingLineDto)
CreateVoucherDto ==
  Nested(Str({"type", "date"}) @@ Num({"amount"}),
      Str({"reference", "payee", "memo"}) @@ List({"lines"}),
      "lines" :> AccountingLineDto)

-----------------------------------------------------------------------------
(* sales                                                                   *)

CreateCustomerDto ==
  Dto(Numeric({"companyId"}) @@ Str({"name"}),
      Str({"email", "phone", "customerType", "onboardingStatus", "contactPerson",
      "industry", "taxId", "addressLine1", "city", "state", "country"}) @@
      Num({"creditLimit"}))
UpdateCustomerDto ==
  Dto(NoFields,
      Str({"name", "email", "phone", "customerType", "onboardingStatus",
      "contactPerson", "industry", "taxId", "addressLine1", "city", "state", "country"})
      @@ Num({"creditLimit"}))
SalesItemDto == Dto(Num({"productId", "quantity", "unitPrice"}), Num({"taxRate"}))
CreateInvoiceDto ==
  Nested(Numeric({"legalEntityId"}) @@ Num({"customerId"}) @@ Str({"date"}) @@
      List({"items"}),
      Str({"dueDate"}) @@ Num({"warehouseId", "arAccountId", "revenueAccountId",
      "taxAccountId"}),
      "items" :> SalesItemDto)
CustomerReceiptLineDto ==
  Dto(Str({"description"}) @@ Numeric({"appliedAmount"}),
      Numeric({"invoiceId"}))
CreateCustomerReceiptDto ==
  Nested(Numeric({"legalEntityId", "branchId", "customerId", "receivableAccountId"}) @@
      Str({"paymentMethod", "paymentDate", "postingDate", "currencyCode", "narration"})
      @@ List({"lines"}),
      Numeric({"bankAccountId", "cashAccountId", "exchangeRate"}) @@
      Str({"bankReference", "externalReference", "remarks"}),
      "lines" :> CustomerReceiptLineDto)
PostCustomerReceiptDto == Dto(NoFields, Str({"narration"}))

-----------------------------------------------------------------------------
(* purchases                                                               *)

CreateSupplierDto ==
  Dto(Numeric({"companyId"}) @@ Str({"name"}),
      Str({"email", "phone"}))
PurchaseItemDto == Dto(Num({"productId", "quantity", "unitCost"}), Num({"taxRate"}))
CreateBillDto ==
  Nested(Numeric({"legalEntityId"}) @@ Num({"supplierId"}) @@ Str({"date"}) @@
      List({"items"}),
      Str({"dueDate"}) @@ Num({"warehouseId", "apAccountId", "expenseAccountId",
      "taxAccountId"}),
      "items" :> PurchaseItemDto)

-----------------------------------------------------------------------------
(* inventory                                                               *)

CreateProductDto ==
  Dto(Numeric({"companyId"}) @@ Str({"name", "sku"}),
      Num({"categoryId", "uomId"}))
CreateWarehouseDto == Dto(Str({"name"}) @@ Num({"branchId"}), NoFields)
StockMoveDto ==
  Dto(Num({"productId", "warehouseId", "quantity"}) @@ Str({"direction"}),
      Str({"reference"}))

-----------------------------------------------------------------------------
(* journals                                                                *)

JournalAttachmentDto == Dto(Str({"fileName", "fileUrl"}), Str({"mimeType"}))
JournalLineDto ==
  Dto(Num({"accountId"}),
      Str({"subledgerType", "subledgerId", "transactionCurrencyCode", "itemId",
      "unitOfMeasure", "lineNarration", "reference1", "reference2", "dueDate",
      "partnerName", "partnerCode"}) @@ Num({"debitAmount", "creditAmount",
      "exchangeRate", "taxCodeId", "taxAmount", "branchId", "departmentId",
      "costCenterId", "projectId", "productId", "warehouseId", "quantity"}))
CreateJournalDto ==
  Nested(Str({"journalType", "journalDate", "postingDate", "currencyCode", "narration"}) @@
      Num({"legalEntityId", "branchId", "accountingPeriodId"}) @@ List({"lines"}),
      Str({"sourceType", "sourceModule", "sourceDocumentId", "sourceDocumentNumber",
      "referenceNumber", "externalReference", "description", "autoReverseDate",
      "intercompanyReference", "idempotencyKey"}) @@ Num({"departmentId",
      "costCenterId", "projectId", "fiscalYearId", "exchangeRate",
      "recurringTemplateId"}) @@ Bool({"isAutoReversing", "isRecurring",
      "isIntercompany"}) @@ List({"attachments"}),
      "attachments" :> JournalAttachmentDto @@ "lines" :> JournalLineDto)
UpdateJournalDto ==
  Nested(NoFields,
      Str({"journalType", "journalDate", "postingDate", "currencyCode",
      "referenceNumber", "externalReference", "narration", "description",
      "autoReverseDate", "intercompanyReference"}) @@ Num({"legalEntityId", "branchId",
      "departmentId", "costCenterId", "projectId", "accountingPeriodId", "fiscalYearId",
      "exchangeRate"}) @@ Bool({"isAutoReversing", "isRecurring", "isIntercompany"}) @@
      List({"attachments", "lines"}),
      "attachments" :> JournalAttachmentDto @@ "lines" :> JournalLineDto)
ListJournalsQueryDto ==
  Dto(NoFields,
      Str({"search", "dateFrom", "dateTo", "status", "journalType", "sourceModule"}) @@
      Numeric({"branchId", "createdBy", "minAmount", "maxAmount"}))
ValidateJournalDto == Dto(NoFields, Bool({"strict"}))
ApproveJournalDto == Dto(NoFields, Str({"comments"}))
RejectJournalDto == Dto(Str({"reason"}), Str({"comments"}))
ReverseJournalDto == Dto(Str({"reversalDate", "reason"}), Bool({"fullReversal"}))
CancelJournalDto == Dto(Str({"reason"}), NoFields)
CreateRecurringJournalTemplateDto ==
  Nested(Str({"templateName", "journalType", "frequency", "currencyCode", "startDate",
      "narrationTemplate"}) @@ Num({"legalEntityId", "branchId"}) @@ List({"lines"}),
      Num({"departmentId", "costCenterId", "projectId"}) @@ Str({"endDate",
      "description", "nextRunDate"}) @@ Bool({"isActive"}),
      "lines" :> JournalLineDto)
GenerateRecurringJournalDto ==
  Dto(Str({"journalDate", "postingDate"}) @@ Num({"accountingPeriodId"}),
      Num({"fiscalYearId"}) @@ Str({"referenceNumber"}))

-----------------------------------------------------------------------------
(* payment-vouchers                                                        *)

PaymentVoucherAttachmentDto == Dto(Str({"fileName", "fileUrl"}), Str({"mimeType"}))
PaymentVoucherLineDto ==
  Dto(Str({"lineType", "description"}) @@ Num({"accountId", "grossAmount", "netAmount"}),
      Str({"subledgerType", "subledgerId", "sourceInvoiceId", "sourceInvoiceNumber",
      "sourceExpenseClaimId", "dueDate"}) @@ Num({"taxCodeId", "taxAmount",
      "withholdingTaxCodeId", "withholdingTaxAmount", "branchId", "departmentId",
      "costCenterId", "projectId"}))
CreatePaymentVoucherDto ==
  Nested(Str({"voucherType", "beneficiaryType", "beneficiaryName", "paymentMethod",
      "currencyCode", "voucherDate", "requestedPaymentDate", "postingDate", "narration",
      "purposeOfPayment"}) @@ Num({"legalEntityId", "branchId", "accountingPeriodId"})
      @@ List({"lines"}),
      Str({"sourceType", "sourceModule", "sourceDocumentId", "sourceDocumentNumber",
      "beneficiaryId", "beneficiaryCode", "paymentChannel", "referenceNumber",
      "externalReference", "invoiceReference", "idempotencyKey"}) @@
      Num({"departmentId", "costCenterId", "projectId", "supplierId",
      "payableAccountId", "bankAccountId", "cashAccountId", "exchangeRate",
      "fiscalYearId", "templateId"}) @@ Bool({"requiresAttachment"}) @@
      List({"attachments"}),
      "attachments" :> PaymentVoucherAttachmentDto @@ "lines" :> PaymentVoucherLineDto)
UpdatePaymentVoucherDto ==
  Nested(NoFields,
      Str({"voucherType", "beneficiaryType", "beneficiaryId", "beneficiaryName",
      "beneficiaryCode", "paymentMethod", "paymentChannel", "currencyCode",
      "voucherDate", "requestedPaymentDate", "postingDate", "referenceNumber",
      "externalReference", "invoiceReference", "narration", "purposeOfPayment"}) @@
      Num({"legalEntityId", "branchId", "departmentId", "costCenterId", "projectId",
      "supplierId", "payableAccountId", "bankAccountId", "cashAccountId",
      "exchangeRate", "accountingPeriodId", "fiscalYearId", "templateId"}) @@
      Bool({"requiresAttachment"}) @@ List({"attachments", "lines"}),
      "attachments" :> PaymentVoucherAttachmentDto @@ "lines" :> PaymentVoucherLineDto)
ListPaymentVouchersQueryDto ==
  Dto(NoFields,
      Str({"search", "dateFrom", "dateTo", "status", "paymentStatus", "voucherType"}) @@
      Numeric({"branchId", "createdBy", "currentApproverId", "minAmount", "maxAmount"}))
VoucherCommentDto == Dto(Str({"body"}), Str({"commentType"}))
ApprovePaymentVoucherDto == Dto(NoFields, Str({"comments"}))
RejectPaymentVoucherDto == Dto(Str({"rejectionReason"}), Str({"comments"}))
ReturnPaymentVoucherDto == Dto(Str({"reason"}), NoFields)
CancelPaymentVoucherDto == Dto(Str({"reason"}), NoFields)
RecallPaymentVoucherDto == Dto(NoFields, Str({"reason"}))
InitiatePaymentDto ==
  Dto(NoFields,
      Str({"paymentChannel", "providerName", "providerReference"}))
MarkVoucherPaidDto == Dto(NoFields, Str({"bankReference", "proofFileUrl", "comments"}))
ValidatePaymentVoucherDto == Dto(NoFields, Bool({"requireAttachments"}))
CreatePaymentTemplateDto ==
  Dto(Str({"name", "voucherType"}),
      Str({"templateKind", "paymentMethod", "defaultNarration", "purposeTemplate"}) @@
      Num({"legalEntityId", "branchId", "minAmount", "maxAmount", "defaultAccountId"})
      @@ Bool({"requiresAttachment", "allowRecall", "postAfterFinalApproval",
      "allowPaymentExecution", "enableGateway"}) @@ Anything({"approvalMatrix"}))

-----------------------------------------------------------------------------
(* tax                                                                     *)

ListTaxConfigsDto == Dto(Numeric({"companyId"}), NoFields)
CreateTaxConfigDto ==
  Dto(Numeric({"companyId", "rate"}) @@ Str({"code", "name"}) @@ Bool({"isInclusive"}),
      Str({"taxType", "filingFrequency"}) @@ Bool({"recoverable"}) @@
      Numeric({"outputAccountId", "inputAccountId", "liabilityAccountId"}))
UpdateTaxConfigDto ==
  Dto(NoFields,
      Str({"code", "name", "taxType", "filingFrequency"}) @@ Numeric({"rate",
      "outputAccountId", "inputAccountId", "liabilityAccountId"}) @@
      Bool({"isInclusive", "recoverable"}))
TaxReportQueryDto == Dto(Numeric({"companyId"}), Str({"from", "to"}))

-----------------------------------------------------------------------------
(* loans                                                                   *)

CreateLoanDto ==
  Dto(Str({"code", "lender", "type", "startDate", "scheduleType"}) @@ Num({"principal"}),
      Str({"endDate"}) @@ Num({"baseRate", "spread"}))
CreateLoanPaymentDto ==
  Dto(Num({"loanId", "principalPaid", "interestPaid"}) @@ Str({"paymentDate"}),
      Num({"feesPaid"}))

-----------------------------------------------------------------------------
(* fixed-assets                                                            *)

CreateAssetCategoryDto ==
  Dto(Str({"name", "depreciationMethod"}) @@ Num({"usefulLifeMonths"}),
      Num({"residualRate", "glAssetAccountId", "glAccumDepAccountId",
      "glExpenseAccountId"}))
CreateAssetDto ==
  Dto(Str({"name", "tag", "acquisitionDate"}) @@ Num({"categoryId", "acquisitionCost"}),
      Num({"branchId", "residualValue"}))

-----------------------------------------------------------------------------
(* depreciation                                                            *)

CreateDepPolicyDto == Dto(Str({"name", "method"}), Num({"companyId"}))
RunDepreciationDto == Dto(Str({"periodStart", "periodEnd"}), Str({"book"}))

-----------------------------------------------------------------------------
(* imports                                                                 *)

ImportAccountRowDto ==
  Dto(Str({"code", "name", "type"}),
      Str({"description", "parentCode", "controlSource"}) @@ Bool({"isActive",
      "allowsPosting", "isControlAccount"}))
ImportPartyRowDto ==
  Dto(Str({"name"}),
      Str({"email", "phone", "line1", "city", "state", "country", "postalCode"}))
ImportProductRowDto ==
  Dto(Str({"sku", "name"}),
      Str({"category", "uom"}) @@ Bool({"isActive"}))
ImportTaxConfigRowDto ==
  Dto(Numeric({"companyId", "rate"}) @@ Str({"code", "name"}),
      Str({"taxType", "filingFrequency", "outputAccountCode", "inputAccountCode",
      "liabilityAccountCode"}) @@ Bool({"isInclusive", "recoverable"}))
ImportBranchRowDto == Dto(Str({"companyCode", "branchCode", "branchName"}), NoFields)
ImportDepartmentRowDto == Dto(Str({"companyCode", "departmentName"}), NoFields)
ImportWarehouseRowDto == Dto(Str({"branchCode", "warehouseName"}), NoFields)
ImportBankAccountRowDto ==
  Dto(Str({"companyCode", "branchCode", "bankName", "accountName", "accountNumber",
      "currencyCode", "glAccountCode"}),
      Bool({"isActive"}))
ImportAssetCategoryRowDto ==
  Dto(Str({"name", "depreciationMethod"}) @@ Numeric({"usefulLifeMonths",
      "residualRate"}),
      NoFields)
BulkImportAccountsDto == Nested(List({"rows"}), NoFields, "rows" :> ImportAccountRowDto)
BulkImportCustomersDto ==
  Nested(Numeric({"companyId"}) @@ List({"rows"}),
      NoFields,
      "rows" :> ImportPartyRowDto)
BulkImportSuppliersDto ==
  Nested(Numeric({"companyId"}) @@ List({"rows"}),
      NoFields,
      "rows" :> ImportPartyRowDto)
BulkImportProductsDto ==
  Nested(Numeric({"companyId"}) @@ List({"rows"}),
      NoFields,
      "rows" :> ImportProductRowDto)
BulkImportTaxConfigsDto ==
  Nested(List({"rows"}),
      NoFields,
      "rows" :> ImportTaxConfigRowDto)
BulkImportBranchesDto == Nested(List({"rows"}), NoFields, "rows" :> ImportBranchRowDto)
BulkImportDepartmentsDto ==
  Nested(List({"rows"}),
      NoFields,
      "rows" :> ImportDepartmentRowDto)
BulkImportWarehousesDto ==
  Nested(List({"rows"}),
      NoFields,
      "rows" :> ImportWarehouseRowDto)
BulkImportBankAccountsDto ==
  Nested(List({"rows"}),
      NoFields,
      "rows" :> ImportBankAccountRowDto)
BulkImportAssetCategoriesDto ==
  Nested(List({"rows"}),
      NoFields,
      "rows" :> ImportAssetCategoryRowDto)
ImportGLOpeningBalanceRowDto ==
  Dto(Str({"accountCode", "accountName"}) @@ Numeric({"debit", "credit"}),
      Str({"type", "branchCode", "narration"}))
BulkImportGLOpeningBalancesDto ==
  Nested(Numeric({"companyId"}) @@ Str({"openingDate", "reference"}) @@ List({"rows"}),
      Str({"narration"}),
      "rows" :> ImportGLOpeningBalanceRowDto)
ImportAROpeningBalanceRowDto ==
  Dto(Str({"customerName", "invoiceNumber", "invoiceDate", "dueDate"}) @@
      Numeric({"amount", "outstanding"}),
      Str({"customerEmail", "currencyCode", "narration"}))
BulkImportAROpeningBalancesDto ==
  Nested(Numeric({"companyId"}) @@ Str({"openingDate"}) @@ List({"rows"}),
      NoFields,
      "rows" :> ImportAROpeningBalanceRowDto)
ImportAPOpeningBalanceRowDto ==
  Dto(Str({"supplierName", "billNumber", "billDate", "dueDate"}) @@ Numeric({"amount",
      "outstanding"}),
      Str({"supplierEmail", "currencyCode", "narration"}))
BulkImportAPOpeningBalancesDto ==
  Nested(Numeric({"companyId"}) @@ Str({"openingDate"}) @@ List({"rows"}),
      NoFields,
      "rows" :> ImportAPOpeningBalanceRowDto)
ImportCustomerReceiptRowDto ==
  Dto(Str({"customerName", "receiptNumber", "receiptDate"}) @@ Numeric({"amount"}),
      Str({"invoiceReference", "paymentMethod", "bankAccountCode", "narration"}))
BulkImportCustomerReceiptsDto ==
  Nested(Numeric({"companyId"}) @@ List({"rows"}),
      NoFields,
      "rows" :> ImportCustomerReceiptRowDto)
ImportSupplierPaymentRowDto ==
  Dto(Str({"supplierName", "paymentReference", "paymentDate"}) @@ Numeric({"amount"}),
      Str({"billReference", "paymentMethod", "bankAccountCode", "narration"}))
BulkImportSupplierPaymentsDto ==
  Nested(Numeric({"companyId"}) @@ List({"rows"}),
      NoFields,
      "rows" :> ImportSupplierPaymentRowDto)
ImportFixedAssetRowDto ==
  Dto(Str({"assetCode", "assetName", "category", "acquisitionDate"}) @@
      Numeric({"costPrice", "accumulatedDepreciation", "netBookValue"}),
      Str({"depreciationMethod", "assetAccountCode", "depreciationAccountCode",
      "location", "serialNumber", "narration"}) @@ Numeric({"usefulLifeYears"}))
BulkImportFixedAssetsDto ==
  Nested(Numeric({"companyId"}) @@ Str({"asOfDate"}) @@ List({"rows"}),
      NoFields,
      "rows" :> ImportFixedAssetRowDto)
ImportStockOpeningBalanceRowDto ==
  Dto(Str({"sku", "productName", "warehouseName"}) @@ Numeric({"quantity", "unitCost",
      "totalValue"}),
      Str({"uom", "inventoryAccountCode", "narration"}))
BulkImportStockOpeningBalancesDto ==
  Nested(Numeric({"companyId"}) @@ Str({"openingDate"}) @@ List({"rows"}),
      NoFields,
      "rows" :> ImportStockOpeningBalanceRowDto)

-----------------------------------------------------------------------------
(* reports                                                                 *)

ReportQueryDto ==
  Dto(NoFields,
      Str({"from", "to", "compareFrom", "compareTo", "format"}) @@ Numeric({"companyId",
      "branchId", "fiscalYearId"}))
AccountStatementQueryDto ==
  [ReportQueryDto EXCEPT !.required = Numeric({"accountId"}) @@ @]

=============================================================================
