------------------------------ MODULE ApiRoutes -----------------------------
(***************************************************************************)
(* The controllers of apps/api/src, one definition each: the prefix, the   *)
(* security roles @RequireRole names, and the handlers in the order of the *)
(* class, each with its path, the permission @RequirePermissions names and *)
(* what it takes, the query for a GET and the body otherwise.              *)
(***************************************************************************)
EXTENDS ApiDtos

(* No permission, no role, no token: never a value a code, a role or a     *)
(* handler has.                                                            *)
None == "none"

(* A segment of a path: itself, a parameter converted with ParseIntPipe or *)
(* with Number, and, in what the client calls, the text of a number.       *)
Id == ":id"
Text == ":any"
ANumber == "1"

Handler(method, name, path, permission, takes) ==
    [ method |-> method, name |-> name, path |-> path, permission |-> permission,
      takes |-> takes, public |-> FALSE ]

Get(name, path, permission, takes)    == Handler("GET", name, path, permission, takes)
Post(name, path, permission, takes)   == Handler("POST", name, path, permission, takes)
Patch(name, path, permission, takes)  == Handler("PATCH", name, path, permission, takes)
Delete(name, path, permission, takes) == Handler("DELETE", name, path, permission, takes)

(* @Public: JwtAuthGuard lets it pass without a token.                     *)
Public(handler) == [handler EXCEPT !.public = TRUE]

Controller(prefix, roles, handlers) ==
    [ prefix |-> prefix, roles |-> roles, handlers |-> handlers ]

-----------------------------------------------------------------------------
(* The controllers.                                                        *)

HealthController ==
  Controller("health", {}, << Public(Get("check", <<>>, None, Unchecked)) >>)

AuthController ==
  Controller("auth", {}, <<
    Public(Post("register", <<"register">>, None, RegisterDto)),
    Public(Post("login", <<"login">>, None, LoginDto)),
    Public(Post("refresh", <<"refresh">>, None, Unchecked)),
    Post("logout", <<"logout">>, None, Unchecked),
    Get("mfaStatus", <<"mfa", "status">>, None, Unchecked),
    Post("mfaSetup", <<"mfa", "setup">>, None, Unchecked),
    Post("mfaActivate", <<"mfa", "activate">>, None, MfaVerifyDto),
    Post("mfaDisable", <<"mfa", "disable">>, None, MfaDisableDto),
    Public(Post("mfaVerifyLogin", <<"mfa", "verify-login">>, None, Unchecked)) >>)

UsersController ==
  Controller("users", {"ADMIN"}, <<
    Get("list", <<>>, "users:view", Unchecked),
    Get("get", <<Id>>, "users:view", Unchecked),
    Post("create", <<>>, "users:create", CreateUserDto),
    Patch("update", <<Id>>, "users:update", UpdateUserDto),
    Post("resetPassword", <<Id, "reset-password">>, "users:update", ResetPasswordDto),
    Delete("remove", <<Id>>, "users:update", Unchecked) >>)

OrgController ==
  Controller("org", {"ADMIN"}, <<
    Post("createCompany", <<"companies">>, "org:create", CreateCompanyDto),
    Get("listCompanies", <<"companies">>, "org:view", Unchecked),
    Patch("updateCompany", <<"companies", Id>>, "org:create", UpdateCompanyDto),
    Post("createBranch", <<"companies", Id, "branches">>, "org:create",
        CreateBranchDto),
    Post("cloneCompany", <<"companies", Id, "clone">>, "org:create",
        CloneCompanyDto) >>)

AccountingController ==
  Controller("accounting", {"ADMIN", "FINANCE"}, <<
    Post("createAccount", <<"accounts">>, "accounting:coa", CreateAccountDto),
    Get("listAccounts", <<"accounts">>, "accounting:coa", Unchecked),
    Post("postJournal", <<"journals">>, "accounting:journal", AccountingJournalDto),
    Get("listJournals", <<"journals">>, "accounting:journal", Unchecked),
    Post("postVoucher", <<"vouchers">>, "accounting:voucher", CreateVoucherDto),
    Get("listVouchers", <<"vouchers">>, "accounting:voucher", Unchecked) >>)

SalesController ==
  Controller("sales", {"ADMIN", "FINANCE"}, <<
    Post("createCustomer", <<"customers">>, "sales:view", CreateCustomerDto),
    Get("listCustomers", <<"customers">>, "sales:view", Unchecked),
    Patch("updateCustomer", <<"customers", Text>>, "sales:view", UpdateCustomerDto),
    Post("createInvoice", <<"invoices">>, "sales:view", CreateInvoiceDto),
    Get("listInvoices", <<"invoices">>, "sales:view", Unchecked),
    Get("getReceiptMetadata", <<"receipts", "metadata", "options", Text>>, "sales:view",
        Unchecked),
    Post("createReceipt", <<"receipts">>, "sales:view", CreateCustomerReceiptDto),
    Get("listReceipts", <<"receipts">>, "sales:view", Unchecked),
    Get("getReceipt", <<"receipts", Text>>, "sales:view", Unchecked),
    Post("postReceipt", <<"receipts", Text, "post">>, "sales:view",
        PostCustomerReceiptDto) >>)

PurchasesController ==
  Controller("purchases", {"ADMIN", "FINANCE", "WAREHOUSE"}, <<
    Post("createSupplier", <<"suppliers">>, "purchases:view", CreateSupplierDto),
    Get("listSuppliers", <<"suppliers">>, "purchases:view", Unchecked),
    Post("createBill", <<"bills">>, "purchases:view", CreateBillDto),
    Get("listBills", <<"bills">>, "purchases:view", Unchecked) >>)

InventoryController ==
  Controller("inventory", {"ADMIN", "FINANCE", "WAREHOUSE"}, <<
    Post("createProduct", <<"products">>, "inventory:view", CreateProductDto),
    Get("listProducts", <<"products">>, "inventory:view", Unchecked),
    Post("createWarehouse", <<"warehouses">>, "inventory:view", CreateWarehouseDto),
    Get("listWarehouses", <<"warehouses">>, "inventory:view", Unchecked),
    Post("moveStock", <<"stock-movements">>, "inventory:view", StockMoveDto),
    Get("stockLevels", <<"stock-levels">>, "inventory:view", Unchecked),
    Get("listStockMovements", <<"stock-movements">>, "inventory:view", Unchecked) >>)

ReportsController ==
  Controller("reports", {"ADMIN", "FINANCE", "VIEWER"}, <<
    Get("getTrialBalance", <<"trial-balance">>, "accounting:journal", ReportQueryDto),
    Get("getAccountStatementSummary", <<"account-statement-summary">>,
        "accounting:journal", ReportQueryDto),
    Get("getAccountStatement", <<"account-statement">>, "accounting:journal",
        AccountStatementQueryDto),
    Get("getFinancialStatement", <<"financial-statements", Text>>, "accounting:journal",
        ReportQueryDto),
    Get("getRatioAnalysis", <<"ratio-analysis">>, "accounting:journal",
        ReportQueryDto) >>)

AdminController ==
  Controller("admin", {"ADMIN"}, <<
    Post("createPermission", <<"permissions">>, "admin:roles", CreatePermissionDto),
    Post("createRole", <<"roles">>, "admin:roles", CreateRoleDto),
    Post("assignRoles", <<"users", Id, "roles">>, "admin:roles", AssignRoleDto),
    Get("listFiscalYears", <<"fiscal-years">>, "org:view",
        Loose(Numeric({"companyId"}))),
    Post("createFiscalYear", <<"fiscal-years">>, "org:create", CreateFiscalYearDto),
    Post("closeFiscalYear", <<"fiscal-years", Id, "close">>, "org:create",
        FiscalYearTransitionDto),
    Post("lockFiscalYear", <<"fiscal-years", Id, "lock">>, "org:create",
        FiscalYearTransitionDto),
    Patch("updateAccountingPeriodStatus", <<"accounting-periods", Id>>, "org:create",
        UpdateAccountingPeriodStatusDto),
    Get("getSettings", <<"settings", Id>>, "org:view", Unchecked),
    Patch("upsertSettings", <<"settings", Id>>, "org:create", UpsertCompanySettingsDto),
    Get("listApprovalRules", <<"approval-rules">>, "org:view",
        Loose(Numeric({"companyId"}))),
    Post("createApprovalRule", <<"approval-rules">>, "org:create",
        CreateApprovalRuleDto) >>)

FixedAssetsController ==
  Controller("fixed-assets", {"ADMIN", "FINANCE"}, <<
    Post("createCategory", <<"categories">>, "fixed_assets:create",
        CreateAssetCategoryDto),
    Get("listCategories", <<"categories">>, "fixed_assets:view", Unchecked),
    Post("createAsset", <<"assets">>, "fixed_assets:create", CreateAssetDto),
    Get("listAssets", <<"assets">>, "fixed_assets:view", Unchecked) >>)

DepreciationController ==
  Controller("depreciation", {"ADMIN", "FINANCE"}, <<
    Post("createPolicy", <<"policies">>, "depreciation:policy", CreateDepPolicyDto),
    Get("listPolicies", <<"policies">>, "depreciation:policy", Unchecked),
    Post("run", <<"runs">>, "depreciation:run", RunDepreciationDto) >>)

LoansController ==
  Controller("loans", {"ADMIN", "FINANCE"}, <<
    Post("createLoan", <<>>, "loans:create", CreateLoanDto),
    Get("listLoans", <<>>, "loans:view", Unchecked),
    Post("recordPayment", <<"payments">>, "loans:pay", CreateLoanPaymentDto) >>)

TaxController ==
  Controller("tax", {"ADMIN", "FINANCE"}, <<
    Get("listConfigs", <<"configs">>, "org:view", ListTaxConfigsDto),
    Post("createConfig", <<"configs">>, "org:create", CreateTaxConfigDto),
    Patch("updateConfig", <<"configs", Id>>, "org:create", UpdateTaxConfigDto),
    Get("dashboard", <<"dashboard">>, "org:view", TaxReportQueryDto),
    Get("activity", <<"activity">>, "org:view", TaxReportQueryDto) >>)

ImportsController ==
  Controller("imports", {"ADMIN", "FINANCE", "WAREHOUSE"}, <<
    Post("importChartOfAccounts", <<"chart-of-accounts">>, "accounting:coa",
        BulkImportAccountsDto),
    Post("importCustomers", <<"customers">>, "sales:view", BulkImportCustomersDto),
    Post("importSuppliers", <<"suppliers">>, "purchases:view", BulkImportSuppliersDto),
    Post("importProducts", <<"products">>, "inventory:view", BulkImportProductsDto),
    Post("importTaxConfigs", <<"tax-configs">>, "org:create", BulkImportTaxConfigsDto),
    Post("importBranches", <<"branches">>, "org:create", BulkImportBranchesDto),
    Post("importDepartments", <<"departments">>, "org:create",
        BulkImportDepartmentsDto),
    Post("importWarehouses", <<"warehouses">>, "inventory:view",
        BulkImportWarehousesDto),
    Post("importBankAccounts", <<"bank-accounts">>, "finance:view",
        BulkImportBankAccountsDto),
    Post("importAssetCategories", <<"asset-categories">>, "finance:view",
        BulkImportAssetCategoriesDto),
    Post("importGLOpeningBalances", <<"gl-opening-balances">>, "accounting:journal",
        BulkImportGLOpeningBalancesDto),
    Post("importAROpeningBalances", <<"ar-opening-balances">>, "sales:view",
        BulkImportAROpeningBalancesDto),
    Post("importAPOpeningBalances", <<"ap-opening-balances">>, "purchases:view",
        BulkImportAPOpeningBalancesDto),
    Post("importCustomerReceipts", <<"customer-receipts">>, "sales:view",
        BulkImportCustomerReceiptsDto),
    Post("importSupplierPayments", <<"supplier-payments">>, "purchases:view",
        BulkImportSupplierPaymentsDto),
    Post("importFixedAssets", <<"fixed-assets">>, "fixed_assets:create",
        BulkImportFixedAssetsDto),
    Post("importStockOpeningBalances", <<"stock-opening-balances">>, "inventory:view",
        BulkImportStockOpeningBalancesDto) >>)

JournalsController ==
  Controller("journals", {"ADMIN", "FINANCE"}, <<
    Get("list", <<>>, "accounting:journal", ListJournalsQueryDto),
    Get("metadata", <<"metadata", "options">>, "accounting:journal",
        Loose(Numeric({"legalEntityId"}))),
    Post("createDraft", <<>>, "accounting:journal", CreateJournalDto),
    Patch("updateDraft", <<Text>>, "accounting:journal", UpdateJournalDto),
    Post("validate", <<Text, "validate">>, "accounting:journal", ValidateJournalDto),
    Post("submit", <<Text, "submit">>, "accounting:journal", Unchecked),
    Post("recall", <<Text, "recall">>, "accounting:journal", Unchecked),
    Post("approve", <<Text, "approve">>, "accounting:journal", ApproveJournalDto),
    Post("reject", <<Text, "reject">>, "accounting:journal", RejectJournalDto),
    Post("post", <<Text, "post">>, "accounting:journal", Unchecked),
    Post("reverse", <<Text, "reverse">>, "accounting:journal", ReverseJournalDto),
    Post("cancel", <<Text, "cancel">>, "accounting:journal", CancelJournalDto),
    Get("listTemplates", <<"templates", "all">>, "accounting:journal", Unchecked),
    Post("createTemplate", <<"templates">>, "accounting:journal",
        CreateRecurringJournalTemplateDto),
    Post("generateFromTemplate", <<"templates", Text, "generate">>,
        "accounting:journal", GenerateRecurringJournalDto),
    Get("getById", <<Text>>, "accounting:journal", Unchecked) >>)

PaymentVouchersController ==
  Controller("payment-vouchers", {"ADMIN", "FINANCE"}, <<
    Get("list", <<>>, "accounting:voucher", ListPaymentVouchersQueryDto),
    Get("queue", <<"queue">>, "accounting:voucher", Unchecked),
    Get("metadata", <<"metadata", "options">>, "accounting:voucher",
        Loose(Numeric({"legalEntityId"}))),
    Post("createDraft", <<>>, "accounting:voucher", CreatePaymentVoucherDto),
    Patch("updateDraft", <<Id>>, "accounting:voucher", UpdatePaymentVoucherDto),
    Post("validate", <<Id, "validate">>, "accounting:voucher",
        ValidatePaymentVoucherDto),
    Post("submit", <<Id, "submit">>, "accounting:voucher", Unchecked),
    Post("recall", <<Id, "recall">>, "accounting:voucher", RecallPaymentVoucherDto),
    Post("approve", <<Id, "approve">>, "accounting:voucher", ApprovePaymentVoucherDto),
    Post("reject", <<Id, "reject">>, "accounting:voucher", RejectPaymentVoucherDto),
    Post("returnForCorrection", <<Id, "return">>, "accounting:voucher",
        ReturnPaymentVoucherDto),
    Post("postToGl", <<Id, "post">>, "accounting:voucher", Unchecked),
    Post("initiatePayment", <<Id, "initiate-payment">>, "accounting:voucher",
        InitiatePaymentDto),
    Post("markPaid", <<Id, "mark-paid">>, "accounting:voucher", MarkVoucherPaidDto),
    Post("cancel", <<Id, "cancel">>, "accounting:voucher", CancelPaymentVoucherDto),
    Post("addComment", <<Id, "comments">>, "accounting:voucher", VoucherCommentDto),
    Get("preview", <<Id, "preview">>, "accounting:voucher", Unchecked),
    Post("uploadAttachment", <<Id, "attachments", "upload">>, "accounting:voucher",
        Unchecked),
    Get("listTemplates", <<"templates", "all">>, "accounting:voucher", Unchecked),
    Post("createTemplate", <<"templates">>, "accounting:voucher",
        CreatePaymentTemplateDto),
    Get("getById", <<Id>>, "accounting:voucher", Unchecked) >>)

Controllers ==
  { HealthController, AuthController, UsersController, OrgController,
    AccountingController, SalesController, PurchasesController, InventoryController,
    ReportsController, AdminController, FixedAssetsController, DepreciationController,
    LoansController, TaxController, ImportsController, JournalsController,
    PaymentVouchersController }

-----------------------------------------------------------------------------
(* Routing: the first segment names the controller, and of its handlers    *)
(* the first declared that matches takes the request.                      *)

Matches(handler, method, path) ==
    /\ handler.method = method
    /\ Len(handler.path) = Len(path)
    /\ \A k \in DOMAIN path : handler.path[k] \in {path[k], Id, Text}

Candidates(controller, method, path) ==
    { k \in DOMAIN controller.handlers : Matches(controller.handlers[k], method, path) }

(* A slip: the last.                                                       *)
LastOf(candidates) == CHOOSE k \in candidates : \A l \in candidates : l <= k

FirstOf(candidates) == CHOOSE k \in candidates : \A l \in candidates : k <= l

(* What a request meets: a route, or none.                                 *)
NoRoute == [ found |-> FALSE, handler |-> None, permission |-> None, roles |-> {},
             public |-> FALSE, takes |-> Unchecked, numbers |-> TRUE ]

RouteIn(controller, method, path) ==
    LET handler == controller.handlers[FirstOf(Candidates(controller, method, path))]
    IN  [ found |-> TRUE, handler |-> handler.name, permission |-> handler.permission,
          roles |-> controller.roles, public |-> handler.public, takes |-> handler.takes,
          numbers |-> \A k \in DOMAIN path : handler.path[k] = Id => path[k] = ANumber ]

RouteOf(method, path) ==
    IF \E c \in Controllers : c.prefix = path[1] /\ Candidates(c, method, Tail(path)) # {}
    THEN RouteIn(CHOOSE c \in Controllers : c.prefix = path[1], method, Tail(path))
    ELSE NoRoute

=============================================================================
