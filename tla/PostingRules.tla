---------------------------- MODULE PostingRules ----------------------------
(***************************************************************************)
(* The posting engine's algorithms: which rule of the posting matrix       *)
(* applies to a document, whether the document may be posted under it, and *)
(* which journal lines it gives:                                           *)
(* apps/api/src/modules/posting/posting.service.ts.                        *)
(*                                                                         *)
(* Amounts are integers of a hundred-thousandth of a cent, so that the     *)
(* engine keeps the fractions it computes with and the database (two       *)
(* decimals) loses them.                                                   *)
(***************************************************************************)
EXTENDS Integers, Sequences, FiniteSets, SequencesExt, Sums

CONSTANTS
    None,      \* a column that is null, or a field that is not given
    Chart      \* Account rows: what each account allows

Cent == 100000

(* A Decimal(18, 2) column keeps whole cents, halves away from zero. *)
Stored(amount) ==
    IF amount >= 0 THEN ((amount + Cent \div 2) \div Cent) * Cent
                   ELSE -(((Cent \div 2 - amount) \div Cent) * Cent)

-----------------------------------------------------------------------------
(* Which rule applies.                                                     *)

Dimensions ==
    { "legalEntity", "branch", "department", "productCategory",
      "customerGroup", "vendorGroup", "taxCode", "currency" }

(* matchesOptional: a rule that leaves a dimension open matches any. *)
MatchesOptional(ruleValue, contextValue) ==
    ruleValue = None \/ ruleValue = contextValue

IsCandidate(rule, context) ==
    /\ rule.module = context.module
    /\ rule.transactionType = context.transactionType
    /\ rule.transactionSubtype = context.transactionSubtype
    /\ rule.status = "ACTIVE"
    /\ rule.effectiveStartDate <= context.postingDate
    /\ \/ rule.effectiveEndDate = None
       \/ context.postingDate <= rule.effectiveEndDate

Scoped(rules, context) ==
    { rule \in rules :
        /\ IsCandidate(rule, context)
        /\ \A d \in Dimensions : MatchesOptional(rule.scope[d], context.scope[d]) }

(* How many dimensions the rule fixes. *)
Score(rule) == Cardinality({ d \in Dimensions : rule.scope[d] # None })

TopRanked(rules, context) ==
    { rule \in Scoped(rules, context) :
        \A other \in Scoped(rules, context) : Score(other) <= Score(rule) }

(* resolveRule: none that matches, or two of the same rank, is an error.   *)
Resolves(rules, context) == Cardinality(TopRanked(rules, context)) = 1

ResolveRule(rules, context) ==
    CHOOSE rule \in TopRanked(rules, context) : TRUE

-----------------------------------------------------------------------------
(* Whether the document may be posted under the rule.                      *)

(* validateAccount *)
AccountAllowed(account, module) ==
    /\ Chart[account].isActive
    /\ Chart[account].allowsPosting
    /\ Chart[account].controlSource \in {None, module}

(* validateContext, but for the accounting period. *)
ContextValid(context, amounts, rule) ==
    /\ context.sourceStatus \in {"APPROVED", "OPEN", "POSTED"}
    /\ "branch" \in rule.requires => context.scope["branch"] # None
    /\ "tax" \in rule.requires =>
          context.scope["taxCode"] # None \/ rule.taxAccount # None
    /\ (rule.requires \ {"branch", "tax"}) \subseteq context.given
    /\ AccountAllowed(rule.debitAccount, context.module)
    /\ AccountAllowed(rule.creditAccount, context.module)
    /\ amounts.tax > 0 =>
          /\ rule.taxAccount # None
          /\ AccountAllowed(rule.taxAccount, context.module)

-----------------------------------------------------------------------------
(* The journal lines.                                                      *)

Dr(account, amount, memo) ==
    << [account |-> account, debit |-> amount, credit |-> 0, memo |-> memo] >>

Cr(account, amount, memo) ==
    << [account |-> account, debit |-> 0, credit |-> amount, memo |-> memo] >>

When(condition, lines) == IF condition THEN lines ELSE <<>>

PatternLines(pattern, a, rule) ==
    CASE pattern = "SALES_INVOICE" ->
           Dr(rule.debitAccount, a.total, "receivable")
           \o Cr(rule.creditAccount, a.base, "revenue")
           \o When(a.tax > 0, Cr(rule.taxAccount, a.tax, "outputTax"))
      [] pattern = "PURCHASE_BILL" ->
           Dr(rule.debitAccount, a.base, "expense")
           \o Cr(rule.creditAccount, a.total, "payables")
           \o When(a.tax > 0, Dr(rule.taxAccount, a.tax, "inputTax"))
      [] pattern = "DEPRECIATION" ->
           Dr(rule.debitAccount, a.base, "expense")
           \o Cr(rule.creditAccount, a.base, "accumulated")
      [] pattern = "LOAN_REPAYMENT" ->
           Dr(rule.debitAccount, a.principal, "principal")
           \o Cr(rule.creditAccount, a.principal + a.interest + a.fee, "bank")
           \o When(a.interest > 0 /\ rule.taxAccount # None,
                   Dr(rule.taxAccount, a.interest, "interest"))
           \o When(a.fee > 0 /\ rule.roundingAccount # None,
                   Dr(rule.roundingAccount, a.fee, "fees"))
      [] pattern = "LOAN_DISBURSEMENT" ->
           Dr(rule.debitAccount, a.total, "proceeds")
           \o Cr(rule.creditAccount, a.total, "principal")

Adjustable(a, rule) ==
    /\ a.rounding # 0 => rule.roundingAccount # None
    /\ a.exchange > 0 => rule.exchangeGainAccount # None
    /\ a.exchange < 0 => rule.exchangeLossAccount # None

AdjustmentLines(a, rule) ==
    When(a.rounding > 0, Dr(rule.roundingAccount, a.rounding, "rounding"))
    \o When(a.rounding < 0, Cr(rule.roundingAccount, -a.rounding, "rounding"))
    \o When(a.exchange > 0, Cr(rule.exchangeGainAccount, a.exchange, "exchangeGain"))
    \o When(a.exchange < 0, Dr(rule.exchangeLossAccount, -a.exchange, "exchangeLoss"))

(* One line for each account and memo, in the order they first appear. The *)
(* branch is the document's, the same on every line.                       *)
SameKey(x, y) == x.account = y.account /\ x.memo = y.memo

Merge(merged, line) ==
    IF \E i \in DOMAIN merged : SameKey(merged[i], line)
    THEN [ i \in DOMAIN merged |->
             IF SameKey(merged[i], line)
             THEN [merged[i] EXCEPT !.debit = @ + line.debit,
                                    !.credit = @ + line.credit]
             ELSE merged[i] ]
    ELSE Append(merged, line)

MergeLines(lines) == FoldLeft(Merge, <<>>, lines)

BuildLines(pattern, a, rule) ==
    MergeLines(PatternLines(pattern, a, rule) \o AdjustmentLines(a, rule))

TotalDebit(lines) == Total([i \in DOMAIN lines |-> lines[i].debit])
TotalCredit(lines) == Total([i \in DOMAIN lines |-> lines[i].credit])

(* ensureBalanced: to a hundredth of a cent, before the lines are stored.  *)
EnsureBalanced(lines) ==
    /\ TotalDebit(lines) > 0 /\ TotalCredit(lines) > 0
    /\ TotalDebit(lines) - TotalCredit(lines) \in -(Cent \div 100) .. Cent \div 100

-----------------------------------------------------------------------------
(* post, but for the idempotency key and the period. *)
Postable(rules, context, pattern, amounts) ==
    /\ Resolves(rules, context)
    /\ LET rule == ResolveRule(rules, context)
       IN  /\ ContextValid(context, amounts, rule)
           /\ Adjustable(amounts, rule)
           /\ EnsureBalanced(BuildLines(pattern, amounts, rule))

(* Slip: credits lose their fractions, debits are rounded. *)
StoredLinesByColumn(lines) ==
    [ i \in DOMAIN lines |->
        [lines[i] EXCEPT !.debit = Stored(@), !.credit = (@ \div Cent) * Cent] ]

(* The lines as journalLine.createMany stores them. *)
StoredLines(lines) ==
    [ i \in DOMAIN lines |->
        [lines[i] EXCEPT !.debit = Stored(@), !.credit = Stored(@)] ]

PostedLines(rules, context, pattern, amounts) ==
    StoredLines(BuildLines(pattern, amounts, ResolveRule(rules, context)))

=============================================================================
