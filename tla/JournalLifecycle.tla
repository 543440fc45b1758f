-------------------------- MODULE JournalLifecycle --------------------------
(***************************************************************************)
(* The life of a manual journal, from its draft to its ledger entry and    *)
(* its reversals: apps/api/src/modules/journals/journals.service.ts.       *)
(*                                                                         *)
(* Main is the journal drafted; the other journals are the reversals made  *)
(* of it, and of them.  As in PaymentVoucher a handler reads the journal,  *)
(* checks its guards on that copy (XRead) and writes later, whatever the   *)
(* row says by then (XWrite); a failed guard is a disabled XRead.          *)
(***************************************************************************)
EXTENDS Naturals, Sequences, SequencesExt, Sums

CONSTANTS
    Users,       \* the people holding the permission journals
    Requests,    \* the requests that may be in flight together
    Journals,    \* bound: the journal drafted, and numbers for reversals
    Main,        \* the journal drafted
    Accounts,
    Contents,    \* the lines a maker can enter
    Nobody, NoJournal, NoContent

(* A line names an account and has either a debit or a credit: what        *)
(* prepareJournalDraft lets a maker enter.                                 *)
Line == [account : Accounts, debit : Nat, credit : Nat]

OneSided(line) == (line.debit = 0) # (line.credit = 0)

ASSUME JournalsAssumption == Main \in Journals /\ NoJournal \notin Journals

ASSUME LinesAssumption ==
    /\ NoContent \notin Contents
    /\ \A lines \in Contents :
          lines \in Seq(Line) /\ \A i \in DOMAIN lines : OneSided(lines[i])

ASSUME NobodyAssumption == Nobody \notin Users

VARIABLES
    journals,   \* GLJournalHeader rows with their lines
    period,     \* status of the accounting period they all name
    ledger,     \* JournalEntry rows, oldest first, by their reference
    req         \* what each request in flight is about to do

vars == <<journals, period, ledger, req>>

-----------------------------------------------------------------------------
(* Lines.                                                                  *)

TotalDebit(lines) == Total([i \in DOMAIN lines |-> lines[i].debit])
TotalCredit(lines) == Total([i \in DOMAIN lines |-> lines[i].credit])
Balanced(lines) == TotalDebit(lines) = TotalCredit(lines)

(* The lines of a reversal: each one on the other side. *)
Mirror(lines) ==
    [i \in DOMAIN lines |-> [lines[i] EXCEPT !.debit = lines[i].credit,
                                             !.credit = lines[i].debit]]

-----------------------------------------------------------------------------
(* Rows and requests.                                                      *)

Editable == {"DRAFT", "REJECTED"}

Statuses ==
    Editable \union
    {"PENDING_APPROVAL", "APPROVED", "POSTED", "REVERSED", "CANCELLED"}

Journal ==
    [ status : Statuses,
      lines : Seq(Line),
      createdBy : Users,
      submittedBy : Users \union {Nobody},
      approvedBy : Users \union {Nobody},
      isPosted : BOOLEAN,     \* postedJournalEntryId is set
      reversalOf : Journals \union {NoJournal} ]

Absent == [status |-> "ABSENT"]

Exists(j) == journals[j] # Absent

(* createDraft. *)
NewDraft(u, lines) ==
    [ status |-> "DRAFT", lines |-> lines, createdBy |-> u,
      submittedBy |-> Nobody, approvedBy |-> Nobody, isPosted |-> FALSE,
      reversalOf |-> NoJournal ]

(* A reversal is created posted, by and in the name of whoever reverses.   *)
NewReversal(u, j, lines) ==
    [ status |-> "POSTED", lines |-> lines, createdBy |-> u,
      submittedBy |-> Nobody, approvedBy |-> u, isPosted |-> TRUE,
      reversalOf |-> j ]

Reversals(j) == {k \in Journals : Exists(k) /\ journals[k].reversalOf = j}

PeriodStatuses == {"OPEN", "CLOSED", "LOCKED"}

Entry == [journal : Journals, lines : Seq(Line), period : PeriodStatuses]

EntriesOf(j) == {i \in DOMAIN ledger : ledger[i].journal = j}

Idle == [pc |-> "idle"]

Begin(r, operation, j, data) ==
    /\ req[r] = Idle
    /\ req' = [req EXCEPT ![r] = [pc |-> operation, on |-> j, data |-> data]]
    /\ UNCHANGED <<journals, period, ledger>>

End(r, operation) ==
    /\ req[r].pc = operation
    /\ req' = [req EXCEPT ![r] = Idle]

(* Slip: the totals are not compared. *)
ValidateAnyTotals(lines) ==
    /\ Len(lines) >= 2
    /\ period = "OPEN"

(* Slip: the period is not looked at. *)
ValidateAnyPeriod(lines) ==
    /\ Len(lines) >= 2
    /\ Balanced(lines)

(* validateJournalState, of the copy read. *)
Validate(lines) ==
    /\ Len(lines) >= 2
    /\ Balanced(lines)
    /\ period = "OPEN"

-----------------------------------------------------------------------------
(* Slip: an edit is let through while the journal is in review. *)
UpdateDraftReadInReview(r, j, u) ==
    /\ Exists(j)
    /\ journals[j].status \in Editable \union {"PENDING_APPROVAL"}
    /\ journals[j].reversalOf = NoJournal
    /\ journals[j].createdBy = u
    /\ \E lines \in Contents : Begin(r, "update", j, lines)

(* PATCH :id, by the maker; reversals are system-generated and read-only.  *)
UpdateDraftRead(r, j, u) ==
    /\ Exists(j)
    /\ journals[j].status \in Editable
    /\ journals[j].reversalOf = NoJournal
    /\ journals[j].createdBy = u
    /\ \E lines \in Contents : Begin(r, "update", j, lines)

UpdateDraftWrite(r) ==
    /\ End(r, "update")
    /\ journals' = [journals EXCEPT ![req[r].on].lines = req[r].data]
    /\ UNCHANGED <<period, ledger>>

(* POST :id/submit, by anyone. *)
SubmitRead(r, j, u) ==
    /\ Exists(j)
    /\ journals[j].status \in Editable
    /\ Validate(journals[j].lines)
    /\ Begin(r, "transition", j, [to |-> "PENDING_APPROVAL", actor |-> u])

(* POST :id/recall, by the submitter. *)
RecallRead(r, j, u) ==
    /\ Exists(j)
    /\ journals[j].status = "PENDING_APPROVAL"
    /\ journals[j].submittedBy = u
    /\ Begin(r, "transition", j, [to |-> "DRAFT", actor |-> u])

(* Slip: the maker may approve. *)
ApproveReadByMaker(r, j, u) ==
    /\ Exists(j)
    /\ journals[j].status = "PENDING_APPROVAL"
    /\ Begin(r, "transition", j, [to |-> "APPROVED", actor |-> u])

(* POST :id/approve, by anyone but the maker. *)
ApproveRead(r, j, u) ==
    /\ Exists(j)
    /\ journals[j].status = "PENDING_APPROVAL"
    /\ journals[j].createdBy # u
    /\ Begin(r, "transition", j, [to |-> "APPROVED", actor |-> u])

(* POST :id/reject, by anyone. *)
RejectRead(r, j, u) ==
    /\ Exists(j)
    /\ journals[j].status = "PENDING_APPROVAL"
    /\ Begin(r, "transition", j, [to |-> "REJECTED", actor |-> u])

(* POST :id/cancel, by anyone. *)
CancelRead(r, j, u) ==
    /\ Exists(j)
    /\ journals[j].status \notin {"POSTED", "REVERSED"}
    /\ Begin(r, "transition", j, [to |-> "CANCELLED", actor |-> u])

(* transitionStatus: the new status, and who submitted or approved. *)
TransitionStatus(r) ==
    LET j   == req[r].on
        new == req[r].data
    IN  /\ End(r, "transition")
        /\ journals' = [journals EXCEPT
              ![j].status = new.to,
              ![j].submittedBy = IF new.to = "PENDING_APPROVAL" THEN new.actor
                                 ELSE @,
              ![j].approvedBy = IF new.to = "APPROVED" THEN new.actor ELSE @]
        /\ UNCHANGED <<period, ledger>>

(* POST :id/post, by anyone. *)
PostRead(r, j) ==
    /\ Exists(j)
    /\ journals[j].status = "APPROVED"
    /\ ~ journals[j].isPosted
    /\ Validate(journals[j].lines)
    /\ Begin(r, "post", j, journals[j].lines)

(* Slip: a journal entry's reference is not unique. *)
ReferenceNotUnique(j) == TRUE

(* JournalEntry.reference, the journal's number, is unique. *)
ReferenceIsFree(j) == EntriesOf(j) = {}

(* One transaction creates the entry, with the lines of the copy, and      *)
(* updates the journal; it fails if the journal already has an entry.      *)
PostWrite(r) ==
    LET j == req[r].on
    IN  /\ End(r, "post")
        /\ ReferenceIsFree(j)
        /\ ledger' = Append(ledger, [journal |-> j, lines |-> req[r].data,
                                     period |-> period])
        /\ journals' = [journals EXCEPT ![j].status = "POSTED",
                                        ![j].isPosted = TRUE]
        /\ UNCHANGED period

(* POST :id/reverse, by anyone, of any posted journal, reversals included. *)
ReverseRead(r, j, u) ==
    /\ Exists(j)
    /\ journals[j].status = "POSTED"
    /\ Reversals(j) = {}
    /\ Begin(r, "reverse", j, [actor |-> u, lines |-> journals[j].lines])

(* Slip: the reversal repeats the original's lines. *)
ReverseWriteSameSide(r) ==
    LET j == req[r].on
    IN  /\ End(r, "reverse")
        /\ \E k \in {i \in Journals : ~ Exists(i)} :
              /\ journals' = [journals EXCEPT
                    ![j].status = "REVERSED",
                    ![k] = NewReversal(req[r].data.actor, j,
                                       req[r].data.lines)]
              /\ ledger' = Append(ledger, [journal |-> k,
                                           lines |-> req[r].data.lines,
                                           period |-> period])
        /\ UNCHANGED period

(* One transaction takes the next number, creates the reversal, posted in  *)
(* the period of the original, and its entry, and marks the original.      *)
ReverseWrite(r) ==
    LET j        == req[r].on
        mirrored == Mirror(req[r].data.lines)
    IN  /\ End(r, "reverse")
        /\ \E k \in {i \in Journals : ~ Exists(i)} :
              /\ journals' = [journals EXCEPT
                    ![j].status = "REVERSED",
                    ![k] = NewReversal(req[r].data.actor, j, mirrored)]
              /\ ledger' = Append(ledger, [journal |-> k, lines |-> mirrored,
                                           period |-> period])
        /\ UNCHANGED period

(* PATCH periods/:id/status: closes, locks or reopens the period.  A       *)
(* locked period is not reopened, unless it was locked since the read.     *)
UpdatePeriodRead(r) ==
    \E status \in PeriodStatuses :
       /\ period = "LOCKED" => status = "LOCKED"
       /\ Begin(r, "period", NoJournal, status)

UpdatePeriodWrite(r) ==
    /\ End(r, "period")
    /\ period' = req[r].data
    /\ UNCHANGED <<journals, ledger>>

(* A request ends without its write: the API process stops, the database   *)
(* refuses the statement, or rolls the transaction back.                   *)
Abort(r) ==
    /\ req[r] # Idle
    /\ req' = [req EXCEPT ![r] = Idle]
    /\ UNCHANGED <<journals, period, ledger>>

-----------------------------------------------------------------------------
Init ==
    /\ \E u \in Users, lines \in Contents :
          journals = [j \in Journals |-> IF j = Main THEN NewDraft(u, lines)
                                         ELSE Absent]
    /\ period \in PeriodStatuses
    /\ ledger = <<>>
    /\ req = [r \in Requests |-> Idle]

Call(r) ==
    \/ \E j \in Journals, u \in Users : \/ UpdateDraftRead(r, j, u)
                                        \/ SubmitRead(r, j, u)
                                        \/ RecallRead(r, j, u)
                                        \/ ApproveRead(r, j, u)
                                        \/ RejectRead(r, j, u)
                                        \/ CancelRead(r, j, u)
                                        \/ ReverseRead(r, j, u)
    \/ \E j \in Journals : PostRead(r, j)
    \/ UpdatePeriodRead(r)

Proceed(r) ==
    \/ UpdateDraftWrite(r)
    \/ TransitionStatus(r)
    \/ PostWrite(r)
    \/ ReverseWrite(r)
    \/ UpdatePeriodWrite(r)
    \/ Abort(r)

Next == \E r \in Requests : Call(r) \/ Proceed(r)

Spec == Init /\ [][Next]_vars

(* With one element in Requests no two handlers overlap, which is how each *)
(* of them was written to be read: some properties below are of that case. *)

-----------------------------------------------------------------------------
(* Properties.                                                             *)

(* What a request in flight holds, for each operation.                     *)
RequestOK(q) ==
    \/ q = Idle
    \/ /\ q.pc \in {"update", "post"}
       /\ q.on \in Journals
       /\ q.data \in Seq(Line)
    \/ /\ q.pc = "transition"
       /\ q.on \in Journals
       /\ q.data \in [ to : Statuses \ {"POSTED", "REVERSED"},
                       actor : Users ]
    \/ /\ q.pc = "reverse"
       /\ q.on \in Journals
       /\ q.data \in [actor : Users, lines : Seq(Line)]
    \/ /\ q.pc = "period"
       /\ q.data \in PeriodStatuses

(* The rows, the ledger and what the requests hold have their types. *)
TypeOK ==
    /\ DOMAIN journals = Journals
    /\ \A j \in Journals : Exists(j) => journals[j] \in Journal
    /\ period \in PeriodStatuses
    /\ ledger \in Seq(Entry)
    /\ DOMAIN req = Requests
    /\ \A r \in Requests : RequestOK(req[r])

(* However requests overlap, every journal has at most one ledger entry,   *)
(* and postedJournalEntryId says exactly whether it has.                   *)
PostedIffBookedOnce ==
    \A j \in Journals :
        /\ \A a, b \in EntriesOf(j) : a = b
        /\ EntriesOf(j) # {} <=> Exists(j) /\ journals[j].isPosted

(* The row names an approver other than the maker. *)
ApprovedByAnother(j) ==
    journals[j].approvedBy \notin {Nobody, journals[j].createdBy}

(* However requests overlap, what a maker drafted is approved, posted or   *)
(* in the ledger only with an approval by somebody else on its row.        *)
DraftsNeedAnotherApprover ==
    \A j \in Journals :
        /\ Exists(j)
        /\ journals[j].reversalOf = NoJournal
        /\ \/ journals[j].status \in {"APPROVED", "POSTED", "REVERSED"}
           \/ EntriesOf(j) # {}
        => ApprovedByAnother(j)

(* However requests overlap, a reversal is booked, and booked after the    *)
(* entry it reverses.                                                      *)
ReversalsFollowTheirOriginal ==
    \A k \in Journals :
        Exists(k) /\ journals[k].reversalOf # NoJournal =>
            \E a, b \in DOMAIN ledger :
                /\ a < b
                /\ ledger[a].journal = journals[k].reversalOf
                /\ ledger[b].journal = k

(* Why these hold: what a request in flight relies on was true when it     *)
(* began and is never undone.                                              *)
IsOnRecord(q) ==
    /\ q.pc = "transition" =>
         /\ Exists(q.on)
         /\ q.data.to = "APPROVED" => q.data.actor # journals[q.on].createdBy
    /\ q.pc = "update" => Exists(q.on) /\ journals[q.on].reversalOf = NoJournal
    /\ q.pc = "post" =>
         /\ Exists(q.on)
         /\ journals[q.on].reversalOf = NoJournal => ApprovedByAnother(q.on)
    /\ q.pc = "reverse" => EntriesOf(q.on) # {}

OverlapInv ==
    /\ TypeOK
    /\ PostedIffBookedOnce
    /\ DraftsNeedAnotherApprover
    /\ ReversalsFollowTheirOriginal
    /\ \A j \in Journals :
          Exists(j) /\ journals[j].status \in {"POSTED", "REVERSED"} =>
              EntriesOf(j) # {}
    /\ \A r \in Requests : IsOnRecord(req[r])

KeepsEveryEntry ==
    /\ Len(ledger) <= Len(ledger')
    /\ SubSeq(ledger', 1, Len(ledger)) = ledger

(* However requests overlap, the ledger only grows: nothing removes an     *)
(* entry, or rewrites its lines.                                           *)
LedgerIsAppendOnly == [][KeepsEveryEntry]_vars

(* One request at a time: every entry balances, reversals included.        *)
LedgerBalances == \A i \in DOMAIN ledger : Balanced(ledger[i].lines)

(* One request at a time: a journal is REVERSED exactly when one reversal  *)
(* of it exists, and their two entries cancel line by line.                *)
ReversalCancelsOriginal ==
    \A j \in Journals : Exists(j) =>
        /\ Cardinality(Reversals(j)) =
              IF journals[j].status = "REVERSED" THEN 1 ELSE 0
        /\ \A k \in Reversals(j), a \in EntriesOf(j) :
              \A b \in EntriesOf(k) :
                 ledger[b].lines = Mirror(ledger[a].lines)

(* One request at a time: what was drafted, as opposed to a reversal, is   *)
(* booked into an open period.                                             *)
DraftsBookedInOpenPeriod ==
    \A i \in DOMAIN ledger :
        journals[ledger[i].journal].reversalOf = NoJournal =>
            ledger[i].period = "OPEN"

(* One request at a time: the drafted journal keeps the promise of a       *)
(* controlled document, and its reversal does not touch it.                *)
Stage ==
    CASE journals[Main].status \in Editable             -> "editable"
      [] journals[Main].status = "PENDING_APPROVAL"     -> "review"
      [] journals[Main].status = "APPROVED"             -> "released"
      [] journals[Main].status \in {"POSTED", "REVERSED"} -> "booked"
      [] journals[Main].status = "CANCELLED"            -> "dropped"

Document ==
    INSTANCE ControlledDocument
        WITH stage <- Stage,
             content <- journals[Main].lines,
             booked <- IF EntriesOf(Main) = {} THEN NoContent
                       ELSE ledger[CHOOSE i \in EntriesOf(Main) : TRUE].lines

ImplementsControlledDocument == Document!Spec

(* However many requests overlap, the period is no freer than the periods  *)
(* of the fiscal years, which keep this promise too.                       *)
PostingPeriod ==
    INSTANCE AccountingPeriod
        WITH status <- period,
             asked <- [r \in Requests |-> IF req[r].pc = "period"
                                          THEN req[r].data ELSE "nothing"]

ImplementsAccountingPeriod == PostingPeriod!Spec
=============================================================================
