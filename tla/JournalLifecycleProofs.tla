----------------------- MODULE JournalLifecycleProofs -----------------------
(***************************************************************************)
(* Theorems about JournalLifecycle, for every set of users, of journals,   *)
(* of lines and of requests: first however they overlap, then when there   *)
(* is at most one in flight, which may still die before its write; and     *)
(* that the period it is posted into is an AccountingPeriod.               *)
(***************************************************************************)
EXTENDS JournalLifecycle, SequenceTheorems, SumsProofs

LEMMA MirrorType ==
    ASSUME NEW s \in Seq(Line)
    PROVE  Mirror(s) \in Seq(Line)
  <1> DEFINE Other(i) == [s[i] EXCEPT !.debit = s[i].credit,
                                      !.credit = s[i].debit]
  <1>1. ASSUME NEW i \in DOMAIN s
        PROVE  Other(i) \in Line
    <2>1. s[i] \in Line
      OBVIOUS
    <2> QED
      BY <2>1 DEF Line
  <1>2. Mirror(s) = [i \in DOMAIN s |-> Other(i)]
    BY DEF Mirror
  <1> HIDE DEF Other
  <1> QED
    BY <1>1, <1>2

(* A row that exists is a row of the table. *)
LEMMA ExistsType ==
    ASSUME TypeOK, NEW j \in Journals
    PROVE  /\ Exists(j) <=> journals[j] \in Journal
           /\ Exists(j) <=> journals[j].status \in Statuses
  <1>1. "ABSENT" \notin Statuses
    BY DEF Statuses, Editable
  <1>2. Exists(j) => journals[j] \in Journal
    BY DEF TypeOK
  <1>3. journals[j] \in Journal => journals[j].status \in Statuses
    BY DEF Journal
  <1>4. journals[j].status \in Statuses => Exists(j)
    BY <1>1 DEF Exists, Absent
  <1> QED
    BY <1>2, <1>3, <1>4

-----------------------------------------------------------------------------
(* What no step undoes: a row stays, with its maker, its original and its  *)
(* other approver, and an entry stays.                                     *)

Kept(j) ==
    /\ Exists(j)'
    /\ journals'[j].createdBy = journals[j].createdBy
    /\ journals'[j].reversalOf = journals[j].reversalOf
    /\ ApprovedByAnother(j) => ApprovedByAnother(j)'

LEMMA OthersOnRecord ==
    ASSUME OverlapInv,
           \A j \in Journals : Exists(j) => Kept(j),
           \A j \in Journals : EntriesOf(j) # {} => EntriesOf(j)' # {},
           NEW r \in Requests, req'[r] = req[r]
    PROVE  IsOnRecord(req[r])'
  <1>1. IsOnRecord(req[r]) /\ RequestOK(req[r])
    BY DEF OverlapInv, TypeOK
  <1>2. req[r].pc \in {"transition", "update", "post", "reverse"}
          => req[r].on \in Journals
    BY <1>1 DEF RequestOK, Idle
  <1>3. CASE req[r].pc \notin {"transition", "update", "post", "reverse"}
    BY <1>3 DEF IsOnRecord
  <1>4. CASE req[r].pc \in {"transition", "update", "post", "reverse"}
    <2> DEFINE j == req[r].on
    <2>1. j \in Journals
      BY <1>2, <1>4
    <2>2. Exists(j) => Kept(j)
      BY <2>1
    <2>3. EntriesOf(j) # {} => EntriesOf(j)' # {}
      BY <2>1
    <2> QED
      BY <1>1, <2>2, <2>3 DEF IsOnRecord, Kept
  <1> QED
    BY <1>3, <1>4

LEMMA IdleOnRecord ==
    ASSUME NEW r \in Requests, req'[r] = Idle
    PROVE  IsOnRecord(req[r])'
  BY DEF IsOnRecord, Idle

(* The requests after a write that ends one of them. *)
LEMMA EndOnRecord ==
    ASSUME OverlapInv, NEW r \in Requests, req' = [req EXCEPT ![r] = Idle],
           \A j \in Journals : Exists(j) => Kept(j),
           \A j \in Journals : EntriesOf(j) # {} => EntriesOf(j)' # {}
    PROVE  /\ DOMAIN req' = Requests
           /\ \A q \in Requests : RequestOK(req'[q])
           /\ \A q \in Requests : IsOnRecord(req[q])'
  <1>1. DOMAIN req' = Requests
        /\ \A q \in Requests : req'[q] = IF q = r THEN Idle ELSE req[q]
    BY DEF OverlapInv, TypeOK
  <1>2. \A q \in Requests : RequestOK(req'[q])
    BY <1>1 DEF OverlapInv, TypeOK, RequestOK
  <1>3. ASSUME NEW q \in Requests PROVE IsOnRecord(req[q])'
    <2>1. CASE q = r
      BY <1>1, <2>1, IdleOnRecord
    <2>2. CASE q # r
      BY <1>1, <2>2, OthersOnRecord
    <2> QED
      BY <2>1, <2>2
  <1> QED
    BY <1>1, <1>2, <1>3

-----------------------------------------------------------------------------
(* OverlapInv is inductive: first the steps that touch no row and no       *)
(* entry, then the writes, one lemma each.                                 *)

StatusesAreBooked ==
    \A j \in Journals :
        Exists(j) /\ journals[j].status \in {"POSTED", "REVERSED"} =>
            EntriesOf(j) # {}

LEMMA BooksUnchanged ==
    ASSUME OverlapInv, UNCHANGED <<journals, ledger>>
    PROVE  /\ PostedIffBookedOnce' /\ DraftsNeedAnotherApprover'
           /\ ReversalsFollowTheirOriginal' /\ StatusesAreBooked'
           /\ \A j \in Journals : Exists(j) => Kept(j)
           /\ \A j \in Journals : EntriesOf(j) # {} => EntriesOf(j)' # {}
  BY DEF OverlapInv, PostedIffBookedOnce, DraftsNeedAnotherApprover,
         ReversalsFollowTheirOriginal, StatusesAreBooked, Kept, EntriesOf,
         Exists, ApprovedByAnother

LEMMA BeginStep ==
    ASSUME OverlapInv, NEW r \in Requests, NEW operation, NEW j, NEW data,
           Begin(r, operation, j, data),
           RequestOK([pc |-> operation, on |-> j, data |-> data]),
           IsOnRecord([pc |-> operation, on |-> j, data |-> data])
    PROVE  OverlapInv'
  <1> DEFINE new == [pc |-> operation, on |-> j, data |-> data]
  <1>0. TypeOK
    BY DEF OverlapInv
  <1>1. /\ DOMAIN req' = Requests
        /\ \A q \in Requests : req'[q] = IF q = r THEN new ELSE req[q]
        /\ UNCHANGED <<journals, period, ledger>>
    BY <1>0 DEF Begin, TypeOK
  <1>2. TypeOK'
    BY <1>0, <1>1 DEF TypeOK, Exists
  <1>3. /\ PostedIffBookedOnce' /\ DraftsNeedAnotherApprover'
        /\ ReversalsFollowTheirOriginal' /\ StatusesAreBooked'
        /\ \A k \in Journals : Exists(k) => Kept(k)
        /\ \A k \in Journals : EntriesOf(k) # {} => EntriesOf(k)' # {}
    BY <1>1, BooksUnchanged
  <1>4. ASSUME NEW q \in Requests PROVE IsOnRecord(req[q])'
    <2>1. CASE q = r
      BY <1>1, <2>1 DEF IsOnRecord, Exists, ApprovedByAnother, EntriesOf
    <2>2. CASE q # r
      BY <1>1, <1>3, <2>2, OthersOnRecord
    <2> QED
      BY <2>1, <2>2
  <1> QED
    BY <1>2, <1>3, <1>4 DEF OverlapInv, StatusesAreBooked

LEMMA CallStep ==
    ASSUME OverlapInv, NEW r \in Requests, Call(r)
    PROVE  OverlapInv'
  <1>0. TypeOK /\ DraftsNeedAnotherApprover /\ StatusesAreBooked
    BY DEF OverlapInv, StatusesAreBooked
  <1>1. \A j \in Journals : Exists(j) =>
          journals[j] \in Journal /\ journals[j].lines \in Seq(Line)
    BY <1>0 DEF TypeOK, Journal
  <1>2. Statuses \ {"POSTED", "REVERSED"} =
          {"DRAFT", "REJECTED", "PENDING_APPROVAL", "APPROVED", "CANCELLED"}
    BY DEF Statuses, Editable
  <1>3. ASSUME NEW j \in Journals, NEW u \in Users, UpdateDraftRead(r, j, u)
        PROVE  OverlapInv'
    <2>1. PICK lines \in Contents : Begin(r, "update", j, lines)
      BY <1>3 DEF UpdateDraftRead
    <2>2. RequestOK([pc |-> "update", on |-> j, data |-> lines])
      BY LinesAssumption DEF RequestOK
    <2>3. IsOnRecord([pc |-> "update", on |-> j, data |-> lines])
      BY <1>3 DEF IsOnRecord, UpdateDraftRead
    <2> QED
      BY <2>1, <2>2, <2>3, BeginStep
  <1>4. ASSUME NEW j \in Journals, NEW u \in Users,
               NEW to \in Statuses \ {"POSTED", "REVERSED"},
               Begin(r, "transition", j, [to |-> to, actor |-> u]),
               Exists(j), to = "APPROVED" => u # journals[j].createdBy
        PROVE  OverlapInv'
    <2> DEFINE data == [to |-> to, actor |-> u]
    <2>1. RequestOK([pc |-> "transition", on |-> j, data |-> data])
      BY DEF RequestOK
    <2>2. IsOnRecord([pc |-> "transition", on |-> j, data |-> data])
      BY <1>4 DEF IsOnRecord
    <2> QED
      BY <1>4, <2>1, <2>2, BeginStep
  <1>5. ASSUME NEW j \in Journals, NEW u \in Users,
               \/ SubmitRead(r, j, u) \/ RecallRead(r, j, u)
               \/ ApproveRead(r, j, u) \/ RejectRead(r, j, u)
               \/ CancelRead(r, j, u)
        PROVE  OverlapInv'
    BY <1>2, <1>4, <1>5
    DEF SubmitRead, RecallRead, ApproveRead, RejectRead, CancelRead
  <1>6. ASSUME NEW j \in Journals, NEW u \in Users, ReverseRead(r, j, u)
        PROVE  OverlapInv'
    <2> DEFINE data == [actor |-> u, lines |-> journals[j].lines]
    <2>1. RequestOK([pc |-> "reverse", on |-> j, data |-> data])
      BY <1>1, <1>6 DEF RequestOK, ReverseRead
    <2>2. IsOnRecord([pc |-> "reverse", on |-> j, data |-> data])
      BY <1>0, <1>6 DEF IsOnRecord, ReverseRead, StatusesAreBooked
    <2> QED
      BY <1>6, <2>1, <2>2, BeginStep DEF ReverseRead
  <1>7. ASSUME NEW j \in Journals, PostRead(r, j)
        PROVE  OverlapInv'
    <2> DEFINE data == journals[j].lines
    <2>1. RequestOK([pc |-> "post", on |-> j, data |-> data])
      BY <1>1, <1>7 DEF RequestOK, PostRead
    <2>2. IsOnRecord([pc |-> "post", on |-> j, data |-> data])
      BY <1>0, <1>7 DEF IsOnRecord, PostRead, DraftsNeedAnotherApprover
    <2> QED
      BY <1>7, <2>1, <2>2, BeginStep DEF PostRead
  <1>8. CASE UpdatePeriodRead(r)
    <2>1. PICK status \in PeriodStatuses : Begin(r, "period", NoJournal, status)
      BY <1>8 DEF UpdatePeriodRead
    <2>2. /\ RequestOK([pc |-> "period", on |-> NoJournal, data |-> status])
          /\ IsOnRecord([pc |-> "period", on |-> NoJournal, data |-> status])
      BY DEF RequestOK, IsOnRecord
    <2> QED
      BY <2>1, <2>2, BeginStep
  <1> QED
    BY <1>3, <1>5, <1>6, <1>7, <1>8 DEF Call

(* An edit or a transition: one row changes, the ledger does not.          *)
RowWrite(r, j, row) ==
    /\ Exists(j)
    /\ req' = [req EXCEPT ![r] = Idle]
    /\ journals' = [journals EXCEPT ![j] = row]
    /\ UNCHANGED <<period, ledger>>
    /\ row.createdBy = journals[j].createdBy
    /\ row.reversalOf = journals[j].reversalOf
    /\ row.isPosted = journals[j].isPosted
    /\ \/ row.approvedBy = journals[j].approvedBy
       \/ row.approvedBy \notin {Nobody, row.createdBy}
    /\ \/ row.status = journals[j].status
       \/ row.status \notin {"APPROVED", "POSTED", "REVERSED"}
       \/ /\ row.status = "APPROVED"
          /\ row.approvedBy \notin {Nobody, row.createdBy}

LEMMA RowWriteStep ==
    ASSUME OverlapInv, NEW r \in Requests, NEW j \in Journals,
           NEW row \in Journal, RowWrite(r, j, row)
    PROVE  OverlapInv'
  <1> USE DEF RowWrite
  <1>0. /\ TypeOK /\ PostedIffBookedOnce /\ DraftsNeedAnotherApprover
        /\ ReversalsFollowTheirOriginal /\ StatusesAreBooked
    BY DEF OverlapInv, StatusesAreBooked
  <1>1. /\ DOMAIN journals' = Journals
        /\ \A k \in Journals : journals'[k] = IF k = j THEN row ELSE journals[k]
        /\ \A k \in Journals : EntriesOf(k)' = EntriesOf(k)
    BY <1>0 DEF TypeOK, EntriesOf
  <1>2. row # Absent /\ row.status \in Statuses
    <2>1. row.status \in Statuses /\ "ABSENT" \notin Statuses
      BY DEF Journal, Statuses, Editable
    <2> QED
      BY <2>1 DEF Absent
  <1>3. \A k \in Journals : Exists(k)' <=> Exists(k)
    BY <1>1, <1>2 DEF Exists
  <1>4. \A k \in Journals : Exists(k) => Kept(k)
    BY <1>1, <1>3 DEF Kept, ApprovedByAnother
  <1>5. /\ DOMAIN req' = Requests
        /\ \A q \in Requests : RequestOK(req'[q])
        /\ \A q \in Requests : IsOnRecord(req[q])'
    BY <1>1, <1>4, EndOnRecord
  <1>6. TypeOK'
    BY <1>0, <1>1, <1>3, <1>5 DEF TypeOK
  <1>7. PostedIffBookedOnce'
    BY <1>0, <1>1, <1>3 DEF PostedIffBookedOnce
  <1>8. DraftsNeedAnotherApprover'
    <2> SUFFICES ASSUME NEW k \in Journals, Exists(k)',
                        journals'[k].reversalOf = NoJournal,
                        \/ journals'[k].status
                             \in {"APPROVED", "POSTED", "REVERSED"}
                        \/ EntriesOf(k)' # {}
                 PROVE  ApprovedByAnother(k)'
      BY DEF DraftsNeedAnotherApprover
    <2>1. CASE k # j
      BY <1>0, <1>1, <1>3, <2>1 DEF DraftsNeedAnotherApprover, ApprovedByAnother
    <2>2. CASE k = j
      BY <1>0, <1>1, <2>2 DEF DraftsNeedAnotherApprover, ApprovedByAnother
    <2> QED
      BY <2>1, <2>2
  <1>9. ReversalsFollowTheirOriginal'
    BY <1>0, <1>1, <1>3 DEF ReversalsFollowTheirOriginal
  <1>10. StatusesAreBooked'
    BY <1>0, <1>1, <1>2, <1>3 DEF StatusesAreBooked
  <1> QED
    BY <1>5, <1>6, <1>7, <1>8, <1>9, <1>10 DEF OverlapInv, StatusesAreBooked

LEMMA UpdateDraftWriteStep ==
    ASSUME OverlapInv, NEW r \in Requests, UpdateDraftWrite(r)
    PROVE  OverlapInv'
  <1> DEFINE j == req[r].on
             row == [journals[j] EXCEPT !.lines = req[r].data]
  <1>1. req[r].pc = "update" /\ RequestOK(req[r]) /\ IsOnRecord(req[r])
    BY DEF UpdateDraftWrite, End, OverlapInv, TypeOK
  <1>2. /\ j \in Journals /\ req[r].data \in Seq(Line) /\ Exists(j)
    BY <1>1 DEF RequestOK, Idle, IsOnRecord
  <1>3. journals[j] \in Journal
    BY <1>2 DEF OverlapInv, TypeOK
  <1>4. row \in Journal
    BY <1>2, <1>3 DEF Journal
  <1>5. RowWrite(r, j, row)
    BY <1>2, <1>3 DEF RowWrite, UpdateDraftWrite, End, Journal
  <1> HIDE DEF row, j
  <1> QED
    BY <1>2, <1>4, <1>5, RowWriteStep

LEMMA TransitionStatusStep ==
    ASSUME OverlapInv, NEW r \in Requests, TransitionStatus(r)
    PROVE  OverlapInv'
  <1> DEFINE j == req[r].on
             to == req[r].data.to
             u == req[r].data.actor
             row == [journals[j] EXCEPT
                       !.status = to,
                       !.submittedBy = IF to = "PENDING_APPROVAL" THEN u ELSE @,
                       !.approvedBy = IF to = "APPROVED" THEN u ELSE @]
  <1>1. req[r].pc = "transition" /\ RequestOK(req[r]) /\ IsOnRecord(req[r])
    BY DEF TransitionStatus, End, OverlapInv, TypeOK
  <1>2. /\ j \in Journals /\ Exists(j)
        /\ to \in Statuses \ {"POSTED", "REVERSED"} /\ u \in Users
        /\ to = "APPROVED" => u # journals[j].createdBy
    BY <1>1 DEF RequestOK, Idle, IsOnRecord
  <1>3. journals[j] \in Journal
    BY <1>2 DEF OverlapInv, TypeOK
  <1>4. row \in Journal
    BY <1>2, <1>3 DEF Journal
  <1>5. /\ row.createdBy = journals[j].createdBy
        /\ row.reversalOf = journals[j].reversalOf
        /\ row.isPosted = journals[j].isPosted
        /\ row.approvedBy = IF to = "APPROVED" THEN u
                            ELSE journals[j].approvedBy
        /\ row.status = to
    BY <1>3 DEF Journal
  <1>6. /\ req' = [req EXCEPT ![r] = Idle]
        /\ journals' = [journals EXCEPT ![j] = row]
        /\ UNCHANGED <<period, ledger>>
    BY DEF TransitionStatus, End
  <1> HIDE DEF row, j, to, u
  <1>7. RowWrite(r, j, row)
    BY <1>2, <1>5, <1>6, NobodyAssumption DEF RowWrite
  <1> QED
    BY <1>2, <1>4, <1>7, RowWriteStep

-----------------------------------------------------------------------------
(* The two writes that add an entry to the ledger.                         *)

LEMMA EntryAdded ==
    ASSUME ledger \in Seq(Entry), NEW entry \in Entry,
           ledger' = Append(ledger, entry)
    PROVE  /\ ledger' \in Seq(Entry)
           /\ DOMAIN ledger' = DOMAIN ledger \union {Len(ledger) + 1}
           /\ \A i \in DOMAIN ledger :
                 i \in Nat /\ i < Len(ledger) + 1 /\ ledger'[i] = ledger[i]
           /\ ledger'[Len(ledger) + 1] = entry
           /\ \A k \in Journals :
                 EntriesOf(k)' = EntriesOf(k) \union
                    (IF k = entry.journal THEN {Len(ledger) + 1} ELSE {})
  <1>1. /\ ledger' \in Seq(Entry)
        /\ Len(ledger) \in Nat
        /\ DOMAIN ledger = 1 .. Len(ledger)
        /\ DOMAIN ledger' = 1 .. Len(ledger) + 1
        /\ \A i \in DOMAIN ledger : ledger'[i] = ledger[i]
        /\ ledger'[Len(ledger) + 1] = entry
    OBVIOUS
  <1>2. /\ DOMAIN ledger' = DOMAIN ledger \union {Len(ledger) + 1}
        /\ \A i \in DOMAIN ledger : i \in Nat /\ i < Len(ledger) + 1
    BY <1>1
  <1>3. ASSUME NEW k \in Journals
        PROVE  EntriesOf(k)' = EntriesOf(k) \union
                  (IF k = entry.journal THEN {Len(ledger) + 1} ELSE {})
    BY <1>1, <1>2 DEF EntriesOf
  <1> QED
    BY <1>1, <1>2, <1>3

LEMMA PostWriteStep ==
    ASSUME OverlapInv, NEW r \in Requests, PostWrite(r)
    PROVE  OverlapInv'
  <1> DEFINE j == req[r].on
             entry == [journal |-> j, lines |-> req[r].data, period |-> period]
  <1>0. /\ TypeOK /\ PostedIffBookedOnce /\ DraftsNeedAnotherApprover
        /\ ReversalsFollowTheirOriginal /\ StatusesAreBooked
    BY DEF OverlapInv, StatusesAreBooked
  <1>1. req[r].pc = "post" /\ RequestOK(req[r]) /\ IsOnRecord(req[r])
    BY DEF PostWrite, End, OverlapInv, TypeOK
  <1>2. /\ j \in Journals /\ req[r].data \in Seq(Line) /\ Exists(j)
        /\ journals[j].reversalOf = NoJournal => ApprovedByAnother(j)
    BY <1>1 DEF RequestOK, Idle, IsOnRecord
  <1>3. journals[j] \in Journal
    BY <1>0, <1>2 DEF TypeOK
  <1>4. entry \in Entry
    BY <1>0, <1>2 DEF Entry, TypeOK
  <1>5. /\ req' = [req EXCEPT ![r] = Idle]
        /\ EntriesOf(j) = {}
        /\ ledger' = Append(ledger, entry)
        /\ journals' = [journals EXCEPT ![j].status = "POSTED",
                                        ![j].isPosted = TRUE]
        /\ period' = period
    BY DEF PostWrite, End, ReferenceIsFree
  <1>6. ledger \in Seq(Entry) /\ DOMAIN journals = Journals
    BY <1>0 DEF TypeOK
  <1>7. /\ journals'[j] \in Journal
        /\ journals'[j].status = "POSTED" /\ journals'[j].isPosted
        /\ journals'[j].createdBy = journals[j].createdBy
        /\ journals'[j].approvedBy = journals[j].approvedBy
        /\ journals'[j].reversalOf = journals[j].reversalOf
        /\ \A k \in Journals : k # j => journals'[k] = journals[k]
        /\ DOMAIN journals' = Journals
    BY <1>2, <1>3, <1>5, <1>6 DEF Journal, Statuses, Editable
  <1> DEFINE n == Len(ledger) + 1
  <1>8. /\ ledger' \in Seq(Entry)
        /\ DOMAIN ledger' = DOMAIN ledger \union {n}
        /\ \A i \in DOMAIN ledger :
              i \in Nat /\ i < n /\ ledger'[i] = ledger[i]
        /\ \A k \in Journals :
              EntriesOf(k)' = EntriesOf(k) \union
                                (IF k = j THEN {n} ELSE {})
    <2> HIDE DEF j
    <2> QED
      BY <1>4, <1>5, <1>6, EntryAdded
  <1> HIDE DEF entry, n, j
  <1>9. \A k \in Journals : Exists(k)' <=> Exists(k)
    <2>1. journals'[j] # Absent
      BY <1>7 DEF Absent
    <2> QED
      BY <1>2, <1>7, <2>1 DEF Exists
  <1>10. \A k \in Journals : Exists(k) => Kept(k)
    BY <1>7, <1>9 DEF Kept, ApprovedByAnother
  <1>11. /\ DOMAIN req' = Requests
         /\ \A q \in Requests : RequestOK(req'[q])
         /\ \A q \in Requests : IsOnRecord(req[q])'
    BY <1>5, <1>8, <1>10, EndOnRecord
  <1>12. TypeOK'
    BY <1>0, <1>5, <1>7, <1>8, <1>9, <1>11 DEF TypeOK
  <1>13. PostedIffBookedOnce'
    <2> SUFFICES ASSUME NEW k \in Journals
                 PROVE  /\ \A a, b \in EntriesOf(k)' : a = b
                        /\ EntriesOf(k)' # {}
                             <=> Exists(k)' /\ journals'[k].isPosted
      BY DEF PostedIffBookedOnce
    <2>1. CASE k = j
      <3>1. EntriesOf(k)' = {n}
        BY <1>2, <1>5, <1>8, <2>1
      <3> QED
        BY <1>2, <1>7, <1>9, <2>1, <3>1
    <2>2. CASE k # j
      <3>1. EntriesOf(k)' = EntriesOf(k) /\ journals'[k] = journals[k]
        BY <1>7, <1>8, <2>2
      <3> QED
        BY <1>0, <1>9, <3>1 DEF PostedIffBookedOnce
    <2> QED
      BY <2>1, <2>2
  <1>14. DraftsNeedAnotherApprover'
    BY <1>0, <1>2, <1>7, <1>8, <1>9
    DEF DraftsNeedAnotherApprover, ApprovedByAnother
  <1>15. ReversalsFollowTheirOriginal'
    BY <1>0, <1>7, <1>8, <1>9 DEF ReversalsFollowTheirOriginal
  <1>16. StatusesAreBooked'
    BY <1>0, <1>7, <1>8, <1>9 DEF StatusesAreBooked
  <1> QED
    BY <1>11, <1>12, <1>13, <1>14, <1>15, <1>16
    DEF OverlapInv, StatusesAreBooked

LEMMA ReverseWriteStep ==
    ASSUME OverlapInv, NEW r \in Requests, ReverseWrite(r)
    PROVE  OverlapInv'
  <1> DEFINE j == req[r].on
             u == req[r].data.actor
             mirrored == Mirror(req[r].data.lines)
             n == Len(ledger) + 1
  <1>0. /\ TypeOK /\ PostedIffBookedOnce /\ DraftsNeedAnotherApprover
        /\ ReversalsFollowTheirOriginal /\ StatusesAreBooked
    BY DEF OverlapInv, StatusesAreBooked
  <1>1. req[r].pc = "reverse" /\ RequestOK(req[r]) /\ IsOnRecord(req[r])
    BY DEF ReverseWrite, End, OverlapInv, TypeOK
  <1>2. /\ j \in Journals /\ req[r].data \in [actor : Users, lines : Seq(Line)]
        /\ EntriesOf(j) # {}
    BY <1>1 DEF RequestOK, Idle, IsOnRecord
  <1>3. u \in Users /\ mirrored \in Seq(Line)
    BY <1>2, MirrorType
  <1>4. PICK k \in {i \in Journals : ~ Exists(i)} :
          /\ journals' = [journals EXCEPT ![j].status = "REVERSED",
                                          ![k] = NewReversal(u, j, mirrored)]
          /\ ledger' = Append(ledger, [journal |-> k, lines |-> mirrored,
                                       period |-> period])
    BY DEF ReverseWrite
  <1>5. req' = [req EXCEPT ![r] = Idle] /\ period' = period
    BY DEF ReverseWrite, End
  <1>6. ledger \in Seq(Entry) /\ DOMAIN journals = Journals
    BY <1>0 DEF TypeOK
  <1>7. Exists(j) /\ j # k /\ EntriesOf(k) = {}
    BY <1>0, <1>2, <1>4 DEF PostedIffBookedOnce
  <1>8. journals[j] \in Journal
    BY <1>0, <1>2, <1>7 DEF TypeOK
  <1> DEFINE entry == [journal |-> k, lines |-> mirrored, period |-> period]
  <1>9. entry \in Entry /\ entry.journal = k
    BY <1>0, <1>3 DEF Entry, TypeOK
  <1> HIDE DEF j, u, mirrored
  <1>10. /\ journals'[j] = [journals[j] EXCEPT !.status = "REVERSED"]
         /\ journals'[k] = NewReversal(u, j, mirrored)
         /\ \A i \in Journals : i \notin {j, k} => journals'[i] = journals[i]
         /\ DOMAIN journals' = Journals
    BY <1>2, <1>4, <1>6, <1>7
  <1>11. /\ journals'[j] \in Journal
         /\ journals'[j].status = "REVERSED"
         /\ journals'[j].isPosted = journals[j].isPosted
         /\ journals'[j].createdBy = journals[j].createdBy
         /\ journals'[j].approvedBy = journals[j].approvedBy
         /\ journals'[j].reversalOf = journals[j].reversalOf
    BY <1>8, <1>10 DEF Journal, Statuses, Editable
  <1>12. /\ journals'[k] \in Journal
         /\ journals'[k].status = "POSTED"
         /\ journals'[k].isPosted
         /\ journals'[k].reversalOf = j /\ j # NoJournal
    BY <1>2, <1>3, <1>10, JournalsAssumption
    DEF NewReversal, Journal, Statuses, Editable
  <1>13. /\ ledger' \in Seq(Entry)
         /\ DOMAIN ledger' = DOMAIN ledger \union {n}
         /\ n \in DOMAIN ledger' /\ ledger'[n].journal = k
         /\ \A i \in DOMAIN ledger :
               i \in Nat /\ i < n /\ ledger'[i] = ledger[i]
         /\ \A i \in Journals :
               EntriesOf(i)' = EntriesOf(i) \union
                                 (IF i = k THEN {n} ELSE {})
    <2>1. ledger' = Append(ledger, entry)
      BY <1>4
    <2> HIDE DEF entry
    <2> QED
      BY <1>6, <1>9, <2>1, EntryAdded
  <1> HIDE DEF entry, n
  <1>14. \A i \in Journals : Exists(i)' <=> Exists(i) \/ i = k
    <2>1. journals'[j] # Absent /\ journals'[k] # Absent
      BY <1>11, <1>12 DEF Absent
    <2> QED
      BY <1>2, <1>4, <1>7, <1>10, <2>1 DEF Exists
  <1>15. \A i \in Journals : Exists(i) => Kept(i)
    BY <1>4, <1>10, <1>11, <1>14 DEF Kept, ApprovedByAnother
  <1>16. /\ DOMAIN req' = Requests
         /\ \A q \in Requests : RequestOK(req'[q])
         /\ \A q \in Requests : IsOnRecord(req[q])'
    BY <1>5, <1>13, <1>15, EndOnRecord
  <1>17. TypeOK'
    BY <1>0, <1>5, <1>10, <1>11, <1>12, <1>13, <1>14, <1>16 DEF TypeOK
  <1>18. PostedIffBookedOnce'
    <2> SUFFICES ASSUME NEW i \in Journals
                 PROVE  /\ \A a, b \in EntriesOf(i)' : a = b
                        /\ EntriesOf(i)' # {}
                             <=> Exists(i)' /\ journals'[i].isPosted
      BY DEF PostedIffBookedOnce
    <2>1. CASE i = k
      <3>1. EntriesOf(i)' = {n}
        BY <1>7, <1>13, <2>1
      <3> QED
        BY <1>12, <1>14, <2>1, <3>1
    <2>2. CASE i # k
      <3>1. EntriesOf(i)' = EntriesOf(i) /\ (Exists(i)' <=> Exists(i))
        BY <1>13, <1>14, <2>2
      <3>2. journals'[i].isPosted = journals[i].isPosted
        <4>1. CASE i = j
          BY <1>11, <4>1
        <4>2. CASE i # j
          BY <1>10, <2>2, <4>2
        <4> QED
          BY <4>1, <4>2
      <3> QED
        BY <1>0, <3>1, <3>2 DEF PostedIffBookedOnce
    <2> QED
      BY <2>1, <2>2
  <1>19. DraftsNeedAnotherApprover'
    <2> SUFFICES ASSUME NEW i \in Journals, Exists(i)',
                        journals'[i].reversalOf = NoJournal,
                        \/ journals'[i].status
                             \in {"APPROVED", "POSTED", "REVERSED"}
                        \/ EntriesOf(i)' # {}
                 PROVE  ApprovedByAnother(i)'
      BY DEF DraftsNeedAnotherApprover
    <2>1. i # k /\ Exists(i) /\ EntriesOf(i)' = EntriesOf(i)
      BY <1>12, <1>13, <1>14
    <2>2. CASE i = j
      <3>1. ApprovedByAnother(j)
        BY <1>0, <1>2, <1>7, <1>11, <2>2 DEF DraftsNeedAnotherApprover
      <3> QED
        BY <1>11, <2>2, <3>1 DEF ApprovedByAnother
    <2>3. CASE i # j
      BY <1>0, <1>10, <2>1, <2>3
      DEF DraftsNeedAnotherApprover, ApprovedByAnother
    <2> QED
      BY <2>2, <2>3
  <1>20. ReversalsFollowTheirOriginal'
    <2> SUFFICES ASSUME NEW i \in Journals, Exists(i)',
                        journals'[i].reversalOf # NoJournal
                 PROVE  \E a, b \in DOMAIN ledger' :
                           /\ a < b
                           /\ ledger'[a].journal = journals'[i].reversalOf
                           /\ ledger'[b].journal = i
      BY DEF ReversalsFollowTheirOriginal
    <2>1. CASE i = k
      <3>1. PICK a \in DOMAIN ledger : ledger[a].journal = j
        BY <1>2 DEF EntriesOf
      <3> QED
        BY <1>12, <1>13, <2>1, <3>1
    <2>2. CASE i # k
      <3>1. Exists(i) /\ journals'[i].reversalOf = journals[i].reversalOf
        BY <1>10, <1>11, <1>14, <2>2
      <3>2. PICK a, b \in DOMAIN ledger :
              /\ a < b
              /\ ledger[a].journal = journals[i].reversalOf
              /\ ledger[b].journal = i
        BY <1>0, <3>1 DEF ReversalsFollowTheirOriginal
      <3> QED
        BY <1>13, <3>1, <3>2
    <2> QED
      BY <2>1, <2>2
  <1>21. StatusesAreBooked'
    BY <1>0, <1>2, <1>10, <1>13, <1>14 DEF StatusesAreBooked
  <1> QED
    BY <1>16, <1>17, <1>18, <1>19, <1>20, <1>21
    DEF OverlapInv, StatusesAreBooked

-----------------------------------------------------------------------------
LEMMA PeriodOrAbortStep ==
    ASSUME OverlapInv, NEW r \in Requests, UpdatePeriodWrite(r) \/ Abort(r)
    PROVE  OverlapInv'
  <1>0. TypeOK /\ RequestOK(req[r])
    BY DEF OverlapInv, TypeOK
  <1>1. /\ req' = [req EXCEPT ![r] = Idle]
        /\ UNCHANGED <<journals, ledger>>
        /\ period' \in PeriodStatuses
    BY <1>0 DEF UpdatePeriodWrite, Abort, End, TypeOK, RequestOK, Idle
  <1>2. /\ PostedIffBookedOnce' /\ DraftsNeedAnotherApprover'
        /\ ReversalsFollowTheirOriginal' /\ StatusesAreBooked'
        /\ \A k \in Journals : Exists(k) => Kept(k)
        /\ \A k \in Journals : EntriesOf(k) # {} => EntriesOf(k)' # {}
    BY <1>1, BooksUnchanged
  <1>3. /\ DOMAIN req' = Requests
        /\ \A q \in Requests : RequestOK(req'[q])
        /\ \A q \in Requests : IsOnRecord(req[q])'
    BY <1>1, <1>2, EndOnRecord
  <1>4. TypeOK'
    BY <1>0, <1>1, <1>3 DEF TypeOK, Exists
  <1> QED
    BY <1>2, <1>3, <1>4 DEF OverlapInv, StatusesAreBooked

LEMMA OverlapInit == Init => OverlapInv
  <1> SUFFICES ASSUME Init PROVE OverlapInv
    OBVIOUS
  <1>1. PICK u \in Users, lines \in Contents :
          journals = [j \in Journals |-> IF j = Main THEN NewDraft(u, lines)
                                         ELSE Absent]
    BY DEF Init
  <1>2. NewDraft(u, lines) \in Journal
    BY LinesAssumption DEF NewDraft, Journal, Statuses, Editable
  <1>3. \A j \in Journals : Exists(j) => journals[j] = NewDraft(u, lines)
    BY <1>1 DEF Exists
  <1>4. ledger = <<>> /\ \A j \in Journals : EntriesOf(j) = {}
    BY DEF Init, EntriesOf
  <1>5. \A r \in Requests : req[r] = Idle
    BY DEF Init
  <1>6. TypeOK
    BY <1>1, <1>2, <1>3, <1>4, <1>5 DEF Init, TypeOK, RequestOK
  <1>7. PostedIffBookedOnce /\ DraftsNeedAnotherApprover
    BY <1>3, <1>4
    DEF PostedIffBookedOnce, DraftsNeedAnotherApprover, NewDraft
  <1>8. ReversalsFollowTheirOriginal
    BY <1>3 DEF ReversalsFollowTheirOriginal, NewDraft
  <1>9. \A j \in Journals :
          Exists(j) => journals[j].status \notin {"POSTED", "REVERSED"}
    BY <1>3 DEF NewDraft
  <1>10. \A r \in Requests : IsOnRecord(req[r])
    BY <1>5 DEF IsOnRecord, Idle
  <1> QED
    BY <1>6, <1>7, <1>8, <1>9, <1>10 DEF OverlapInv

LEMMA OverlapStep == OverlapInv /\ [Next]_vars => OverlapInv'
  <1> SUFFICES ASSUME OverlapInv, [Next]_vars PROVE OverlapInv'
    OBVIOUS
  <1>1. ASSUME NEW r \in Requests, Call(r) PROVE OverlapInv'
    BY <1>1, CallStep
  <1>2. ASSUME NEW r \in Requests, Proceed(r) PROVE OverlapInv'
    BY <1>2, UpdateDraftWriteStep, TransitionStatusStep, PostWriteStep,
       ReverseWriteStep, PeriodOrAbortStep DEF Proceed
  <1>3. CASE UNCHANGED vars
    <2>1. UNCHANGED <<journals, ledger>> /\ UNCHANGED <<period, req>>
      BY <1>3 DEF vars
    <2>2. /\ PostedIffBookedOnce' /\ DraftsNeedAnotherApprover'
          /\ ReversalsFollowTheirOriginal' /\ StatusesAreBooked'
          /\ \A k \in Journals : Exists(k) => Kept(k)
          /\ \A k \in Journals : EntriesOf(k) # {} => EntriesOf(k)' # {}
      BY <2>1, BooksUnchanged
    <2>3. TypeOK'
      BY <2>1 DEF OverlapInv, TypeOK, Exists
    <2>4. \A r \in Requests : IsOnRecord(req[r])'
      BY <2>1, <2>2, OthersOnRecord
    <2> QED
      BY <2>2, <2>3, <2>4 DEF OverlapInv, StatusesAreBooked
  <1> QED
    BY <1>1, <1>2, <1>3 DEF Next

(* However requests overlap, the invariant the others follow from holds:   *)
(* the types of the rows, the ledger and the requests, the three promises  *)
(* below, and what each handler of journals.service.ts read before its     *)
(* await and still relies on after it.                                     *)
THEOREM OverlapCorrect == Spec => []OverlapInv
  BY OverlapInit, OverlapStep, PTL DEF Spec

(* However posts, cancels and reversals overlap, a journal is posted at    *)
(* most once and postedJournalEntryId says whether it was: what post       *)
(* leaves to the unique reference of the journal entry.                    *)
THEOREM BookedOnce == Spec => []PostedIffBookedOnce
  <1>1. OverlapInv => PostedIffBookedOnce
    BY DEF OverlapInv
  <1> QED
    BY <1>1, OverlapCorrect, PTL

(* However approvals, recalls and edits overlap, what a maker drafted is   *)
(* approved, or in the ledger, only if somebody else approved it: approve  *)
(* checks the maker on a copy that may be stale, and that is enough.       *)
THEOREM MakerIsNotChecker == Spec => []DraftsNeedAnotherApprover
  <1>1. OverlapInv => DraftsNeedAnotherApprover
    BY DEF OverlapInv
  <1> QED
    BY <1>1, OverlapCorrect, PTL

(* However requests overlap, reverse books every reversal after the entry  *)
(* of the journal it reverses.                                             *)
THEOREM ReversalsAreBookedLater == Spec => []ReversalsFollowTheirOriginal
  <1>1. OverlapInv => ReversalsFollowTheirOriginal
    BY DEF OverlapInv
  <1> QED
    BY <1>1, OverlapCorrect, PTL

(* No handler of journals.service.ts rewrites or removes a ledger entry.   *)
THEOREM NothingLeavesTheLedger == Spec => LedgerIsAppendOnly
  <1>1. ASSUME OverlapInv, [Next]_vars
        PROVE  KeepsEveryEntry
    <2>1. ledger \in Seq(Entry)
      BY <1>1 DEF OverlapInv, TypeOK
    <2>2. \/ ledger' = ledger
          \/ \E r \in Requests : PostWrite(r) \/ ReverseWrite(r)
      <3>1. ASSUME NEW r \in Requests, Call(r) PROVE ledger' = ledger
        BY <3>1
        DEF Call, Begin, UpdateDraftRead, SubmitRead, RecallRead, ApproveRead,
            RejectRead, CancelRead, PostRead, ReverseRead, UpdatePeriodRead
      <3>2. ASSUME NEW r \in Requests, UpdateDraftWrite(r) \/ Abort(r)
                     \/ TransitionStatus(r) \/ UpdatePeriodWrite(r)
            PROVE  ledger' = ledger
        BY <3>2
        DEF UpdateDraftWrite, TransitionStatus, UpdatePeriodWrite, Abort
      <3> QED
        BY <1>1, <3>1, <3>2 DEF Next, Proceed, vars
    <2>3. CASE ledger' = ledger
      BY <2>1, <2>3 DEF KeepsEveryEntry
    <2>4. ASSUME NEW entry, ledger' = Append(ledger, entry)
          PROVE  KeepsEveryEntry
      <3>1. DOMAIN ledger = 1 .. Len(ledger) /\ Len(ledger) \in Nat
        BY <2>1
      <3>2. \A i \in 1 .. Len(ledger) : ledger'[i] = ledger[i]
        BY <2>1, <2>4
      <3> QED
        BY <2>1, <2>4, <3>1, <3>2 DEF KeepsEveryEntry
    <2>5. ASSUME NEW r \in Requests, PostWrite(r) \/ ReverseWrite(r)
          PROVE  \E entry : ledger' = Append(ledger, entry)
      BY <2>5 DEF PostWrite, ReverseWrite
    <2> QED
      BY <2>2, <2>3, <2>4, <2>5
  <1>2. OverlapInv /\ [Next]_vars => [KeepsEveryEntry]_vars
    BY <1>1
  <1> QED
    BY <1>2, OverlapCorrect, PTL DEF Spec, LedgerIsAppendOnly

-----------------------------------------------------------------------------
(* One request at a time.                                                  *)

OneRequest == \A r, s \in Requests : r = s

Booked == {"POSTED", "REVERSED"}

(* What the request in flight worked out still follows from the rows.      *)
IsFresh(q) ==
    /\ q.pc = "update" =>
         /\ Exists(q.on) /\ journals[q.on].status \in Editable
         /\ journals[q.on].reversalOf = NoJournal
         /\ q.data \in Contents
    /\ q.pc = "transition" =>
         /\ Exists(q.on)
         /\ \/ /\ q.data.to = "PENDING_APPROVAL"
               /\ journals[q.on].status \in Editable
            \/ /\ q.data.to \in {"DRAFT", "APPROVED", "REJECTED"}
               /\ journals[q.on].status = "PENDING_APPROVAL"
            \/ /\ q.data.to = "CANCELLED"
               /\ journals[q.on].status \notin Booked
    /\ q.pc = "post" =>
         /\ Exists(q.on) /\ journals[q.on].status = "APPROVED"
         /\ q.data = journals[q.on].lines
         /\ Balanced(q.data)
         /\ period = "OPEN"
    /\ q.pc = "reverse" =>
         /\ Exists(q.on) /\ journals[q.on].status = "POSTED"
         /\ Reversals(q.on) = {}
         /\ q.data.lines = journals[q.on].lines

(* The row says what its entry says, and whether there is one. *)
EntriesAreRows ==
    \A i \in DOMAIN ledger :
        ledger[i].lines = journals[ledger[i].journal].lines

PostedIsBooked ==
    \A j \in Journals :
        Exists(j) => (journals[j].isPosted <=> journals[j].status \in Booked)

(* A journal is reversed once, by its mirror image. *)
ReversedOnce ==
    \A j \in Journals : Exists(j) =>
        IF journals[j].status = "REVERSED"
        THEN \E k \in Journals : Reversals(j) = {k}
        ELSE Reversals(j) = {}

ReversalsMirror ==
    \A j, k \in Journals :
        Exists(j) /\ k \in Reversals(j) =>
            journals[k].lines = Mirror(journals[j].lines)

RowsAgree ==
    /\ EntriesAreRows /\ PostedIsBooked
    /\ ReversedOnce /\ ReversalsMirror
    /\ DraftsBookedInOpenPeriod
    /\ LedgerBalances
    /\ Exists(Main)

SerialInv ==
    /\ OverlapInv
    /\ RowsAgree
    /\ \A r \in Requests : IsFresh(req[r])

-----------------------------------------------------------------------------
(* A request that begins, and one that ends.                               *)

LEMMA SameRows ==
    ASSUME RowsAgree, journals' = journals, ledger' = ledger
    PROVE  RowsAgree'
  BY DEF RowsAgree, EntriesAreRows, PostedIsBooked, ReversedOnce,
         ReversalsMirror, DraftsBookedInOpenPeriod, LedgerBalances,
         Reversals, Exists

LEMMA BeginSerial ==
    ASSUME OneRequest, SerialInv, NEW r \in Requests,
           NEW operation, NEW j, NEW data,
           Begin(r, operation, j, data), OverlapInv',
           IsFresh([pc |-> operation, on |-> j, data |-> data])
    PROVE  SerialInv'
  <1>1. /\ req'[r] = [pc |-> operation, on |-> j, data |-> data]
        /\ journals' = journals /\ period' = period /\ ledger' = ledger
    BY DEF Begin, SerialInv, OverlapInv, TypeOK
  <1>2. RowsAgree'
    BY <1>1, SameRows DEF SerialInv
  <1>3. IsFresh(req[r])'
    BY <1>1 DEF IsFresh, Exists, Reversals
  <1> QED
    BY <1>2, <1>3 DEF SerialInv, OneRequest

LEMMA EndSerial ==
    ASSUME OneRequest, NEW r \in Requests, req'[r] = Idle,
           OverlapInv', RowsAgree'
    PROVE  SerialInv'
  <1>1. IsFresh(req[r])'
    BY DEF IsFresh, Idle
  <1> QED
    BY <1>1 DEF SerialInv, OneRequest

LEMMA CallSerial ==
    ASSUME OneRequest, SerialInv, NEW r \in Requests, Call(r)
    PROVE  SerialInv'
  <1>0. OverlapInv'
    BY CallStep DEF SerialInv
  <1>1. ASSUME NEW j \in Journals, NEW u \in Users, UpdateDraftRead(r, j, u)
        PROVE  SerialInv'
    <2>1. PICK lines \in Contents : Begin(r, "update", j, lines)
      BY <1>1 DEF UpdateDraftRead
    <2>2. IsFresh([pc |-> "update", on |-> j, data |-> lines])
      BY <1>1 DEF IsFresh, UpdateDraftRead
    <2> QED
      BY <1>0, <2>1, <2>2, BeginSerial
  <1>2. ASSUME NEW j \in Journals, NEW u \in Users,
               \/ SubmitRead(r, j, u) \/ RecallRead(r, j, u)
               \/ ApproveRead(r, j, u) \/ RejectRead(r, j, u)
               \/ CancelRead(r, j, u)
        PROVE  SerialInv'
    <2>1. PICK to :
             /\ Begin(r, "transition", j, [to |-> to, actor |-> u])
             /\ Exists(j)
             /\ \/ to = "PENDING_APPROVAL" /\ journals[j].status \in Editable
                \/ /\ to \in {"DRAFT", "APPROVED", "REJECTED"}
                   /\ journals[j].status = "PENDING_APPROVAL"
                \/ to = "CANCELLED" /\ journals[j].status \notin Booked
      BY <1>2
      DEF SubmitRead, RecallRead, ApproveRead, RejectRead, CancelRead, Booked
    <2>2. IsFresh([pc |-> "transition", on |-> j,
                   data |-> [to |-> to, actor |-> u]])
      BY <2>1 DEF IsFresh
    <2> QED
      BY <1>0, <2>1, <2>2, BeginSerial
  <1>3. ASSUME NEW j \in Journals, NEW u \in Users, ReverseRead(r, j, u)
        PROVE  SerialInv'
    <2>1. IsFresh([pc |-> "reverse", on |-> j,
                   data |-> [actor |-> u, lines |-> journals[j].lines]])
      BY <1>3 DEF IsFresh, ReverseRead
    <2> QED
      BY <1>0, <1>3, <2>1, BeginSerial DEF ReverseRead
  <1>4. ASSUME NEW j \in Journals, PostRead(r, j)
        PROVE  SerialInv'
    <2>1. IsFresh([pc |-> "post", on |-> j, data |-> journals[j].lines])
      BY <1>4 DEF IsFresh, PostRead, Validate
    <2> QED
      BY <1>0, <1>4, <2>1, BeginSerial DEF PostRead
  <1>5. CASE UpdatePeriodRead(r)
    <2>1. PICK status \in PeriodStatuses : Begin(r, "period", NoJournal, status)
      BY <1>5 DEF UpdatePeriodRead
    <2>2. IsFresh([pc |-> "period", on |-> NoJournal, data |-> status])
      BY DEF IsFresh
    <2> QED
      BY <1>0, <2>1, <2>2, BeginSerial
  <1> QED
    BY <1>1, <1>2, <1>3, <1>4, <1>5 DEF Call

-----------------------------------------------------------------------------
(* A request that writes.                                                  *)

(* What is on the one side of a line is on the other side of its mirror    *)
(* image, so that the two totals change places.                            *)
LEMMA MirrorBalances ==
    ASSUME NEW lines \in Seq(Line)
    PROVE  Balanced(Mirror(lines)) <=> Balanced(lines)
  <1>0. \A i \in DOMAIN lines : lines[i] \in Line
    OBVIOUS
  <1>1. ASSUME NEW i \in DOMAIN lines
        PROVE  /\ Mirror(lines)[i].debit = lines[i].credit
               /\ Mirror(lines)[i].credit = lines[i].debit
    BY <1>0 DEF Mirror, Line
  <1>2. DOMAIN Mirror(lines) = DOMAIN lines
    BY DEF Mirror
  <1>3. TotalDebit(Mirror(lines)) = TotalCredit(lines)
    BY <1>1, <1>2 DEF TotalDebit, TotalCredit
  <1>4. TotalCredit(Mirror(lines)) = TotalDebit(lines)
    BY <1>1, <1>2 DEF TotalDebit, TotalCredit
  <1> QED
    BY <1>3, <1>4 DEF Balanced

(* What a write may rely on. *)
LEMMA WriteFacts ==
    ASSUME SerialInv, NEW r \in Requests
    PROVE  /\ TypeOK /\ DOMAIN journals = Journals
           /\ \A j \in Journals : Exists(j) => journals[j] \in Journal
           /\ IsFresh(req[r]) /\ RequestOK(req[r])
           /\ PostedIffBookedOnce /\ ReversalsFollowTheirOriginal
           /\ EntriesAreRows /\ PostedIsBooked
           /\ ReversedOnce /\ ReversalsMirror
           /\ DraftsBookedInOpenPeriod /\ LedgerBalances /\ Exists(Main)
  BY DEF SerialInv, OverlapInv, RowsAgree, TypeOK

LEMMA EntriesAreOfJournals ==
    ASSUME SerialInv
    PROVE  \A i \in DOMAIN ledger :
              ledger[i].journal \in Journals /\ Exists(ledger[i].journal)
  <1> SUFFICES ASSUME NEW i \in DOMAIN ledger
               PROVE  /\ ledger[i].journal \in Journals
                      /\ Exists(ledger[i].journal)
    OBVIOUS
  <1>1. ledger \in Seq(Entry) /\ PostedIffBookedOnce
    BY DEF SerialInv, OverlapInv, TypeOK
  <1>2. ledger[i] \in Entry
    BY <1>1
  <1>3. ledger[i].journal \in Journals
    BY <1>2 DEF Entry
  <1>4. EntriesOf(ledger[i].journal) # {}
    BY DEF EntriesOf
  <1> QED
    BY <1>1, <1>3, <1>4 DEF PostedIffBookedOnce

(* A journal that is not booked has no entry, reverses nothing and is not  *)
(* reversed.                                                               *)
LEMMA NotBooked ==
    ASSUME SerialInv, NEW r \in Requests, NEW j \in Journals,
           Exists(j), journals[j].status \notin Booked
    PROVE  /\ EntriesOf(j) = {}
           /\ \A i \in DOMAIN ledger : ledger[i].journal # j
           /\ journals[j].reversalOf = NoJournal
           /\ Reversals(j) = {}
  <1>1. EntriesOf(j) = {}
    BY WriteFacts DEF PostedIsBooked, PostedIffBookedOnce
  <1>2. \A i \in DOMAIN ledger : ledger[i].journal # j
    BY <1>1 DEF EntriesOf
  <1>3. journals[j].reversalOf = NoJournal
    BY <1>2, WriteFacts DEF ReversalsFollowTheirOriginal
  <1>4. Reversals(j) = {}
    BY WriteFacts DEF ReversedOnce, Booked
  <1> QED
    BY <1>1, <1>2, <1>3, <1>4

(* An edit or a transition of a journal that is not booked. *)
LEMMA RowSerial ==
    ASSUME SerialInv, NEW r \in Requests, NEW j \in Journals,
           Exists(j), journals[j].status \notin Booked,
           NEW row \in Journal, row.status \notin Booked,
           row.reversalOf = journals[j].reversalOf,
           row.isPosted = journals[j].isPosted,
           journals' = [journals EXCEPT ![j] = row], ledger' = ledger
    PROVE  RowsAgree'
  <1>1. /\ DOMAIN journals' = Journals
        /\ journals'[j] = row
        /\ \A k \in Journals : k # j => journals'[k] = journals[k]
    BY WriteFacts
  <1>2. row # Absent
    BY DEF Journal, Statuses, Editable, Absent
  <1>3. \A k \in Journals : Exists(k)' <=> Exists(k)
    BY <1>1, <1>2 DEF Exists
  <1>4. /\ \A i \in DOMAIN ledger : ledger[i].journal # j
        /\ journals[j].reversalOf = NoJournal /\ Reversals(j) = {}
    BY NotBooked
  <1>5. \A k \in Journals : journals'[k].reversalOf = journals[k].reversalOf
    BY <1>1
  <1>6. \A k \in Journals : Reversals(k)' = Reversals(k)
    BY <1>3, <1>5 DEF Reversals
  <1>7. \A i \in DOMAIN ledger : ledger[i].journal \in Journals
    BY EntriesAreOfJournals
  <1>8. EntriesAreRows' /\ DraftsBookedInOpenPeriod'
    BY <1>1, <1>4, <1>7, WriteFacts
    DEF EntriesAreRows, DraftsBookedInOpenPeriod
  <1>13. LedgerBalances'
    BY WriteFacts DEF LedgerBalances
  <1>9. PostedIsBooked'
    BY <1>1, <1>3, WriteFacts DEF PostedIsBooked
  <1>10. ReversedOnce'
    <2> SUFFICES ASSUME NEW k \in Journals, Exists(k)'
                 PROVE  IF journals'[k].status = "REVERSED"
                        THEN \E m \in Journals : Reversals(k)' = {m}
                        ELSE Reversals(k)' = {}
      BY DEF ReversedOnce
    <2>1. CASE k = j
      BY <1>1, <1>4, <1>6, <2>1 DEF Booked
    <2>2. CASE k # j
      BY <1>1, <1>3, <1>6, <2>2, WriteFacts DEF ReversedOnce
    <2> QED
      BY <2>1, <2>2
  <1>11. ReversalsMirror'
    <2> SUFFICES ASSUME NEW i \in Journals, NEW k \in Journals,
                        Exists(i)', k \in Reversals(i)'
                 PROVE  journals'[k].lines = Mirror(journals'[i].lines)
      BY DEF ReversalsMirror
    <2>1. k \in Reversals(i) /\ Exists(i)
      BY <1>3, <1>6
    <2>2. i # j
      BY <1>4, <2>1
    <2>3. journals[k].reversalOf = i /\ i # NoJournal
      BY <2>1, JournalsAssumption DEF Reversals
    <2>4. k # j
      BY <1>4, <2>3
    <2> QED
      BY <1>1, <2>1, <2>2, <2>4, WriteFacts DEF ReversalsMirror
  <1>12. Exists(Main)'
    BY <1>3, WriteFacts, JournalsAssumption
  <1> QED
    BY <1>8, <1>9, <1>10, <1>11, <1>12, <1>13 DEF RowsAgree

LEMMA UpdateDraftSerial ==
    ASSUME SerialInv, NEW r \in Requests, UpdateDraftWrite(r)
    PROVE  RowsAgree'
  <1> DEFINE j == req[r].on
             row == [journals[j] EXCEPT !.lines = req[r].data]
  <1>1. req[r].pc = "update" /\ RequestOK(req[r]) /\ IsFresh(req[r])
    BY WriteFacts DEF UpdateDraftWrite, End
  <1>2. /\ j \in Journals /\ Exists(j) /\ req[r].data \in Seq(Line)
        /\ journals[j].status \notin Booked
    BY <1>1 DEF RequestOK, Idle, IsFresh, Editable, Booked
  <1>3. journals[j] \in Journal
    BY <1>2, WriteFacts
  <1>4. /\ row \in Journal /\ row.status = journals[j].status
        /\ row.reversalOf = journals[j].reversalOf
        /\ row.isPosted = journals[j].isPosted
    BY <1>2, <1>3 DEF Journal
  <1>5. journals' = [journals EXCEPT ![j] = row] /\ ledger' = ledger
    BY DEF UpdateDraftWrite
  <1> HIDE DEF row, j
  <1> QED
    BY <1>2, <1>4, <1>5, RowSerial

LEMMA TransitionSerial ==
    ASSUME SerialInv, NEW r \in Requests, TransitionStatus(r)
    PROVE  RowsAgree'
  <1> DEFINE j == req[r].on
             to == req[r].data.to
             u == req[r].data.actor
             row == [journals[j] EXCEPT
                       !.status = to,
                       !.submittedBy = IF to = "PENDING_APPROVAL" THEN u ELSE @,
                       !.approvedBy = IF to = "APPROVED" THEN u ELSE @]
  <1>1. req[r].pc = "transition" /\ RequestOK(req[r]) /\ IsFresh(req[r])
    BY WriteFacts DEF TransitionStatus, End
  <1>2. /\ j \in Journals /\ Exists(j)
        /\ to \in Statuses \ {"POSTED", "REVERSED"} /\ u \in Users
        /\ journals[j].status \notin Booked
    BY <1>1 DEF RequestOK, Idle, IsFresh, Editable, Booked
  <1>3. journals[j] \in Journal
    BY <1>2, WriteFacts
  <1>4. row \in Journal
    BY <1>2, <1>3 DEF Journal
  <1>5. /\ row.status = to
        /\ row.reversalOf = journals[j].reversalOf
        /\ row.isPosted = journals[j].isPosted
    BY <1>3 DEF Journal
  <1>6. journals' = [journals EXCEPT ![j] = row] /\ ledger' = ledger
    BY DEF TransitionStatus
  <1>7. to \notin Booked
    BY <1>2 DEF Booked
  <1> HIDE DEF row, j, to, u
  <1> QED
    BY <1>2, <1>4, <1>5, <1>6, <1>7, RowSerial

(* A journal being posted is as it was read, approved, and in an open      *)
(* period.                                                                 *)
LEMMA PostSerial ==
    ASSUME SerialInv, NEW r \in Requests, PostWrite(r)
    PROVE  RowsAgree'
  <1> DEFINE j == req[r].on
             entry == [journal |-> j, lines |-> req[r].data, period |-> period]
             n == Len(ledger) + 1
  <1>1. req[r].pc = "post" /\ RequestOK(req[r]) /\ IsFresh(req[r])
    BY WriteFacts DEF PostWrite, End
  <1>2. /\ j \in Journals /\ Exists(j) /\ req[r].data \in Seq(Line)
        /\ journals[j].status = "APPROVED" /\ req[r].data = journals[j].lines
        /\ Balanced(req[r].data) /\ period = "OPEN"
    BY <1>1 DEF RequestOK, Idle, IsFresh
  <1>3. journals[j] \in Journal /\ journals[j].status \notin Booked
    BY <1>2, WriteFacts DEF Booked
  <1>4. entry \in Entry
    BY <1>2, WriteFacts DEF Entry, TypeOK
  <1>5. /\ entry.journal = j /\ entry.lines = journals[j].lines
        /\ entry.period = "OPEN" /\ Balanced(entry.lines)
    BY <1>2
  <1>6. /\ ledger' = Append(ledger, entry)
        /\ journals' = [journals EXCEPT ![j].status = "POSTED",
                                        ![j].isPosted = TRUE]
    BY DEF PostWrite
  <1> HIDE DEF j, entry
  <1>7. /\ journals'[j].status = "POSTED" /\ journals'[j].isPosted
        /\ journals'[j].lines = journals[j].lines
        /\ journals'[j].reversalOf = journals[j].reversalOf
        /\ journals'[j] # Absent
        /\ \A k \in Journals : k # j => journals'[k] = journals[k]
    BY <1>2, <1>3, <1>6, WriteFacts DEF Journal, Absent
  <1>8. ledger \in Seq(Entry)
    BY WriteFacts DEF TypeOK
  <1>9. /\ DOMAIN ledger' = DOMAIN ledger \union {n}
        /\ \A i \in DOMAIN ledger : ledger'[i] = ledger[i]
        /\ ledger'[n] = entry
    BY <1>4, <1>6, <1>8, EntryAdded
  <1> HIDE DEF n
  <1>10. /\ \A i \in DOMAIN ledger : ledger[i].journal # j
         /\ journals[j].reversalOf = NoJournal /\ Reversals(j) = {}
    BY <1>2, <1>3, NotBooked
  <1>11. \A i \in DOMAIN ledger : ledger[i].journal \in Journals
    BY EntriesAreOfJournals
  <1>12. \A k \in Journals : Exists(k)' <=> Exists(k)
    BY <1>2, <1>7 DEF Exists
  <1>13. \A k \in Journals : journals'[k].reversalOf = journals[k].reversalOf
    BY <1>7
  <1>14. \A k \in Journals : Reversals(k)' = Reversals(k)
    BY <1>12, <1>13 DEF Reversals
  <1>15. EntriesAreRows'
    BY <1>5, <1>7, <1>9, <1>10, <1>11, WriteFacts DEF EntriesAreRows
  <1>16. DraftsBookedInOpenPeriod'
    BY <1>5, <1>7, <1>9, <1>10, <1>11, WriteFacts
    DEF DraftsBookedInOpenPeriod
  <1>17. PostedIsBooked'
    BY <1>7, <1>12, WriteFacts DEF PostedIsBooked, Booked
  <1>18. ReversedOnce'
    <2> SUFFICES ASSUME NEW k \in Journals, Exists(k)'
                 PROVE  IF journals'[k].status = "REVERSED"
                        THEN \E m \in Journals : Reversals(k)' = {m}
                        ELSE Reversals(k)' = {}
      BY DEF ReversedOnce
    <2>1. CASE k = j
      BY <1>7, <1>10, <1>14, <2>1
    <2>2. CASE k # j
      BY <1>7, <1>12, <1>14, <2>2, WriteFacts DEF ReversedOnce
    <2> QED
      BY <2>1, <2>2
  <1>19. \A k \in Journals : journals'[k].lines = journals[k].lines
    BY <1>7
  <1>20. ReversalsMirror'
    <2> SUFFICES ASSUME NEW i \in Journals, NEW k \in Journals,
                        Exists(i)', k \in Reversals(i)'
                 PROVE  journals'[k].lines = Mirror(journals'[i].lines)
      BY DEF ReversalsMirror
    <2>1. k \in Reversals(i) /\ Exists(i)
      BY <1>12, <1>14
    <2> QED
      BY <1>19, <2>1, WriteFacts DEF ReversalsMirror
  <1>21. Exists(Main)'
    BY <1>12, WriteFacts, JournalsAssumption
  <1>22. LedgerBalances'
    BY <1>5, <1>9, WriteFacts DEF LedgerBalances
  <1> QED
    BY <1>15, <1>16, <1>17, <1>18, <1>20, <1>21, <1>22 DEF RowsAgree

(* What a reversal does to the rows: the journal j gets its only reversal, *)
(* the new row k, which nothing reverses.                                  *)
LEMMA ReversalAdded ==
    ASSUME SerialInv, NEW r \in Requests, NEW j \in Journals,
           NEW k \in Journals, ~ Exists(k), Exists(j), Reversals(j) = {},
           \A i \in Journals : Exists(i)' <=> Exists(i) \/ i = k,
           journals'[k].reversalOf = j,
           \A i \in Journals :
              Exists(i) => journals'[i].reversalOf = journals[i].reversalOf
    PROVE  /\ Reversals(j)' = {k} /\ Reversals(k)' = {}
           /\ \A i \in Journals \ {j, k} : Reversals(i)' = Reversals(i)
  <1>1. \A i \in Journals : Exists(i) => journals[i].reversalOf # k
    <2> SUFFICES ASSUME NEW i \in Journals, Exists(i),
                        journals[i].reversalOf = k
                 PROVE  FALSE
      OBVIOUS
    <2>1. k # NoJournal
      BY JournalsAssumption
    <2>2. PICK a \in DOMAIN ledger : ledger[a].journal = k
      BY <2>1, WriteFacts DEF ReversalsFollowTheirOriginal
    <2> QED
      BY <2>2, EntriesAreOfJournals
  <1>2. j # k
    OBVIOUS
  <1>3. Reversals(k)' = {}
    BY <1>1, <1>2 DEF Reversals
  <1>4. \A i \in Journals : Exists(i) => journals[i].reversalOf # j
    BY DEF Reversals
  <1>5. Reversals(j)' = {k}
    BY <1>4 DEF Reversals
  <1>6. ASSUME NEW i \in Journals \ {j, k}
        PROVE  Reversals(i)' = Reversals(i)
    BY DEF Reversals
  <1> QED
    BY <1>3, <1>5, <1>6

(* A journal is reversed as it stands. *)
LEMMA ReverseSerial ==
    ASSUME SerialInv, NEW r \in Requests, ReverseWrite(r)
    PROVE  RowsAgree'
  <1> DEFINE u == req[r].data.actor
             mirrored == Mirror(req[r].data.lines)
             n == Len(ledger) + 1
  <1>1. req[r].pc = "reverse" /\ RequestOK(req[r]) /\ IsFresh(req[r])
    BY WriteFacts DEF ReverseWrite, End
  <1>0. PICK j \in Journals : j = req[r].on
    BY <1>1 DEF RequestOK, Idle
  <1>2. /\ req[r].data \in [actor : Users, lines : Seq(Line)]
        /\ Exists(j) /\ journals[j].status = "POSTED" /\ Reversals(j) = {}
        /\ mirrored = Mirror(journals[j].lines)
    BY <1>0, <1>1 DEF RequestOK, Idle, IsFresh
  <1>3. mirrored \in Seq(Line) /\ journals[j] \in Journal
    BY <1>2, MirrorType, WriteFacts
  <1>4. PICK k \in {i \in Journals : ~ Exists(i)} :
          /\ journals' = [journals EXCEPT ![j].status = "REVERSED",
                                          ![k] = NewReversal(u, j, mirrored)]
          /\ ledger' = Append(ledger, [journal |-> k, lines |-> mirrored,
                                       period |-> period])
    BY <1>0 DEF ReverseWrite
  <1>5. k \in Journals /\ ~ Exists(k) /\ j # k /\ j # NoJournal
    BY <1>2, <1>4, JournalsAssumption
  <1> DEFINE entry == [journal |-> k, lines |-> mirrored, period |-> period]
  <1>6. entry \in Entry /\ entry.journal = k /\ entry.lines = mirrored
    BY <1>3, WriteFacts DEF Entry, TypeOK
  <1> HIDE DEF u, mirrored
  <1>7. /\ journals'[j] = [journals[j] EXCEPT !.status = "REVERSED"]
        /\ journals'[k] = NewReversal(u, j, mirrored)
        /\ \A i \in Journals : i \notin {j, k} => journals'[i] = journals[i]
    BY <1>2, <1>4, <1>5, WriteFacts
  <1>8. /\ journals'[j].status = "REVERSED"
        /\ journals'[j].isPosted = journals[j].isPosted
        /\ journals'[j].lines = journals[j].lines
        /\ journals'[j].reversalOf = journals[j].reversalOf
        /\ journals'[j] # Absent
    BY <1>3, <1>7 DEF Journal, Absent
  <1>9. /\ journals'[k].status = "POSTED" /\ journals'[k].isPosted
        /\ journals'[k].lines = mirrored /\ journals'[k].reversalOf = j
        /\ journals'[k] # Absent
    BY <1>7 DEF NewReversal, Absent
  <1>10. /\ DOMAIN ledger' = DOMAIN ledger \union {n}
         /\ \A i \in DOMAIN ledger : ledger'[i] = ledger[i]
         /\ ledger'[n] = entry
    <2>1. ledger' = Append(ledger, entry) /\ ledger \in Seq(Entry)
      BY <1>4, WriteFacts DEF TypeOK
    <2> HIDE DEF entry
    <2> QED
      BY <1>6, <2>1, EntryAdded
  <1> HIDE DEF entry, n
  <1>11. \A i \in Journals : Exists(i)' <=> Exists(i) \/ i = k
    BY <1>2, <1>5, <1>7, <1>8, <1>9 DEF Exists
  <1>12. \A i \in Journals : Exists(i) =>
            /\ journals'[i].lines = journals[i].lines
            /\ journals'[i].reversalOf = journals[i].reversalOf
    BY <1>5, <1>7, <1>8
  <1>13. /\ Reversals(j)' = {k} /\ Reversals(k)' = {}
         /\ \A i \in Journals \ {j, k} : Reversals(i)' = Reversals(i)
    BY <1>2, <1>5, <1>9, <1>11, <1>12, ReversalAdded
  <1>14. \A i \in DOMAIN ledger :
            ledger[i].journal \in Journals /\ Exists(ledger[i].journal)
    BY EntriesAreOfJournals
  <1>15. EntriesAreRows'
    BY <1>6, <1>9, <1>10, <1>12, <1>14, WriteFacts DEF EntriesAreRows
  <1>16. DraftsBookedInOpenPeriod'
    BY <1>5, <1>6, <1>9, <1>10, <1>12, <1>14, WriteFacts
    DEF DraftsBookedInOpenPeriod
  <1>17. PostedIsBooked'
    <2> SUFFICES ASSUME NEW i \in Journals, Exists(i)'
                 PROVE  journals'[i].isPosted
                           <=> journals'[i].status \in Booked
      BY DEF PostedIsBooked
    <2>1. CASE i = j
      BY <1>2, <1>8, <2>1, WriteFacts DEF PostedIsBooked, Booked
    <2>2. CASE i = k
      BY <1>9, <2>2 DEF Booked
    <2>3. CASE i \notin {j, k}
      BY <1>7, <1>11, <2>3, WriteFacts DEF PostedIsBooked
    <2> QED
      BY <2>1, <2>2, <2>3
  <1>18. ReversedOnce'
    <2> SUFFICES ASSUME NEW i \in Journals, Exists(i)'
                 PROVE  IF journals'[i].status = "REVERSED"
                        THEN \E m \in Journals : Reversals(i)' = {m}
                        ELSE Reversals(i)' = {}
      BY DEF ReversedOnce
    <2>1. CASE i = j
      BY <1>5, <1>8, <1>13, <2>1
    <2>2. CASE i = k
      BY <1>9, <1>13, <2>2
    <2>3. CASE i \notin {j, k}
      <3>1. /\ Reversals(i)' = Reversals(i) /\ Exists(i)
            /\ journals'[i] = journals[i]
        BY <1>7, <1>11, <1>13, <2>3
      <3> QED
        BY <3>1, WriteFacts DEF ReversedOnce
    <2> QED
      BY <2>1, <2>2, <2>3
  <1>19. ReversalsMirror'
    <2> SUFFICES ASSUME NEW i \in Journals, NEW m \in Journals,
                        Exists(i)', m \in Reversals(i)'
                 PROVE  journals'[m].lines = Mirror(journals'[i].lines)
      BY DEF ReversalsMirror
    <2>1. CASE i = j
      BY <1>2, <1>8, <1>9, <1>13, <2>1
    <2>2. CASE i = k
      BY <1>13, <2>2
    <2>3. CASE i \notin {j, k}
      <3>1. m \in Reversals(i) /\ Exists(i)
        BY <1>11, <1>13, <2>3
      <3>2. Exists(m)
        BY <3>1 DEF Reversals
      <3> QED
        BY <1>12, <3>1, <3>2, WriteFacts DEF ReversalsMirror
    <2> QED
      BY <2>1, <2>2, <2>3
  <1>20. Exists(Main)'
    BY <1>11, WriteFacts, JournalsAssumption
  <1>21. Balanced(mirrored)
    <2>1. EntriesOf(j) # {}
      BY <1>2, <1>3, WriteFacts
      DEF PostedIsBooked, PostedIffBookedOnce, Booked
    <2>2. PICK i \in DOMAIN ledger : ledger[i].journal = j
      BY <2>1 DEF EntriesOf
    <2>3. ledger[i].lines = journals[j].lines /\ Balanced(ledger[i].lines)
      BY <2>2, WriteFacts DEF EntriesAreRows, LedgerBalances
    <2>4. journals[j].lines \in Seq(Line)
      BY <1>3 DEF Journal
    <2> QED
      BY <1>2, <2>3, <2>4, MirrorBalances
  <1>22. LedgerBalances'
    BY <1>6, <1>10, <1>21, WriteFacts DEF LedgerBalances
  <1> QED
    BY <1>15, <1>16, <1>17, <1>18, <1>19, <1>20, <1>22 DEF RowsAgree

LEMMA ProceedSerial ==
    ASSUME OneRequest, SerialInv, NEW r \in Requests, Proceed(r)
    PROVE  SerialInv'
  <1>1. OverlapInv'
    BY OverlapStep DEF SerialInv, Next
  <1>2. req'[r] = Idle
    BY WriteFacts
    DEF Proceed, UpdateDraftWrite, TransitionStatus, PostWrite, ReverseWrite,
        UpdatePeriodWrite, Abort, End, TypeOK
  <1>3. RowsAgree'
    <2>1. CASE UpdatePeriodWrite(r) \/ Abort(r)
      BY <2>1, SameRows DEF UpdatePeriodWrite, Abort, SerialInv
    <2>2. CASE ~ (UpdatePeriodWrite(r) \/ Abort(r))
      BY <2>2, UpdateDraftSerial, TransitionSerial, PostSerial, ReverseSerial
      DEF Proceed
    <2> QED
      BY <2>1, <2>2
  <1> QED
    BY <1>1, <1>2, <1>3, EndSerial

LEMMA SerialStep ==
    ASSUME OneRequest
    PROVE  SerialInv /\ [Next]_vars => SerialInv'
  <1> SUFFICES ASSUME SerialInv, [Next]_vars
               PROVE  SerialInv'
    OBVIOUS
  <1>1. CASE Next
    BY <1>1, CallSerial, ProceedSerial DEF Next
  <1>2. CASE UNCHANGED vars
    <2>1. OverlapInv' /\ RowsAgree'
      BY <1>2, OverlapStep, SameRows DEF SerialInv, vars
    <2>2. \A r \in Requests : IsFresh(req[r])'
      BY <1>2 DEF SerialInv, IsFresh, Exists, Reversals, vars
    <2> QED
      BY <2>1, <2>2 DEF SerialInv
  <1> QED
    BY <1>1, <1>2

LEMMA SerialInit == Init => SerialInv
  <1> SUFFICES ASSUME Init PROVE SerialInv
    OBVIOUS
  <1>1. PICK u \in Users, lines \in Contents :
          journals = [j \in Journals |-> IF j = Main THEN NewDraft(u, lines)
                                         ELSE Absent]
    BY DEF Init
  <1>2. /\ journals[Main].status = "DRAFT" /\ ~ journals[Main].isPosted
        /\ journals[Main].reversalOf = NoJournal
        /\ journals[Main] # Absent
    BY <1>1, JournalsAssumption DEF NewDraft, Absent
  <1>3. \A j \in Journals : Exists(j) <=> j = Main
    BY <1>1, <1>2 DEF Exists
  <1>4. \A j \in Journals : Reversals(j) = {}
    BY <1>2, <1>3, JournalsAssumption DEF Reversals
  <1>5. ledger = <<>> /\ \A r \in Requests : IsFresh(req[r])
    BY DEF Init, IsFresh, Idle
  <1>6. RowsAgree
    BY <1>2, <1>3, <1>4, <1>5, JournalsAssumption
    DEF RowsAgree, EntriesAreRows, PostedIsBooked, ReversedOnce,
        ReversalsMirror, DraftsBookedInOpenPeriod, LedgerBalances, Booked
  <1> QED
    BY <1>5, <1>6, OverlapInit DEF SerialInv

(* One request at a time, every copy a handler holds is the row: the       *)
(* invariant the theorems below are read off.                              *)
THEOREM OneRequestKeepsTheJournal ==
    ASSUME OneRequest
    PROVE  Spec => []SerialInv
  <1>1. SerialInv /\ [Next]_vars => SerialInv'
    BY SerialStep
  <1> QED
    BY <1>1, SerialInit, PTL DEF Spec

(* One request at a time, what was drafted is booked into an open period:  *)
(* the period cannot close between the check and the entry.                *)
THEOREM DraftsAreBookedInTime ==
    ASSUME OneRequest
    PROVE  Spec => []DraftsBookedInOpenPeriod
  <1>1. SerialInv => DraftsBookedInOpenPeriod
    BY DEF SerialInv, RowsAgree
  <1> QED
    BY <1>1, OneRequestKeepsTheJournal, PTL

(* One request at a time, every entry of the ledger has equal debits and   *)
(* credits: what is posted was validated as it stands, and what reverses   *)
(* it has the same totals on the other sides.                              *)
THEOREM EveryEntryBalances ==
    ASSUME OneRequest
    PROVE  Spec => []LedgerBalances
  <1>1. SerialInv => LedgerBalances
    BY DEF SerialInv, RowsAgree
  <1> QED
    BY <1>1, OneRequestKeepsTheJournal, PTL

(* One request at a time, a journal is REVERSED exactly when it has one    *)
(* reversal, and the two entries cancel line by line.                      *)
THEOREM ReversalsCancel ==
    ASSUME OneRequest
    PROVE  Spec => []ReversalCancelsOriginal
  <1>1. SerialInv => ReversalCancelsOriginal
    <2> SUFFICES ASSUME SerialInv, NEW j \in Journals, Exists(j)
                 PROVE  /\ Cardinality(Reversals(j)) =
                             IF journals[j].status = "REVERSED" THEN 1 ELSE 0
                        /\ \A k \in Reversals(j), a \in EntriesOf(j) :
                              \A b \in EntriesOf(k) :
                                 ledger[b].lines = Mirror(ledger[a].lines)
      BY DEF ReversalCancelsOriginal
    <2>1. /\ ReversedOnce /\ ReversalsMirror /\ EntriesAreRows
      BY DEF SerialInv, RowsAgree
    <2>2. Cardinality(Reversals(j)) =
            IF journals[j].status = "REVERSED" THEN 1 ELSE 0
      <3>1. CASE journals[j].status = "REVERSED"
        <4>1. PICK k \in Journals : Reversals(j) = {k}
          BY <2>1, <3>1 DEF ReversedOnce
        <4> QED
          BY <3>1, <4>1, FS_Singleton
      <3>2. CASE journals[j].status # "REVERSED"
        <4>1. Reversals(j) = {}
          BY <2>1, <3>2 DEF ReversedOnce
        <4> QED
          BY <3>2, <4>1, FS_EmptySet
      <3> QED
        BY <3>1, <3>2
    <2>3. ASSUME NEW k \in Reversals(j), NEW a \in EntriesOf(j),
                 NEW b \in EntriesOf(k)
          PROVE  ledger[b].lines = Mirror(ledger[a].lines)
      <3>1. k \in Journals
        BY DEF Reversals
      <3>2. /\ ledger[a].lines = journals[j].lines
            /\ ledger[b].lines = journals[k].lines
        BY <2>1 DEF EntriesOf, EntriesAreRows
      <3> QED
        BY <2>1, <3>1, <3>2 DEF ReversalsMirror
    <2> QED
      BY <2>2, <2>3
  <1> QED
    BY <1>1, OneRequestKeepsTheJournal, PTL

-----------------------------------------------------------------------------
(* The refinement of ControlledDocument.                                   *)

(* What the ledger says the drafted journal says. *)
BookedLines ==
    IF EntriesOf(Main) = {} THEN NoContent
    ELSE ledger[CHOOSE i \in EntriesOf(Main) : TRUE].lines

(* The stage of the drafted journal, before and after a step. *)
LEMMA StageIs ==
    /\ journals[Main].status \in Editable => Stage = "editable"
    /\ journals[Main].status = "PENDING_APPROVAL" => Stage = "review"
    /\ journals[Main].status = "APPROVED" => Stage = "released"
    /\ journals[Main].status \in Booked => Stage = "booked"
    /\ journals[Main].status = "CANCELLED" => Stage = "dropped"
  BY DEF Stage, Editable, Booked

LEMMA StageBecomes ==
    /\ journals'[Main].status \in Editable => Stage' = "editable"
    /\ journals'[Main].status = "PENDING_APPROVAL" => Stage' = "review"
    /\ journals'[Main].status = "APPROVED" => Stage' = "released"
    /\ journals'[Main].status \in Booked => Stage' = "booked"
    /\ journals'[Main].status = "CANCELLED" => Stage' = "dropped"
  BY DEF Stage, Editable, Booked

LEMMA StageStays ==
    ASSUME journals'[Main].status = journals[Main].status
    PROVE  Stage' = Stage
  BY DEF Stage

LEMMA DocumentInit == Init => Document!Init
  <1> SUFFICES ASSUME Init PROVE Document!Init
    OBVIOUS
  <1>1. /\ journals[Main].status = "DRAFT"
        /\ journals[Main].lines \in Contents
        /\ ledger = <<>>
    BY JournalsAssumption DEF Init, NewDraft
  <1>2. Stage = "editable"
    BY <1>1, StageIs DEF Editable
  <1>3. EntriesOf(Main) = {}
    BY <1>1 DEF EntriesOf
  <1> QED
    BY <1>1, <1>2, <1>3 DEF Document!Init

(* A step that keeps stage, content and entry is none of the document's.   *)
LEMMA DocumentStays ==
    ASSUME Stage' = Stage, journals'[Main].lines = journals[Main].lines,
           BookedLines' = BookedLines
    PROVE  UNCHANGED Document!docVars
  BY DEF Document!docVars, BookedLines

LEMMA RowsStay ==
    ASSUME journals'[Main] = journals[Main], BookedLines' = BookedLines
    PROVE  UNCHANGED Document!docVars
  <1>1. Stage' = Stage
    BY StageStays
  <1> QED
    BY <1>1, DocumentStays

LEMMA SameLedger ==
    ASSUME ledger' = ledger
    PROVE  BookedLines' = BookedLines
  BY DEF BookedLines, EntriesOf

(* An entry of another journal leaves the drafted journal's alone. *)
LEMMA OtherEntryAdded ==
    ASSUME ledger \in Seq(Entry), NEW entry \in Entry, entry.journal # Main,
           ledger' = Append(ledger, entry)
    PROVE  BookedLines' = BookedLines
  <1>1. /\ EntriesOf(Main)' = EntriesOf(Main)
        /\ \A i \in DOMAIN ledger : ledger'[i] = ledger[i]
    BY EntryAdded, JournalsAssumption
  <1>2. CASE EntriesOf(Main) = {}
    BY <1>1, <1>2 DEF BookedLines
  <1>3. CASE EntriesOf(Main) # {}
    <2>1. (CHOOSE i \in EntriesOf(Main) : TRUE) \in DOMAIN ledger
      BY <1>3 DEF EntriesOf
    <2> QED
      BY <1>1, <1>3, <2>1 DEF BookedLines
  <1> QED
    BY <1>2, <1>3

LEMMA EditSteps ==
    ASSUME SerialInv, NEW r \in Requests, UpdateDraftWrite(r)
    PROVE  Document!Next \/ UNCHANGED Document!docVars
  <1>1. /\ req[r].pc = "update" /\ IsFresh(req[r]) /\ RequestOK(req[r])
        /\ journals' = [journals EXCEPT ![req[r].on].lines = req[r].data]
        /\ ledger' = ledger
    BY WriteFacts DEF UpdateDraftWrite, End
  <1>2. BookedLines' = BookedLines
    BY <1>1, SameLedger
  <1>3. CASE req[r].on = Main
    <2>1. /\ journals[Main].status \in Editable /\ req[r].data \in Contents
          /\ journals[Main] \in Journal
      BY <1>1, <1>3, WriteFacts, JournalsAssumption DEF IsFresh
    <2>2. /\ journals'[Main].status = journals[Main].status
          /\ journals'[Main].lines = req[r].data
      BY <1>1, <1>3, <2>1, WriteFacts, JournalsAssumption DEF Journal
    <2>3. Stage = "editable" /\ Stage' = "editable"
      BY <2>1, <2>2, StageIs, StageBecomes
    <2> QED
      BY <1>2, <2>1, <2>2, <2>3
      DEF Document!Next, Document!Edit, BookedLines
  <1>4. CASE req[r].on # Main
    <2>1. journals'[Main] = journals[Main]
      BY <1>1, <1>4, WriteFacts, JournalsAssumption
    <2> QED
      BY <1>2, <2>1, RowsStay
  <1> QED
    BY <1>3, <1>4

LEMMA TransitionSteps ==
    ASSUME SerialInv, NEW r \in Requests, TransitionStatus(r)
    PROVE  Document!Next \/ UNCHANGED Document!docVars
  <1> DEFINE to == req[r].data.to
             u == req[r].data.actor
             row == [journals[Main] EXCEPT
                       !.status = to,
                       !.submittedBy = IF to = "PENDING_APPROVAL" THEN u ELSE @,
                       !.approvedBy = IF to = "APPROVED" THEN u ELSE @]
  <1>1. /\ req[r].pc = "transition" /\ IsFresh(req[r]) /\ RequestOK(req[r])
        /\ ledger' = ledger
    BY WriteFacts DEF TransitionStatus, End
  <1>2. BookedLines' = BookedLines
    BY <1>1, SameLedger
  <1>3. CASE req[r].on = Main
    <2>1. journals[Main] \in Journal
      BY WriteFacts, JournalsAssumption
    <2>2. journals'[Main] = row
      BY <1>3, WriteFacts, JournalsAssumption DEF TransitionStatus
    <2>3. row.status = to /\ row.lines = journals[Main].lines
      BY <2>1 DEF Journal
    <2> HIDE DEF row
    <2>4. \/ /\ journals[Main].status \in Editable
             /\ to = "PENDING_APPROVAL"
          \/ /\ journals[Main].status = "PENDING_APPROVAL"
             /\ to \in {"DRAFT", "APPROVED", "REJECTED"}
          \/ /\ journals[Main].status \in Statuses \ Booked
             /\ to = "CANCELLED"
      BY <1>1, <1>3, <2>1 DEF IsFresh, Journal
    <2> HIDE DEF to, u
    <2>5. /\ journals'[Main].status = to
          /\ journals'[Main].lines = journals[Main].lines
      BY <2>2, <2>3
    <2>6. CASE /\ journals[Main].status \in Editable
               /\ to = "PENDING_APPROVAL"
      <3>1. Stage = "editable" /\ Stage' = "review"
        BY <2>5, <2>6, StageIs, StageBecomes
      <3> QED
        BY <1>2, <2>5, <3>1 DEF Document!Next, Document!Submit, BookedLines
    <2>7. CASE /\ journals[Main].status = "PENDING_APPROVAL"
               /\ to \in {"DRAFT", "REJECTED"}
      <3>1. Stage = "review" /\ Stage' = "editable"
        BY <2>5, <2>7, StageIs, StageBecomes DEF Editable
      <3> QED
        BY <1>2, <2>5, <3>1 DEF Document!Next, Document!HandBack, BookedLines
    <2>8. CASE /\ journals[Main].status = "PENDING_APPROVAL"
               /\ to = "APPROVED"
      <3>1. Stage = "review" /\ Stage' = "released"
        BY <2>5, <2>8, StageIs, StageBecomes
      <3> QED
        BY <1>2, <2>5, <3>1 DEF Document!Next, Document!Release, BookedLines
    <2>9. CASE /\ journals[Main].status \in Statuses \ Booked
               /\ to = "CANCELLED"
      <3>1. Stage' = "dropped"
        BY <2>5, <2>9, StageBecomes
      <3>2. Stage \in {"editable", "review", "released", "dropped"}
        BY <2>9, StageIs DEF Statuses, Booked
      <3> QED
        BY <1>2, <2>5, <3>1, <3>2, DocumentStays
        DEF Document!Next, Document!Drop, BookedLines
    <2> QED
      BY <2>4, <2>6, <2>7, <2>8, <2>9
  <1>4. CASE req[r].on # Main
    <2>1. journals'[Main] = journals[Main]
      BY <1>4, WriteFacts, JournalsAssumption DEF TransitionStatus
    <2> QED
      BY <1>2, <2>1, RowsStay
  <1> QED
    BY <1>3, <1>4

LEMMA BookSteps ==
    ASSUME SerialInv, NEW r \in Requests, PostWrite(r)
    PROVE  Document!Next \/ UNCHANGED Document!docVars
  <1> DEFINE entry == [journal |-> req[r].on, lines |-> req[r].data,
                       period |-> period]
             n == Len(ledger) + 1
  <1>1. /\ req[r].pc = "post" /\ IsFresh(req[r]) /\ RequestOK(req[r])
        /\ EntriesOf(req[r].on) = {}
        /\ ledger' = Append(ledger, entry)
        /\ journals' = [journals EXCEPT ![req[r].on].status = "POSTED",
                                        ![req[r].on].isPosted = TRUE]
    BY WriteFacts DEF PostWrite, End, ReferenceIsFree
  <1>2. /\ req[r].on \in Journals /\ req[r].data \in Seq(Line)
        /\ ledger \in Seq(Entry)
    BY <1>1, WriteFacts DEF RequestOK, Idle, TypeOK
  <1>3. entry \in Entry /\ entry.journal = req[r].on
        /\ entry.lines = req[r].data
    BY <1>2, WriteFacts DEF Entry, TypeOK
  <1> HIDE DEF entry
  <1>4. CASE req[r].on = Main
    <2>1. /\ journals[Main].status = "APPROVED"
          /\ req[r].data = journals[Main].lines
          /\ journals[Main] \in Journal
      BY <1>1, <1>4, WriteFacts, JournalsAssumption DEF IsFresh
    <2>2. /\ journals'[Main].status = "POSTED"
          /\ journals'[Main].lines = journals[Main].lines
      BY <1>1, <1>4, <2>1, WriteFacts, JournalsAssumption DEF Journal
    <2>3. Stage = "released" /\ Stage' = "booked"
      BY <2>1, <2>2, StageIs, StageBecomes DEF Booked
    <2>4. EntriesOf(Main)' = {n} /\ ledger'[n] = entry
      BY <1>1, <1>2, <1>3, <1>4, EntryAdded
    <2>5. BookedLines' = journals[Main].lines
      <3> HIDE DEF n
      <3>1. (CHOOSE i \in {n} : TRUE) = n
        OBVIOUS
      <3> QED
        BY <1>3, <2>1, <2>4, <3>1 DEF BookedLines
    <2> QED
      BY <2>2, <2>3, <2>5 DEF Document!Next, Document!Book, BookedLines
  <1>5. CASE req[r].on # Main
    <2>1. BookedLines' = BookedLines
      BY <1>1, <1>2, <1>3, <1>5, OtherEntryAdded
    <2>2. journals'[Main] = journals[Main]
      BY <1>1, <1>5, WriteFacts, JournalsAssumption
    <2> QED
      BY <2>1, <2>2, RowsStay
  <1> QED
    BY <1>4, <1>5

(* A reversal leaves the drafted journal booked as it was. *)
LEMMA ReverseSteps ==
    ASSUME SerialInv, NEW r \in Requests, ReverseWrite(r)
    PROVE  UNCHANGED Document!docVars
  <1> DEFINE u == req[r].data.actor
             mirrored == Mirror(req[r].data.lines)
  <1>1. req[r].pc = "reverse" /\ RequestOK(req[r]) /\ IsFresh(req[r])
    BY WriteFacts DEF ReverseWrite, End
  <1>2. /\ req[r].data \in [actor : Users, lines : Seq(Line)]
        /\ req[r].on \in Journals
        /\ Exists(req[r].on) /\ journals[req[r].on].status = "POSTED"
    BY <1>1 DEF RequestOK, Idle, IsFresh
  <1>3. mirrored \in Seq(Line)
    BY <1>2, MirrorType
  <1>4. PICK k \in {i \in Journals : ~ Exists(i)} :
          /\ journals' = [journals EXCEPT
                ![req[r].on].status = "REVERSED",
                ![k] = NewReversal(u, req[r].on, mirrored)]
          /\ ledger' = Append(ledger, [journal |-> k, lines |-> mirrored,
                                       period |-> period])
    BY DEF ReverseWrite
  <1> DEFINE entry == [journal |-> k, lines |-> mirrored, period |-> period]
  <1>5. k # Main /\ k # req[r].on
    BY <1>2, <1>4, WriteFacts
  <1>6. BookedLines' = BookedLines
    <2>1. /\ entry \in Entry /\ entry.journal # Main
          /\ ledger' = Append(ledger, entry) /\ ledger \in Seq(Entry)
      BY <1>3, <1>4, <1>5, WriteFacts DEF Entry, TypeOK
    <2> HIDE DEF entry
    <2> QED
      BY <2>1, OtherEntryAdded
  <1> HIDE DEF u, mirrored, entry
  <1>7. CASE req[r].on = Main
    <2>1. /\ journals'[Main].status = "REVERSED"
          /\ journals'[Main].lines = journals[Main].lines
      <3>1. journals[Main] \in Journal
        BY WriteFacts, JournalsAssumption
      <3>2. journals'[Main] = [journals[Main] EXCEPT !.status = "REVERSED"]
        BY <1>4, <1>5, <1>7, WriteFacts, JournalsAssumption
      <3> QED
        BY <3>1, <3>2 DEF Journal
    <2>2. Stage = "booked" /\ Stage' = "booked"
      BY <1>2, <1>7, <2>1, StageIs, StageBecomes DEF Booked
    <2> QED
      BY <1>6, <2>1, <2>2, DocumentStays
  <1>8. CASE req[r].on # Main
    <2>1. journals'[Main] = journals[Main]
      BY <1>4, <1>5, <1>8, WriteFacts, JournalsAssumption
    <2> QED
      BY <1>6, <2>1, RowsStay
  <1> QED
    BY <1>7, <1>8

LEMMA DocumentStep ==
    ASSUME SerialInv, [Next]_vars
    PROVE  [Document!Next]_(Document!docVars)
  <1>1. ASSUME journals' = journals, ledger' = ledger
        PROVE  UNCHANGED Document!docVars
    BY <1>1, SameLedger, RowsStay
  <1>2. ASSUME NEW r \in Requests, Call(r)
        PROVE  UNCHANGED Document!docVars
    BY <1>1, <1>2
    DEF Call, Begin, UpdateDraftRead, SubmitRead, RecallRead, ApproveRead,
        RejectRead, CancelRead, ReverseRead, PostRead, UpdatePeriodRead
  <1>3. ASSUME NEW r \in Requests, Proceed(r)
        PROVE  Document!Next \/ UNCHANGED Document!docVars
    <2>1. CASE UpdatePeriodWrite(r) \/ Abort(r)
      BY <1>1, <2>1 DEF UpdatePeriodWrite, Abort
    <2>2. CASE ~ (UpdatePeriodWrite(r) \/ Abort(r))
      BY <1>3, <2>2, EditSteps, TransitionSteps, BookSteps, ReverseSteps
      DEF Proceed
    <2> QED
      BY <2>1, <2>2
  <1>4. CASE UNCHANGED vars
    BY <1>1, <1>4 DEF vars
  <1> QED
    BY <1>2, <1>3, <1>4 DEF Next

(* With one request at a time, which may die halfway, the handlers of a    *)
(* journal keep the promise of a controlled document, reversed or not.     *)
THEOREM JournalIsControlled ==
    ASSUME OneRequest
    PROVE  Spec => ImplementsControlledDocument
  <1>1. SerialInv /\ [Next]_vars => [Document!Next]_(Document!docVars)
    BY DocumentStep
  <1>2. Spec => [][Next]_vars
    BY DEF Spec
  <1>3. Spec => Document!Init
    BY DocumentInit DEF Spec
  <1> QED
    BY <1>1, <1>2, <1>3, OneRequestKeepsTheJournal, PTL
    DEF ImplementsControlledDocument, Document!Spec

-----------------------------------------------------------------------------
(* The period the journal is posted into keeps the promise of an accounting  *)
(* period, however requests overlap.                                       *)

Wanted(q) == IF q.pc = "period" THEN q.data ELSE "nothing"

AllWanted == [s \in Requests |-> Wanted(req[s])]

(* A step that neither asks for a status of the period nor writes one. *)
LEMMA PeriodIsLeft ==
    ASSUME DOMAIN req = Requests, NEW r \in Requests, NEW q,
           req' = [req EXCEPT ![r] = q], period' = period,
           Wanted(q) = Wanted(req[r])
    PROVE  AllWanted' = AllWanted /\ period' = period
  BY DEF AllWanted, Wanted

LEMMA OtherCalls ==
    ASSUME TypeOK, NEW r \in Requests, NEW operation, NEW j, NEW data,
           operation # "period", Begin(r, operation, j, data)
    PROVE  AllWanted' = AllWanted /\ period' = period
  <1>1. PICK q : q = [pc |-> operation, on |-> j, data |-> data]
    OBVIOUS
  <1>2. /\ DOMAIN req = Requests /\ period' = period
        /\ req' = [req EXCEPT ![r] = q]
        /\ Wanted(q) = "nothing" /\ Wanted(req[r]) = "nothing"
    BY <1>1 DEF TypeOK, Begin, Wanted, Idle
  <1> QED
    BY <1>2, PeriodIsLeft

LEMMA OtherEnds ==
    ASSUME TypeOK, NEW r \in Requests, NEW operation,
           operation # "period", End(r, operation), period' = period
    PROVE  AllWanted' = AllWanted /\ period' = period
  <1>1. /\ DOMAIN req = Requests
        /\ req' = [req EXCEPT ![r] = Idle]
        /\ Wanted(Idle) = "nothing" /\ Wanted(req[r]) = "nothing"
    BY DEF TypeOK, End, Wanted, Idle
  <1> QED
    BY <1>1, PeriodIsLeft

(* The period's own handler asks, writes, or gives up. *)
LEMMA PeriodIsAsked ==
    ASSUME TypeOK, NEW r \in Requests, UpdatePeriodRead(r)
    PROVE  PostingPeriod!Next
  <1>1. PICK status \in PeriodStatuses :
           /\ period = "LOCKED" => status = "LOCKED"
           /\ Begin(r, "period", NoJournal, status)
    BY DEF UpdatePeriodRead
  <1>2. PICK q : q = [pc |-> "period", on |-> NoJournal, data |-> status]
    OBVIOUS
  <1>3. /\ DOMAIN req = Requests /\ req' = [req EXCEPT ![r] = q]
        /\ Wanted(q) = status /\ Wanted(req[r]) = "nothing"
        /\ period' = period
    BY <1>1, <1>2 DEF TypeOK, Begin, Wanted, Idle
  <1>4. AllWanted' = [AllWanted EXCEPT ![r] = status]
    BY <1>3 DEF AllWanted, Wanted
  <1>5. AllWanted[r] = "nothing"
    BY <1>3 DEF AllWanted
  <1>6. PostingPeriod!Ask(r)
    BY <1>1, <1>3, <1>4, <1>5
    DEF PostingPeriod!Ask, PostingPeriod!Statuses, PostingPeriod!Nothing,
        PeriodStatuses, AllWanted, Wanted
  <1> QED
    BY <1>6 DEF PostingPeriod!Next

LEMMA PeriodIsWritten ==
    ASSUME TypeOK, NEW r \in Requests, req[r].pc = "period",
           req' = [req EXCEPT ![r] = Idle], period' \in {period, req[r].data}
    PROVE  PostingPeriod!Next
  <1>1. /\ DOMAIN req = Requests /\ req[r].data \in PeriodStatuses
        /\ Wanted(Idle) = "nothing" /\ Wanted(req[r]) = req[r].data
    BY DEF TypeOK, RequestOK, Wanted, Idle
  <1>2. AllWanted' = [AllWanted EXCEPT ![r] = "nothing"]
    BY <1>1 DEF AllWanted, Wanted
  <1>3. AllWanted[r] = req[r].data /\ AllWanted[r] # "nothing"
    BY <1>1 DEF AllWanted, PeriodStatuses
  <1>4. CASE period' = period
    <2>1. PostingPeriod!GiveUp(r)
      BY <1>2, <1>3, <1>4
      DEF PostingPeriod!GiveUp, PostingPeriod!Nothing, AllWanted, Wanted
    <2> QED
      BY <2>1 DEF PostingPeriod!Next
  <1>5. CASE period' = req[r].data
    <2>1. PostingPeriod!Write(r)
      BY <1>2, <1>3, <1>5
      DEF PostingPeriod!Write, PostingPeriod!Nothing, AllWanted, Wanted
    <2> QED
      BY <2>1 DEF PostingPeriod!Next
  <1> QED
    BY <1>4, <1>5

LEMMA PeriodCalls ==
    ASSUME TypeOK, NEW r \in Requests, Call(r)
    PROVE  PostingPeriod!Next \/ (AllWanted' = AllWanted /\ period' = period)
  <1> DEFINE Left == AllWanted' = AllWanted /\ period' = period
  <1>1. ASSUME NEW operation, NEW on, NEW data,
               Begin(r, operation, on, data), operation # "period"
        PROVE  Left
    BY <1>1, OtherCalls
  <1> HIDE DEF Left
  <1>2. (\E j \in Journals, u \in Users : UpdateDraftRead(r, j, u)) => Left
    BY <1>1 DEF UpdateDraftRead
  <1>3. (\E j \in Journals, u \in Users : SubmitRead(r, j, u)) => Left
    BY <1>1 DEF SubmitRead
  <1>4. (\E j \in Journals, u \in Users : RecallRead(r, j, u)) => Left
    BY <1>1 DEF RecallRead
  <1>5. (\E j \in Journals, u \in Users : ApproveRead(r, j, u)) => Left
    BY <1>1 DEF ApproveRead
  <1>6. (\E j \in Journals, u \in Users : RejectRead(r, j, u)) => Left
    BY <1>1 DEF RejectRead
  <1>7. (\E j \in Journals, u \in Users : CancelRead(r, j, u)) => Left
    BY <1>1 DEF CancelRead
  <1>8. (\E j \in Journals, u \in Users : ReverseRead(r, j, u)) => Left
    BY <1>1 DEF ReverseRead
  <1>9. (\E j \in Journals : PostRead(r, j)) => Left
    BY <1>1 DEF PostRead
  <1>10. UpdatePeriodRead(r) => PostingPeriod!Next
    BY PeriodIsAsked
  <1> QED
    BY <1>2, <1>3, <1>4, <1>5, <1>6, <1>7, <1>8, <1>9, <1>10 DEF Call, Left

LEMMA PeriodProceeds ==
    ASSUME TypeOK, NEW r \in Requests, Proceed(r)
    PROVE  PostingPeriod!Next \/ (AllWanted' = AllWanted /\ period' = period)
  <1>1. CASE UpdatePeriodWrite(r)
    BY <1>1, PeriodIsWritten DEF UpdatePeriodWrite, End
  <1>2. CASE Abort(r)
    <2>1. req' = [req EXCEPT ![r] = Idle] /\ period' = period
      BY <1>2 DEF Abort
    <2>2. CASE req[r].pc = "period"
      BY <2>1, <2>2, PeriodIsWritten
    <2>3. CASE req[r].pc # "period"
      <3>1. Wanted(Idle) = Wanted(req[r]) /\ DOMAIN req = Requests
        BY <2>3 DEF Wanted, Idle, TypeOK
      <3> QED
        BY <2>1, <3>1, PeriodIsLeft
    <2> QED
      BY <2>2, <2>3
  <1>3. CASE \/ UpdateDraftWrite(r) \/ TransitionStatus(r)
             \/ PostWrite(r) \/ ReverseWrite(r)
    <2>1. PICK operation : operation # "period" /\ End(r, operation)
      BY <1>3
      DEF UpdateDraftWrite, TransitionStatus, PostWrite, ReverseWrite
    <2>2. period' = period
      BY <1>3
      DEF UpdateDraftWrite, TransitionStatus, PostWrite, ReverseWrite
    <2> QED
      BY <2>1, <2>2, OtherEnds
  <1> QED
    BY <1>1, <1>2, <1>3 DEF Proceed

(* However requests overlap, what the journals assume of their period is what *)
(* the fiscal years keep of every one (EveryPeriodKeepsItsPromise).        *)
THEOREM PostingPeriodKeepsItsPromise == Spec => ImplementsAccountingPeriod
  <1>1. Init => PostingPeriod!Init
    BY DEF Init, Idle, PostingPeriod!Init, PostingPeriod!Statuses,
           PostingPeriod!Nothing, PeriodStatuses
  <1>2. TypeOK /\ [Next]_vars =>
           [PostingPeriod!Next]_(PostingPeriod!periodVars)
    <2> SUFFICES ASSUME TypeOK, [Next]_vars
                 PROVE  \/ PostingPeriod!Next
                        \/ AllWanted' = AllWanted /\ period' = period
      BY DEF AllWanted, Wanted, PostingPeriod!periodVars
    <2>1. CASE UNCHANGED vars
      BY <2>1 DEF vars, AllWanted, Wanted
    <2>2. CASE Next
      <3>1. PICK r \in Requests : Call(r) \/ Proceed(r)
        BY <2>2 DEF Next
      <3> QED
        BY <3>1, PeriodCalls, PeriodProceeds
    <2> QED
      BY <2>1, <2>2
  <1>3. OverlapInv => TypeOK
    BY DEF OverlapInv
  <1> QED
    BY <1>1, <1>2, <1>3, OverlapCorrect, PTL
    DEF Spec, ImplementsAccountingPeriod, PostingPeriod!Spec
=============================================================================
