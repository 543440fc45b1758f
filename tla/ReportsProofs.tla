--------------------------- MODULE ReportsProofs ---------------------------
(***************************************************************************)
(* Proofs about the reports of Reports.tla, for any chart, any balanced    *)
(* entries, any queries and any number of requests made together.          *)
(*                                                                         *)
(* What an account comes to is a total over the lines posted to it; a      *)
(* total over accounts is then one over lines (SumOverAccounts), and the   *)
(* lines of entries that balance come to nothing (BookBalances).  The      *)
(* invariant ReportsInv says what each query of a request has seen; the    *)
(* rest is arithmetic over categories, ranges and sides.                   *)
(***************************************************************************)
EXTENDS Reports, SumsProofs

(* Every line there may be, and its columns.                               *)
AllLines == UNION { {e} \X DOMAIN e.lines : e \in Bookings }

Debits == [ref \in AllLines |-> LineOf(ref).debit]
Credits == [ref \in AllLines |-> LineOf(ref).credit]
Nets == [ref \in AllLines |-> LineOf(ref).debit - LineOf(ref).credit]
Accounts == [ref \in AllLines |-> LineOf(ref).account]
Entries == [ref \in AllLines |-> ref[1]]

Posted(lines, a) == Group(lines, Accounts, a)

(* There are finitely many lines, each of a known account and of numbers. *)
LEMMA AllLinesAreLines ==
    /\ IsFiniteSet(AllLines)
    /\ \A ref \in AllLines :
         /\ ref[1] \in Bookings /\ ref[2] \in DOMAIN ref[1].lines
         /\ LineOf(ref).account \in AllAccounts
         /\ LineOf(ref).debit \in Int /\ LineOf(ref).credit \in Int
  <1>1. /\ IsFiniteSet(Bookings)
        /\ \A e \in Bookings : IsFiniteSet(DOMAIN e.lines)
    BY BookingsAssumption
  <1>2. DEFINE Of(e) == {e} \X DOMAIN e.lines
  <1>3. \A e \in Bookings : IsFiniteSet(Of(e))
    <2>1. TAKE e \in Bookings
    <2>2. IsFiniteSet({e})
      BY FS_Singleton
    <2>3. QED
      BY <1>1, <2>2, FS_Product
  <1>4. PICK Sets : Sets = {Of(e) : e \in Bookings}
    OBVIOUS
  <1>5. IsFiniteSet(Sets)
    <2>1. PICK f : f = [e \in Bookings |-> Of(e)]
      OBVIOUS
    <2>2. f \in Surjection(Bookings, Sets)
      BY <1>4, <2>1 DEF Surjection
    <2>3. QED
      BY <1>1, <2>2, FS_Surjection
  <1>6. \A S \in Sets : IsFiniteSet(S)
    BY <1>3, <1>4
  <1>7. IsFiniteSet(AllLines)
    BY <1>4, <1>5, <1>6, FS_UNION DEF AllLines
  <1>8. \A ref \in AllLines : ref[1] \in Bookings /\ ref[2] \in DOMAIN ref[1].lines
    BY DEF AllLines
  <1>9. QED
    BY <1>7, <1>8, BookingsAssumption DEF LineOf

(* The lines of a book are among them, each of an entry of the book. *)
LEMMA LinesOfABook ==
    ASSUME NEW book \in SUBSET Bookings, NEW q
    PROVE  /\ LinesOf(book, q) \subseteq AllLines
           /\ IsFiniteSet(LinesOf(book, q))
           /\ \A ref \in AllLines :
                ref \in LinesOf(book, q) <=> ref[1] \in book /\ InScope(LineOf(ref), q)
  <1>1. LinesOf(book, q) \subseteq AllLines
    BY DEF LinesOf, AllLines
  <1>2. \A ref \in AllLines :
          ref \in LinesOf(book, q) <=> ref[1] \in book /\ InScope(LineOf(ref), q)
    <2>1. TAKE ref \in AllLines
    <2>2. PICK e \in Bookings : ref \in {e} \X DOMAIN e.lines
      BY DEF AllLines
    <2>3. ref[1] = e
      BY <2>2
    <2>4. QED
      BY <2>2, <2>3 DEF LinesOf
  <1>3. QED
    BY <1>1, <1>2, AllLinesAreLines, FS_Subset

(* What an account comes to is the sum of its column. *)
LEMMA NetIsOver ==
    ASSUME NEW lines \in SUBSET AllLines, NEW a
    PROVE  /\ Debit(lines, a) = Over(Debits, Posted(lines, a))
           /\ Credit(lines, a) = Over(Credits, Posted(lines, a))
           /\ Net(lines, a) = Over(Nets, Posted(lines, a))
           /\ Debit(lines, a) \in Int /\ Credit(lines, a) \in Int /\ Net(lines, a) \in Int
  <1>1. PICK P : P = Posted(lines, a)
    OBVIOUS
  <1>2. /\ P \subseteq AllLines /\ IsFiniteSet(P)
        /\ P = { x \in lines : LineOf(x).account = a }
    BY <1>1, AllLinesAreLines, FS_Subset DEF Posted, Group, Accounts
  <1>3. \A ref \in P : /\ Debits[ref] = LineOf(ref).debit /\ Debits[ref] \in Int
                       /\ Credits[ref] = LineOf(ref).credit /\ Credits[ref] \in Int
                       /\ Nets[ref] = Debits[ref] - Credits[ref]
    BY <1>2, AllLinesAreLines DEF Debits, Credits, Nets
  <1>4. Debit(lines, a) = Over(Debits, P)
    <2>1. [ref \in P |-> LineOf(ref).debit] = [ref \in P |-> Debits[ref]]
      BY <1>3
    <2>2. QED
      BY <1>2, <2>1, Zenon DEF Debit, Over
  <1>5. Credit(lines, a) = Over(Credits, P)
    <2>1. [ref \in P |-> LineOf(ref).credit] = [ref \in P |-> Credits[ref]]
      BY <1>3
    <2>2. QED
      BY <1>2, <2>1, Zenon DEF Credit, Over
  <1>6. /\ Over(Debits, P) \in Int /\ Over(Credits, P) \in Int
        /\ Over(Nets, P) = Over(Debits, P) - Over(Credits, P)
    BY <1>2, <1>3, OverType, OverMinus
  <1>7. QED
    BY <1>1, <1>4, <1>5, <1>6 DEF Net

(* Summed over accounts that have all the lines, it is the sum of all.     *)
LEMMA SumOverAccounts ==
    ASSUME NEW lines \in SUBSET AllLines,
           NEW A, IsFiniteSet(A), \A ref \in lines : LineOf(ref).account \in A
    PROVE  /\ \A g : (g = [a \in A |-> Debit(lines, a)]) => Total(g) = Over(Debits, lines)
           /\ \A g : (g = [a \in A |-> Credit(lines, a)]) => Total(g) = Over(Credits, lines)
           /\ \A g : (g = [a \in A |-> Net(lines, a)]) => Total(g) = Over(Nets, lines)
           /\ Over(Debits, lines) \in Int /\ Over(Credits, lines) \in Int
           /\ Over(Nets, lines) = Over(Debits, lines) - Over(Credits, lines)
  <1>1. IsFiniteSet(lines)
    BY AllLinesAreLines, FS_Subset
  <1>2. \A ref \in lines : /\ Debits[ref] \in Int /\ Credits[ref] \in Int
                           /\ Nets[ref] = Debits[ref] - Credits[ref] /\ Nets[ref] \in Int
                           /\ Accounts[ref] \in A
    BY AllLinesAreLines DEF Debits, Credits, Nets, Accounts
  <1>3. ASSUME NEW g, g = [a \in A |-> Debit(lines, a)]
        PROVE  Total(g) = Over(Debits, lines)
    <2>1. \A a \in A : g[a] = Over(Debits, Group(lines, Accounts, a))
      BY <1>3, NetIsOver DEF Posted
    <2>2. g \in [A -> Int]
      BY <1>3, NetIsOver
    <2>3. (\A x \in lines : Debits[x] \in Int) /\ (\A x \in lines : Accounts[x] \in A)
      BY <1>2
    <2>4. Over(g, A) = Over(Debits, lines)
      BY <1>1, <2>1, <2>3, OverGroups
    <2>5. QED
      BY <2>2, <2>4, TotalIsOver
  <1>4. ASSUME NEW g, g = [a \in A |-> Credit(lines, a)]
        PROVE  Total(g) = Over(Credits, lines)
    <2>1. \A a \in A : g[a] = Over(Credits, Group(lines, Accounts, a))
      BY <1>4, NetIsOver DEF Posted
    <2>2. g \in [A -> Int]
      BY <1>4, NetIsOver
    <2>3. (\A x \in lines : Credits[x] \in Int) /\ (\A x \in lines : Accounts[x] \in A)
      BY <1>2
    <2>4. Over(g, A) = Over(Credits, lines)
      BY <1>1, <2>1, <2>3, OverGroups
    <2>5. QED
      BY <2>2, <2>4, TotalIsOver
  <1>5. ASSUME NEW g, g = [a \in A |-> Net(lines, a)]
        PROVE  Total(g) = Over(Nets, lines)
    <2>1. \A a \in A : g[a] = Over(Nets, Group(lines, Accounts, a))
      BY <1>5, NetIsOver DEF Posted
    <2>2. g \in [A -> Int]
      BY <1>5, NetIsOver
    <2>3. (\A x \in lines : Nets[x] \in Int) /\ (\A x \in lines : Accounts[x] \in A)
      BY <1>2
    <2>4. Over(g, A) = Over(Nets, lines)
      BY <1>1, <2>1, <2>3, OverGroups
    <2>5. QED
      BY <2>2, <2>4, TotalIsOver
  <1>6. /\ Over(Debits, lines) \in Int /\ Over(Credits, lines) \in Int
        /\ Over(Nets, lines) = Over(Debits, lines) - Over(Credits, lines)
    BY <1>1, <1>2, OverType, OverMinus
  <1>7. QED
    BY <1>3, <1>4, <1>5, <1>6

(* Entries that balance by themselves balance together. *)
LEMMA BookBalances ==
    ASSUME NEW q, NEW book \in SUBSET Bookings, \A e \in book : EntryBalances(e, q)
    PROVE  Over(Nets, LinesOf(book, q)) = 0
  <1>1. PICK lines : lines = LinesOf(book, q)
    OBVIOUS
  <1>2. lines \subseteq AllLines /\ IsFiniteSet(lines) /\ IsFiniteSet(book)
    BY <1>1, LinesOfABook, BookingsAssumption, FS_Subset
  <1>3. \A ref \in lines : Nets[ref] \in Int /\ Entries[ref] \in book
    BY <1>1, <1>2, LinesOfABook, AllLinesAreLines DEF Nets, Entries
  <1>4. PICK g : g = [e \in book |-> Over(Nets, Group(lines, Entries, e))]
    OBVIOUS
  <1>5. Over(g, book) = Over(Nets, lines)
    <2>1. \A e \in book : g[e] = Over(Nets, Group(lines, Entries, e))
      BY <1>4
    <2>2. (\A x \in lines : Nets[x] \in Int) /\ (\A x \in lines : Entries[x] \in book)
      BY <1>3
    <2>3. QED
      BY <1>2, <2>1, <2>2, OverGroups
  <1>6. ASSUME NEW e \in book
        PROVE  g[e] = 0
    <2>1. PICK own : own = LinesOf({e}, q)
      OBVIOUS
    <2>2. /\ own \subseteq AllLines /\ IsFiniteSet(own)
          /\ \A ref \in AllLines : ref \in own <=> ref[1] \in {e} /\ InScope(LineOf(ref), q)
      <3>1. {e} \in SUBSET Bookings
        OBVIOUS
      <3>2. QED
        BY <2>1, <3>1, LinesOfABook
    <2>3. own = Group(lines, Entries, e)
      <3>1. \A ref \in AllLines : ref \in lines <=> ref[1] \in book /\ InScope(LineOf(ref), q)
        BY <1>1, LinesOfABook
      <3>2. QED
        BY <1>2, <2>2, <3>1 DEF Entries, Group
    <2>4. PICK h : h = [a \in AllAccounts |-> Net(own, a)]
      OBVIOUS
    <2>5. Total(h) = 0
      BY <2>1, <2>4 DEF EntryBalances
    <2>6. Total(h) = Over(Nets, own)
      BY <2>2, <2>4, SumOverAccounts, AllLinesAreLines, AccountsAssumption
    <2>7. QED
      BY <1>4, <2>3, <2>5, <2>6
  <1>7. Over(g, book) = 0
    BY <1>2, <1>6, OverZero
  <1>8. QED
    BY <1>1, <1>5, <1>7

-----------------------------------------------------------------------------
(***************************************************************************)
(* What holds of a request while it gathers its report.                    *)
(***************************************************************************)
IsRequest(r) ==
    r = [ kind |-> r.kind, query |-> r.query, due |-> r.due, read |-> r.read,
          changed |-> r.changed ]

Charted(e, accounts) == \A i \in DOMAIN e.lines : e.lines[i].account \in accounts

At(r, due, known) == r.due = due /\ DOMAIN r.read = known

(* How far the queries have come.  The accounts of a trial balance are     *)
(* the last to be read.                                                    *)
Progress(r) ==
    /\ r.kind = "trial-balance" /\ r.query.from = None =>
         \/ At(r, << {"period"}, {"accounts"} >>, {})
         \/ At(r, << {"accounts"} >>, {"period"})
         \/ At(r, <<>>, {"period", "accounts"})
    /\ r.kind = "trial-balance" /\ r.query.from # None =>
         \/ At(r, << {"period"}, {"opening"}, {"accounts"} >>, {})
         \/ At(r, << {"opening"}, {"accounts"} >>, {"period"})
         \/ At(r, << {"accounts"} >>, {"period", "opening"})
         \/ At(r, <<>>, {"period", "opening", "accounts"})
    /\ r.kind = "account-statement-summary" =>
         \/ At(r, << {"period"} >>, {})
         \/ At(r, <<>>, {"period"})
    /\ r.kind = "account-statement" /\ r.query.from = None =>
         \/ At(r, << {"period"} >>, {})
         \/ At(r, <<>>, {"period"})
    /\ r.kind = "account-statement" /\ r.query.from # None =>
         \/ At(r, << {"period"}, {"opening"} >>, {})
         \/ At(r, << {"opening"} >>, {"period"})
         \/ At(r, <<>>, {"period", "opening"})
    /\ r.kind = "financial-statements" =>
         \/ At(r, <<>>, SnapshotReads)
         \/ \E left \in SUBSET SnapshotReads :
              left # {} /\ At(r, << left >>, SnapshotReads \ left)

(* A query saw some of what there is now, and all of it when nothing has   *)
(* changed since the report was asked for.                                 *)
Told(what, accounts, book) == IF what = "accounts" THEN accounts ELSE book

Seen(r, accounts, book) ==
    \A x \in DOMAIN r.read : /\ r.read[x] \subseteq Told(x, accounts, book)
                             /\ r.changed = 0 => r.read[x] = Told(x, accounts, book)

(* The accounts read last have those of every line read before.            *)
Covered(r) ==
    r.kind = "trial-balance" /\ "accounts" \in DOMAIN r.read =>
        \A x \in DOMAIN r.read \ {"accounts"} :
            \A e \in r.read[x] : Charted(e, r.read["accounts"])

Reading(r, accounts, book) ==
    /\ r.kind \in DOMAIN Queries /\ r.query \in Queries[r.kind] /\ r.changed \in Nat
    /\ IsRequest(r) /\ Progress(r)
    /\ Seen(r, accounts, book)
    /\ Covered(r)

BooksInv ==
    /\ chart \subseteq AllAccounts /\ entries \subseteq Bookings
    /\ \A e \in entries : Charted(e, chart)

RequestsInv ==
    /\ req = [d \in Desks |-> req[d]]
    /\ \A d \in Desks : req[d] # Idle => Reading(req[d], chart, entries)

(* A report is asked for: nothing is read yet. *)
LEMMA AskedReading ==
    ASSUME NEW kind \in DOMAIN Queries, NEW q \in Queries[kind], NEW accounts, NEW book,
           NEW r, r = [ kind |-> kind, query |-> q, due |-> QueriesOf(kind, q),
                        read |-> <<>>, changed |-> 0 ]
    PROVE  Reading(r, accounts, book)
  <1>1. r.kind = kind /\ r.query = q /\ r.due = QueriesOf(kind, q) /\ r.read = <<>> /\ r.changed = 0
    OBVIOUS
  <1>2. DOMAIN r.read = {}
    BY <1>1
  <1>3. IsRequest(r)
    BY DEF IsRequest
  <1>4. Progress(r)
    <2>1. kind \in { "trial-balance", "account-statement-summary", "account-statement",
                     "financial-statements" }
      BY KindsAssumption DEF Kinds
    <2>2. SnapshotReads # {} /\ SnapshotReads \ SnapshotReads = {}
      BY DEF SnapshotReads
    <2>3. CASE kind = "financial-statements"
      BY <1>1, <1>2, <2>2, <2>3 DEF Progress, At, QueriesOf
    <2>4. CASE kind # "financial-statements"
      BY <1>1, <1>2, <2>1, <2>4 DEF Progress, At, QueriesOf
    <2>5. QED
      BY <2>3, <2>4
  <1>5. QED
    BY <1>1, <1>2, <1>3, <1>4 DEF Reading, Seen, Covered

(* A query of those that are due brings the report one set further.        *)
LEMMA QueriedProgress ==
    ASSUME NEW r, Progress(r), r.kind \in DOMAIN Queries, r.due # <<>>,
           NEW what \in Head(r.due), NEW s,
           s.kind = r.kind, s.query = r.query,
           DOMAIN s.read = DOMAIN r.read \union {what},
           s.due = IF Head(r.due) \ {what} = {} THEN Tail(r.due)
                   ELSE [r.due EXCEPT ![1] = Head(r.due) \ {what}]
    PROVE  Progress(s)
  <1>1. r.kind \in { "trial-balance", "account-statement-summary", "account-statement",
                     "financial-statements" }
    BY KindsAssumption DEF Kinds
  <1>2. CASE r.kind = "financial-statements"
    <2>1. PICK left \in SUBSET SnapshotReads :
            left # {} /\ At(r, << left >>, SnapshotReads \ left)
      BY <1>2 DEF Progress, At
    <2>2. Head(r.due) = left /\ Tail(r.due) = <<>>
      BY <2>1 DEF At
    <2>3. DOMAIN s.read = SnapshotReads \ (left \ {what})
      BY <2>1, <2>2 DEF At
    <2>4. CASE left \ {what} = {}
      BY <1>2, <2>2, <2>3, <2>4 DEF Progress, At
    <2>5. CASE left \ {what} # {}
      <3>1. s.due = << left \ {what} >>
        BY <2>1, <2>2, <2>5 DEF At
      <3>2. QED
        BY <1>2, <2>3, <2>5, <3>1 DEF Progress, At
    <2>6. QED
      BY <2>4, <2>5
  <1>3. CASE r.kind # "financial-statements"
    <2>1. \A x, y, z : /\ Head(<< x >>) = x /\ Tail(<< x >>) = <<>>
                       /\ Head(<< x, y >>) = x /\ Tail(<< x, y >>) = << y >>
                       /\ Head(<< x, y, z >>) = x /\ Tail(<< x, y, z >>) = << y, z >>
      OBVIOUS
    <2>2. CASE r.kind = "trial-balance" /\ r.query.from = None
      <3>1. CASE At(r, << {"period"}, {"accounts"} >>, {})
        BY <2>1, <2>2, <3>1 DEF Progress, At
      <3>2. CASE At(r, << {"accounts"} >>, {"period"})
        BY <2>1, <2>2, <3>2 DEF Progress, At
      <3>3. QED
        BY <2>2, <3>1, <3>2 DEF Progress, At
    <2>3. CASE r.kind = "trial-balance" /\ r.query.from # None
      <3>1. CASE At(r, << {"period"}, {"opening"}, {"accounts"} >>, {})
        BY <2>1, <2>3, <3>1 DEF Progress, At
      <3>2. CASE At(r, << {"opening"}, {"accounts"} >>, {"period"})
        BY <2>1, <2>3, <3>2 DEF Progress, At
      <3>3. CASE At(r, << {"accounts"} >>, {"period", "opening"})
        BY <2>1, <2>3, <3>3 DEF Progress, At
      <3>4. QED
        BY <2>3, <3>1, <3>2, <3>3 DEF Progress, At
    <2>4. CASE r.kind = "account-statement-summary"
      <3>1. CASE At(r, << {"period"} >>, {})
        BY <2>1, <2>4, <3>1 DEF Progress, At
      <3>2. QED
        BY <2>4, <3>1 DEF Progress, At
    <2>5. CASE r.kind = "account-statement" /\ r.query.from = None
      <3>1. CASE At(r, << {"period"} >>, {})
        BY <2>1, <2>5, <3>1 DEF Progress, At
      <3>2. QED
        BY <2>5, <3>1 DEF Progress, At
    <2>6. CASE r.kind = "account-statement" /\ r.query.from # None
      <3>1. CASE At(r, << {"period"}, {"opening"} >>, {})
        BY <2>1, <2>6, <3>1 DEF Progress, At
      <3>2. CASE At(r, << {"opening"} >>, {"period"})
        BY <2>1, <2>6, <3>2 DEF Progress, At
      <3>3. QED
        BY <2>6, <3>1, <3>2 DEF Progress, At
    <2>7. QED
      BY <1>1, <1>3, <2>2, <2>3, <2>4, <2>5, <2>6
  <1>4. QED
    BY <1>2, <1>3

(* What it saw is what there is at that moment. *)
LEMMA QueriedReading ==
    ASSUME NEW accounts, NEW book, \A e \in book : Charted(e, accounts),
           NEW r, Reading(r, accounts, book), r.due # <<>>,
           NEW what \in Head(r.due), NEW s, IsRequest(s),
           s.kind = r.kind, s.query = r.query, s.changed = r.changed,
           s.read = [ x \in DOMAIN r.read \union {what} |->
                        IF x = what THEN Told(what, accounts, book) ELSE r.read[x] ],
           s.due = IF Head(r.due) \ {what} = {} THEN Tail(r.due)
                   ELSE [r.due EXCEPT ![1] = Head(r.due) \ {what}]
    PROVE  Reading(s, accounts, book)
  <1>1. Progress(s)
    BY QueriedProgress DEF Reading
  <1>2. Seen(s, accounts, book)
    BY DEF Reading, Seen
  <1>3. Covered(s)
    <2> SUFFICES ASSUME s.kind = "trial-balance", "accounts" \in DOMAIN s.read,
                        NEW x \in DOMAIN s.read \ {"accounts"},
                        NEW e \in s.read[x]
                 PROVE  Charted(e, s.read["accounts"])
      BY DEF Covered
    <2>1. "accounts" \notin DOMAIN r.read
      BY DEF Reading, Progress, At
    <2>2. what = "accounts" /\ s.read["accounts"] = accounts
      BY <2>1 DEF Told
    <2>3. x \in DOMAIN r.read /\ s.read[x] = r.read[x] /\ e \in book
      BY <2>2 DEF Reading, Seen, Told
    <2>4. QED
      BY <2>2, <2>3
  <1>4. QED
    BY <1>1, <1>2, <1>3 DEF Reading

(* A change to the books is counted. *)
LEMMA CountedReading ==
    ASSUME NEW accounts, NEW book, NEW r, Reading(r, accounts, book),
           NEW more, NEW later, accounts \subseteq more, book \subseteq later,
           NEW s, s = [r EXCEPT !.changed = r.changed + 1]
    PROVE  Reading(s, more, later)
  <1>1. /\ s.kind = r.kind /\ s.query = r.query /\ s.due = r.due /\ s.read = r.read
        /\ s.changed = r.changed + 1 /\ IsRequest(s)
    BY DEF Reading, IsRequest
  <1>2. Progress(s)
    BY <1>1 DEF Reading, Progress, At
  <1>3. Seen(s, more, later)
    BY <1>1 DEF Reading, Seen, Told
  <1>4. Covered(s)
    BY <1>1 DEF Reading, Covered
  <1>5. QED
    BY <1>1, <1>2, <1>3, <1>4 DEF Reading

ReportsInv == BooksInv /\ RequestsInv

(* No report is under way at first, and the books are empty. *)
LEMMA ReportsInit == Init => ReportsInv
  BY AccountsAssumption DEF Init, ReportsInv, BooksInv, RequestsInv, AllAccounts

(* What every change of the books does to the requests. *)
LEMMA CountedRequests ==
    ASSUME ReportsInv, req' = Counted, chart \subseteq chart', entries \subseteq entries'
    PROVE  RequestsInv'
  <1>1. req' = [d \in Desks |-> req'[d]]
    BY DEF Counted
  <1>2. ASSUME NEW d \in Desks, req'[d] # Idle
        PROVE  Reading(req'[d], chart', entries')
    <2>1. PICK r : r = req[d]
      OBVIOUS
    <2>2. r # Idle /\ req'[d] = [r EXCEPT !.changed = r.changed + 1]
      BY <1>2, <2>1 DEF Counted
    <2>3. Reading(r, chart, entries)
      BY <2>1, <2>2 DEF ReportsInv, RequestsInv
    <2>4. PICK s : s = req'[d]
      OBVIOUS
    <2>5. PICK more, later : more = chart' /\ later = entries'
      OBVIOUS
    <2>6. Reading(s, more, later)
      BY <2>2, <2>3, <2>4, <2>5, CountedReading
    <2>7. QED
      BY <2>4, <2>5, <2>6
  <1>3. QED
    BY <1>1, <1>2 DEF RequestsInv

(* Every step keeps what reports have read in line with the books. *)
LEMMA ReportsStep == ReportsInv /\ [Next]_vars => ReportsInv'
  <1> SUFFICES ASSUME ReportsInv, [Next]_vars
               PROVE  ReportsInv'
    OBVIOUS
  <1>1. ASSUME NEW a \in AllAccounts, CreateAccount(a)
        PROVE  ReportsInv'
    <2>1. chart' = chart \union {a} /\ entries' = entries /\ req' = Counted
      BY <1>1 DEF CreateAccount
    <2>2. BooksInv'
      BY <1>1, <2>1 DEF ReportsInv, BooksInv, Charted
    <2>3. RequestsInv'
      BY <2>1, CountedRequests
    <2>4. QED
      BY <2>2, <2>3 DEF ReportsInv
  <1>2. ASSUME NEW e \in Bookings, Book(e)
        PROVE  ReportsInv'
    <2>1. /\ chart' = chart /\ entries' = entries \union {e} /\ req' = Counted
          /\ Charted(e, chart)
      BY <1>2 DEF Book, Charted
    <2>2. BooksInv'
      BY <1>2, <2>1 DEF ReportsInv, BooksInv
    <2>3. RequestsInv'
      BY <2>1, CountedRequests
    <2>4. QED
      BY <2>2, <2>3 DEF ReportsInv
  <1>3. ASSUME NEW d \in Desks, NEW s, req' = [req EXCEPT ![d] = s],
               s = Idle \/ Reading(s, chart, entries),
               chart' = chart, entries' = entries
        PROVE  ReportsInv'
    <2>1. BooksInv'
      BY <1>3 DEF ReportsInv, BooksInv
    <2>2. /\ req = [x \in Desks |-> req[x]]
          /\ \A x \in Desks : req[x] # Idle => Reading(req[x], chart, entries)
      BY DEF ReportsInv, RequestsInv
    <2>3. req' = [x \in Desks |-> req'[x]] /\ req'[d] = s /\ \A x \in Desks \ {d} : req'[x] = req[x]
      BY <1>3, <2>2
    <2>4. RequestsInv'
      BY <1>3, <2>2, <2>3 DEF RequestsInv
    <2>5. QED
      BY <2>1, <2>4 DEF ReportsInv
  <1>4. ASSUME NEW d \in Desks, NEW kind \in DOMAIN Queries, NEW q \in Queries[kind],
               Ask(d, kind, q)
        PROVE  ReportsInv'
    <2>1. PICK s : s = [ kind |-> kind, query |-> q, due |-> QueriesOf(kind, q),
                         read |-> <<>>, changed |-> 0 ]
      OBVIOUS
    <2>2. Reading(s, chart, entries)
      BY <2>1, AskedReading
    <2>3. req' = [req EXCEPT ![d] = s] /\ chart' = chart /\ entries' = entries
      BY <1>4, <2>1 DEF Ask
    <2>4. QED
      BY <1>3, <2>2, <2>3
  <1>5. ASSUME NEW d \in Desks, Query(d)
        PROVE  ReportsInv'
    <2>1. PICK r : r = req[d]
      OBVIOUS
    <2>2. Reading(r, chart, entries) /\ r.due # <<>>
      BY <1>5, <2>1 DEF Query, ReportsInv, RequestsInv
    <2>3. PICK what \in Head(r.due) :
            req' = [req EXCEPT
                 ![d].read = [ x \in DOMAIN r.read \union {what} |->
                                 IF x = what THEN Told(what, chart, entries) ELSE r.read[x] ],
                 ![d].due = IF Head(r.due) \ {what} = {} THEN Tail(r.due)
                            ELSE [r.due EXCEPT ![1] = Head(r.due) \ {what}]]
      BY <1>5, <2>1 DEF Query, Told
    <2>4. PICK read : read = [ x \in DOMAIN r.read \union {what} |->
                                 IF x = what THEN Told(what, chart, entries) ELSE r.read[x] ]
      OBVIOUS
    <2>5. PICK due : due = IF Head(r.due) \ {what} = {} THEN Tail(r.due)
                            ELSE [r.due EXCEPT ![1] = Head(r.due) \ {what}]
      OBVIOUS
    <2>6. req' = [req EXCEPT ![d].read = read, ![d].due = due]
      BY <2>3, <2>4, <2>5
    <2>7. PICK s : s = [ kind |-> r.kind, query |-> r.query, due |-> due, read |-> read,
                         changed |-> r.changed ]
      OBVIOUS
    <2>8. s = [r EXCEPT !.read = read, !.due = due]
      <3>1. PICK k, q, w, v, c : r = [kind |-> k, query |-> q, due |-> w, read |-> v, changed |-> c]
        BY <2>2 DEF Reading, IsRequest
      <3>2. s = [kind |-> k, query |-> q, due |-> due, read |-> read, changed |-> c]
        BY <2>7, <3>1
      <3>3. PICK u : u = [r EXCEPT !.read = read]
        OBVIOUS
      <3>4. u = [kind |-> k, query |-> q, due |-> w, read |-> read, changed |-> c]
        BY <3>1, <3>3
      <3>5. s = [u EXCEPT !.due = due]
        BY <3>2, <3>4
      <3>6. QED
        BY <3>3, <3>5
    <2>9. req' = [req EXCEPT ![d] = s]
      BY <2>1, <2>6, <2>8 DEF ReportsInv, RequestsInv
    <2>10. Reading(s, chart, entries)
      <3>1. /\ s.kind = r.kind /\ s.query = r.query /\ s.changed = r.changed
            /\ s.read = read /\ s.due = due /\ IsRequest(s)
        BY <2>7 DEF IsRequest
      <3>2. \A e \in entries : Charted(e, chart)
        BY DEF ReportsInv, BooksInv
      <3>3. s.read = [ x \in DOMAIN r.read \union {what} |->
                         IF x = what THEN Told(what, chart, entries) ELSE r.read[x] ]
        BY <2>4, <3>1
      <3>4. s.due = IF Head(r.due) \ {what} = {} THEN Tail(r.due)
                    ELSE [r.due EXCEPT ![1] = Head(r.due) \ {what}]
        BY <2>5, <3>1
      <3>5. /\ s.kind = r.kind /\ s.query = r.query /\ s.changed = r.changed
            /\ IsRequest(s) /\ what \in Head(r.due)
        BY <2>3, <3>1
      <3>6. PICK accounts, book : accounts = chart /\ book = entries
        OBVIOUS
      <3>7. Reading(s, accounts, book)
        BY <2>2, <3>2, <3>3, <3>4, <3>5, <3>6, QueriedReading
      <3>8. QED
        BY <3>6, <3>7
    <2>11. chart' = chart /\ entries' = entries
      BY <1>5 DEF Query
    <2>12. QED
      BY <1>3, <2>9, <2>10, <2>11
  <1>6. ASSUME NEW d \in Desks, Answer(d)
        PROVE  ReportsInv'
    BY <1>3, <1>6 DEF Answer
  <1>7. CASE UNCHANGED vars
    BY <1>7 DEF vars, ReportsInv, BooksInv, RequestsInv
  <1>8. QED
    BY <1>1, <1>2, <1>4, <1>5, <1>6, <1>7 DEF Next

(* Each request is somewhere along its queries, and what these saw is some *)
(* of what is booked: buildAccountSnapshots, getTrialBalanceRows.          *)
THEOREM ReportsAlways == Spec => []ReportsInv
  <1>1. QED
    BY ReportsInit, ReportsStep, PTL DEF Spec

-----------------------------------------------------------------------------
(* The trial balance.                                                      *)

(* A column of debit balances and one of credit balances differ by the sum *)
(* of the balances.                                                        *)
LEMMA TwoSides ==
    ASSUME NEW A, IsFiniteSet(A), NEW b \in [A -> Int], Total(b) = 0,
           NEW debits, debits = [a \in A |-> Positive(b[a])],
           NEW credits, credits = [a \in A |-> Positive(-b[a])]
    PROVE  Total(debits) = Total(credits)
  <1>1. \A a \in A : debits[a] \in Int /\ credits[a] \in Int /\ b[a] = debits[a] - credits[a]
    BY DEF Positive
  <1>2. debits \in [A -> Int] /\ credits \in [A -> Int]
    BY <1>1
  <1>3. Over(b, A) = Over(debits, A) - Over(credits, A)
    BY <1>1, OverMinus
  <1>4. Over(debits, A) \in Int /\ Over(credits, A) \in Int
    BY <1>1, OverType
  <1>5. Total(b) = Over(b, A) /\ Total(debits) = Over(debits, A) /\ Total(credits) = Over(credits, A)
    BY <1>2, TotalIsOver
  <1>6. QED
    BY <1>3, <1>4, <1>5

Columns ==
    { "openingDebit", "openingCredit", "periodDebit", "periodCredit",
      "closingDebit", "closingCredit" }

(* Lines that come to nothing make columns of equal totals. *)
LEMMA RowsBalance ==
    ASSUME NEW A, IsFiniteSet(A),
           NEW opening \in SUBSET AllLines, NEW period \in SUBSET AllLines,
           \A ref \in opening \union period : LineOf(ref).account \in A,
           Over(Nets, opening) = 0, Over(Nets, period) = 0,
           NEW rows, rows = [a \in A |-> TrialBalanceRow(opening, period, a)]
    PROVE  /\ ColumnTotal(rows, "openingDebit") = ColumnTotal(rows, "openingCredit")
           /\ ColumnTotal(rows, "periodDebit") = ColumnTotal(rows, "periodCredit")
           /\ ColumnTotal(rows, "closingDebit") = ColumnTotal(rows, "closingCredit")
           /\ \A column \in Columns : ColumnTotal(rows, column) \in Int
  <1>1. PICK before : before = [a \in A |-> Net(opening, a)]
    OBVIOUS
  <1>2. PICK moved : moved = [a \in A |-> Net(period, a)]
    OBVIOUS
  <1>3. PICK after : after = [a \in A |-> before[a] + moved[a]]
    OBVIOUS
  <1>4. before \in [A -> Int] /\ moved \in [A -> Int] /\ after \in [A -> Int]
    BY <1>1, <1>2, <1>3, NetIsOver
  <1>5. Total(before) = 0 /\ Total(moved) = 0
    <2>1. \A ref \in opening : LineOf(ref).account \in A
      OBVIOUS
    <2>2. \A ref \in period : LineOf(ref).account \in A
      OBVIOUS
    <2>3. QED
      BY <1>1, <1>2, <2>1, <2>2, SumOverAccounts
  <1>6. Total(after) = 0
    <2>1. \A a \in A : before[a] \in Int /\ moved[a] \in Int /\ after[a] = before[a] + moved[a]
      BY <1>3, <1>4
    <2>2. Over(after, A) = Over(before, A) + Over(moved, A)
      BY <2>1, OverPlus
    <2>3. QED
      BY <1>4, <1>5, <2>2, TotalIsOver
  <1>7. \A a \in A :
          /\ rows[a].openingDebit = Positive(before[a])
          /\ rows[a].openingCredit = Positive(-before[a])
          /\ rows[a].periodDebit = Debit(period, a)
          /\ rows[a].periodCredit = Credit(period, a)
          /\ rows[a].closingDebit = Positive(after[a])
          /\ rows[a].closingCredit = Positive(-after[a])
    BY <1>1, <1>2, <1>3 DEF TrialBalanceRow
  <1>8. /\ ColumnTotal(rows, "openingDebit") = Total([a \in A |-> Positive(before[a])])
        /\ ColumnTotal(rows, "openingCredit") = Total([a \in A |-> Positive(-before[a])])
        /\ ColumnTotal(rows, "periodDebit") = Total([a \in A |-> Debit(period, a)])
        /\ ColumnTotal(rows, "periodCredit") = Total([a \in A |-> Credit(period, a)])
        /\ ColumnTotal(rows, "closingDebit") = Total([a \in A |-> Positive(after[a])])
        /\ ColumnTotal(rows, "closingCredit") = Total([a \in A |-> Positive(-after[a])])
    <2>1. DOMAIN rows = A
      OBVIOUS
    <2>2. /\ [a \in DOMAIN rows |-> rows[a]["openingDebit"]] = [a \in A |-> Positive(before[a])]
          /\ [a \in DOMAIN rows |-> rows[a]["openingCredit"]] = [a \in A |-> Positive(-before[a])]
          /\ [a \in DOMAIN rows |-> rows[a]["periodDebit"]] = [a \in A |-> Debit(period, a)]
          /\ [a \in DOMAIN rows |-> rows[a]["periodCredit"]] = [a \in A |-> Credit(period, a)]
          /\ [a \in DOMAIN rows |-> rows[a]["closingDebit"]] = [a \in A |-> Positive(after[a])]
          /\ [a \in DOMAIN rows |-> rows[a]["closingCredit"]] = [a \in A |-> Positive(-after[a])]
      BY <1>7, <2>1
    <2>3. QED
      BY <2>2, Zenon DEF ColumnTotal
  <1>9. /\ ColumnTotal(rows, "openingDebit") = ColumnTotal(rows, "openingCredit")
        /\ ColumnTotal(rows, "closingDebit") = ColumnTotal(rows, "closingCredit")
    BY <1>4, <1>5, <1>6, <1>8, TwoSides
  <1>10. ColumnTotal(rows, "periodDebit") = ColumnTotal(rows, "periodCredit")
    <2>1. \A ref \in period : LineOf(ref).account \in A
      OBVIOUS
    <2>2. /\ Total([a \in A |-> Debit(period, a)]) = Over(Debits, period)
          /\ Total([a \in A |-> Credit(period, a)]) = Over(Credits, period)
          /\ Over(Debits, period) \in Int /\ Over(Credits, period) \in Int
          /\ Over(Nets, period) = Over(Debits, period) - Over(Credits, period)
      BY <2>1, SumOverAccounts
    <2>3. QED
      BY <1>8, <2>2
  <1>11. \A column \in Columns : ColumnTotal(rows, column) \in Int
    <2>1. ASSUME NEW g \in [A -> Int] PROVE Total(g) \in Int
      BY TotalIsOver, OverType
    <2>2. /\ [a \in A |-> Positive(before[a])] \in [A -> Int]
          /\ [a \in A |-> Positive(-before[a])] \in [A -> Int]
          /\ [a \in A |-> Positive(after[a])] \in [A -> Int]
          /\ [a \in A |-> Positive(-after[a])] \in [A -> Int]
      BY <1>4 DEF Positive
    <2>3. /\ [a \in A |-> Debit(period, a)] \in [A -> Int]
          /\ [a \in A |-> Credit(period, a)] \in [A -> Int]
      BY NetIsOver
    <2>4. QED
      BY <1>8, <2>1, <2>2, <2>3 DEF Columns
  <1>12. QED
    BY <1>9, <1>10, <1>11

(* Entries read are some of those booked: their lines and accounts.        *)
LEMMA ReadLines ==
    ASSUME NEW r, NEW accounts, NEW book \in SUBSET Bookings, NEW A,
           \A e \in book : EntryBalances(e, r.query), \A e \in book : Charted(e, A),
           NEW some \in SUBSET book
    PROVE  LET lines == LinesOf(some, r.query) IN
           /\ lines \subseteq AllLines
           /\ Over(Nets, lines) = 0
           /\ \A ref \in lines : LineOf(ref).account \in A
  <1>1. PICK lines : lines = LinesOf(some, r.query)
    OBVIOUS
  <1>2. some \in SUBSET Bookings
    OBVIOUS
  <1>3. lines \subseteq AllLines /\ \A ref \in lines : ref[1] \in some
    BY <1>1, <1>2, LinesOfABook
  <1>4. \A ref \in lines : LineOf(ref).account \in A
    BY <1>3, AllLinesAreLines DEF Charted, LineOf
  <1>5. Over(Nets, lines) = 0
    <2>1. \A e \in some : EntryBalances(e, r.query)
      OBVIOUS
    <2>2. QED
      BY <1>1, <1>2, <2>1, BookBalances
  <1>6. QED
    BY <1>1, <1>3, <1>4, <1>5

(* A finished report has read all its queries. *)
LEMMA ReadyReports ==
    ASSUME ReportsInv, NEW kind \in Kinds, NEW r \in Ready(kind)
    PROVE  /\ r.kind = kind /\ r.due = <<>> /\ Reading(r, chart, entries)
           /\ Progress(r) /\ Seen(r, chart, entries) /\ Covered(r)
           /\ r.kind \in DOMAIN Queries /\ r.query \in Queries[r.kind]
  <1>1. PICK d \in Desks : r = req[d] /\ r.kind = kind /\ r.due = <<>>
    BY DEF Ready
  <1>2. r # Idle
    BY <1>1, KindsAssumption DEF Idle
  <1>3. Reading(r, chart, entries)
    BY <1>1, <1>2 DEF ReportsInv, RequestsInv
  <1>4. QED
    BY <1>1, <1>3 DEF Reading

(* A finished trial balance balances: it lists the account of every line   *)
(* it read.                                                                *)
LEMMA ReadyTrialBalance ==
    ASSUME ReportsInv, NEW r \in Ready("trial-balance"), CutsNoEntry(r),
           NEW rows, rows = TrialBalanceRows(r)
    PROVE  /\ ColumnTotal(rows, "openingDebit") = ColumnTotal(rows, "openingCredit")
           /\ ColumnTotal(rows, "periodDebit") = ColumnTotal(rows, "periodCredit")
           /\ ColumnTotal(rows, "closingDebit") = ColumnTotal(rows, "closingCredit")
           /\ \A column \in Columns : ColumnTotal(rows, column) \in Int
           /\ Operations(r) \in Nat
  <1>1. /\ r.kind = "trial-balance" /\ r.due = <<>> /\ Progress(r)
        /\ Seen(r, chart, entries) /\ Covered(r)
    BY ReadyReports DEF Kinds
  <1>2. PICK read : read = r.read
    OBVIOUS
  <1>3. /\ "accounts" \in DOMAIN read /\ "period" \in DOMAIN read
        /\ r.query.from # None => "opening" \in DOMAIN read
    BY <1>1, <1>2 DEF Progress, At
  <1>4. PICK A : A = read["accounts"]
    OBVIOUS
  <1>5. A \subseteq AllAccounts /\ IsFiniteSet(A)
    BY <1>1, <1>2, <1>3, <1>4, AccountsAssumption, FS_Subset DEF Seen, Told, ReportsInv, BooksInv
  <1>6. ASSUME NEW x \in {"period", "opening"}, x \in DOMAIN read, NEW some \in SUBSET read[x]
        PROVE  LET lines == LinesOf(some, r.query) IN
               /\ lines \subseteq AllLines
               /\ Over(Nets, lines) = 0
               /\ \A ref \in lines : LineOf(ref).account \in A
    <2>1. read[x] \subseteq entries /\ read[x] \subseteq Bookings
      BY <1>1, <1>2, <1>6 DEF Seen, Told, ReportsInv, BooksInv
    <2>2. \A e \in read[x] : EntryBalances(e, r.query)
      BY <2>1 DEF CutsNoEntry
    <2>3. \A e \in read[x] : Charted(e, A)
      BY <1>1, <1>2, <1>3, <1>4, <1>6 DEF Covered
    <2>4. QED
      BY <2>1, <2>2, <2>3, ReadLines
  <1>7. PICK period : period = PeriodLines(r.read.period, r.query)
    OBVIOUS
  <1>8. /\ period \in SUBSET AllLines /\ Over(Nets, period) = 0
        /\ \A ref \in period : LineOf(ref).account \in A
    <2>1. PICK some : some = { e \in read["period"] :
                                 /\ r.query.from # None => StartOf(r.query.from) <= e.date
                                 /\ r.query.to # None => e.date <= EndOf(r.query.to) }
      OBVIOUS
    <2>2. period = LinesOf(some, r.query)
      BY <1>2, <1>7, <2>1 DEF PeriodLines
    <2>3. QED
      BY <1>3, <1>6, <2>1, <2>2
  <1>9. PICK opening : opening = IF r.query.from = None THEN {}
                                 ELSE OpeningLines(r.read.opening, r.query)
    OBVIOUS
  <1>10. /\ opening \in SUBSET AllLines /\ Over(Nets, opening) = 0
         /\ \A ref \in opening : LineOf(ref).account \in A
    <2>1. CASE r.query.from = None
      BY <1>9, <2>1, OverEmpty
    <2>2. CASE r.query.from # None
      <3>1. PICK some : some = { e \in read["opening"] : e.date < StartOf(r.query.from) }
        OBVIOUS
      <3>2. opening = LinesOf(some, r.query)
        BY <1>2, <1>9, <2>2, <3>1 DEF OpeningLines
      <3>3. QED
        BY <1>3, <1>6, <2>2, <3>1, <3>2
    <2>3. QED
      BY <2>1, <2>2
  <1>11. rows = [a \in A |-> TrialBalanceRow(opening, period, a)]
    BY <1>2, <1>4, <1>7, <1>9 DEF TrialBalanceRows, LinesBefore, LinesDuring
  <1>12. \A ref \in opening \union period : LineOf(ref).account \in A
    BY <1>8, <1>10
  <1>13. /\ IsFiniteSet(A) /\ A = r.read.accounts
         /\ IsFiniteSet(LinesBefore(r)) /\ IsFiniteSet(LinesDuring(r))
    BY <1>2, <1>4, <1>5, <1>7, <1>8, <1>9, <1>10, AllLinesAreLines, FS_Subset
       DEF LinesBefore, LinesDuring
  <1>14. Operations(r) \in Nat
    BY <1>13, FS_CardinalityType DEF Operations
  <1>15. QED
    BY <1>5, <1>8, <1>10, <1>11, <1>12, <1>14, RowsBalance

(* What is less than half a cent from whole cents is shown as these.       *)
LEMMA NearIsShownAlike ==
    ASSUME NEW k \in Int, NEW e \in Int, 2 * e < Cent, -Cent < 2 * e
    PROVE  InCents(Cent * k + e) = k
  BY SMT DEF InCents, Cent

LEMMA EqualIsShownAlike ==
    ASSUME NEW rows, NEW left, NEW right, NEW n \in Nat, 2 * n < Cent,
           ColumnTotal(rows, left) = ColumnTotal(rows, right), ColumnTotal(rows, left) \in Int
    PROVE  ShownAlike(SumOf(rows, left, n), SumOf(rows, right, n))
  <1>1. PICK k \in Int : k = ColumnTotal(rows, left) /\ k = ColumnTotal(rows, right)
    OBVIOUS
  <1>2. Cent \in Nat /\ -n \in Int /\ 2 * (-n) < Cent /\ -Cent < 2 * (-n) /\ -Cent < 2 * n
    BY SMT DEF Cent
  <1>3. PICK m \in Int : m = -n
    OBVIOUS
  <1>4. InCents(Cent * k + n) = k /\ InCents(Cent * k + m) = k
    <2>1. n \in Int /\ 2 * m < Cent /\ -Cent < 2 * m
      BY <1>2, <1>3
    <2> QED
      BY <1>2, <2>1, NearIsShownAlike, Zenon
  <1>5. Cent * k - n = Cent * k + m
    BY <1>2, <1>3
  <1>6. PICK least, most : least = Cent * k - n /\ most = Cent * k + n
    OBVIOUS
  <1>7. /\ SumOf(rows, left, n).least = least /\ SumOf(rows, left, n).most = most
        /\ SumOf(rows, right, n).least = least /\ SumOf(rows, right, n).most = most
    BY <1>1, <1>6 DEF SumOf
  <1> QED
    BY <1>4, <1>5, <1>6, <1>7, Zenon DEF ShownAlike

(* Every trial balance of less than ten thousand lines and accounts shows  *)
(* equal amounts in cents under debits and credits of its opening,         *)
(* movement and closing columns: getTrialBalanceRows, pdfMoney.            *)
THEOREM TrialBalancesBalance == Spec => []TrialBalanceBalances
  <1>1. ReportsInv => TrialBalanceBalances
    <2>1. SUFFICES ASSUME ReportsInv, NEW r \in Ready("trial-balance"), CutsNoEntry(r),
                          2 * Operations(r) < Cent
                   PROVE  LET rows == TrialBalanceRows(r)
                              total(column) == SumOf(rows, column, Operations(r))
                          IN  /\ ShownAlike(total("openingDebit"), total("openingCredit"))
                              /\ ShownAlike(total("periodDebit"), total("periodCredit"))
                              /\ ShownAlike(total("closingDebit"), total("closingCredit"))
      BY Zenon DEF TrialBalanceBalances
    <2>2. PICK rows, n : rows = TrialBalanceRows(r) /\ n = Operations(r)
      OBVIOUS
    <2>3. /\ n \in Nat /\ 2 * n < Cent
          /\ \A column \in Columns : ColumnTotal(rows, column) \in Int
          /\ ColumnTotal(rows, "openingDebit") = ColumnTotal(rows, "openingCredit")
          /\ ColumnTotal(rows, "periodDebit") = ColumnTotal(rows, "periodCredit")
          /\ ColumnTotal(rows, "closingDebit") = ColumnTotal(rows, "closingCredit")
      BY <2>1, <2>2, ReadyTrialBalance
    <2>4. /\ ShownAlike(SumOf(rows, "openingDebit", n), SumOf(rows, "openingCredit", n))
          /\ ShownAlike(SumOf(rows, "periodDebit", n), SumOf(rows, "periodCredit", n))
          /\ ShownAlike(SumOf(rows, "closingDebit", n), SumOf(rows, "closingCredit", n))
      BY <2>3, EqualIsShownAlike DEF Columns
    <2> QED
      BY <2>2, <2>4, Zenon
  <1>2. QED
    BY <1>1, ReportsAlways, PTL

-----------------------------------------------------------------------------
(* Ranges of dates.                                                        *)

(* A book in two parts: each line is in one of them. *)
LEMMA NetOfParts ==
    ASSUME NEW q, NEW early \in SUBSET Bookings, NEW late \in SUBSET Bookings,
           early \cap late = {}, NEW whole, whole = early \union late, NEW a
    PROVE  Net(LinesOf(whole, q), a) = Net(LinesOf(early, q), a) + Net(LinesOf(late, q), a)
  <1>1. PICK one, two, all : /\ one = LinesOf(early, q) /\ two = LinesOf(late, q)
                             /\ all = LinesOf(whole, q)
    OBVIOUS
  <1>2. /\ one \subseteq AllLines /\ two \subseteq AllLines /\ all \subseteq AllLines
        /\ \A ref \in AllLines : /\ ref \in one <=> ref[1] \in early /\ InScope(LineOf(ref), q)
                                 /\ ref \in two <=> ref[1] \in late /\ InScope(LineOf(ref), q)
                                 /\ ref \in all <=> ref[1] \in whole /\ InScope(LineOf(ref), q)
    <2>1. whole \in SUBSET Bookings
      OBVIOUS
    <2>2. QED
      BY <1>1, <2>1, LinesOfABook
  <1>3. PICK S, R : S = Posted(one, a) /\ R = Posted(two, a)
    OBVIOUS
  <1>4. S \cap R = {} /\ S \subseteq AllLines /\ R \subseteq AllLines
    BY <1>2, <1>3 DEF Posted, Group
  <1>5. Posted(all, a) = S \union R
    BY <1>2, <1>3 DEF Posted, Group
  <1>6. Over(Nets, S \union R) = Over(Nets, S) + Over(Nets, R)
    <2>1. IsFiniteSet(S) /\ IsFiniteSet(R)
      BY <1>4, AllLinesAreLines, FS_Subset
    <2>2. \A x \in S \union R : Nets[x] \in Int
      BY <1>4, AllLinesAreLines DEF Nets
    <2>3. QED
      BY <1>4, <2>1, <2>2, OverUnion
  <1>7. QED
    BY <1>1, <1>2, <1>3, <1>5, <1>6, NetIsOver

(* The reports that take the dates as asked. *)
LEMMA OpeningAndPeriod ==
    ASSUME NEW book \in SUBSET Bookings, NEW q, NEW a,
           q.from \in Int \union {None}, q.to \in Int \union {None},
           q.from = None \/ q.to = None \/ InOrder(PrimaryRange(q))
    PROVE  Net(LedgerLines(book, q), a) =
              (IF q.from = None THEN 0 ELSE Net(OpeningLines(book, q), a))
                 + Net(PeriodLines(book, q), a)
  <1>1. \A e \in Bookings : e.date \in Int
    BY BookingsAssumption
  <1>2. CASE q.from = None
    <2>1. LedgerLines(book, q) = PeriodLines(book, q)
      BY <1>2 DEF LedgerLines, PeriodLines
    <2>2. PeriodLines(book, q) \in SUBSET AllLines
      BY LinesOfABook DEF PeriodLines
    <2>3. QED
      BY <1>2, <2>1, <2>2, NetIsOver
  <1>3. CASE q.from # None
    <2>1. PICK early : early = { e \in book : e.date < StartOf(q.from) }
      OBVIOUS
    <2>2. PICK late : late = { e \in book : /\ StartOf(q.from) <= e.date
                                            /\ q.to # None => e.date <= EndOf(q.to) }
      OBVIOUS
    <2>3. PICK whole : whole = { e \in book : q.to # None => e.date <= EndOf(q.to) }
      OBVIOUS
    <2>4. q.from \in Int /\ StartOf(q.from) \in Int
      BY <1>3 DEF StartOf
    <2>5. early \cap late = {} /\ early \subseteq Bookings /\ late \subseteq Bookings
      <3>1. early \subseteq Bookings /\ late \subseteq Bookings
        BY <2>1, <2>2
      <3>2. \A e \in Bookings : e \in early => e.date < StartOf(q.from)
        BY <2>1
      <3>3. \A e \in Bookings : e \in late => StartOf(q.from) <= e.date
        BY <2>2
      <3>4. QED
        BY <1>1, <2>4, <3>1, <3>2, <3>3
    <2>6. q.to # None => EndOf(q.to) \in Int /\ StartOf(q.from) <= EndOf(q.to)
      <3>1. q.to # None => InOrder(PrimaryRange(q))
        BY <1>3
      <3>2. QED
        BY <1>3, <3>1 DEF InOrder, PrimaryRange, EndOf
    <2>7. whole = early \union late
      BY <1>1, <2>1, <2>2, <2>3, <2>4, <2>6
    <2>8. Net(LinesOf(whole, q), a) = Net(LinesOf(early, q), a) + Net(LinesOf(late, q), a)
      BY <2>5, <2>7, NetOfParts
    <2>9. LedgerLines(book, q) = LinesOf(whole, q)
      BY <2>3 DEF LedgerLines
    <2>10. OpeningLines(book, q) = LinesOf(early, q)
      BY <1>3, <2>1 DEF OpeningLines
    <2>11. PeriodLines(book, q) = LinesOf(late, q)
      <3>1. late = { e \in book : /\ q.from # None => StartOf(q.from) <= e.date
                                  /\ q.to # None => e.date <= EndOf(q.to) }
        BY <1>3, <2>2
      <3>2. QED
        BY <3>1, Zenon DEF PeriodLines
    <2>12. QED
      BY <1>3, <2>8, <2>9, <2>10, <2>11
  <1>4. QED
    BY <1>2, <1>3

(* A range that starts with a day: what was before it, what is in it. *)
LEMMA BeforeAndWithin ==
    ASSUME NEW book \in SUBSET Bookings, NEW q, NEW a,
           NEW day \in Int, NEW from, from = StartOf(day), NEW to \in Int, from <= to
    PROVE  Net(LinesUpTo(book, q, to), a) =
              Net(LinesUpTo(book, q, DayBefore(from)), a) + Net(LinesBetween(book, q, from, to), a)
  <1>1. \A e \in Bookings : e.date \in Int
    BY BookingsAssumption
  <1>2. DayBefore(from) = from - 1 /\ from \in Int
    BY DEF DayBefore, DayOf, EndOf, StartOf
  <1>3. PICK early : early = { e \in book : e.date <= DayBefore(from) }
    OBVIOUS
  <1>4. PICK late : late = { e \in book : from <= e.date /\ e.date <= to }
    OBVIOUS
  <1>5. PICK whole : whole = { e \in book : e.date <= to }
    OBVIOUS
  <1>6. /\ early \cap late = {} /\ early \subseteq Bookings /\ late \subseteq Bookings
        /\ whole = early \union late
    BY <1>1, <1>2, <1>3, <1>4, <1>5
  <1>7. Net(LinesOf(whole, q), a) = Net(LinesOf(early, q), a) + Net(LinesOf(late, q), a)
    BY <1>6, NetOfParts
  <1>8. QED
    BY <1>3, <1>4, <1>5, <1>7 DEF LinesUpTo, LinesBetween

(* Both ranges start with a day, and the one compared with by default ends *)
(* the day before the other starts.                                        *)
LEMMA Ranges ==
    ASSUME NEW q, { q.from, q.to, q.compareFrom, q.compareTo } \subseteq Int \union {None}
    PROVE  /\ PrimaryRange(q).to \in Int /\ ComparativeRange(q).to \in Int
           /\ \E day \in Int : PrimaryRange(q).from = StartOf(day)
           /\ \E day \in Int : ComparativeRange(q).from = StartOf(day)
           /\ q.compareFrom = None => ComparativeRange(q).to = DayBefore(PrimaryRange(q).from)
  <1>1. \A n \in Int : /\ DayOf(n) \in Int /\ StartOf(n) \in Int /\ EndOf(n) \in Int
                       /\ DayBefore(n) \in Int
    BY DEF DayOf, StartOf, EndOf, DayBefore
  <1>2. PICK range : range = PrimaryRange(q)
    OBVIOUS
  <1>3. range.to \in Int
    BY <1>1, <1>2, DatesAssumption DEF PrimaryRange
  <1>4. \E day \in Int : range.from = StartOf(day)
    <2>1. CASE q.from # None
      BY <1>2, <2>1 DEF PrimaryRange
    <2>2. CASE q.from = None
      <3>1. range.from = NewYear(range.to)
        BY <1>2, <2>2 DEF PrimaryRange
      <3>2. DayOf(range.to) - (DayOf(range.to) % DaysInYear) \in Int
        BY <1>1, <1>3, DatesAssumption
      <3>3. QED
        BY <3>1, <3>2 DEF NewYear
    <2>3. QED
      BY <2>1, <2>2
  <1>5. range.from \in Int
    BY <1>1, <1>4
  <1>6. PICK other : other = ComparativeRange(q)
    OBVIOUS
  <1>7. CASE q.compareFrom # None /\ q.compareTo # None
    <2>1. other.from = StartOf(q.compareFrom) /\ other.to = EndOf(q.compareTo)
      BY <1>6, <1>7 DEF ComparativeRange
    <2>2. QED
      BY <1>1, <1>2, <1>3, <1>4, <1>6, <1>7, <2>1
  <1>8. CASE ~ (q.compareFrom # None /\ q.compareTo # None)
    <2>1. PICK to : to = DayBefore(range.from)
      OBVIOUS
    <2>2. other.from = StartOf(DayOf(to - (range.to - range.from))) /\ other.to = to
      BY <1>2, <1>6, <1>8, <2>1 DEF ComparativeRange
    <2>3. to \in Int /\ DayOf(to - (range.to - range.from)) \in Int
      BY <1>1, <1>3, <1>5, <2>1
    <2>4. QED
      BY <1>2, <1>3, <1>4, <1>6, <2>1, <2>2, <2>3
  <1>9. QED
    BY <1>7, <1>8

-----------------------------------------------------------------------------
(* The balances tie.                                                       *)

(* What a report read is what there is, when nothing changed meanwhile.    *)
LEMMA UndisturbedReads ==
    ASSUME ReportsInv, NEW kind \in Kinds, NEW r \in Ready(kind), Undisturbed(r)
    PROVE  /\ \A x \in DOMAIN r.read : r.read[x] = Told(x, chart, entries)
           /\ r.query.from \in Int \union {None} /\ r.query.to \in Int \union {None}
           /\ { r.query.from, r.query.to, r.query.compareFrom, r.query.compareTo }
                 \subseteq Int \union {None}
  <1>1. /\ Seen(r, chart, entries)
        /\ r.kind \in DOMAIN Queries /\ r.query \in Queries[r.kind]
    BY ReadyReports
  <1>2. \A x \in DOMAIN r.read : r.read[x] = Told(x, chart, entries)
    BY <1>1 DEF Seen, Undisturbed
  <1>3. { r.query.from, r.query.to, r.query.compareFrom, r.query.compareTo }
           \subseteq Int \union {None}
    BY <1>1, DatesAssumption
  <1>4. QED
    BY <1>2, <1>3

(* An account statement ends with the balance of its ledger. *)
LEMMA StatementCloses ==
    ASSUME ReportsInv, NEW r \in Ready("account-statement"), Undisturbed(r),
           r.query.from = None \/ r.query.to = None \/ InOrder(PrimaryRange(r.query)),
           NEW a
    PROVE  ClosingBalance(r, a) = Net(LedgerLines(entries, r.query), a)
  <1>1. /\ r.kind = "account-statement" /\ r.due = <<>> /\ Progress(r)
    BY ReadyReports DEF Kinds
  <1>2. /\ \A x \in DOMAIN r.read : r.read[x] = Told(x, chart, entries)
        /\ r.query.from \in Int \union {None} /\ r.query.to \in Int \union {None}
    BY UndisturbedReads DEF Kinds
  <1>3. r.read.period = entries /\ (r.query.from # None => r.read.opening = entries)
    BY <1>1, <1>2 DEF Progress, At, Told
  <1>4. entries \in SUBSET Bookings
    BY DEF ReportsInv, BooksInv
  <1>5. Net(LedgerLines(entries, r.query), a) =
          (IF r.query.from = None THEN 0 ELSE Net(OpeningLines(entries, r.query), a))
             + Net(PeriodLines(entries, r.query), a)
    BY <1>2, <1>4, OpeningAndPeriod
  <1>6. QED
    BY <1>3, <1>5 DEF ClosingBalance

(* A row of the trial balance closes with the balance of its account. *)
LEMMA TrialBalanceCloses ==
    ASSUME ReportsInv, NEW r \in Ready("trial-balance"), Undisturbed(r),
           r.query.from = None \/ r.query.to = None \/ InOrder(PrimaryRange(r.query)),
           NEW rows, rows = TrialBalanceRows(r), NEW a \in chart
    PROVE  rows[a].closingDebit - rows[a].closingCredit = Net(LedgerLines(entries, r.query), a)
  <1>1. /\ r.kind = "trial-balance" /\ r.due = <<>> /\ Progress(r)
    BY ReadyReports DEF Kinds
  <1>2. /\ \A x \in DOMAIN r.read : r.read[x] = Told(x, chart, entries)
        /\ r.query.from \in Int \union {None} /\ r.query.to \in Int \union {None}
    BY UndisturbedReads DEF Kinds
  <1>3. /\ r.read.period = entries /\ r.read.accounts = chart
        /\ r.query.from # None => r.read.opening = entries
    BY <1>1, <1>2 DEF Progress, At, Told
  <1>4. entries \in SUBSET Bookings
    BY DEF ReportsInv, BooksInv
  <1>5. PICK opening : opening = IF r.query.from = None THEN {}
                                 ELSE OpeningLines(entries, r.query)
    OBVIOUS
  <1>6. PICK period : period = PeriodLines(entries, r.query)
    OBVIOUS
  <1>7. opening \in SUBSET AllLines /\ period \in SUBSET AllLines
    BY <1>4, <1>5, <1>6, LinesOfABook DEF OpeningLines, PeriodLines
  <1>8. Net({}, a) = 0
    <2>1. Posted({}, a) = {}
      BY DEF Posted, Group
    <2>2. {} \in SUBSET AllLines
      OBVIOUS
    <2>3. QED
      BY <2>1, <2>2, NetIsOver, OverEmpty
  <1>9. Net(LedgerLines(entries, r.query), a) = Net(opening, a) + Net(period, a)
    BY <1>2, <1>4, <1>5, <1>6, <1>8, OpeningAndPeriod
  <1>10. Net(opening, a) \in Int /\ Net(period, a) \in Int
    BY <1>7, NetIsOver
  <1>11. rows = [x \in chart |-> TrialBalanceRow(opening, period, x)]
    BY <1>3, <1>5, <1>6 DEF TrialBalanceRows, LinesBefore, LinesDuring
  <1>12. /\ rows[a].closingDebit = Positive(Net(opening, a) + Net(period, a))
         /\ rows[a].closingCredit = Positive(-(Net(opening, a) + Net(period, a)))
    BY <1>11 DEF TrialBalanceRow
  <1>13. QED
    BY <1>9, <1>10, <1>12 DEF Positive

(* A summary row has what its account moved in the period. *)
LEMMA SummaryTies ==
    ASSUME ReportsInv, NEW r \in Ready("account-statement-summary"), Undisturbed(r),
           NEW rows, rows = SummaryRows(r), NEW a
    PROVE  Net(PeriodLines(entries, r.query), a) =
              IF a \in DOMAIN rows THEN rows[a].balance ELSE 0
  <1>1. r.kind = "account-statement-summary" /\ r.due = <<>> /\ Progress(r)
    BY ReadyReports DEF Kinds
  <1>2. \A x \in DOMAIN r.read : r.read[x] = Told(x, chart, entries)
    BY UndisturbedReads DEF Kinds
  <1>3. r.read.period = entries
    BY <1>1, <1>2 DEF Progress, At, Told
  <1>4. PICK period : period = PeriodLines(entries, r.query)
    OBVIOUS
  <1>5. period \in SUBSET AllLines
    <2>1. entries \in SUBSET Bookings
      BY DEF ReportsInv, BooksInv
    <2>2. QED
      BY <1>4, <2>1, LinesOfABook DEF PeriodLines
  <1>6. PICK used : used = { LineOf(ref).account : ref \in period }
    OBVIOUS
  <1>7. rows = [ x \in used |->
                   [ debit |-> Debit(period, x), credit |-> Credit(period, x),
                     balance |-> Net(period, x) ] ]
    BY <1>3, <1>4, <1>6 DEF SummaryRows
  <1>8. CASE a \in used
    BY <1>4, <1>7, <1>8
  <1>9. CASE a \notin used
    <2>1. Posted(period, a) = {}
      BY <1>5, <1>6, <1>9 DEF Posted, Group, Accounts
    <2>2. Net(period, a) = 0
      BY <1>5, <2>1, NetIsOver, OverEmpty
    <2>3. QED
      BY <1>4, <1>7, <1>9, <2>2
  <1>10. QED
    BY <1>8, <1>9

(* The six modes of the snapshots, over the entries there are.             *)
LEMMA SnapshotsOf ==
    ASSUME ReportsInv, NEW r \in Ready("financial-statements"), Undisturbed(r),
           NEW first, first = PrimaryRange(r.query),
           NEW other, other = ComparativeRange(r.query)
    PROVE  /\ SnapshotLines(r, "opening") = LinesUpTo(entries, r.query, DayBefore(first.from))
           /\ SnapshotLines(r, "period") = LinesBetween(entries, r.query, first.from, first.to)
           /\ SnapshotLines(r, "closing") = LinesUpTo(entries, r.query, first.to)
           /\ SnapshotLines(r, "comparativeOpening") =
                 LinesUpTo(entries, r.query, DayBefore(other.from))
           /\ SnapshotLines(r, "comparativePeriod") =
                 LinesBetween(entries, r.query, other.from, other.to)
           /\ SnapshotLines(r, "comparativeClosing") = LinesUpTo(entries, r.query, other.to)
           /\ r.read.accounts = chart
  <1>1. r.kind = "financial-statements" /\ r.due = <<>> /\ Progress(r)
    BY ReadyReports DEF Kinds
  <1>2. \A x \in DOMAIN r.read : r.read[x] = Told(x, chart, entries)
    BY UndisturbedReads DEF Kinds
  <1>3. DOMAIN r.read = SnapshotReads
    BY <1>1 DEF Progress, At
  <1>4. /\ r.read.accounts = chart /\ r.read.opening = entries /\ r.read.period = entries
        /\ r.read.closing = entries /\ r.read.comparativeOpening = entries
        /\ r.read.comparativePeriod = entries /\ r.read.comparativeClosing = entries
    BY <1>2, <1>3 DEF SnapshotReads, Told
  <1>5. QED
    BY <1>4 DEF SnapshotLines

(* What was before a range and what is in it make what is there after it;  *)
(* a comparison by default ends where the range asked for begins.          *)
LEMMA ModesTie ==
    ASSUME ReportsInv, NEW r \in Ready("financial-statements"), Undisturbed(r),
           RangesInOrder(r.query), NEW a
    PROVE  /\ Net(SnapshotLines(r, "closing"), a) =
                 Net(SnapshotLines(r, "opening"), a) + Net(SnapshotLines(r, "period"), a)
           /\ Net(SnapshotLines(r, "comparativeClosing"), a) =
                 Net(SnapshotLines(r, "comparativeOpening"), a)
                    + Net(SnapshotLines(r, "comparativePeriod"), a)
           /\ r.query.compareFrom = None =>
                 SnapshotLines(r, "comparativeClosing") = SnapshotLines(r, "opening")
  <1>1. PICK first, other : first = PrimaryRange(r.query) /\ other = ComparativeRange(r.query)
    OBVIOUS
  <1>2. { r.query.from, r.query.to, r.query.compareFrom, r.query.compareTo }
           \subseteq Int \union {None}
    BY UndisturbedReads DEF Kinds
  <1>3. /\ first.to \in Int /\ other.to \in Int
        /\ \E day \in Int : first.from = StartOf(day)
        /\ \E day \in Int : other.from = StartOf(day)
        /\ r.query.compareFrom = None => other.to = DayBefore(first.from)
    BY <1>1, <1>2, Ranges
  <1>4. first.from <= first.to /\ other.from <= other.to
    BY <1>1 DEF RangesInOrder, InOrder
  <1>5. entries \in SUBSET Bookings
    BY DEF ReportsInv, BooksInv
  <1>6. Net(LinesUpTo(entries, r.query, first.to), a) =
          Net(LinesUpTo(entries, r.query, DayBefore(first.from)), a)
             + Net(LinesBetween(entries, r.query, first.from, first.to), a)
    BY <1>3, <1>4, <1>5, BeforeAndWithin
  <1>7. Net(LinesUpTo(entries, r.query, other.to), a) =
          Net(LinesUpTo(entries, r.query, DayBefore(other.from)), a)
             + Net(LinesBetween(entries, r.query, other.from, other.to), a)
    BY <1>3, <1>4, <1>5, BeforeAndWithin
  <1>8. /\ SnapshotLines(r, "opening") = LinesUpTo(entries, r.query, DayBefore(first.from))
        /\ SnapshotLines(r, "period") = LinesBetween(entries, r.query, first.from, first.to)
        /\ SnapshotLines(r, "closing") = LinesUpTo(entries, r.query, first.to)
        /\ SnapshotLines(r, "comparativeOpening") =
              LinesUpTo(entries, r.query, DayBefore(other.from))
        /\ SnapshotLines(r, "comparativePeriod") =
              LinesBetween(entries, r.query, other.from, other.to)
        /\ SnapshotLines(r, "comparativeClosing") = LinesUpTo(entries, r.query, other.to)
    BY <1>1, SnapshotsOf
  <1>9. QED
    BY <1>3, <1>6, <1>7, <1>8

(* The lines of a mode are some of an existing entry's, whole entries.     *)
LEMMA ModeLines ==
    ASSUME ReportsInv, NEW r \in Ready("financial-statements"), Undisturbed(r),
           NEW mode \in Modes
    PROVE  /\ SnapshotLines(r, mode) \in SUBSET AllLines
           /\ \E book \in SUBSET entries : SnapshotLines(r, mode) = LinesOf(book, r.query)
  <1>1. PICK first, other : first = PrimaryRange(r.query) /\ other = ComparativeRange(r.query)
    OBVIOUS
  <1>2. \E book \in SUBSET entries : SnapshotLines(r, mode) = LinesOf(book, r.query)
    <2>1. \A to : \E book \in SUBSET entries :
             LinesUpTo(entries, r.query, to) = LinesOf(book, r.query)
      <3>1. TAKE to
      <3>2. PICK book : book = { e \in entries : e.date <= to }
        OBVIOUS
      <3>3. LinesUpTo(entries, r.query, to) = LinesOf(book, r.query)
        BY <3>2 DEF LinesUpTo
      <3>4. QED
        BY <3>2, <3>3
    <2>2. \A from, to : \E book \in SUBSET entries :
             LinesBetween(entries, r.query, from, to) = LinesOf(book, r.query)
      <3>1. TAKE from, to
      <3>2. PICK book : book = { e \in entries : from <= e.date /\ e.date <= to }
        OBVIOUS
      <3>3. LinesBetween(entries, r.query, from, to) = LinesOf(book, r.query)
        BY <3>2 DEF LinesBetween
      <3>4. QED
        BY <3>2, <3>3
    <2>3. /\ SnapshotLines(r, "opening") = LinesUpTo(entries, r.query, DayBefore(first.from))
          /\ SnapshotLines(r, "period") = LinesBetween(entries, r.query, first.from, first.to)
          /\ SnapshotLines(r, "closing") = LinesUpTo(entries, r.query, first.to)
          /\ SnapshotLines(r, "comparativeOpening") =
                LinesUpTo(entries, r.query, DayBefore(other.from))
          /\ SnapshotLines(r, "comparativePeriod") =
                LinesBetween(entries, r.query, other.from, other.to)
          /\ SnapshotLines(r, "comparativeClosing") = LinesUpTo(entries, r.query, other.to)
      BY <1>1, SnapshotsOf
    <2>4. mode \in { "opening", "period", "closing", "comparativeOpening", "comparativePeriod",
                     "comparativeClosing" }
      BY DEF Modes, SnapshotReads
    <2>5. QED
      BY <2>1, <2>2, <2>3, <2>4
  <1>3. SnapshotLines(r, mode) \in SUBSET AllLines
    <2>1. PICK book \in SUBSET entries : SnapshotLines(r, mode) = LinesOf(book, r.query)
      BY <1>2
    <2>2. book \in SUBSET Bookings
      BY DEF ReportsInv, BooksInv
    <2>3. QED
      BY <2>1, <2>2, LinesOfABook
  <1>4. QED
    BY <1>2, <1>3

(* The amounts of the snapshots. *)
LEMMA SnapshotAmounts ==
    ASSUME ReportsInv, NEW r \in Ready("financial-statements"), Undisturbed(r),
           NEW s, s = Snapshots(r), NEW mode \in Modes
    PROVE  s[mode] = [a \in chart |-> NormalBalance(SnapshotLines(r, mode), a)]
  <1>1. r.read.accounts = chart
    BY SnapshotsOf
  <1>2. QED
    BY <1>1 DEF Snapshots

(* The same, account by account. *)
LEMMA SnapshotAmountOf ==
    ASSUME ReportsInv, NEW r \in Ready("financial-statements"), Undisturbed(r),
           NEW s, s = Snapshots(r), NEW mode \in Modes
    PROVE  /\ DOMAIN s[mode] = chart
           /\ \A a \in chart : s[mode][a] = NormalBalance(SnapshotLines(r, mode), a)
  <1>1. r.read.accounts = chart
    BY SnapshotsOf
  <1>2. s[mode] = [a \in chart |-> NormalBalance(SnapshotLines(r, mode), a)]
    BY <1>1 DEF Snapshots
  <1>3. QED
    BY <1>2

(* Opening and movement make closing, in both columns. *)
LEMMA AmountsTie ==
    ASSUME ReportsInv, NEW r \in Ready("financial-statements"), Undisturbed(r),
           RangesInOrder(r.query), NEW s, s = Snapshots(r), NEW a \in chart
    PROVE  /\ s["opening"][a] + s["period"][a] = s["closing"][a]
           /\ s["comparativeOpening"][a] + s["comparativePeriod"][a] = s["comparativeClosing"][a]
           /\ r.query.compareFrom = None => s["comparativeClosing"][a] = s["opening"][a]
  <1>1. ASSUME NEW mode \in Modes
        PROVE  /\ s[mode][a] = NormalBalance(SnapshotLines(r, mode), a)
               /\ Net(SnapshotLines(r, mode), a) \in Int
    <2>1. \A b \in chart : s[mode][b] = NormalBalance(SnapshotLines(r, mode), b)
      BY SnapshotAmountOf
    <2>2. SnapshotLines(r, mode) \in SUBSET AllLines
      BY ModeLines
    <2>3. Net(SnapshotLines(r, mode), a) \in Int
      BY <2>2, NetIsOver
    <2> QED
      BY <2>1, <2>3
  <1>2. { "opening", "period", "closing", "comparativeOpening", "comparativePeriod",
          "comparativeClosing" } \subseteq Modes
    BY DEF Modes, SnapshotReads
  <1>3. QED
    BY <1>1, <1>2, ModesTie DEF NormalBalance

(* Every report counts every line up to its last day once:                 *)
(* getTrialBalanceRows, getAccountStatementRows, buildAccountSnapshots.    *)
THEOREM ReportsTie == Spec => []BalancesTie
  <1>1. ASSUME ReportsInv
        PROVE  BalancesTie
    <2>1. ASSUME NEW r \in Ready("trial-balance") \union Ready("account-statement"),
                 Undisturbed(r),
                 r.query.from = None \/ r.query.to = None \/ InOrder(PrimaryRange(r.query)),
                 NEW upTo, upTo = LedgerLines(entries, r.query)
          PROVE  IF r.kind = "account-statement"
                 THEN \A a \in chart : ClosingBalance(r, a) = Net(upTo, a)
                 ELSE LET rows == TrialBalanceRows(r)
                      IN  \A a \in chart :
                            rows[a].closingDebit - rows[a].closingCredit = Net(upTo, a)
      <3>1. CASE r \in Ready("trial-balance")
        <4>1. r.kind = "trial-balance"
          BY <3>1 DEF Ready
        <4>2. QED
          BY <1>1, <2>1, <3>1, <4>1, TrialBalanceCloses
      <3>2. CASE r \in Ready("account-statement")
        <4>1. r.kind = "account-statement"
          BY <3>2 DEF Ready
        <4>2. QED
          BY <1>1, <2>1, <3>2, <4>1, StatementCloses
      <3>3. QED
        BY <2>1, <3>1, <3>2
    <2>2. ASSUME NEW r \in Ready("account-statement-summary"), Undisturbed(r), NEW a \in chart
          PROVE  LET rows == SummaryRows(r) IN
                 Net(PeriodLines(entries, r.query), a) =
                    IF a \in DOMAIN rows THEN rows[a].balance ELSE 0
      BY <1>1, <2>2, SummaryTies
    <2>3. ASSUME NEW r \in Ready("financial-statements"), Undisturbed(r),
                 RangesInOrder(r.query), NEW a \in chart
          PROVE  LET s == Snapshots(r) IN
                 /\ s["opening"][a] + s["period"][a] = s["closing"][a]
                 /\ s["comparativeOpening"][a] + s["comparativePeriod"][a]
                       = s["comparativeClosing"][a]
                 /\ r.query.compareFrom = None => s["comparativeClosing"][a] = s["opening"][a]
      BY <1>1, <2>3, AmountsTie
    <2>4. QED
      BY <2>1, <2>2, <2>3, Zenon DEF BalancesTie
  <1>2. QED
    BY <1>1, ReportsAlways, PTL

-----------------------------------------------------------------------------
(* The statements.                                                         *)

(* What the accounts of some categories come to.                           *)
In(accounts, categories) == {a \in accounts : StatementCategory[a] \in categories}

Worth(n, accounts, categories) == Over(n, In(accounts, categories))

DebitCategories ==
    CurrentAssets \union OperatingExpenses \union
    {"ASSET_NONCURRENT", "COST_OF_SALES", "FINANCE_COST", "INCOME_TAX", "DIVIDEND"}

(* A total of negated values is the negated total. *)
LEMMA OverNegated ==
    ASSUME NEW S, IsFiniteSet(S), NEW n, NEW v,
           \A x \in S : n[x] \in Int /\ v[x] = -n[x]
    PROVE  Over(v, S) = -Over(n, S)
  <1>1. PICK z : z = [x \in S |-> 0]
    OBVIOUS
  <1>2. \A x \in S : z[x] = 0
    BY <1>1
  <1>3. \A x \in S : n[x] \in Int
    OBVIOUS
  <1>4. \A x \in S : z[x] \in Int /\ n[x] \in Int /\ v[x] = z[x] - n[x]
    BY <1>2
  <1>5. Over(v, S) = Over(z, S) - Over(n, S)
    BY <1>4, OverMinus
  <1>6. Over(z, S) = 0 /\ Over(n, S) \in Int
    BY <1>2, <1>3, OverZero, OverType
  <1>7. QED
    BY <1>5, <1>6

(* What the accounts of some categories come to is a number. *)
LEMMA WorthType ==
    ASSUME NEW A, IsFiniteSet(A), NEW n \in [A -> Int], NEW C
    PROVE  Worth(n, A, C) \in Int /\ In(A, C) \in SUBSET A
  <1>1. In(A, C) \in SUBSET A
    BY DEF In
  <1>2. QED
    BY <1>1, OverPart DEF Worth

(* Separate categories come to the sum of what each comes to. *)
LEMMA WorthOfBoth ==
    ASSUME NEW A, IsFiniteSet(A), NEW n \in [A -> Int],
           NEW C, NEW D, C \cap D = {}, NEW E, E = C \union D
    PROVE  Worth(n, A, E) = Worth(n, A, C) + Worth(n, A, D)
  <1>1. PICK S, R : S = In(A, C) /\ R = In(A, D)
    OBVIOUS
  <1>2. S \cap R = {} /\ S \subseteq A /\ R \subseteq A /\ In(A, E) = S \union R
    BY <1>1 DEF In
  <1>3. IsFiniteSet(S) /\ IsFiniteSet(R)
    BY <1>2, FS_Subset
  <1>4. \A x \in S \union R : n[x] \in Int
    BY <1>2
  <1>5. Over(n, S \union R) = Over(n, S) + Over(n, R)
    BY <1>2, <1>3, <1>4, OverUnion
  <1>6. QED
    BY <1>1, <1>2, <1>5 DEF Worth

(* What accounts come to adds up as their balances do. *)
LEMMA WorthAdds ==
    ASSUME NEW A, IsFiniteSet(A), NEW n \in [A -> Int], NEW m \in [A -> Int],
           NEW u \in [A -> Int], \A a \in A : u[a] = n[a] + m[a], NEW C
    PROVE  Worth(u, A, C) = Worth(n, A, C) + Worth(m, A, C)
  <1>1. PICK S : S = In(A, C)
    OBVIOUS
  <1>2. S \subseteq A /\ IsFiniteSet(S)
    BY <1>1, FS_Subset DEF In
  <1>3. \A x \in S : n[x] \in Int /\ m[x] \in Int /\ u[x] = n[x] + m[x]
    BY <1>2
  <1>4. QED
    BY <1>1, <1>2, <1>3, OverPlus DEF Worth

(* A sum of amounts of debit, or of credit, categories.                    *)
LEMMA SumIsWorth ==
    ASSUME NEW A \in SUBSET AllAccounts, NEW lines \in SUBSET AllLines,
           NEW n, n = [a \in A |-> Net(lines, a)],
           NEW s, NEW mode, s[mode] = [a \in A |-> NormalBalance(lines, a)],
           NEW C \in SUBSET Categories
    PROVE  /\ C \subseteq DebitCategories => SumByCategories(s, C, mode) = Worth(n, A, C)
           /\ C \cap DebitCategories = {} => SumByCategories(s, C, mode) = -Worth(n, A, C)
  <1>1. PICK S : S = In(A, C)
    OBVIOUS
  <1>2. S \subseteq A /\ IsFiniteSet(S) /\ IsFiniteSet(A)
    BY <1>1, AccountsAssumption, FS_Subset DEF In
  <1>3. \A a \in A : n[a] \in Int
    BY NetIsOver
  <1>4. PICK v : v = [a \in S |-> s[mode][a]]
    OBVIOUS
  <1>5. SumByCategories(s, C, mode) = Total(v)
    <2>1. DOMAIN s[mode] = A
      OBVIOUS
    <2>2. { x \in DOMAIN s[mode] : StatementCategory[x] \in C } = S
      BY <1>1, <2>1 DEF In
    <2>3. QED
      BY <1>4, <2>2 DEF SumByCategories
  <1>6. \A a \in S : /\ StatementCategory[a] \in C /\ StatementCategory[a] # None
                     /\ TypeOf[a] \in {"ASSET", "EXPENSE"}
                           <=> StatementCategory[a] \in DebitCategories
    BY <1>1, CategoriesAssumption, ChartIsConventional DEF In, DebitCategories
  <1>7. \A a \in S : /\ C \subseteq DebitCategories => v[a] = n[a]
                     /\ C \cap DebitCategories = {} => v[a] = -n[a]
                     /\ v[a] \in Int
    BY <1>2, <1>3, <1>4, <1>6 DEF NormalBalance
  <1>8. v \in [S -> Int]
    BY <1>4, <1>7
  <1>9. Total(v) = Over(v, S)
    BY <1>8, TotalIsOver
  <1>10. ASSUME C \subseteq DebitCategories
         PROVE  Over(v, S) = Over(n, S)
    BY <1>7, <1>10, OverSame
  <1>11. ASSUME C \cap DebitCategories = {}
         PROVE  Over(v, S) = -Over(n, S)
    <2>1. \A a \in S : n[a] \in Int /\ v[a] = -n[a]
      BY <1>2, <1>3, <1>7, <1>11
    <2>2. QED
      BY <1>2, <2>1, OverNegated
  <1>12. QED
    BY <1>1, <1>5, <1>9, <1>10, <1>11 DEF Worth

(* The nets of the accounts in a mode; together they are nothing.          *)
NetsOf(accounts, lines) == [a \in accounts |-> Net(lines, a)]

(* The balances of one snapshot come to nothing. *)
LEMMA ModeBalances ==
    ASSUME ReportsInv, NEW r \in Ready("financial-statements"), Undisturbed(r),
           CutsNoEntry(r), NEW mode \in Modes,
           NEW A, A = chart, NEW n, n = NetsOf(A, SnapshotLines(r, mode))
    PROVE  /\ n \in [A -> Int] /\ IsFiniteSet(A)
           /\ Over(n, A) = 0
           /\ Worth(n, A, Categories) + Worth(n, A, {None}) = 0
  <1>1. PICK lines : lines = SnapshotLines(r, mode)
    OBVIOUS
  <1>2. PICK book \in SUBSET entries : lines = LinesOf(book, r.query)
    BY <1>1, ModeLines
  <1>3. A \subseteq AllAccounts /\ IsFiniteSet(A) /\ entries \subseteq Bookings
    BY AccountsAssumption, FS_Subset DEF ReportsInv, BooksInv
  <1>4. /\ lines \in SUBSET AllLines /\ Over(Nets, lines) = 0
        /\ \A ref \in lines : LineOf(ref).account \in A
    <2>1. \A e \in book : EntryBalances(e, r.query)
      BY <1>2 DEF CutsNoEntry
    <2>2. \A e \in book : Charted(e, A)
      BY <1>2 DEF ReportsInv, BooksInv
    <2>3. book \in SUBSET Bookings
      BY <1>2, <1>3
    <2>4. QED
      BY <1>2, <2>1, <2>2, <2>3, ReadLines
  <1>5. n = [a \in A |-> Net(lines, a)] /\ n \in [A -> Int]
    BY <1>1, <1>4, NetIsOver DEF NetsOf
  <1>6. Total(n) = 0 /\ Over(n, A) = 0
    BY <1>3, <1>4, <1>5, SumOverAccounts, TotalIsOver
  <1>7. PICK E : E = Categories \union {None}
    OBVIOUS
  <1>8. In(A, E) = A
    BY <1>3, <1>7, CategoriesAssumption DEF In
  <1>9. Categories \cap {None} = {}
    BY CategoriesAssumption
  <1>10. Worth(n, A, E) = Worth(n, A, Categories) + Worth(n, A, {None})
    BY <1>3, <1>5, <1>7, <1>9, WorthOfBoth
  <1>11. QED
    BY <1>3, <1>5, <1>6, <1>8, <1>10 DEF Worth

(* The categories by the statements they are in.                           *)
Position == CurrentAssets \union {"ASSET_NONCURRENT"} \union Equity \union Liabilities

BeforeTax ==
    {"REVENUE", "COST_OF_SALES", "OTHER_INCOME", "FINANCE_INCOME", "FINANCE_COST"}
        \union OperatingExpenses

Results == BeforeTax \union {"INCOME_TAX", "OTHER_COMPREHENSIVE_INCOME", "DIVIDEND"}

Flows ==
    BeforeTax \union
    { "RECEIVABLE", "INVENTORY", "LIABILITY_CURRENT", "ASSET_NONCURRENT", "LIABILITY_NONCURRENT",
      "EQUITY_SHARE_CAPITAL", "DIVIDEND", "CASH_AND_EQUIVALENT" }

NoFlow ==
    { None, "INCOME_TAX", "OTHER_COMPREHENSIVE_INCOME", "ASSET_CURRENT",
      "EQUITY_RETAINED_EARNINGS", "EQUITY_RESERVE" }

(* Every category is of a result or of the position; all but some move     *)
(* cash.                                                                   *)
LEMMA CategoriesAre ==
    /\ Results \union Position = Categories /\ Results \cap Position = {}
    /\ Flows \union NoFlow = Categories \union {None} /\ Flows \cap NoFlow = {}
  <1>1. None \notin Categories
    BY CategoriesAssumption
  <1>2. Results \union Position = Categories /\ Results \cap Position = {}
    BY DEF Results, BeforeTax, Position, Categories, CurrentAssets, Equity, Liabilities,
           OperatingExpenses
  <1>3. Flows \union NoFlow = Categories \union {None} /\ Flows \cap NoFlow = {}
    BY <1>1 DEF Flows, NoFlow, BeforeTax, Categories, CurrentAssets, Equity, Liabilities,
           OperatingExpenses
  <1>4. QED
    BY <1>2, <1>3

(* The position by its groups. *)
LEMMA WorthOfPosition ==
    ASSUME NEW A, IsFiniteSet(A), NEW n \in [A -> Int]
    PROVE  /\ Worth(n, A, Position) =
                 Worth(n, A, CurrentAssets) + Worth(n, A, {"ASSET_NONCURRENT"})
                    + Worth(n, A, Equity) + Worth(n, A, Liabilities)
           /\ Worth(n, A, CurrentAssets \union {"ASSET_NONCURRENT"}) =
                 Worth(n, A, CurrentAssets) + Worth(n, A, {"ASSET_NONCURRENT"})
  <1>1. PICK D : D = CurrentAssets \union {"ASSET_NONCURRENT"}
    OBVIOUS
  <1>2. PICK E : E = D \union Equity
    OBVIOUS
  <1>3. /\ CurrentAssets \cap {"ASSET_NONCURRENT"} = {} /\ D \cap Equity = {}
        /\ E \cap Liabilities = {} /\ Position = E \union Liabilities
    BY <1>1, <1>2 DEF Position, CurrentAssets, Equity, Liabilities
  <1>4. Worth(n, A, D) = Worth(n, A, CurrentAssets) + Worth(n, A, {"ASSET_NONCURRENT"})
    BY <1>1, <1>3, WorthOfBoth
  <1>5. Worth(n, A, E) = Worth(n, A, D) + Worth(n, A, Equity)
    BY <1>2, <1>3, WorthOfBoth
  <1>6. Worth(n, A, Position) = Worth(n, A, E) + Worth(n, A, Liabilities)
    BY <1>3, WorthOfBoth
  <1>7. QED
    BY <1>1, <1>4, <1>5, <1>6

(* The profit before tax by its categories. *)
LEMMA WorthOfBeforeTax ==
    ASSUME NEW A, IsFiniteSet(A), NEW n \in [A -> Int]
    PROVE  Worth(n, A, BeforeTax) =
              Worth(n, A, {"REVENUE"}) + Worth(n, A, {"COST_OF_SALES"})
                 + Worth(n, A, {"OTHER_INCOME"}) + Worth(n, A, OperatingExpenses)
                 + Worth(n, A, {"FINANCE_INCOME"}) + Worth(n, A, {"FINANCE_COST"})
  <1>1. PICK D, E, F, G : /\ D = {"REVENUE", "COST_OF_SALES"} /\ E = D \union {"OTHER_INCOME"}
                          /\ F = E \union OperatingExpenses /\ G = F \union {"FINANCE_INCOME"}
    OBVIOUS
  <1>2. /\ D = {"REVENUE"} \union {"COST_OF_SALES"} /\ {"REVENUE"} \cap {"COST_OF_SALES"} = {}
        /\ D \cap {"OTHER_INCOME"} = {} /\ E \cap OperatingExpenses = {}
        /\ F \cap {"FINANCE_INCOME"} = {} /\ G \cap {"FINANCE_COST"} = {}
        /\ BeforeTax = G \union {"FINANCE_COST"}
    BY <1>1 DEF BeforeTax, OperatingExpenses
  <1>3. Worth(n, A, D) = Worth(n, A, {"REVENUE"}) + Worth(n, A, {"COST_OF_SALES"})
    BY <1>2, WorthOfBoth
  <1>4. Worth(n, A, E) = Worth(n, A, D) + Worth(n, A, {"OTHER_INCOME"})
    BY <1>1, <1>2, WorthOfBoth
  <1>5. Worth(n, A, F) = Worth(n, A, E) + Worth(n, A, OperatingExpenses)
    BY <1>1, <1>2, WorthOfBoth
  <1>6. Worth(n, A, G) = Worth(n, A, F) + Worth(n, A, {"FINANCE_INCOME"})
    BY <1>1, <1>2, WorthOfBoth
  <1>7. Worth(n, A, BeforeTax) = Worth(n, A, G) + Worth(n, A, {"FINANCE_COST"})
    BY <1>2, WorthOfBoth
  <1>8. QED
    BY <1>3, <1>4, <1>5, <1>6, <1>7

(* The results by their categories. *)
LEMMA WorthOfResults ==
    ASSUME NEW A, IsFiniteSet(A), NEW n \in [A -> Int]
    PROVE  Worth(n, A, Results) =
              Worth(n, A, BeforeTax) + Worth(n, A, {"INCOME_TAX"})
                 + Worth(n, A, {"OTHER_COMPREHENSIVE_INCOME"}) + Worth(n, A, {"DIVIDEND"})
  <1>1. PICK D, E : /\ D = BeforeTax \union {"INCOME_TAX"}
                    /\ E = D \union {"OTHER_COMPREHENSIVE_INCOME"}
    OBVIOUS
  <1>2. /\ BeforeTax \cap {"INCOME_TAX"} = {} /\ D \cap {"OTHER_COMPREHENSIVE_INCOME"} = {}
        /\ E \cap {"DIVIDEND"} = {} /\ Results = E \union {"DIVIDEND"}
    BY <1>1 DEF Results, BeforeTax, OperatingExpenses
  <1>3. Worth(n, A, D) = Worth(n, A, BeforeTax) + Worth(n, A, {"INCOME_TAX"})
    BY <1>1, <1>2, WorthOfBoth
  <1>4. Worth(n, A, E) = Worth(n, A, D) + Worth(n, A, {"OTHER_COMPREHENSIVE_INCOME"})
    BY <1>1, <1>2, WorthOfBoth
  <1>5. Worth(n, A, Results) = Worth(n, A, E) + Worth(n, A, {"DIVIDEND"})
    BY <1>2, WorthOfBoth
  <1>6. QED
    BY <1>3, <1>4, <1>5

(* What the cash flow reads, by its categories. *)
LEMMA WorthOfFlows ==
    ASSUME NEW A, IsFiniteSet(A), NEW n \in [A -> Int]
    PROVE  Worth(n, A, Flows) =
              Worth(n, A, BeforeTax) + Worth(n, A, {"RECEIVABLE"}) + Worth(n, A, {"INVENTORY"})
                 + Worth(n, A, {"LIABILITY_CURRENT"}) + Worth(n, A, {"ASSET_NONCURRENT"})
                 + Worth(n, A, {"LIABILITY_NONCURRENT"}) + Worth(n, A, {"EQUITY_SHARE_CAPITAL"})
                 + Worth(n, A, {"DIVIDEND"}) + Worth(n, A, {"CASH_AND_EQUIVALENT"})
  <1>1. PICK D, E, F, G, H, I, J :
          /\ D = BeforeTax \union {"RECEIVABLE"} /\ E = D \union {"INVENTORY"}
          /\ F = E \union {"LIABILITY_CURRENT"} /\ G = F \union {"ASSET_NONCURRENT"}
          /\ H = G \union {"LIABILITY_NONCURRENT"} /\ I = H \union {"EQUITY_SHARE_CAPITAL"}
          /\ J = I \union {"DIVIDEND"}
    OBVIOUS
  <1>2. /\ BeforeTax \cap {"RECEIVABLE"} = {} /\ D \cap {"INVENTORY"} = {}
        /\ E \cap {"LIABILITY_CURRENT"} = {} /\ F \cap {"ASSET_NONCURRENT"} = {}
        /\ G \cap {"LIABILITY_NONCURRENT"} = {} /\ H \cap {"EQUITY_SHARE_CAPITAL"} = {}
        /\ I \cap {"DIVIDEND"} = {} /\ J \cap {"CASH_AND_EQUIVALENT"} = {}
        /\ Flows = J \union {"CASH_AND_EQUIVALENT"}
    BY <1>1 DEF Flows, BeforeTax, OperatingExpenses
  <1>3. /\ Worth(n, A, D) = Worth(n, A, BeforeTax) + Worth(n, A, {"RECEIVABLE"})
        /\ Worth(n, A, E) = Worth(n, A, D) + Worth(n, A, {"INVENTORY"})
    BY <1>1, <1>2, WorthOfBoth
  <1>4. /\ Worth(n, A, F) = Worth(n, A, E) + Worth(n, A, {"LIABILITY_CURRENT"})
        /\ Worth(n, A, G) = Worth(n, A, F) + Worth(n, A, {"ASSET_NONCURRENT"})
    BY <1>1, <1>2, WorthOfBoth
  <1>5. /\ Worth(n, A, H) = Worth(n, A, G) + Worth(n, A, {"LIABILITY_NONCURRENT"})
        /\ Worth(n, A, I) = Worth(n, A, H) + Worth(n, A, {"EQUITY_SHARE_CAPITAL"})
    BY <1>1, <1>2, WorthOfBoth
  <1>6. /\ Worth(n, A, J) = Worth(n, A, I) + Worth(n, A, {"DIVIDEND"})
        /\ Worth(n, A, Flows) = Worth(n, A, J) + Worth(n, A, {"CASH_AND_EQUIVALENT"})
    BY <1>1, <1>2, WorthOfBoth
  <1>7. QED
    BY <1>3, <1>4, <1>5, <1>6

(* Every sum over the accounts of a mode is what these are worth.          *)
SumsAre(s, mode, n, A) ==
    /\ \A c \in Categories :
         SumByCategories(s, {c}, mode) =
            IF c \in DebitCategories THEN Worth(n, A, {c}) ELSE -Worth(n, A, {c})
    /\ SumByCategories(s, OperatingExpenses, mode) = Worth(n, A, OperatingExpenses)
    /\ SumByCategories(s, CurrentAssets, mode) = Worth(n, A, CurrentAssets)
    /\ SumByCategories(s, Equity, mode) = -Worth(n, A, Equity)
    /\ SumByCategories(s, Liabilities, mode) = -Worth(n, A, Liabilities)
    /\ SumByCategories(s, CurrentAssets \union {"ASSET_NONCURRENT"}, mode) =
          Worth(n, A, CurrentAssets \union {"ASSET_NONCURRENT"})
    /\ n \in [A -> Int] /\ IsFiniteSet(A) /\ \A C : Worth(n, A, C) \in Int

(* Sums by category are worths, with the sign of their account type. *)
LEMMA SumsOfMode ==
    ASSUME NEW A \in SUBSET AllAccounts, NEW lines \in SUBSET AllLines,
           NEW n, n = [a \in A |-> Net(lines, a)],
           NEW s, NEW mode, s[mode] = [a \in A |-> NormalBalance(lines, a)]
    PROVE  SumsAre(s, mode, n, A)
  <1>1. n \in [A -> Int] /\ IsFiniteSet(A)
    BY NetIsOver, AccountsAssumption, FS_Subset
  <1>2. \A C : Worth(n, A, C) \in Int
    BY <1>1, WorthType
  <1>3. ASSUME NEW C \in SUBSET Categories
        PROVE  /\ C \subseteq DebitCategories => SumByCategories(s, C, mode) = Worth(n, A, C)
               /\ C \cap DebitCategories = {} => SumByCategories(s, C, mode) = -Worth(n, A, C)
    BY SumIsWorth
  <1>4. ASSUME NEW c \in Categories
        PROVE  SumByCategories(s, {c}, mode) =
                   IF c \in DebitCategories THEN Worth(n, A, {c}) ELSE -Worth(n, A, {c})
    <2>1. {c} \in SUBSET Categories
      OBVIOUS
    <2>2. c \in DebitCategories => {c} \subseteq DebitCategories
      OBVIOUS
    <2>3. c \notin DebitCategories => {c} \cap DebitCategories = {}
      OBVIOUS
    <2>4. QED
      BY <1>3, <2>1, <2>2, <2>3
  <1>5. /\ OperatingExpenses \subseteq DebitCategories /\ OperatingExpenses \in SUBSET Categories
        /\ CurrentAssets \subseteq DebitCategories /\ CurrentAssets \in SUBSET Categories
        /\ Equity \cap DebitCategories = {} /\ Equity \in SUBSET Categories
        /\ Liabilities \cap DebitCategories = {} /\ Liabilities \in SUBSET Categories
    BY DEF OperatingExpenses, CurrentAssets, Equity, Liabilities, DebitCategories, Categories
  <1>6. PICK D : D = CurrentAssets \union {"ASSET_NONCURRENT"}
    OBVIOUS
  <1>7. D \subseteq DebitCategories /\ D \in SUBSET Categories
    BY <1>5, <1>6 DEF DebitCategories, Categories
  <1>8. QED
    BY <1>1, <1>2, <1>3, <1>4, <1>5, <1>6, <1>7 DEF SumsAre

(* The accounts of a position, and the result of a period, are worth what  *)
(* the statements say.                                                     *)
LEMMA PositionIsWorth ==
    ASSUME NEW A, NEW n, NEW s, NEW mode, SumsAre(s, mode, n, A),
           NEW position, position = FinancialPosition(s, mode)
    PROVE  /\ position.difference = Worth(n, A, Position)
           /\ position.totalEquity = SumByCategories(s, Equity, mode)
           /\ position.totalLiabilities = SumByCategories(s, Liabilities, mode)
           /\ position.totalAssets =
                 SumByCategories(s, CurrentAssets \union {"ASSET_NONCURRENT"}, mode)
           /\ position.totalAssets \in Int
  <1>1. /\ \A c \in Categories :
                SumByCategories(s, {c}, mode) =
                   IF c \in DebitCategories THEN Worth(n, A, {c}) ELSE -Worth(n, A, {c})
        /\ SumByCategories(s, CurrentAssets, mode) = Worth(n, A, CurrentAssets)
        /\ SumByCategories(s, Equity, mode) = -Worth(n, A, Equity)
        /\ SumByCategories(s, Liabilities, mode) = -Worth(n, A, Liabilities)
        /\ SumByCategories(s, CurrentAssets \union {"ASSET_NONCURRENT"}, mode) =
              Worth(n, A, CurrentAssets \union {"ASSET_NONCURRENT"})
        /\ n \in [A -> Int] /\ IsFiniteSet(A) /\ \A C : Worth(n, A, C) \in Int
    BY DEF SumsAre
  <1>2. SumByCategories(s, {"ASSET_NONCURRENT"}, mode) = Worth(n, A, {"ASSET_NONCURRENT"})
    BY <1>1 DEF Categories, DebitCategories
  <1>3. /\ Worth(n, A, Position) =
                 Worth(n, A, CurrentAssets) + Worth(n, A, {"ASSET_NONCURRENT"})
                    + Worth(n, A, Equity) + Worth(n, A, Liabilities)
        /\ Worth(n, A, CurrentAssets \union {"ASSET_NONCURRENT"}) =
                 Worth(n, A, CurrentAssets) + Worth(n, A, {"ASSET_NONCURRENT"})
    BY <1>1, WorthOfPosition
  <1>4. PICK c, o, e, l : /\ c = Worth(n, A, CurrentAssets) /\ o = Worth(n, A, {"ASSET_NONCURRENT"})
                          /\ e = Worth(n, A, Equity) /\ l = Worth(n, A, Liabilities)
    OBVIOUS
  <1>5. c \in Int /\ o \in Int /\ e \in Int /\ l \in Int
    BY <1>1, <1>4
  <1>6. /\ position.totalAssets = o + c /\ position.difference = o + c - (-e) - (-l)
        /\ position.totalEquity = SumByCategories(s, Equity, mode)
        /\ position.totalLiabilities = SumByCategories(s, Liabilities, mode)
    BY <1>1, <1>2, <1>4 DEF FinancialPosition
  <1>7. QED
    BY <1>1, <1>3, <1>4, <1>5, <1>6

(* The profits of the statement are worths of their categories. *)
LEMMA ProfitIsWorth ==
    ASSUME NEW A, NEW n, NEW s, NEW mode, SumsAre(s, mode, n, A),
           NEW result, result = ProfitOrLoss(s, mode)
    PROVE  /\ result.profitBeforeTax = -Worth(n, A, BeforeTax)
           /\ result.profitAfterTax \in Int
           /\ result.totalComprehensiveIncome - SumByCategories(s, {"DIVIDEND"}, mode) =
                 -Worth(n, A, Results)
  <1>1. /\ \A c \in Categories :
                SumByCategories(s, {c}, mode) =
                   IF c \in DebitCategories THEN Worth(n, A, {c}) ELSE -Worth(n, A, {c})
        /\ SumByCategories(s, OperatingExpenses, mode) = Worth(n, A, OperatingExpenses)
        /\ n \in [A -> Int] /\ IsFiniteSet(A) /\ \A C : Worth(n, A, C) \in Int
    BY DEF SumsAre
  <1>2. /\ SumByCategories(s, {"REVENUE"}, mode) = -Worth(n, A, {"REVENUE"})
        /\ SumByCategories(s, {"COST_OF_SALES"}, mode) = Worth(n, A, {"COST_OF_SALES"})
        /\ SumByCategories(s, {"OTHER_INCOME"}, mode) = -Worth(n, A, {"OTHER_INCOME"})
        /\ SumByCategories(s, {"FINANCE_INCOME"}, mode) = -Worth(n, A, {"FINANCE_INCOME"})
        /\ SumByCategories(s, {"FINANCE_COST"}, mode) = Worth(n, A, {"FINANCE_COST"})
        /\ SumByCategories(s, {"INCOME_TAX"}, mode) = Worth(n, A, {"INCOME_TAX"})
        /\ SumByCategories(s, {"OTHER_COMPREHENSIVE_INCOME"}, mode) =
              -Worth(n, A, {"OTHER_COMPREHENSIVE_INCOME"})
        /\ SumByCategories(s, {"DIVIDEND"}, mode) = Worth(n, A, {"DIVIDEND"})
    BY <1>1 DEF Categories, DebitCategories, CurrentAssets, OperatingExpenses
  <1>3. PICK r, c, i, x, f, k, t, o, d :
          /\ r = Worth(n, A, {"REVENUE"}) /\ c = Worth(n, A, {"COST_OF_SALES"})
          /\ i = Worth(n, A, {"OTHER_INCOME"}) /\ x = Worth(n, A, OperatingExpenses)
          /\ f = Worth(n, A, {"FINANCE_INCOME"}) /\ k = Worth(n, A, {"FINANCE_COST"})
          /\ t = Worth(n, A, {"INCOME_TAX"})
          /\ o = Worth(n, A, {"OTHER_COMPREHENSIVE_INCOME"}) /\ d = Worth(n, A, {"DIVIDEND"})
    OBVIOUS
  <1>4. /\ r \in Int /\ c \in Int /\ i \in Int /\ x \in Int /\ f \in Int /\ k \in Int
        /\ t \in Int /\ o \in Int /\ d \in Int
    BY <1>1, <1>3
  <1>5. /\ Worth(n, A, BeforeTax) = r + c + i + x + f + k
        /\ Worth(n, A, Results) = Worth(n, A, BeforeTax) + t + o + d
    BY <1>1, <1>3, WorthOfBeforeTax, WorthOfResults
  <1>6. /\ result.profitBeforeTax = ((-r) - c) + (-i) - x + (-f) - k
        /\ result.profitAfterTax = ((-r) - c) + (-i) - x + (-f) - k - t
        /\ result.totalComprehensiveIncome = ((-r) - c) + (-i) - x + (-f) - k - t + (-o)
    BY <1>1, <1>2, <1>3 DEF ProfitOrLoss
  <1>7. QED
    BY <1>2, <1>3, <1>4, <1>5, <1>6

(* The same of a finished report's snapshots. *)
LEMMA ModeSums ==
    ASSUME ReportsInv, NEW r \in Ready("financial-statements"), Undisturbed(r),
           NEW s, s = Snapshots(r), NEW mode \in Modes,
           NEW A, A = chart, NEW n, n = NetsOf(A, SnapshotLines(r, mode))
    PROVE  SumsAre(s, mode, n, A)
  <1>1. PICK lines : lines = SnapshotLines(r, mode)
    OBVIOUS
  <1>2. lines \in SUBSET AllLines /\ A \in SUBSET AllAccounts
    BY <1>1, ModeLines DEF ReportsInv, BooksInv
  <1>3. s[mode] = [a \in A |-> NormalBalance(lines, a)]
    BY <1>1, SnapshotAmounts
  <1>4. n = [a \in A |-> Net(lines, a)]
    BY <1>1 DEF NetsOf
  <1>5. QED
    BY <1>2, <1>3, <1>4, SumsOfMode

(* The total of the nets of some accounts, or of what they owe.            *)
LEMMA TotalOfNets ==
    ASSUME NEW A, IsFiniteSet(A), NEW lines \in SUBSET AllLines,
           NEW n, n = NetsOf(A, lines), NEW S \in SUBSET A
    PROVE  /\ \A v : v = [a \in S |-> Net(lines, a)] => Total(v) = Over(n, S)
           /\ \A w : w = [a \in S |-> -Net(lines, a)] => Total(w) = -Over(n, S)
  <1>1. PICK v, w : v = [a \in S |-> Net(lines, a)] /\ w = [a \in S |-> -Net(lines, a)]
    OBVIOUS
  <1>2. \A a \in S : n[a] = Net(lines, a) /\ Net(lines, a) \in Int
    BY NetIsOver DEF NetsOf
  <1>3. v \in [S -> Int] /\ w \in [S -> Int]
    BY <1>1, <1>2
  <1>4. Total(v) = Over(v, S) /\ Total(w) = Over(w, S)
    BY <1>3, TotalIsOver
  <1>5. \A a \in S : v[a] = n[a]
    BY <1>1, <1>2
  <1>6. Over(v, S) = Over(n, S)
    BY <1>5, OverSame
  <1>7. \A a \in S : n[a] \in Int /\ w[a] = -n[a]
    BY <1>1, <1>2
  <1>8. Over(w, S) = -Over(n, S)
    BY <1>7, FS_Subset, OverNegated
  <1>9. QED
    BY <1>1, <1>4, <1>6, <1>8

(* What is outside the position is the position's worth, since all is      *)
(* nothing.                                                                *)
LEMMA OutsideIs ==
    ASSUME ReportsInv, NEW r \in Ready("financial-statements"), Undisturbed(r),
           CutsNoEntry(r), NEW mode \in Modes,
           NEW A, A = chart, NEW n, n = NetsOf(A, SnapshotLines(r, mode))
    PROVE  NetOutside(r, mode) = Worth(n, A, Position)
  <1>1. n \in [A -> Int] /\ IsFiniteSet(A) /\ Over(n, A) = 0
    BY ModeBalances
  <1>2. PICK lines : lines = SnapshotLines(r, mode)
    OBVIOUS
  <1>3. lines \in SUBSET AllLines
    BY <1>2, ModeLines
  <1>4. PICK S, R : S = In(A, Position) /\ R = { x \in A : StatementCategory[x] \notin Position }
    OBVIOUS
  <1>5. S \cap R = {} /\ S \union R = A /\ IsFiniteSet(S) /\ IsFiniteSet(R)
    BY <1>1, <1>4, FS_Subset DEF In
  <1>6. \A x \in S \union R : n[x] \in Int
    BY <1>1, <1>5
  <1>7. Over(n, S \union R) = Over(n, S) + Over(n, R)
    BY <1>5, <1>6, OverUnion
  <1>8. Over(n, S) \in Int /\ Over(n, R) \in Int
    BY <1>5, <1>6, OverType
  <1>9. PICK w : w = [a \in R |-> -Net(lines, a)]
    OBVIOUS
  <1>10. Total(w) = -Over(n, R)
    <2>1. R \in SUBSET A
      BY <1>5
    <2>2. n = NetsOf(A, lines)
      BY <1>2
    <2>3. QED
      BY <1>1, <1>3, <1>9, <2>1, <2>2, TotalOfNets
  <1>11. NetOutside(r, mode) = Total(w)
    BY <1>2, <1>4, <1>9 DEF NetOutside, Position
  <1>12. Worth(n, A, Position) = Over(n, S)
    BY <1>4 DEF Worth
  <1>13. Over(n, S) + Over(n, R) = 0
    BY <1>1, <1>5, <1>7
  <1>14. QED
    BY <1>8, <1>10, <1>11, <1>12, <1>13

(* The accounts without a category come to their worth. *)
LEMMA UnmappedIs ==
    ASSUME ReportsInv, NEW r \in Ready("financial-statements"), Undisturbed(r),
           NEW s, s = Snapshots(r),
           NEW A, A = chart, NEW n, n = NetsOf(A, SnapshotLines(r, "period"))
    PROVE  Total([a \in Unmapped(s) |-> Net(SnapshotLines(r, "period"), a)]) =
              Worth(n, A, {None})
  <1>1. "period" \in Modes /\ "closing" \in Modes
    BY DEF Modes, SnapshotReads
  <1>2. PICK lines : lines = SnapshotLines(r, "period")
    OBVIOUS
  <1>3. lines \in SUBSET AllLines /\ IsFiniteSet(A)
    BY <1>1, <1>2, ModeLines, AccountsAssumption, FS_Subset DEF ReportsInv, BooksInv
  <1>4. PICK S, R : S = In(A, {None}) /\ R = Unmapped(s)
    OBVIOUS
  <1>5. /\ DOMAIN s["closing"] = A
        /\ \A a \in A : s["period"][a] = NormalBalance(lines, a)
    <2>1. DOMAIN s["closing"] = A
      BY <1>1, SnapshotAmountOf
    <2>2. \A a \in chart : s["period"][a] = NormalBalance(SnapshotLines(r, "period"), a)
      <3>1. PICK mode \in Modes : mode = "period"
        BY <1>1
      <3>2. \A a \in chart : s[mode][a] = NormalBalance(SnapshotLines(r, mode), a)
        BY SnapshotAmountOf
      <3>3. QED
        BY <3>1, <3>2
    <2>3. QED
      BY <1>2, <2>1, <2>2
  <1>6. S \subseteq A /\ R \subseteq S /\ IsFiniteSet(S)
    BY <1>3, <1>4, <1>5, FS_Subset DEF In, Unmapped
  <1>7. \A a \in A : n[a] = Net(lines, a) /\ n[a] \in Int
    BY <1>2, <1>3, NetIsOver DEF NetsOf
  <1>8. \A a \in S \ R : n[a] = 0
    BY <1>4, <1>5, <1>6, <1>7 DEF In, Unmapped, NormalBalance
  <1>9. \A a \in S : n[a] \in Int
    BY <1>6, <1>7
  <1>10. Over(n, S) = Over(n, R)
    BY <1>6, <1>8, <1>9, OverSupport
  <1>11. PICK v : v = [a \in R |-> Net(lines, a)]
    OBVIOUS
  <1>12. Total(v) = Over(n, R)
    <2>1. R \in SUBSET A /\ n = NetsOf(A, lines)
      BY <1>2, <1>6
    <2>2. QED
      BY <1>3, <1>11, <2>1, TotalOfNets
  <1>13. QED
    BY <1>2, <1>4, <1>10, <1>11, <1>12 DEF Worth

(* The nets of a range's three modes.                                      *)
LEMMA NetsTie ==
    ASSUME ReportsInv, NEW r \in Ready("financial-statements"), Undisturbed(r),
           CutsNoEntry(r), RangesInOrder(r.query), NEW A, A = chart,
           NEW opening \in Modes, NEW period \in Modes, NEW closing \in Modes,
           \/ opening = "opening" /\ period = "period" /\ closing = "closing"
           \/ /\ opening = "comparativeOpening" /\ period = "comparativePeriod"
              /\ closing = "comparativeClosing",
           NEW n, n = NetsOf(A, SnapshotLines(r, opening)),
           NEW m, m = NetsOf(A, SnapshotLines(r, period)),
           NEW u, u = NetsOf(A, SnapshotLines(r, closing))
    PROVE  \A C : Worth(u, A, C) = Worth(n, A, C) + Worth(m, A, C)
  <1>1. n \in [A -> Int] /\ IsFiniteSet(A)
    BY ModeBalances
  <1>2. m \in [A -> Int]
    BY ModeBalances
  <1>3. u \in [A -> Int]
    BY ModeBalances
  <1>4. \A a \in A : u[a] = n[a] + m[a]
    BY ModesTie DEF NetsOf
  <1>5. QED
    BY <1>1, <1>2, <1>3, <1>4, WorthAdds

(* The statements of a finished report fit together. *)
LEMMA ReadyStatements ==
    ASSUME ReportsInv, NEW r \in Ready("financial-statements"),
           CutsNoEntry(r), Undisturbed(r), RangesInOrder(r.query),
           NEW s, s = Snapshots(r),
           NEW result, result = ProfitOrLoss(s, "period"),
           NEW position, position = FinancialPosition(s, "closing"),
           NEW before, before = FinancialPosition(s, "opening"),
           NEW ratios, ratios = Ratios(s)
    PROVE  /\ position.difference = NetOutside(r, "closing")
           /\ position.difference - before.difference =
                 result.totalComprehensiveIncome - SumByCategories(s, {"DIVIDEND"}, "period")
                   - Total([a \in Unmapped(s) |-> Net(SnapshotLines(r, "period"), a)])
           /\ ChangesInEquity(s).profit = result.profitAfterTax
           /\ ratios.netMargin[1] + SumByCategories(s, {"FINANCE_INCOME"}, "period")
                 = result.profitAfterTax
           /\ ratios.debtToEquity = <<position.totalLiabilities, position.totalEquity>>
           /\ ratios.assetTurnover[2] =
                 position.totalAssets + FinancialPosition(s, "comparativeClosing").totalAssets
  <1>1. "opening" \in Modes /\ "period" \in Modes /\ "closing" \in Modes
          /\ "comparativeClosing" \in Modes
    BY DEF Modes, SnapshotReads
  <1>2. PICK A : A = chart
    OBVIOUS
  <1>3. PICK n, m, u, w : /\ n = NetsOf(A, SnapshotLines(r, "opening"))
                          /\ m = NetsOf(A, SnapshotLines(r, "period"))
                          /\ u = NetsOf(A, SnapshotLines(r, "closing"))
                          /\ w = NetsOf(A, SnapshotLines(r, "comparativeClosing"))
    OBVIOUS
  <1>4. SumsAre(s, "opening", n, A)
    BY <1>1, <1>2, <1>3, ModeSums
  <1>5. SumsAre(s, "period", m, A)
    BY <1>1, <1>2, <1>3, ModeSums
  <1>6. SumsAre(s, "closing", u, A)
    BY <1>1, <1>2, <1>3, ModeSums
  <1>7. SumsAre(s, "comparativeClosing", w, A)
    BY <1>1, <1>2, <1>3, ModeSums
  <1>8. position.difference = NetOutside(r, "closing")
    <2>1. position.difference = Worth(u, A, Position)
      BY <1>6, PositionIsWorth
    <2>2. NetOutside(r, "closing") = Worth(u, A, Position)
      BY <1>1, <1>2, <1>3, OutsideIs
    <2>3. QED
      BY <2>1, <2>2
  <1>9. position.difference - before.difference =
          result.totalComprehensiveIncome - SumByCategories(s, {"DIVIDEND"}, "period")
            - Total([a \in Unmapped(s) |-> Net(SnapshotLines(r, "period"), a)])
    <2>1. position.difference = Worth(u, A, Position)
      BY <1>6, PositionIsWorth
    <2>2. before.difference = Worth(n, A, Position)
      BY <1>4, PositionIsWorth
    <2>3. Worth(u, A, Position) = Worth(n, A, Position) + Worth(m, A, Position)
      BY <1>1, <1>2, <1>3, NetsTie
    <2>4. result.totalComprehensiveIncome - SumByCategories(s, {"DIVIDEND"}, "period") =
             -Worth(m, A, Results)
      BY <1>5, ProfitIsWorth
    <2>5. Total([a \in Unmapped(s) |-> Net(SnapshotLines(r, "period"), a)]) = Worth(m, A, {None})
      BY <1>2, <1>3, UnmappedIs
    <2>6. Worth(m, A, Categories) + Worth(m, A, {None}) = 0
      BY <1>1, <1>2, <1>3, ModeBalances
    <2>7. Worth(m, A, Categories) = Worth(m, A, Results) + Worth(m, A, Position)
      <3>1. m \in [A -> Int] /\ IsFiniteSet(A)
        BY <1>5 DEF SumsAre
      <3>2. QED
        BY <3>1, CategoriesAre, WorthOfBoth
    <2>8. /\ Worth(n, A, Position) \in Int /\ Worth(m, A, Position) \in Int
          /\ Worth(m, A, Results) \in Int /\ Worth(m, A, {None}) \in Int
      BY <1>4, <1>5 DEF SumsAre
    <2>9. QED
      BY <2>1, <2>2, <2>3, <2>4, <2>5, <2>6, <2>7, <2>8
  <1>10. ChangesInEquity(s).profit = result.profitAfterTax
    BY DEF ChangesInEquity
  <1>11. /\ SumByCategories(s, {"REVENUE"}, "period") \in Int
         /\ SumByCategories(s, {"COST_OF_SALES"}, "period") \in Int
         /\ SumByCategories(s, {"OTHER_INCOME"}, "period") \in Int
         /\ SumByCategories(s, {"FINANCE_INCOME"}, "period") \in Int
         /\ SumByCategories(s, {"FINANCE_COST"}, "period") \in Int
         /\ SumByCategories(s, {"INCOME_TAX"}, "period") \in Int
         /\ SumByCategories(s, OperatingExpenses, "period") \in Int
    <2>1. /\ \A c \in Categories : SumByCategories(s, {c}, "period") \in Int
          /\ SumByCategories(s, OperatingExpenses, "period") \in Int
      BY <1>5 DEF SumsAre
    <2>2. QED
      BY <2>1 DEF Categories
  <1>12. ratios.netMargin[1] + SumByCategories(s, {"FINANCE_INCOME"}, "period")
           = result.profitAfterTax
    <2>1. PICK rev, cost, other, income, fin, tax, opex :
            /\ rev = SumByCategories(s, {"REVENUE"}, "period")
            /\ cost = SumByCategories(s, {"COST_OF_SALES"}, "period")
            /\ other = SumByCategories(s, {"OTHER_INCOME"}, "period")
            /\ income = SumByCategories(s, {"FINANCE_INCOME"}, "period")
            /\ fin = SumByCategories(s, {"FINANCE_COST"}, "period")
            /\ tax = SumByCategories(s, {"INCOME_TAX"}, "period")
            /\ opex = SumByCategories(s, OperatingExpenses, "period")
      OBVIOUS
    <2>2. ratios.netMargin[1] = ((rev - cost) + other - opex) - fin - tax
      BY <2>1 DEF Ratios
    <2>3. result.profitAfterTax = ((rev - cost) + other - opex + income - fin) - tax
      BY <2>1 DEF ProfitOrLoss
    <2>4. QED
      BY <1>11, <2>1, <2>2, <2>3
  <1>13. ratios.debtToEquity = <<position.totalLiabilities, position.totalEquity>>
    <2>1. /\ position.totalEquity = SumByCategories(s, Equity, "closing")
          /\ position.totalLiabilities = SumByCategories(s, Liabilities, "closing")
      BY <1>6, PositionIsWorth
    <2>2. QED
      BY <2>1 DEF Ratios
  <1>14. ratios.assetTurnover[2] =
           position.totalAssets + FinancialPosition(s, "comparativeClosing").totalAssets
    <2>1. PICK other : other = FinancialPosition(s, "comparativeClosing")
      OBVIOUS
    <2>2. PICK now, then :
            /\ now = SumByCategories(s, CurrentAssets \union {"ASSET_NONCURRENT"}, "closing")
            /\ then =
                 SumByCategories(s, CurrentAssets \union {"ASSET_NONCURRENT"}, "comparativeClosing")
      OBVIOUS
    <2>3. position.totalAssets = now /\ now \in Int
      BY <1>6, <2>2, PositionIsWorth
    <2>4. other.totalAssets = then /\ then \in Int
      BY <1>7, <2>1, <2>2, PositionIsWorth
    <2>5. ratios.assetTurnover[2] = then + now
      BY <2>2 DEF Ratios
    <2>6. QED
      BY <2>1, <2>3, <2>4, <2>5
  <1>15. QED
    BY <1>8, <1>9, <1>10, <1>12, <1>13, <1>14

(* The statements of one report fit each other:                            *)
(* buildFinancialPositionPayload, buildProfitOrLossPayload,                *)
(* buildChangesInEquityPayload, buildRatioAnalysis.                        *)
THEOREM StatementsFit == Spec => []StatementsArticulate
  <1>1. ReportsInv => StatementsArticulate
    BY ReadyStatements DEF StatementsArticulate
  <1>2. QED
    BY <1>1, ReportsAlways, PTL

-----------------------------------------------------------------------------
(* The cash flow.                                                          *)

(* What it makes of the nets of the three modes. *)
LEMMA FlowIsWorth ==
    ASSUME NEW A, NEW s, NEW n, NEW m, NEW u, NEW opening, NEW period, NEW closing,
           SumsAre(s, opening, n, A), SumsAre(s, period, m, A), SumsAre(s, closing, u, A),
           \A C : Worth(u, A, C) = Worth(n, A, C) + Worth(m, A, C),
           NEW flow, flow = CashFlow(s, opening, period, closing)
    PROVE  NetIncrease(flow) - flow.actual =
              SumByCategories(s, {"DEPRECIATION_AND_AMORTIZATION"}, period) - Worth(m, A, Flows)
  <1>1. /\ \A c \in Categories :
             /\ SumByCategories(s, {c}, opening) =
                  IF c \in DebitCategories THEN Worth(n, A, {c}) ELSE -Worth(n, A, {c})
             /\ SumByCategories(s, {c}, period) =
                  IF c \in DebitCategories THEN Worth(m, A, {c}) ELSE -Worth(m, A, {c})
             /\ SumByCategories(s, {c}, closing) =
                  IF c \in DebitCategories THEN Worth(u, A, {c}) ELSE -Worth(u, A, {c})
        /\ \A C : Worth(n, A, C) \in Int /\ Worth(m, A, C) \in Int /\ Worth(u, A, C) \in Int
        /\ m \in [A -> Int] /\ IsFiniteSet(A)
    BY DEF SumsAre
  <1>2. \A c \in Categories :
          SumByCategories(s, {c}, closing) - SumByCategories(s, {c}, opening) =
             IF c \in DebitCategories THEN Worth(m, A, {c}) ELSE -Worth(m, A, {c})
    BY <1>1
  <1>3. PICK moved, sum :
          /\ moved = [c \in Categories |->
                        SumByCategories(s, {c}, closing) - SumByCategories(s, {c}, opening)]
          /\ sum = [c \in Categories |-> SumByCategories(s, {c}, period)]
    OBVIOUS
  <1>4. PICK rec, inv, due, van, loan, cap, div, cash :
          /\ rec = Worth(m, A, {"RECEIVABLE"}) /\ inv = Worth(m, A, {"INVENTORY"})
          /\ due = Worth(m, A, {"LIABILITY_CURRENT"}) /\ van = Worth(m, A, {"ASSET_NONCURRENT"})
          /\ loan = Worth(m, A, {"LIABILITY_NONCURRENT"})
          /\ cap = Worth(m, A, {"EQUITY_SHARE_CAPITAL"}) /\ div = Worth(m, A, {"DIVIDEND"})
          /\ cash = Worth(m, A, {"CASH_AND_EQUIVALENT"})
    OBVIOUS
  <1>5. { "RECEIVABLE", "INVENTORY", "LIABILITY_CURRENT", "ASSET_NONCURRENT",
          "LIABILITY_NONCURRENT", "EQUITY_SHARE_CAPITAL", "DIVIDEND", "CASH_AND_EQUIVALENT",
          "DEPRECIATION_AND_AMORTIZATION" } \subseteq Categories
    BY DEF Categories, CurrentAssets, Equity, Liabilities, OperatingExpenses
  <1>6. /\ { "RECEIVABLE", "INVENTORY", "ASSET_NONCURRENT", "DIVIDEND", "CASH_AND_EQUIVALENT",
             "DEPRECIATION_AND_AMORTIZATION" } \subseteq DebitCategories
        /\ { "LIABILITY_CURRENT", "LIABILITY_NONCURRENT", "EQUITY_SHARE_CAPITAL" }
              \cap DebitCategories = {}
    BY DEF DebitCategories, CurrentAssets, OperatingExpenses
  <1>7. /\ moved["RECEIVABLE"] = rec /\ moved["INVENTORY"] = inv
        /\ moved["LIABILITY_CURRENT"] = -due /\ moved["ASSET_NONCURRENT"] = van
        /\ moved["LIABILITY_NONCURRENT"] = -loan /\ moved["CASH_AND_EQUIVALENT"] = cash
    BY <1>2, <1>3, <1>4, <1>5, <1>6
  <1>8. /\ sum["EQUITY_SHARE_CAPITAL"] = -cap /\ sum["DIVIDEND"] = div
        /\ sum["DEPRECIATION_AND_AMORTIZATION"] \in Int
    BY <1>1, <1>3, <1>4, <1>5, <1>6
  <1>9. PICK profit : profit = ProfitOrLoss(s, period).profitBeforeTax
    OBVIOUS
  <1>10. profit = -Worth(m, A, BeforeTax) /\ Worth(m, A, BeforeTax) \in Int
    BY <1>1, <1>9, ProfitIsWorth
  <1>11. /\ flow.operating = profit + sum["DEPRECIATION_AND_AMORTIZATION"]
                              - moved["RECEIVABLE"] - moved["INVENTORY"]
                              + moved["LIABILITY_CURRENT"]
         /\ flow.investing = -moved["ASSET_NONCURRENT"]
         /\ flow.financing = moved["LIABILITY_NONCURRENT"] + sum["EQUITY_SHARE_CAPITAL"]
                              - sum["DIVIDEND"]
         /\ flow.actual = moved["CASH_AND_EQUIVALENT"]
    BY <1>3, <1>5, <1>9 DEF CashFlow
  <1>12. /\ rec \in Int /\ inv \in Int /\ due \in Int /\ van \in Int /\ loan \in Int
         /\ cap \in Int /\ div \in Int /\ cash \in Int
    BY <1>1, <1>4
  <1>13. Worth(m, A, Flows) =
           Worth(m, A, BeforeTax) + rec + inv + due + van + loan + cap + div + cash
    BY <1>1, <1>4, WorthOfFlows
  <1>14. SumByCategories(s, {"DEPRECIATION_AND_AMORTIZATION"}, period)
           = sum["DEPRECIATION_AND_AMORTIZATION"]
    BY <1>3, <1>5
  <1>15. QED
    BY <1>7, <1>8, <1>10, <1>11, <1>12, <1>13, <1>14 DEF NetIncrease

(* The cash flow of one column misses just what CashGapIs names. *)
LEMMA GapIs ==
    ASSUME ReportsInv, NEW r \in Ready("financial-statements"),
           CutsNoEntry(r), Undisturbed(r), RangesInOrder(r.query),
           NEW opening, NEW period, NEW closing,
           \/ opening = "opening" /\ period = "period" /\ closing = "closing"
           \/ /\ opening = "comparativeOpening" /\ period = "comparativePeriod"
              /\ closing = "comparativeClosing"
    PROVE  CashGapIs(r, opening, period, closing)
  <1>1. opening \in Modes /\ period \in Modes /\ closing \in Modes
    BY DEF Modes, SnapshotReads
  <1>2. PICK A, s : A = chart /\ s = Snapshots(r)
    OBVIOUS
  <1>3. PICK n, m, u : /\ n = NetsOf(A, SnapshotLines(r, opening))
                       /\ m = NetsOf(A, SnapshotLines(r, period))
                       /\ u = NetsOf(A, SnapshotLines(r, closing))
    OBVIOUS
  <1>4. SumsAre(s, opening, n, A)
    BY <1>1, <1>2, <1>3, ModeSums
  <1>5. SumsAre(s, period, m, A)
    BY <1>1, <1>2, <1>3, ModeSums
  <1>6. SumsAre(s, closing, u, A)
    BY <1>1, <1>2, <1>3, ModeSums
  <1>7. \A C : Worth(u, A, C) = Worth(n, A, C) + Worth(m, A, C)
    BY <1>1, <1>2, <1>3, NetsTie
  <1>8. PICK flow : flow = CashFlow(s, opening, period, closing)
    OBVIOUS
  <1>9. NetIncrease(flow) - flow.actual =
          SumByCategories(s, {"DEPRECIATION_AND_AMORTIZATION"}, period) - Worth(m, A, Flows)
    BY <1>4, <1>5, <1>6, <1>7, <1>8, FlowIsWorth
  <1>10. m \in [A -> Int] /\ IsFiniteSet(A) /\ Over(m, A) = 0
    BY <1>1, <1>2, <1>3, ModeBalances
  <1>11. Worth(m, A, Flows) + Worth(m, A, NoFlow) = 0
    <2>1. PICK E : E = Categories \union {None}
      OBVIOUS
    <2>2. Worth(m, A, E) = Worth(m, A, Flows) + Worth(m, A, NoFlow)
      BY <1>10, <2>1, CategoriesAre, WorthOfBoth
    <2>3. In(A, E) = A
      BY <1>2, <2>1, CategoriesAssumption DEF In, ReportsInv, BooksInv
    <2>4. QED
      BY <1>10, <2>2, <2>3 DEF Worth
  <1>12. LeftOut(r, period) = Worth(m, A, NoFlow)
    <2>1. PICK lines, S : lines = SnapshotLines(r, period) /\ S = In(A, NoFlow)
      OBVIOUS
    <2>2. PICK v : v = [a \in S |-> Net(lines, a)]
      OBVIOUS
    <2>3. LeftOut(r, period) = Total(v)
      BY <1>2, <2>1, <2>2 DEF LeftOut, In, NoFlow
    <2>4. lines \in SUBSET AllLines
      BY <1>1, <2>1, ModeLines
    <2>5. S \in SUBSET A /\ m = NetsOf(A, lines)
      BY <1>3, <2>1 DEF In
    <2>6. Total(v) = Over(m, S)
      BY <1>10, <2>2, <2>4, <2>5, TotalOfNets
    <2>7. QED
      BY <2>1, <2>3, <2>6 DEF Worth
  <1>13. /\ Worth(m, A, Flows) \in Int /\ Worth(m, A, NoFlow) \in Int
         /\ SumByCategories(s, {"DEPRECIATION_AND_AMORTIZATION"}, period) \in Int
    <2>1. "DEPRECIATION_AND_AMORTIZATION" \in Categories
      BY DEF Categories, OperatingExpenses
    <2>2. QED
      BY <1>5, <2>1 DEF SumsAre
  <1>14. NetIncrease(flow) - flow.actual =
           SumByCategories(s, {"DEPRECIATION_AND_AMORTIZATION"}, period) + LeftOut(r, period)
    BY <1>9, <1>11, <1>12, <1>13
  <1>15. QED
    BY <1>2, <1>8, <1>14 DEF CashGapIs

(* The cash flow statement is off by what it leaves out and by the         *)
(* depreciation once more, and by nothing else: buildCashFlowPayload.      *)
THEOREM CashGapIsExplained == Spec => []CashGapExplained
  <1>1. ReportsInv => CashGapExplained
    BY GapIs DEF CashGapExplained
  <1>2. QED
    BY <1>1, ReportsAlways, PTL

=============================================================================
