----------------------------- MODULE BooksProofs -----------------------------
(***************************************************************************)
(* Theorems about Books, for any events, journals, workers, staff, months  *)
(* and failures.                                                           *)
(***************************************************************************)
EXTENDS Books, SequenceTheorems, TLAPS

\* The journals a transaction has written or is still to write.
Plan(t) == Range(t.todo) \cup t.writes

\* What holds of an open transaction t of p. Its locks make it so until it ends.
Shaped(p, t) ==
  /\ t.step \in {"IDLE", "MARK"} =>
       t.rows = {} /\ t.entries = {} /\ t.todo = <<>> /\ t.writes = {}
  /\ t.step \in {"SUPERSEDE", "REVERSE"} => p \in Workers /\ t.job \in Revisions
  /\ t.step = "CHECKED" => t.todo = <<>>
  /\ p \in Desks => t.rows = {}
OfItsEvent(p, t) ==
  p \in Workers /\ t.step \notin {"IDLE", "MARK"} =>
    t.job \in Events /\ t.job \in t.rows /\ event[t.job].status \in Pending
\* A draft it posts is locked and has not moved, its journals are in open months,
\* and only an event's own worker posts the event's journal.
OfItsPlan(p, t) ==
  /\ \A w \in Plan(t) :
       FromDraft(w) => p \in Desks /\ w.entry \in t.entries /\ draft[w.entry] = w.month
  /\ \A w \in t.writes : period[w.month] = "OPEN"
  /\ \A w \in Plan(t) :
       w.part = "ENTRY" /\ w.entry \in Events => p \in Workers /\ w.entry = t.job
\* A live journal of the event it replaces is in the plan to be reversed.
OfItsReplaced(p, t) ==
  /\ t.step = "REVERSE" => IsPosted(Replaces[t.job])
  /\ p \in Workers /\ t.job \in Revisions =>
       /\ t.step \in {"REVERSE", "WRITE", "CHECKED"} => Replaces[t.job] \in t.rows
       /\ t.step \in {"WRITE", "CHECKED"} /\ IsLive(Replaces[t.job]) =>
            \E w \in Plan(t) : w.entry = Replaces[t.job] /\ w.part = "REVERSAL"
Sound(p, t) ==
  /\ Shaped(p, t) /\ OfItsEvent(p, t) /\ OfItsPlan(p, t) /\ OfItsReplaced(p, t)

Apart(t, u) == t.rows \cap u.rows = {} /\ t.entries \cap u.entries = {}
LocksAreExclusive == \A p, q \in Procs : p # q => Apart(tx[p], tx[q])

\* The month being closed or reopened is in nobody's share, and once its drafts
\* have been counted it has none.
OutOfTheWay(t) ==
  closing.step # "IDLE" => \A w \in t.writes : FromDraft(w) \/ w.month # closing.month
NoDraftsLeft ==
  closing.step = "COUNTED" /\ period[closing.month] = "OPEN" =>
    \A x \in Manuals : draft[x] # closing.month

RevisionsFollow ==
  \A e \in Revisions :
    event[e].status # "ABSENT" => event[Replaces[e]].status # "ABSENT"

IInv ==
  /\ TypeOK
  /\ \A p \in Procs : Sound(p, tx[p]) /\ OutOfTheWay(tx[p])
  /\ LocksAreExclusive
  /\ NoDraftsLeft
  /\ RevisionsFollow
  /\ ReplacedHasNoEffect

-----------------------------------------------------------------------------
(* Plans. *)

LEMMA RangeOfOne == ASSUME NEW a PROVE Range(<<a>>) = {a}
  BY DEF Range
LEMMA RangeOfNone == Range(<<>>) = {}
  BY DEF Range

\* Taking the head off a plan loses nothing of it.
LEMMA RangeOfTail ==
  ASSUME NEW S, NEW s \in Seq(S), s # <<>>
  PROVE  /\ Head(s) \in S /\ Head(s) \in Range(s)
         /\ Tail(s) \in Seq(S) /\ Range(s) = {Head(s)} \cup Range(Tail(s))
<1>1. /\ Head(s) \in S /\ Tail(s) \in Seq(S) /\ Len(Tail(s)) = Len(s) - 1
      /\ \A i \in 1..Len(Tail(s)) : Tail(s)[i] = s[i + 1]
  BY HeadTailProperties
<1>2. Len(s) \in Nat /\ Len(s) # 0 /\ DOMAIN s = 1..Len(s) /\ DOMAIN Tail(s) = 1..Len(Tail(s))
  BY <1>1, EmptySeq, LenProperties
<1>3. Head(s) = s[1] /\ 1 \in 1..Len(s)
  BY <1>2
<1>4. Range(Tail(s)) \subseteq Range(s)
  <2>. SUFFICES ASSUME NEW i \in 1..Len(Tail(s)) PROVE Tail(s)[i] \in Range(s)
    BY <1>2 DEF Range
  <2>1. i + 1 \in 1..Len(s) /\ Tail(s)[i] = s[i + 1]
    BY <1>1, <1>2
  <2>. QED
    BY <2>1, <1>2 DEF Range
<1>5. ASSUME NEW i \in 1..Len(s) PROVE s[i] \in {Head(s)} \cup Range(Tail(s))
  <2>1. CASE i = 1
    BY <2>1, <1>3
  <2>2. CASE i # 1
    <3>1. i - 1 \in 1..Len(Tail(s)) /\ (i - 1) + 1 = i
      BY <2>2, <1>1, <1>2
    <3>2. Tail(s)[i - 1] = s[i]
      BY <3>1, <1>1
    <3>. QED
      BY <3>1, <3>2, <1>2 DEF Range
  <2>. QED
    BY <2>1, <2>2
<1>. QED
  BY SMTT(30), <1>1, <1>2, <1>3, <1>4, <1>5 DEF Range

\* Putting a journal in front adds it.
LEMMA RangeOfPut ==
  ASSUME NEW S, NEW s \in Seq(S), NEW a \in S
  PROVE  <<a>> \o s \in Seq(S) /\ Range(<<a>> \o s) = {a} \cup Range(s)
<1>1. <<a>> \in Seq(S)
  OBVIOUS
<1>2. <<a>> \o s \in Seq(S)
  BY <1>1, ConcatProperties
<1>3. Range(<<a>> \o s) = Range(<<a>>) \cup Range(s)
  BY ZenonT(40), <1>1, RangeConcatenation
<1>. QED
  BY <1>2, <1>3, RangeOfOne

-----------------------------------------------------------------------------
(* Types. *)

LEMMA LastIsAMonth == Last \in Months /\ Last \in Nat /\ 1 \in Months
  BY BoundsAssumption DEF Months

LEMMA NoProcIsBoth == ASSUME NEW p \in Workers PROVE p \notin Desks
  BY NamesAssumption

LEMMA IdleIsTransaction == Idle \in Transactions
<1>1. <<>> \in Seq(Postings)
  OBVIOUS
<1>. QED
  BY <1>1, LastIsAMonth DEF Idle, Transactions

\* A date read from a journal is a month.
LEMMA DateOfAJournal ==
  ASSUME posted \subseteq Postings, NEW x, NEW part, Has(x, part)
  PROVE  MonthOf(x, part) \in Months
<1>1. PICK w \in posted : w.entry = x /\ w.part = part
  BY DEF Has
<1>2. (CHOOSE v \in posted : v.entry = x /\ v.part = part) \in posted
  BY <1>1
<1>. QED
  BY <1>2 DEF MonthOf, Postings

LEMMA PostingIsPosting ==
  ASSUME NEW x \in Entries, NEW part \in {"ENTRY", "REVERSAL", "CORRECTION"}, NEW m \in Months
  PROVE  /\ Posting(x, part, m) \in Postings
         /\ Posting(x, part, m).entry = x /\ Posting(x, part, m).part = part
         /\ Posting(x, part, m).month = m
  BY DEF Posting, Postings

-----------------------------------------------------------------------------
(* A statement of one open transaction: if what it leaves of the transaction *)
(* is sound by itself, apart from the others and out of the closer's way,    *)
(* the invariant is kept.                                                    *)

OnlyTx == UNCHANGED <<event, draft, posted, period, closing>>

\* What is sound stays sound while the rows do not change.
LEMMA SoundIsKept ==
  ASSUME OnlyTx, NEW p \in Procs, NEW t, Sound(p, t), OutOfTheWay(t), tx'[p] = t
  PROVE  (Sound(p, tx[p]) /\ OutOfTheWay(tx[p]))'
<1>. USE DEF OnlyTx
<1>1. Shaped(p, tx[p])'
  BY DEF Sound, Shaped
<1>2. OfItsEvent(p, tx[p])'
  BY DEF Sound, OfItsEvent
<1>3. OfItsPlan(p, tx[p])'
  BY DEF Sound, OfItsPlan, Plan, FromDraft
<1>4. OfItsReplaced(p, tx[p])'
  BY DEF Sound, OfItsReplaced, Plan, IsLive, IsPosted, IsReversed, Has
<1>5. OutOfTheWay(tx[p])'
  BY DEF OutOfTheWay, FromDraft
<1>. QED
  BY <1>1, <1>2, <1>3, <1>4, <1>5 DEF Sound

LEMMA TxStep ==
  ASSUME IInv, OnlyTx, trouble' \in 0..MaxTrouble,
         NEW p \in Procs, NEW t \in Transactions, tx' = [tx EXCEPT ![p] = t],
         Sound(p, t), OutOfTheWay(t),
         \A q \in Procs : q # p => Apart(t, tx[q])
  PROVE  IInv'
<1>0. tx \in [Procs -> Transactions]
  BY DEF IInv, TypeOK
<1>1. TypeOK'
  BY <1>0 DEF IInv, TypeOK, OnlyTx
<1>2. ASSUME NEW q \in Procs PROVE (Sound(q, tx[q]) /\ OutOfTheWay(tx[q]))'
  <2>1. CASE q = p
    BY <2>1, <1>0, SoundIsKept
  <2>2. CASE q # p
    <3>1. tx'[q] = tx[q] /\ Sound(q, tx[q]) /\ OutOfTheWay(tx[q])
      BY <2>2, <1>0 DEF IInv
    <3>. QED
      BY <3>1, SoundIsKept
  <2>. QED
    BY <2>1, <2>2
<1>3. LocksAreExclusive'
  <2>. SUFFICES ASSUME NEW q \in Procs, NEW r \in Procs, q # r PROVE Apart(tx'[q], tx'[r])
    BY DEF LocksAreExclusive
  <2>1. CASE q # p /\ r # p
    BY <2>1, <1>0 DEF IInv, LocksAreExclusive
  <2>2. CASE q = p
    BY <2>2, <1>0
  <2>3. CASE r = p
    <3>1. Apart(tx'[r], tx'[q])
      BY <2>3, <1>0
    <3>. QED
      BY <3>1 DEF Apart
  <2>. QED
    BY <2>1, <2>2, <2>3
<1>4. NoDraftsLeft'
  BY DEF IInv, NoDraftsLeft, OnlyTx
<1>5. RevisionsFollow'
  BY DEF IInv, RevisionsFollow, OnlyTx
<1>6. ReplacedHasNoEffect'
  BY DEF IInv, ReplacedHasNoEffect, OnlyTx, IsLive, IsPosted, IsReversed, Has
<1>. QED
  BY <1>1, <1>2, <1>3, <1>4, <1>5, <1>6 DEF IInv

\* A transaction that ends, or an event left to be marked, has nothing to keep sound.
LEMMA NothingOpen ==
  ASSUME NEW p \in Procs, NEW t, t.step \in {"IDLE", "MARK"},
         t.rows = {}, t.entries = {}, t.todo = <<>>, t.writes = {}
  PROVE  Sound(p, t) /\ OutOfTheWay(t) /\ \A u : Apart(t, u)
<1>1. Plan(t) = {}
  BY RangeOfNone DEF Plan
<1>. QED
  BY <1>1 DEF Sound, Shaped, OfItsEvent, OfItsPlan, OfItsReplaced, OutOfTheWay, Apart

LEMMA EndKeeps ==
  ASSUME IInv, OnlyTx, trouble' \in 0..MaxTrouble, NEW p \in Procs, End(p)
  PROVE  IInv'
<1>1. Sound(p, Idle) /\ OutOfTheWay(Idle) /\ \A u : Apart(Idle, u)
  BY NothingOpen DEF Idle
<1>. QED
  BY <1>1, IdleIsTransaction, TxStep DEF End

LEMMA FailsKeeps ==
  ASSUME IInv, OnlyTx, trouble' \in 0..MaxTrouble, NEW p \in Procs, Fails(p)
  PROVE  IInv'
<1>1. CASE p \in Workers
  <2>. DEFINE t == [Idle EXCEPT !.step = "MARK", !.job = tx[p].job]
  <2>1. tx[p] \in Transactions
    BY DEF IInv, TypeOK
  <2>2. t \in Transactions
    BY <2>1, IdleIsTransaction DEF Transactions
  <2>3. t.step = "MARK" /\ t.rows = {} /\ t.entries = {} /\ t.todo = <<>> /\ t.writes = {}
    BY DEF Idle
  <2>4. tx' = [tx EXCEPT ![p] = t]
    BY <1>1 DEF Fails
  <2>. HIDE DEF t
  <2>5. Sound(p, t) /\ OutOfTheWay(t) /\ \A u : Apart(t, u)
    BY <2>3, NothingOpen
  <2>. QED
    BY <2>2, <2>4, <2>5, TxStep
<1>2. CASE p \notin Workers
  BY <1>2, EndKeeps DEF Fails, End
<1>. QED
  BY <1>1, <1>2

LEMMA BreaksKeeps ==
  ASSUME IInv, NEW p \in Procs, Breaks(p) \/ Dies(p)
  PROVE  IInv'
<1>1. OnlyTx /\ trouble' \in 0..MaxTrouble
  BY BoundsAssumption DEF IInv, TypeOK, Breaks, Dies, OnlyTx
<1>. QED
  BY <1>1, EndKeeps, FailsKeeps DEF Breaks, Dies

-----------------------------------------------------------------------------
(* The statements of a transaction, one by one.                              *)

LEMMA TroubleKept == ASSUME IInv, UNCHANGED trouble PROVE trouble' \in 0..MaxTrouble
  BY DEF IInv, TypeOK

LEMMA BeginEventKeeps ==
  ASSUME IInv, NEW p \in Workers, NEW e \in Events, NEW m \in Months, BeginEvent(p, e, m)
  PROVE  IInv'
<1>. DEFINE plan == IF e \in Voids THEN <<>> ELSE <<Posting(e, "ENTRY", m)>>
            step == IF e \in Revisions THEN "SUPERSEDE" ELSE "WRITE"
            t == [Idle EXCEPT !.step = step, !.job = e, !.date = m, !.rows = {e}, !.todo = plan]
<1>1. tx' = [tx EXCEPT ![p] = t] /\ OnlyTx /\ UNCHANGED trouble
  BY DEF BeginEvent, OnlyTx
<1>2. e \in Entries /\ p \in Procs /\ e \notin Manuals
  BY NamesAssumption DEF Entries, Procs
<1>3. Posting(e, "ENTRY", m) \in Postings /\ Posting(e, "ENTRY", m).entry = e
  BY <1>2, PostingIsPosting
<1>4. plan \in Seq(Postings) /\ \A w \in Range(plan) : w.entry = e
  <2>1. CASE e \in Voids
    BY <2>1, RangeOfNone
  <2>2. CASE e \notin Voids
    BY <2>2, <1>3, RangeOfOne
  <2>. QED
    BY <2>1, <2>2
<1>. HIDE DEF plan
<1>5. /\ t.step = step /\ t.job = e /\ t.rows = {e} /\ t.entries = {}
      /\ t.todo = plan /\ t.writes = {} /\ t.date = m
  BY DEF Idle
<1>6. t \in Transactions
  <2>1. {e} \in SUBSET Events /\ step \in {"SUPERSEDE", "WRITE"} /\ e \in Entries \cup {None}
    BY <1>2
  <2>. QED
    BY <2>1, <1>4, IdleIsTransaction DEF Transactions
<1>7. step \in {"SUPERSEDE", "WRITE"} /\ (step = "SUPERSEDE" <=> e \in Revisions)
  OBVIOUS
<1>. HIDE DEF t, step
<1>8. Plan(t) = Range(plan)
  BY <1>5 DEF Plan
<1>9. Sound(p, t)
  <2>1. Shaped(p, t)
    BY <1>5, <1>7, NoProcIsBoth DEF Shaped
  <2>2. OfItsEvent(p, t)
    BY <1>5 DEF OfItsEvent, BeginEvent
  <2>3. OfItsPlan(p, t)
    BY <1>2, <1>4, <1>5, <1>8 DEF OfItsPlan, FromDraft
  <2>4. OfItsReplaced(p, t)
    BY <1>5, <1>7 DEF OfItsReplaced
  <2>. QED
    BY <2>1, <2>2, <2>3, <2>4 DEF Sound
<1>10. OutOfTheWay(t)
  BY <1>5 DEF OutOfTheWay
<1>11. \A q \in Procs : Apart(t, tx[q])
  BY <1>5 DEF Apart, BeginEvent, RowFree
<1>. QED
  BY <1>1, <1>2, <1>6, <1>9, <1>10, <1>11, TroubleKept, TxStep

LEMMA LockReplacedKeeps ==
  ASSUME IInv, NEW p \in Workers, LockReplaced(p)
  PROVE  IInv'
<1>. DEFINE u == tx[p]
            d == Replaces[u.job]
            step == IF IsLive(d) THEN "REVERSE" ELSE "WRITE"
            t == [u EXCEPT !.rows = u.rows \cup {d}, !.step = step]
<1>0. p \in Procs /\ tx \in [Procs -> Transactions] /\ u \in Transactions /\ Sound(p, u)
      /\ OutOfTheWay(u) /\ LocksAreExclusive
  BY DEF Procs, IInv, TypeOK
<1>1. tx' = [tx EXCEPT ![p] = t] /\ OnlyTx /\ UNCHANGED trouble
  BY <1>0 DEF LockReplaced, OnlyTx
<1>2. u.step = "SUPERSEDE" /\ u.job \in Revisions /\ d \in Events
  BY <1>0, ReplacesAssumption DEF LockReplaced, Sound, Shaped
<1>3. step \in {"REVERSE", "WRITE"} /\ (step = "REVERSE" <=> IsLive(d))
  OBVIOUS
<1>. HIDE DEF step
<1>4. /\ t.step = step /\ t.job = u.job /\ t.rows = u.rows \cup {d} /\ t.entries = u.entries
      /\ t.todo = u.todo /\ t.writes = u.writes
  BY <1>0 DEF Transactions
<1>5. t \in Transactions
  BY <1>0, <1>2, <1>3 DEF Transactions
<1>. HIDE DEF t
<1>6. Plan(t) = Plan(u)
  BY <1>4 DEF Plan
<1>7. Sound(p, t)
  <2>1. Shaped(p, t)
    BY <1>0, <1>2, <1>3, <1>4, NoProcIsBoth DEF Sound, Shaped
  <2>2. OfItsEvent(p, t)
    BY <1>0, <1>2, <1>4 DEF Sound, OfItsEvent
  <2>3. OfItsPlan(p, t)
    BY <1>0, <1>4, <1>6 DEF Sound, OfItsPlan
  <2>4. OfItsReplaced(p, t)
    BY <1>2, <1>3, <1>4 DEF OfItsReplaced, IsLive
  <2>. QED
    BY <2>1, <2>2, <2>3, <2>4 DEF Sound
<1>8. OutOfTheWay(t)
  BY <1>0, <1>4 DEF OutOfTheWay
<1>9. ASSUME NEW q \in Procs, q # p PROVE Apart(t, tx[q])
  BY <1>0, <1>4, <1>9 DEF LocksAreExclusive, Apart, LockReplaced, RowFree
<1>. QED
  BY <1>0, <1>1, <1>5, <1>7, <1>8, <1>9, TroubleKept, TxStep

LEMMA ReverseReplacedKeeps ==
  ASSUME IInv, NEW p \in Workers, ReverseReplaced(p)
  PROVE  IInv'
<1>. DEFINE u == tx[p]
            d == Replaces[u.job]
            m == Later(u.date, MonthOf(d, "ENTRY"))
            w == Posting(d, "REVERSAL", m)
<1>0. p \in Procs /\ tx \in [Procs -> Transactions] /\ u \in Transactions /\ Sound(p, u)
      /\ OutOfTheWay(u) /\ LocksAreExclusive /\ posted \subseteq Postings
  BY DEF Procs, IInv, TypeOK
<1>1. OnlyTx /\ trouble' \in 0..MaxTrouble /\ EntryFree(d) /\ u.step = "REVERSE"
  BY TroubleKept DEF ReverseReplaced, OnlyTx
<1>2. u.job \in Revisions /\ d \in Events /\ d \in Entries /\ IsPosted(d) /\ d \in u.rows
  BY <1>0, <1>1, ReplacesAssumption DEF Sound, Shaped, OfItsReplaced, Entries
<1>3. m \in Months /\ w \in Postings /\ w.entry = d /\ w.part = "REVERSAL"
  <2>1. MonthOf(d, "ENTRY") \in Months
    BY <1>0, <1>2, DateOfAJournal DEF IsPosted
  <2>2. u.date \in Months
    BY <1>0 DEF Transactions
  <2>3. m \in Months
    BY <2>1, <2>2 DEF Later
  <2>. QED
    BY <2>3, <1>2, PostingIsPosting
<1>4. ASSUME NEW s \in Seq(Postings), NEW t,
             t = [u EXCEPT !.entries = {d}, !.step = "WRITE", !.todo = s],
             tx' = [tx EXCEPT ![p] = t],
             \/ s = u.todo /\ IsReversed(d)
             \/ Range(s) = {w} \cup Range(u.todo)
      PROVE  IInv'
  <2>1. /\ t.step = "WRITE" /\ t.job = u.job /\ t.rows = u.rows /\ t.entries = {d}
        /\ t.todo = s /\ t.writes = u.writes
    BY <1>0, <1>4 DEF Transactions
  <2>2. t \in Transactions
    BY <1>0, <1>2, <1>4 DEF Transactions
  <2>3. Plan(u) \subseteq Plan(t) /\ Plan(t) \subseteq Plan(u) \cup {w}
    BY <2>1, <1>4 DEF Plan
  <2>4. IsReversed(d) \/ w \in Plan(t)
    BY <2>1, <1>4 DEF Plan
  <2>5. \A v \in Plan(u) : ~FromDraft(v)
    BY <1>0, NoProcIsBoth DEF Sound, OfItsPlan
  <2>6. Sound(p, t)
    <3>1. Shaped(p, t)
      BY <2>1, NoProcIsBoth DEF Shaped
    <3>2. OfItsEvent(p, t)
      BY <1>0, <1>1, <2>1 DEF Sound, OfItsEvent
    <3>3. OfItsPlan(p, t)
      BY <1>0, <1>3, <2>1, <2>3, <2>5 DEF Sound, OfItsPlan, FromDraft
    <3>4. OfItsReplaced(p, t)
      BY <1>2, <1>3, <2>1, <2>4 DEF OfItsReplaced, IsLive
    <3>. QED
      BY <3>1, <3>2, <3>3, <3>4 DEF Sound
  <2>7. OutOfTheWay(t)
    BY <1>0, <2>1 DEF OutOfTheWay
  <2>8. ASSUME NEW q \in Procs, q # p PROVE Apart(t, tx[q])
    BY <1>0, <1>1, <2>1, <2>8 DEF LocksAreExclusive, Apart, EntryFree
  <2>. QED
    BY <1>0, <1>1, <1>4, <2>2, <2>6, <2>7, <2>8, TxStep
<1>5. CASE ~IsReversed(d)
  <2>. DEFINE s == <<w>> \o u.todo
  <2>1. u.todo \in Seq(Postings)
    BY <1>0 DEF Transactions
  <2>2. s \in Seq(Postings) /\ Range(s) = {w} \cup Range(u.todo)
    BY <1>3, <2>1, RangeOfPut
  <2>3. tx' = [tx EXCEPT ![p].entries = {d}, ![p].step = "WRITE", ![p].todo = s]
    BY <1>5 DEF ReverseReplaced
  <2>. HIDE DEF s
  <2>4. tx' = [tx EXCEPT ![p] = [u EXCEPT !.entries = {d}, !.step = "WRITE", !.todo = s]]
    BY <2>3, <1>0
  <2>. QED
    BY <1>4, <2>2, <2>4
<1>6. CASE IsReversed(d)
  <2>1. CASE MonthOf(d, "REVERSAL") = m
    <3>1. tx' = [tx EXCEPT ![p].entries = {d}, ![p].step = "WRITE"]
      BY <1>6, <2>1 DEF ReverseReplaced
    <3>2. u.todo \in Seq(Postings)
      BY <1>0 DEF Transactions
    <3>3. [u EXCEPT !.entries = {d}, !.step = "WRITE"]
            = [u EXCEPT !.entries = {d}, !.step = "WRITE", !.todo = u.todo]
      BY <1>0 DEF Transactions
    <3>4. tx' = [tx EXCEPT ![p] = [u EXCEPT !.entries = {d}, !.step = "WRITE", !.todo = u.todo]]
      BY <3>1, <3>3, <1>0
    <3>. QED
      BY <1>4, <1>6, <3>2, <3>4
  <2>2. CASE MonthOf(d, "REVERSAL") # m
    <3>1. Fails(p)
      BY <1>6, <2>2 DEF ReverseReplaced
    <3>. QED
      BY <3>1, <1>0, <1>1, FailsKeeps
  <2>. QED
    BY <2>1, <2>2
<1>. QED
  BY <1>5, <1>6

LEMMA BeginWritingKeeps ==
  ASSUME IInv, NEW p \in Desks, NEW x \in Entries, NEW m \in Months, NEW s \in Seq(Postings),
         BeginWriting(p, x, m, s),
         \A w \in Range(s) : w.part = "ENTRY" => w.entry = x /\ x \in Manuals /\ draft[x] = w.month
  PROVE  IInv'
<1>. DEFINE t == [Idle EXCEPT !.step = "WRITE", !.job = x, !.date = m, !.entries = {x}, !.todo = s]
<1>1. tx' = [tx EXCEPT ![p] = t] /\ OnlyTx /\ UNCHANGED trouble /\ EntryFree(x)
  BY DEF BeginWriting, OnlyTx
<1>2. p \in Procs /\ p \notin Workers
  BY NamesAssumption DEF Procs
<1>3. /\ t.step = "WRITE" /\ t.job = x /\ t.rows = {} /\ t.entries = {x}
      /\ t.todo = s /\ t.writes = {}
  BY DEF Idle
<1>4. t \in Transactions
  BY IdleIsTransaction DEF Transactions
<1>. HIDE DEF t
<1>5. Plan(t) = Range(s)
  BY <1>3 DEF Plan
<1>6. Sound(p, t)
  BY <1>2, <1>3, <1>5, NamesAssumption
     DEF Sound, Shaped, OfItsEvent, OfItsPlan, OfItsReplaced, FromDraft
<1>7. OutOfTheWay(t) /\ \A q \in Procs : Apart(t, tx[q])
  BY <1>1, <1>3 DEF OutOfTheWay, Apart, EntryFree
<1>. QED
  BY <1>1, <1>2, <1>4, <1>6, <1>7, TroubleKept, TxStep

LEMMA OfDeskKeeps ==
  ASSUME IInv, NEW p \in Desks, OfDesk(p)
  PROVE  IInv'
<1>1. ASSUME NEW x \in Manuals, PostDraft(p, x) PROVE IInv'
  <2>. DEFINE w == Posting(x, "ENTRY", draft[x])
  <2>1. draft[x] \in Months
    BY <1>1, BoundsAssumption DEF IInv, TypeOK, PostDraft, Months
  <2>2. x \in Entries /\ w \in Postings /\ w.entry = x /\ w.month = draft[x]
    BY <2>1, PostingIsPosting DEF Entries
  <2>3. BeginWriting(p, x, draft[x], <<w>>)
    BY <1>1 DEF PostDraft
  <2>. HIDE DEF w
  <2>4. <<w>> \in Seq(Postings) /\ Range(<<w>>) = {w}
    BY <2>2, RangeOfOne
  <2>. QED
    BY <2>1, <2>2, <2>3, <2>4, BeginWritingKeeps
<1>2. ASSUME NEW x \in Entries, NEW m \in Months, ReverseJournal(p, x, m) PROVE IInv'
  <2>. DEFINE w == Posting(x, "REVERSAL", m)
  <2>1. w \in Postings /\ w.part = "REVERSAL"
    BY PostingIsPosting
  <2>2. BeginWriting(p, x, m, <<w>>)
    BY <1>2 DEF ReverseJournal
  <2>. HIDE DEF w
  <2>3. <<w>> \in Seq(Postings) /\ Range(<<w>>) = {w}
    BY <2>1, RangeOfOne
  <2>. QED
    BY <2>1, <2>2, <2>3, BeginWritingKeeps
<1>3. ASSUME NEW x \in Entries, NEW m \in Months, CorrectJournal(p, x, m) PROVE IInv'
  <2>. DEFINE v == Posting(x, "REVERSAL", m)
              w == Posting(x, "CORRECTION", m)
              s == (IF IsReversed(x) THEN <<>> ELSE <<v>>) \o <<w>>
  <2>1. v \in Postings /\ v.part = "REVERSAL" /\ w \in Postings /\ w.part = "CORRECTION"
    BY PostingIsPosting
  <2>2. BeginWriting(p, x, m, s)
    BY <1>3 DEF CorrectJournal
  <2>. HIDE DEF v, w
  <2>3. <<w>> \in Seq(Postings) /\ Range(<<w>>) = {w}
    BY <2>1, RangeOfOne
  <2>4. s \in Seq(Postings) /\ Range(s) \subseteq {v, w}
    <3>1. CASE IsReversed(x)
      <4>1. s = <<>> \o <<w>> /\ <<>> \o <<w>> = <<w>>
        BY <3>1, <2>3, ConcatEmptySeq
      <4>. QED
        BY <4>1, <2>3
    <3>2. CASE ~IsReversed(x)
      <4>1. s = <<v>> \o <<w>>
        BY <3>2
      <4>2. <<v>> \o <<w>> \in Seq(Postings) /\ Range(<<v>> \o <<w>>) = {v} \cup Range(<<w>>)
        BY <2>1, <2>3, RangeOfPut
      <4>. QED
        BY <4>1, <4>2, <2>3
    <3>. QED
      BY <3>1, <3>2
  <2>. HIDE DEF s
  <2>5. \A z \in Range(s) : z.part # "ENTRY"
    BY <2>1, <2>4
  <2>. QED
    BY <2>2, <2>4, <2>5, BeginWritingKeeps
<1>. QED
  BY <1>1, <1>2, <1>3 DEF OfDesk

LEMMA WriteKeeps ==
  ASSUME IInv, NEW p \in Procs, Write(p)
  PROVE  IInv'
<1>. DEFINE u == tx[p]
            w == Head(u.todo)
            t == [u EXCEPT !.writes = u.writes \cup {w}, !.todo = Tail(u.todo)]
<1>0. tx \in [Procs -> Transactions] /\ u \in Transactions /\ Sound(p, u)
      /\ OutOfTheWay(u) /\ LocksAreExclusive /\ period \in [Months -> PeriodStatuses]
  BY DEF IInv, TypeOK
<1>1. OnlyTx /\ trouble' \in 0..MaxTrouble /\ u.step = "WRITE" /\ u.todo # <<>>
  BY TroubleKept DEF Write, OnlyTx
<1>2. CASE ~MayPost(w.month)
  <2>1. Fails(p)
    BY <1>2 DEF Write
  <2>. QED
    BY <2>1, <1>1, FailsKeeps
<1>3. CASE MayPost(w.month)
  <2>1. tx' = [tx EXCEPT ![p] = t]
    BY <1>0, <1>3 DEF Write
  <2>2. /\ u.todo \in Seq(Postings) /\ w \in Postings /\ w \in Range(u.todo)
        /\ Tail(u.todo) \in Seq(Postings) /\ Range(u.todo) = {w} \cup Range(Tail(u.todo))
    <3>1. u.todo \in Seq(Postings)
      BY <1>0 DEF Transactions
    <3>. QED
      BY <3>1, <1>1, RangeOfTail
  <2>3. FromDraft(w) \/ PeriodFree(w.month)
    BY DEF Write
  <2>4. period[w.month] = "OPEN"
    BY <1>0, <1>3, <2>2 DEF MayPost, PeriodStatuses, Postings
  <2>. HIDE DEF w
  <2>5. /\ t.step = u.step /\ t.job = u.job /\ t.rows = u.rows /\ t.entries = u.entries
        /\ t.todo = Tail(u.todo) /\ t.writes = u.writes \cup {w}
    BY <1>0 DEF Transactions
  <2>6. t \in Transactions
    BY <1>0, <2>2 DEF Transactions
  <2>. HIDE DEF t
  <2>7. Plan(t) = Plan(u)
    BY <2>2, <2>5 DEF Plan
  <2>8. Sound(p, t)
    <3>1. Shaped(p, t)
      BY <1>0, <1>1, <2>5 DEF Sound, Shaped
    <3>2. OfItsEvent(p, t)
      BY <1>0, <2>5 DEF Sound, OfItsEvent
    <3>3. OfItsPlan(p, t)
      BY <1>0, <2>4, <2>5, <2>7 DEF Sound, OfItsPlan
    <3>4. OfItsReplaced(p, t)
      BY <1>0, <2>5, <2>7 DEF Sound, OfItsReplaced
    <3>. QED
      BY <3>1, <3>2, <3>3, <3>4 DEF Sound
  <2>9. OutOfTheWay(t)
    BY <1>0, <2>3, <2>5 DEF OutOfTheWay, PeriodFree
  <2>10. ASSUME NEW q \in Procs, q # p PROVE Apart(t, tx[q])
    BY <1>0, <2>5, <2>10 DEF LocksAreExclusive, Apart
  <2>. QED
    BY <1>1, <2>1, <2>6, <2>8, <2>9, <2>10, TxStep
<1>. QED
  BY <1>2, <1>3

LEMMA CheckKeeps ==
  ASSUME IInv, NEW p \in Procs, Check(p)
  PROVE  IInv'
<1>. DEFINE u == tx[p]
            t == [u EXCEPT !.step = "CHECKED"]
<1>0. tx \in [Procs -> Transactions] /\ u \in Transactions /\ Sound(p, u)
      /\ OutOfTheWay(u) /\ LocksAreExclusive
  BY DEF IInv, TypeOK
<1>1. OnlyTx /\ trouble' \in 0..MaxTrouble /\ u.step = "WRITE" /\ u.todo = <<>>
  BY TroubleKept DEF Check, OnlyTx
<1>2. Fails(p) \/ tx' = [tx EXCEPT ![p] = t]
  BY <1>0 DEF Check
<1>3. /\ t.step = "CHECKED" /\ t.job = u.job /\ t.rows = u.rows /\ t.entries = u.entries
      /\ t.todo = u.todo /\ t.writes = u.writes
  BY <1>0 DEF Transactions
<1>4. t \in Transactions
  BY <1>0 DEF Transactions
<1>. HIDE DEF t
<1>5. Sound(p, t)
  BY <1>0, <1>1, <1>3 DEF Sound, Shaped, OfItsEvent, OfItsPlan, OfItsReplaced, Plan
<1>6. OutOfTheWay(t)
  BY <1>0, <1>3 DEF OutOfTheWay
<1>7. ASSUME NEW q \in Procs, q # p PROVE Apart(t, tx[q])
  BY <1>0, <1>3, <1>7 DEF LocksAreExclusive, Apart
<1>. QED
  BY <1>1, <1>2, <1>4, <1>5, <1>6, <1>7, TxStep, FailsKeeps

-----------------------------------------------------------------------------
(* The steps that change the rows. *)

\* A step that changes no transaction keeps them apart and of their shapes.
LEMMA SameTransactions ==
  ASSUME IInv, UNCHANGED tx PROVE LocksAreExclusive' /\ \A p \in Procs : Shaped(p, tx[p])'
  BY DEF IInv, Sound, LocksAreExclusive, Apart, Shaped

LEMMA RecordEventKeeps ==
  ASSUME IInv, NEW e \in Events, NEW m \in Months, RecordEvent(e, m)
  PROVE  IInv'
<1>1. UNCHANGED <<draft, posted, period, tx, closing, trouble>> /\ TypeOK
  BY DEF RecordEvent, IInv
<1>2. event \in [Events -> EventRows] /\ event' = [event EXCEPT ![e] = [status |-> "RECEIVED", month |-> m]]
  BY <1>1 DEF RecordEvent, TypeOK
<1>3. event'[e].status = "RECEIVED" /\ \A f \in Events : f # e => event'[f] = event[f]
  BY <1>2
<1>4. TypeOK'
  <2>1. [status |-> "RECEIVED", month |-> m] \in EventRows
    BY DEF EventRows, Pending
  <2>2. event' \in [Events -> EventRows]
    BY <1>2, <2>1
  <2>. QED
    BY <1>1, <2>2 DEF TypeOK
<1>5. ASSUME NEW p \in Procs PROVE (Sound(p, tx[p]) /\ OutOfTheWay(tx[p]))'
  <2>1. Sound(p, tx[p]) /\ OutOfTheWay(tx[p])
    BY DEF IInv
  <2>2. OfItsEvent(p, tx[p])'
    BY <1>1, <1>3, <2>1 DEF Sound, OfItsEvent, RecordEvent, Pending
  <2>3. OfItsPlan(p, tx[p])'
    BY <1>1, <2>1 DEF Sound, OfItsPlan, Plan, FromDraft
  <2>4. OfItsReplaced(p, tx[p])'
    BY <1>1, <2>1 DEF Sound, OfItsReplaced, Plan, IsLive, IsPosted, IsReversed, Has
  <2>5. OutOfTheWay(tx[p])'
    BY <1>1, <2>1 DEF OutOfTheWay, FromDraft
  <2>. QED
    BY <1>1, <2>2, <2>3, <2>4, <2>5, SameTransactions DEF Sound
<1>6. NoDraftsLeft'
  BY <1>1 DEF IInv, NoDraftsLeft
<1>7. RevisionsFollow'
  <2>. SUFFICES ASSUME NEW f \in Revisions, event'[f].status # "ABSENT"
                PROVE  event'[Replaces[f]].status # "ABSENT"
    BY DEF RevisionsFollow
  <2>1. f \in Events /\ Replaces[f] \in Events
    BY ReplacesAssumption
  <2>. QED
    BY <1>3, <2>1 DEF IInv, RevisionsFollow, RecordEvent
<1>8. ReplacedHasNoEffect'
  <2>. SUFFICES ASSUME NEW f \in Revisions, event'[f].status = "POSTED"
                PROVE  event'[Replaces[f]].status \in {"POSTED", "IGNORED"} /\ ~IsLive(Replaces[f])'
    BY DEF ReplacedHasNoEffect
  <2>1. f \in Events /\ Replaces[f] \in Events
    BY ReplacesAssumption
  <2>2. event[f].status = "POSTED"
    BY <1>3, <2>1
  <2>3. event[Replaces[f]].status \in {"POSTED", "IGNORED"} /\ ~IsLive(Replaces[f])
    BY <2>2 DEF IInv, ReplacedHasNoEffect
  <2>4. Replaces[f] # e
    BY <2>3 DEF RecordEvent
  <2>. QED
    BY <1>1, <1>3, <2>1, <2>3, <2>4 DEF IsLive, IsPosted, IsReversed, Has
<1>. QED
  BY <1>1, <1>4, <1>5, <1>6, <1>7, <1>8, SameTransactions DEF IInv

\* Marking: FAILED or as it was, and still to be processed if it was.
LEMMA MarkFailedKeeps ==
  ASSUME IInv, NEW p \in Workers, MarkFailed(p)
  PROVE  IInv'
<1>. DEFINE e == tx[p].job
<1>1. UNCHANGED <<draft, posted, period, closing, trouble>> /\ TypeOK /\ p \in Procs
      /\ tx \in [Procs -> Transactions] /\ tx' = [tx EXCEPT ![p] = Idle]
  BY DEF MarkFailed, IInv, TypeOK, Procs, End
<1>2. event \in [Events -> EventRows]
  BY <1>1 DEF TypeOK
<1>3. /\ event' \in [Events -> EventRows]
      /\ \A f \in Events :
           /\ event[f].status \in Pending <=> event'[f].status \in Pending
           /\ event[f].status \notin Pending => event'[f].status = event[f].status
  <2>1. CASE e \in Events /\ event[e].status \in Pending
    <3>1. event' = [event EXCEPT ![e].status = "FAILED"]
      BY <2>1 DEF MarkFailed
    <3>2. [event[e] EXCEPT !.status = "FAILED"] \in EventRows
          /\ [event[e] EXCEPT !.status = "FAILED"].status = "FAILED"
      BY <1>2, <2>1 DEF EventRows, Pending
    <3>3. event' = [event EXCEPT ![e] = [event[e] EXCEPT !.status = "FAILED"]]
      BY <3>1, <1>2
    <3>. QED
      BY <3>2, <3>3, <1>2, <2>1 DEF Pending
  <2>2. CASE ~(e \in Events /\ event[e].status \in Pending)
    <3>1. event' = event
      BY <2>2, <1>2 DEF MarkFailed
    <3>. QED
      BY <3>1, <1>2
  <2>. QED
    BY <2>1, <2>2
<1>4. TypeOK'
  <2>1. tx' \in [Procs -> Transactions]
    BY <1>1, IdleIsTransaction
  <2>. QED
    BY <1>1, <1>3, <2>1 DEF TypeOK
<1>5. ASSUME NEW q \in Procs PROVE (Sound(q, tx[q]) /\ OutOfTheWay(tx[q]))'
  <2>1. Sound(q, tx'[q]) /\ OutOfTheWay(tx'[q])
    <3>1. CASE q = p
      <4>1. tx'[q] = Idle
        BY <3>1, <1>1
      <4>. QED
        BY <4>1, NothingOpen DEF Idle
    <3>2. CASE q # p
      BY <3>2, <1>1 DEF IInv
    <3>. QED
      BY <3>1, <3>2
  <2>2. ASSUME NEW t, t = tx'[q] PROVE (Sound(q, tx[q]) /\ OutOfTheWay(tx[q]))'
    <3>1. Sound(q, t) /\ OutOfTheWay(t)
      BY <2>1, <2>2
    <3>2. OfItsEvent(q, tx[q])'
      BY <1>3, <2>2, <3>1 DEF Sound, OfItsEvent
    <3>3. OfItsPlan(q, tx[q])'
      BY <1>1, <2>2, <3>1 DEF Sound, OfItsPlan, Plan, FromDraft
    <3>4. OfItsReplaced(q, tx[q])'
      BY <1>1, <2>2, <3>1 DEF Sound, OfItsReplaced, Plan, IsLive, IsPosted, IsReversed, Has
    <3>5. OutOfTheWay(tx[q])'
      BY <1>1, <2>2, <3>1 DEF OutOfTheWay, FromDraft
    <3>6. Shaped(q, tx[q])'
      BY <2>2, <3>1 DEF Sound, Shaped
    <3>. QED
      BY <3>2, <3>3, <3>4, <3>5, <3>6 DEF Sound
  <2>. QED
    BY <2>2
<1>6. LocksAreExclusive'
  BY <1>1 DEF IInv, LocksAreExclusive, Apart, Idle
<1>7. NoDraftsLeft'
  BY <1>1 DEF IInv, NoDraftsLeft
<1>8. RevisionsFollow'
  BY <1>3, ReplacesAssumption DEF IInv, RevisionsFollow, Pending
<1>9. ReplacedHasNoEffect'
  BY <1>1, <1>3, ReplacesAssumption
     DEF IInv, ReplacedHasNoEffect, Pending, IsLive, IsPosted, IsReversed, Has
<1>. QED
  BY <1>4, <1>5, <1>6, <1>7, <1>8, <1>9 DEF IInv

\* A draft moves, comes or goes only while no transaction is posting it.
LEMMA DraftKeeps ==
  ASSUME IInv, NEW x \in Manuals, NEW m \in 0..Last,
         draft' = [draft EXCEPT ![x] = m], UNCHANGED <<event, posted, period, tx, closing, trouble>>,
         draft[x] = 0 \/ EntryFree(x), m = 0 \/ PeriodFree(m)
  PROVE  IInv'
<1>1. TypeOK /\ draft \in [Manuals -> 0..Last] /\ tx \in [Procs -> Transactions]
  BY DEF IInv, TypeOK
<1>2. draft' \in [Manuals -> 0..Last] /\ draft'[x] = m
      /\ \A y \in Manuals : y # x => draft'[y] = draft[y]
  BY <1>1
<1>3. TypeOK'
  BY <1>1, <1>2 DEF TypeOK
<1>4. ASSUME NEW p \in Procs, NEW w \in Plan(tx[p]), FromDraft(w) PROVE w.entry # x
  <2>1. w \in Postings
    <3>1. tx[p] \in Transactions
      BY <1>1
    <3>2. tx[p].todo \in Seq(Postings) /\ tx[p].writes \subseteq Postings
      BY <3>1 DEF Transactions
    <3>. QED
      BY <3>2, RangeOfSeq DEF Plan
  <2>2. w.month \in Months /\ w.entry \in tx[p].entries /\ draft[w.entry] = w.month
    BY <1>4, <2>1 DEF Postings, IInv, Sound, OfItsPlan
  <2>. QED
    BY <2>2, BoundsAssumption DEF EntryFree, Months
<1>5. ASSUME NEW p \in Procs PROVE (Sound(p, tx[p]) /\ OutOfTheWay(tx[p]))'
  <2>1. Sound(p, tx[p]) /\ OutOfTheWay(tx[p])
    BY DEF IInv
  <2>2. OfItsEvent(p, tx[p])'
    BY <2>1 DEF Sound, OfItsEvent
  <2>3. ASSUME NEW w \in Plan(tx[p]), FromDraft(w) PROVE draft'[w.entry] = draft[w.entry]
    BY <1>2, <1>4, <2>3 DEF FromDraft
  <2>4. OfItsPlan(p, tx[p])'
    BY <2>1, <2>3 DEF Sound, OfItsPlan, Plan, FromDraft
  <2>5. OfItsReplaced(p, tx[p])'
    BY <2>1 DEF Sound, OfItsReplaced, Plan, IsLive, IsPosted, IsReversed, Has
  <2>6. OutOfTheWay(tx[p])'
    BY <2>1 DEF OutOfTheWay, FromDraft
  <2>. QED
    BY <2>2, <2>4, <2>5, <2>6, SameTransactions DEF Sound
<1>6. NoDraftsLeft'
  <2>. SUFFICES ASSUME closing.step = "COUNTED", period[closing.month] = "OPEN", NEW y \in Manuals
                PROVE  draft'[y] # closing.month
    BY DEF NoDraftsLeft
  <2>1. draft[y] # closing.month
    BY DEF IInv, NoDraftsLeft
  <2>2. closing.month \in Months
    BY <1>1 DEF TypeOK, Closings
  <2>. QED
    BY <1>2, <2>1, <2>2, BoundsAssumption DEF PeriodFree, Months
<1>7. RevisionsFollow' /\ ReplacedHasNoEffect'
  BY DEF IInv, RevisionsFollow, ReplacedHasNoEffect, IsLive, IsPosted, IsReversed, Has
<1>. QED
  BY <1>3, <1>5, <1>6, <1>7, SameTransactions DEF IInv

LEMMA OfDraftsKeeps == IInv /\ OfDrafts => IInv'
<1>. SUFFICES ASSUME IInv, OfDrafts PROVE IInv'
  OBVIOUS
<1>1. ASSUME NEW x \in Manuals, NEW m \in Months, CreateDraft(x, m) \/ MoveDraft(x, m) PROVE IInv'
  <2>1. m \in 0..Last
    BY BoundsAssumption DEF Months
  <2>. QED
    BY <1>1, <2>1, DraftKeeps DEF CreateDraft, MoveDraft
<1>2. ASSUME NEW x \in Manuals, DeleteDraft(x) PROVE IInv'
  <2>1. 0 \in 0..Last
    BY BoundsAssumption
  <2>. QED
    BY <1>2, <2>1, DraftKeeps DEF DeleteDraft
<1>. QED
  BY <1>1, <1>2 DEF OfDrafts

\* A period changes while its row is locked: no share in it is held, and if it
\* closes there is no draft to post in it.
LEMMA OfPeriodsKeeps == IInv /\ OfPeriods => IInv'
<1>. SUFFICES ASSUME IInv, OfPeriods PROVE IInv'
  OBVIOUS
<1>1. UNCHANGED <<event, draft, posted, tx>> /\ TypeOK /\ tx \in [Procs -> Transactions]
  BY DEF OfPeriods, LockPeriod, CountDrafts, ChangePeriod, IInv, TypeOK
<1>2. TypeOK'
  <2>1. ASSUME NEW m \in Months, LockPeriod(m) PROVE TypeOK'
    <3>1. closing' \in Closings /\ trouble' \in 0..MaxTrouble /\ UNCHANGED period
      BY <1>1, <2>1, BoundsAssumption DEF LockPeriod, Closings, TypeOK
    <3>. QED
      BY <1>1, <3>1 DEF TypeOK
  <2>2. ASSUME CountDrafts PROVE TypeOK'
    <3>1. NoClosing \in Closings /\ [closing EXCEPT !.step = "COUNTED"] \in Closings
      BY <1>1, LastIsAMonth DEF TypeOK, Closings, NoClosing
    <3>2. closing' \in Closings /\ UNCHANGED <<period, trouble>>
      BY <2>2, <3>1 DEF CountDrafts
    <3>. QED
      BY <1>1, <3>2 DEF TypeOK
  <2>3. ASSUME ChangePeriod PROVE TypeOK'
    <3>1. NoClosing \in Closings
      BY LastIsAMonth DEF Closings, NoClosing
    <3>2. period' \in [Months -> PeriodStatuses] /\ closing' \in Closings /\ UNCHANGED trouble
      BY <1>1, <2>3, <3>1 DEF ChangePeriod, Toggled, PeriodStatuses, TypeOK
    <3>. QED
      BY <1>1, <3>2 DEF TypeOK
  <2>. QED
    BY <2>1, <2>2, <2>3 DEF OfPeriods
<1>3. ASSUME NEW p \in Procs PROVE OutOfTheWay(tx[p])'
  <2>1. OutOfTheWay(tx[p])
    BY DEF IInv
  <2>2. ASSUME NEW m \in Months, LockPeriod(m) PROVE OutOfTheWay(tx[p])'
    <3>. SUFFICES ASSUME NEW w \in tx[p].writes, ~FromDraft(w) PROVE w.month # m
      BY <1>1, <2>2 DEF OutOfTheWay, LockPeriod, FromDraft
    <3>. QED
      BY <2>2 DEF LockPeriod, Shares
  <2>3. ASSUME CountDrafts \/ ChangePeriod PROVE OutOfTheWay(tx[p])'
    <3>1. closing'.step # "IDLE" => closing.step # "IDLE" /\ closing'.month = closing.month
      BY <1>1, <2>3 DEF CountDrafts, ChangePeriod, NoClosing, TypeOK, Closings
    <3>. QED
      BY <1>1, <2>1, <3>1 DEF OutOfTheWay, FromDraft
  <2>. QED
    BY <2>2, <2>3 DEF OfPeriods
<1>4. ASSUME NEW p \in Procs, NEW w \in tx[p].writes PROVE period'[w.month] = "OPEN"
  <2>1. period[w.month] = "OPEN"
    BY DEF IInv, Sound, OfItsPlan
  <2>2. ASSUME ChangePeriod, w.month = closing.month PROVE FALSE
    <3>1. FromDraft(w)
      BY <2>2 DEF IInv, OutOfTheWay, ChangePeriod
    <3>2. draft[w.entry] = w.month /\ w.entry \in Manuals
      BY <3>1 DEF IInv, Sound, OfItsPlan, Plan, FromDraft
    <3>. QED
      BY <2>1, <2>2, <3>2 DEF IInv, NoDraftsLeft, ChangePeriod
  <2>3. ASSUME ChangePeriod, w.month # closing.month PROVE period'[w.month] = period[w.month]
    BY <1>1, <2>3 DEF ChangePeriod, TypeOK
  <2>4. ~ChangePeriod => period' = period
    BY DEF OfPeriods, LockPeriod, CountDrafts
  <2>. QED
    BY <2>1, <2>2, <2>3, <2>4
<1>5. ASSUME NEW p \in Procs PROVE Sound(p, tx[p])'
  <2>1. Sound(p, tx[p])
    BY DEF IInv
  <2>2. OfItsEvent(p, tx[p])'
    BY <1>1, <2>1 DEF Sound, OfItsEvent
  <2>3. OfItsPlan(p, tx[p])'
    BY <1>1, <1>4, <2>1 DEF Sound, OfItsPlan, Plan, FromDraft
  <2>4. OfItsReplaced(p, tx[p])'
    BY <1>1, <2>1 DEF Sound, OfItsReplaced, Plan, IsLive, IsPosted, IsReversed, Has
  <2>. QED
    BY <1>1, <2>2, <2>3, <2>4, SameTransactions DEF Sound
<1>6. NoDraftsLeft'
  <2>1. CASE CountDrafts
    <3>1. CASE closing'.step = "COUNTED"
      <4>1. closing.step = "LOCKED" /\ closing' = [closing EXCEPT !.step = "COUNTED"]
            /\ ~(period[closing.month] = "OPEN" /\ DraftsIn(closing.month) # {}) /\ UNCHANGED period
        BY <2>1, <3>1 DEF CountDrafts, NoClosing
      <4>2. closing'.month = closing.month
        BY <4>1, <1>1 DEF TypeOK, Closings
      <4>. QED
        BY <1>1, <4>1, <4>2 DEF NoDraftsLeft, DraftsIn
    <3>2. CASE closing'.step # "COUNTED"
      BY <3>2 DEF NoDraftsLeft
    <3>. QED
      BY <3>1, <3>2
  <2>2. CASE ~CountDrafts
    <3>1. closing'.step # "COUNTED"
      BY <2>2 DEF OfPeriods, LockPeriod, ChangePeriod, NoClosing
    <3>. QED
      BY <3>1 DEF NoDraftsLeft
  <2>. QED
    BY <2>1, <2>2
<1>7. RevisionsFollow' /\ ReplacedHasNoEffect'
  BY <1>1 DEF IInv, RevisionsFollow, ReplacedHasNoEffect, IsLive, IsPosted, IsReversed, Has
<1>. QED
  BY <1>1, <1>2, <1>3, <1>5, <1>6, <1>7, SameTransactions DEF IInv

\* A commit: its journals are in the books, its draft is one no more, and the events
\* it has locked are settled.
LEMMA CommitKeeps ==
  ASSUME IInv, NEW p \in Procs, Commit(p)
  PROVE  IInv'
<1>. DEFINE u == tx[p]
<1>0. /\ TypeOK /\ tx \in [Procs -> Transactions] /\ u \in Transactions
      /\ event \in [Events -> EventRows] /\ draft \in [Manuals -> 0..Last] /\ LocksAreExclusive
      /\ Sound(p, u) /\ u.step = "CHECKED" /\ UNCHANGED <<period, closing, trouble>>
      /\ tx' = [tx EXCEPT ![p] = Idle] /\ posted' = posted \cup u.writes
  BY DEF Commit, End, IInv, TypeOK
<1>1. Plan(u) = u.writes /\ u.writes \subseteq Postings /\ u.rows \subseteq Events
  BY <1>0, RangeOfNone DEF Sound, Shaped, Plan, Transactions
<1>2. ASSUME u.rows # {} PROVE p \in Workers /\ u.job \in u.rows /\ u.job \in Events /\ event[u.job].status \in Pending
  BY <1>0, <1>2 DEF Sound, Shaped, OfItsEvent, Procs
<1>3. ASSUME NEW w \in u.writes, w.part = "ENTRY", w.entry \in Events
      PROVE  w.entry = u.job /\ u.job \in u.rows
  BY <1>0, <1>1, <1>3 DEF Sound, OfItsPlan, OfItsEvent
<1>4. \A e \in Events :
        /\ e \notin u.rows => event'[e] = event[e]
        /\ e \in u.rows => event'[e] = [event[e] EXCEPT !.status = Settled(p, e)]
  BY DEF Commit
<1>5. ASSUME NEW e \in Events
      PROVE  /\ event'[e] \in EventRows
             /\ e \in u.rows => event'[e].status = Settled(p, e)
  <2>1. Settled(p, e) \in {"ABSENT", "POSTED", "IGNORED"} \cup Pending
    BY <1>0 DEF Settled, EventRows
  <2>2. event[e] \in EventRows
    BY <1>0
  <2>. QED
    BY <1>4, <2>1, <2>2 DEF EventRows
<1>6. ASSUME NEW x \in Manuals
      PROVE  \/ draft'[x] = draft[x]
             \/ draft'[x] = 0 /\ \E w \in u.writes : FromDraft(w) /\ w.entry = x
  BY DEF Commit
<1>7. TypeOK'
  <2>1. event' \in [Events -> EventRows]
    <3>1. event' = [e \in Events |-> event'[e]]
      BY DEF Commit
    <3>. QED
      BY <3>1, <1>5
  <2>2. draft' \in [Manuals -> 0..Last]
    <3>1. draft' = [x \in Manuals |-> draft'[x]]
      BY DEF Commit
    <3>2. 0 \in 0..Last
      BY BoundsAssumption
    <3>. QED
      BY <3>1, <3>2, <1>0, <1>6
  <2>3. posted' \subseteq Postings /\ tx' \in [Procs -> Transactions]
    BY <1>0, <1>1, IdleIsTransaction DEF TypeOK
  <2>. QED
    BY <1>0, <2>1, <2>2, <2>3 DEF TypeOK
<1>8. ASSUME NEW d \in Events, IsLive(d)' PROVE IsLive(d) \/ (d = u.job /\ d \in u.rows)
  <2>1. PICK w \in posted' : w.entry = d /\ w.part = "ENTRY"
    BY <1>8 DEF IsLive, IsPosted, Has
  <2>2. ~IsReversed(d)
    BY <1>0, <1>8 DEF IsLive, IsReversed, Has
  <2>3. CASE w \in posted
    BY <2>1, <2>2, <2>3 DEF IsLive, IsPosted, Has
  <2>4. CASE w \in u.writes
    BY <2>1, <2>4, <1>3
  <2>. QED
    BY <2>3, <2>4, <1>0
<1>9. ASSUME NEW q \in Procs PROVE (Sound(q, tx[q]) /\ OutOfTheWay(tx[q]))'
  <2>1. CASE q = p
    <3>1. tx'[q] = Idle
      BY <2>1, <1>0
    <3>2. ASSUME NEW t, t = tx'[q] PROVE (Sound(q, tx[q]) /\ OutOfTheWay(tx[q]))'
      <4>1. t.step = "IDLE" /\ t.rows = {} /\ t.entries = {} /\ t.todo = <<>> /\ t.writes = {}
        BY <3>1, <3>2 DEF Idle
      <4>2. Plan(tx[q])' = {}
        BY <3>2, <4>1, RangeOfNone DEF Plan
      <4>. QED
        BY <3>2, <4>1, <4>2 DEF Sound, Shaped, OfItsEvent, OfItsPlan, OfItsReplaced, OutOfTheWay
    <3>. QED
      BY <3>2
  <2>2. CASE q # p
    <3>. DEFINE t == tx[q]
    <3>1. /\ tx'[q] = t /\ Sound(q, t) /\ OutOfTheWay(t)
          /\ t.rows \cap u.rows = {} /\ t.entries \cap u.entries = {}
      BY <2>2, <1>0 DEF IInv, LocksAreExclusive, Apart
    <3>2. OfItsEvent(q, tx[q])'
      BY <3>1, <1>4 DEF Sound, OfItsEvent
    <3>3. ASSUME NEW w \in Plan(t), FromDraft(w) PROVE draft'[w.entry] = draft[w.entry]
      <4>1. w.entry \in t.entries /\ w.entry \in Manuals
        BY <3>1, <3>3 DEF Sound, OfItsPlan, FromDraft
      <4>2. ASSUME NEW v \in u.writes, FromDraft(v) PROVE v.entry \in u.entries
        BY <1>0, <1>1, <4>2 DEF Sound, OfItsPlan
      <4>. QED
        BY <3>1, <4>1, <4>2, <1>6
    <3>4. OfItsPlan(q, tx[q])'
      BY <1>0, <3>1, <3>3 DEF Sound, OfItsPlan, Plan, FromDraft
    <3>5. OfItsReplaced(q, tx[q])'
      <4>1. IsPosted(Replaces[t.job]) => IsPosted(Replaces[t.job])'
        BY <1>0, <3>1 DEF IsPosted, Has
      <4>2. ASSUME q \in Workers, t.job \in Revisions, t.step \in {"WRITE", "CHECKED"},
                   IsLive(Replaces[tx[q].job])'
            PROVE  \E w \in Plan(t) : w.entry = Replaces[t.job] /\ w.part = "REVERSAL"
        <5>1. Replaces[t.job] \in Events /\ Replaces[t.job] \in t.rows
          BY <3>1, <4>2, ReplacesAssumption DEF Sound, OfItsReplaced
        <5>2. IsLive(Replaces[t.job])'
          BY <4>2, <3>1
        <5>3. IsLive(Replaces[t.job])
          <6>1. ASSUME NEW d \in Events, d = Replaces[t.job], IsLive(d)' PROVE IsLive(d)
            BY <1>8, <3>1, <5>1, <6>1
          <6>2. ASSUME NEW d \in Events, d = Replaces[t.job] PROVE IsLive(d)'
            BY <5>2, <3>1, <6>2 DEF IsLive, IsPosted, IsReversed, Has
          <6>. QED
            BY <5>1, <6>1, <6>2
        <5>. QED
          BY <3>1, <4>2, <5>3 DEF Sound, OfItsReplaced
      <4>. QED
        BY <3>1, <4>1, <4>2 DEF Sound, OfItsReplaced, Plan
    <3>6. OutOfTheWay(tx[q])' /\ Shaped(q, tx[q])'
      BY <1>0, <3>1 DEF Sound, Shaped, OutOfTheWay, FromDraft
    <3>. QED
      BY <3>2, <3>4, <3>5, <3>6 DEF Sound
  <2>. QED
    BY <2>1, <2>2
<1>10. LocksAreExclusive'
  BY <1>0 DEF LocksAreExclusive, Apart, Idle
<1>11. NoDraftsLeft'
  <2>. SUFFICES ASSUME closing.step = "COUNTED", period[closing.month] = "OPEN", NEW y \in Manuals
                PROVE  draft'[y] # closing.month
    BY <1>0 DEF NoDraftsLeft
  <2>1. draft[y] # closing.month
    BY DEF IInv, NoDraftsLeft
  <2>2. closing.month \in Months /\ 0 \notin Months
    BY <1>0, BoundsAssumption DEF TypeOK, Closings, Months
  <2>. QED
    BY <1>6, <2>1, <2>2
<1>12. ASSUME NEW e \in Events
       PROVE  /\ event[e].status # "ABSENT" => event'[e].status # "ABSENT"
              /\ event'[e].status # "ABSENT" => event[e].status # "ABSENT"
              /\ event[e].status \in {"POSTED", "IGNORED"} => event'[e].status = event[e].status
              /\ event'[e].status = "POSTED" => event[e].status = "POSTED" \/ (e = u.job /\ e \in u.rows)
              /\ e \in u.rows /\ event[e].status # "ABSENT" => event'[e].status \in {"POSTED", "IGNORED"}
  <2>1. CASE e \notin u.rows
    BY <2>1, <1>4
  <2>2. CASE e \in u.rows
    <3>1. event'[e].status = Settled(p, e) /\ event[e].status \in {"ABSENT", "POSTED", "IGNORED"} \cup Pending
      BY <2>2, <1>0, <1>5 DEF EventRows
    <3>2. event[u.job].status \in Pending
      BY <2>2, <1>2
    <3>. QED
      BY <2>2, <3>1, <3>2 DEF Settled, Pending
  <2>. QED
    BY <2>1, <2>2
<1>13. RevisionsFollow'
  BY <1>12, ReplacesAssumption DEF IInv, RevisionsFollow
<1>14. ReplacedHasNoEffect'
  <2>. SUFFICES ASSUME NEW f \in Revisions, event'[f].status = "POSTED"
                PROVE  event'[Replaces[f]].status \in {"POSTED", "IGNORED"} /\ ~IsLive(Replaces[f])'
    BY DEF ReplacedHasNoEffect
  <2>. DEFINE d == Replaces[f]
  <2>1. f \in Events /\ d \in Events /\ d # f
    BY ReplacesAssumption
  <2>2. CASE event[f].status = "POSTED"
    <3>1. event[d].status \in {"POSTED", "IGNORED"} /\ ~IsLive(d)
      BY <2>2 DEF IInv, ReplacedHasNoEffect
    <3>2. ~(d = u.job /\ d \in u.rows)
      BY <3>1, <1>2 DEF Pending
    <3>. QED
      BY <2>1, <3>1, <3>2, <1>8, <1>12
  <2>3. CASE f = u.job /\ f \in u.rows
    <3>1. p \in Workers /\ event[f].status \in Pending
      BY <2>3, <1>2
    <3>2. d \in u.rows /\ event[d].status # "ABSENT"
      BY <2>3, <3>1, <1>0 DEF IInv, RevisionsFollow, Sound, OfItsReplaced, Pending
    <3>3. ~IsLive(d)'
      <4>1. CASE IsLive(d)
        <5>1. PICK w \in u.writes : w.entry = d /\ w.part = "REVERSAL"
          BY <2>3, <3>1, <4>1, <1>0, <1>1 DEF Sound, OfItsReplaced
        <5>. QED
          BY <5>1, <1>0 DEF IsLive, IsReversed, Has
      <4>2. CASE ~IsLive(d)
        BY <2>1, <2>3, <4>2, <1>8
      <4>. QED
        BY <4>1, <4>2
    <3>. QED
      BY <2>1, <3>2, <3>3, <1>12
  <2>. QED
    BY <2>1, <2>2, <2>3, <1>12
<1>. QED
  BY <1>7, <1>9, <1>10, <1>11, <1>13, <1>14 DEF IInv

-----------------------------------------------------------------------------
LEMMA InitInv == Init => IInv
<1>. SUFFICES ASSUME Init PROVE IInv
  OBVIOUS
<1>1. TypeOK
  <2>1. /\ [status |-> "ABSENT", month |-> 1] \in EventRows /\ 0 \in 0..Last /\ 0 \in 0..MaxTrouble
        /\ NoClosing \in Closings
    BY LastIsAMonth, BoundsAssumption DEF EventRows, Closings, NoClosing
  <2>. QED
    BY <2>1, IdleIsTransaction DEF Init, TypeOK
<1>2. ASSUME NEW p \in Procs PROVE Sound(p, tx[p]) /\ OutOfTheWay(tx[p])
  <2>1. tx[p] = Idle
    BY DEF Init
  <2>. QED
    BY <2>1, NothingOpen DEF Idle
<1>3. LocksAreExclusive
  BY DEF Init, LocksAreExclusive, Apart, Idle
<1>4. NoDraftsLeft
  BY DEF Init, NoDraftsLeft, NoClosing
<1>5. RevisionsFollow /\ ReplacedHasNoEffect
  BY ReplacesAssumption DEF Init, RevisionsFollow, ReplacedHasNoEffect
<1>. QED
  BY <1>1, <1>2, <1>3, <1>4, <1>5 DEF IInv

LEMMA StutterKeeps == IInv /\ UNCHANGED vars => IInv'
<1>. SUFFICES ASSUME IInv, UNCHANGED vars PROVE IInv'
  OBVIOUS
<1>1. UNCHANGED <<event, draft, posted, period, tx, closing, trouble>>
  BY DEF vars
<1>2. ASSUME NEW p \in Procs PROVE (Sound(p, tx[p]) /\ OutOfTheWay(tx[p]))'
  BY <1>1, SoundIsKept DEF IInv, OnlyTx
<1>3. TypeOK'
  BY <1>1 DEF IInv, TypeOK
<1>4. NoDraftsLeft' /\ RevisionsFollow'
  BY <1>1 DEF IInv, NoDraftsLeft, RevisionsFollow
<1>5. ReplacedHasNoEffect'
  BY <1>1 DEF IInv, ReplacedHasNoEffect, IsLive, IsPosted, IsReversed, Has
<1>. QED
  BY <1>1, <1>2, <1>3, <1>4, <1>5, SameTransactions DEF IInv

LEMMA NextKeeps == IInv /\ Next => IInv'
<1>. SUFFICES ASSUME IInv, Next PROVE IInv'
  OBVIOUS
<1>1. ASSUME NEW p \in Workers, OfWorker(p) PROVE IInv'
  BY <1>1, BeginEventKeeps, LockReplacedKeeps, ReverseReplacedKeeps, MarkFailedKeeps DEF OfWorker
<1>2. ASSUME NEW p \in Procs, Posts(p) PROVE IInv'
  BY <1>2, WriteKeeps, CheckKeeps, CommitKeeps DEF Posts
<1>. QED
  BY <1>1, <1>2, RecordEventKeeps, OfDeskKeeps, BreaksKeeps, OfDraftsKeeps, OfPeriodsKeeps DEF Next

LEMMA Invariant == Spec => []IInv
<1>1. IInv /\ [Next]_vars => IInv'
  BY NextKeeps, StutterKeeps
<1>. QED
  BY InitInv, <1>1, PTL DEF Spec

(* Rows, transactions and the closer's step keep their shapes.               *)
THEOREM TypeCorrect == Spec => []TypeOK
<1>1. IInv => TypeOK
  BY DEF IInv
<1>. QED
  BY Invariant, <1>1, PTL

(* A revision that has posted leaves nothing of the event it replaces, for   *)
(* any chain of revisions and any number of workers and staff: the event's   *)
(* row is locked before its journal is read, the reversal of a live journal  *)
(* is in the same transaction, and only the event's own worker can make a    *)
(* journal of it live.                                                       *)
THEOREM ReplacedSettled == Spec => []ReplacedHasNoEffect
<1>1. IInv => ReplacedHasNoEffect
  BY DEF IInv
<1>. QED
  BY Invariant, <1>1, PTL

(* No journal is committed into a closed month, for any number of months,    *)
(* closers' changes and posts: what is written and not yet committed stays   *)
(* in open months, because an inserted journal holds its period's row and a  *)
(* posted draft is a draft until it commits.                                 *)
THEOREM ClosedMonthsHold == Spec => NothingIntoClosedMonth
<1>1. IInv /\ [Next]_vars => [\A w \in posted' \ posted : period[w.month] # "CLOSED"]_vars
  <2>. SUFFICES ASSUME IInv, Next, NEW w \in posted' \ posted PROVE period[w.month] # "CLOSED"
    OBVIOUS
  <2>1. PICK p \in Procs : Commit(p)
    BY ZenonT(40) DEF Next, OfWorker, OfDesk, Posts, OfDrafts, OfPeriods, RecordEvent, BeginEvent, LockReplaced,
           ReverseReplaced, MarkFailed, PostDraft, ReverseJournal, CorrectJournal, BeginWriting,
           Write, Check, Breaks, Dies, CreateDraft, MoveDraft, DeleteDraft, LockPeriod,
           CountDrafts, ChangePeriod
  <2>2. w \in tx[p].writes
    BY <2>1 DEF Commit
  <2>3. period[w.month] = "OPEN"
    BY <2>2 DEF IInv, Sound, OfItsPlan
  <2>. QED
    BY <2>3
<1>. QED
  BY Invariant, <1>1, PTL DEF Spec, NothingIntoClosedMonth
=============================================================================
