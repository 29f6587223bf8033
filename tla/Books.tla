-------------------------------- MODULE Books --------------------------------
(***************************************************************************)
(* The books: domain/finance/events.service.ts, journal.service.ts and     *)
(* periods.service.ts, with the triggers of prisma/migrations.             *)
(*                                                                         *)
(* Workers turn recorded financial events into journals, staff draft,      *)
(* post, reverse and correct journals, and a period closer closes months.  *)
(* Each does it in a transaction of several statements, under READ         *)
(* COMMITTED and the row locks it takes; an action is one statement that   *)
(* reads, waits or writes what another transaction can change, or a whole  *)
(* transaction where its locks make it one step.                           *)
(*                                                                         *)
(* An entry is known by what it was made for (an event or a manual draft)  *)
(* and can be reversed and corrected once. Dates are months, one day in    *)
(* each; a month without a period row is OPEN, and so is a SOFT_CLOSED one *)
(* (which of the staff may post there is a matter of permission); the last *)
(* month stands for all that follow and is never closed. Every event moves *)
(* an amount unless it is a void, and has its posting rule. A correction   *)
(* is not itself reversed or corrected.                                    *)
(***************************************************************************)
EXTENDS Integers, Sequences

CONSTANTS
  Events,      \* financial events
  Replaces,    \* Revisions -> Events: payload.supersedes
  Voids,       \* the revisions that withdraw their fact (payload.void)
  Manuals,     \* journals staff draft
  Workers,     \* outbox workers and retries
  Desks,       \* calls of staff
  Last,        \* the last month
  None,        \* no event, no journal
  MaxTrouble   \* bound: failures, crashes and changes of a period

Revisions == DOMAIN Replaces
Entries == Events \cup Manuals
Procs == Workers \cup Desks
Months == 1..Last

ASSUME ReplacesAssumption ==
  /\ Revisions \subseteq Events /\ Voids \subseteq Revisions
  /\ Replaces \in [Revisions -> Events] /\ \A e \in Revisions : Replaces[e] # e
ASSUME NamesAssumption == Events \cap Manuals = {} /\ Workers \cap Desks = {} /\ None \notin Entries
ASSUME BoundsAssumption == Last \in Nat \ {0} /\ MaxTrouble \in Nat

VARIABLES
  event,     \* Events -> the FinancialEvent row
  draft,     \* Manuals -> the month of its DRAFT row, 0 for no draft
  posted,    \* the POSTED journals
  period,    \* Months -> the FinancialPeriod's status
  tx,        \* Procs -> the open transaction of a worker or of staff
  closing,   \* the open transaction that changes a period
  trouble    \* bound: failures, crashes and changes of a period so far

vars == <<event, draft, posted, period, tx, closing, trouble>>

\* A journal: the entry it belongs to, which part of it, and its date.
Postings ==
  [entry : Entries, part : {"ENTRY", "REVERSAL", "CORRECTION"}, month : Months]
Posting(x, part, m) == [entry |-> x, part |-> part, month |-> m]

Pending == {"RECEIVED", "FAILED"}
EventRows == [status : {"ABSENT", "POSTED", "IGNORED"} \cup Pending, month : Months]

\* job, date: what the transaction is for, and the day it posts on. rows, entries:
\* the events and journals it has locked. todo: the journals it is still to write,
\* in their order; writes: those it has written.
Transactions ==
  [step : {"IDLE", "SUPERSEDE", "REVERSE", "WRITE", "CHECKED", "MARK"},
   job : Entries \cup {None}, date : Months, rows : SUBSET Events,
   entries : SUBSET Entries, todo : Seq(Postings), writes : SUBSET Postings]
Idle ==
  [step |-> "IDLE", job |-> None, date |-> 1, rows |-> {},
   entries |-> {}, todo |-> <<>>, writes |-> {}]

PeriodStatuses == {"OPEN", "CLOSED"}
Closings == [step : {"IDLE", "LOCKED", "COUNTED"}, month : Months]
NoClosing == [step |-> "IDLE", month |-> 1]

Init ==
  /\ event = [e \in Events |-> [status |-> "ABSENT", month |-> 1]]
  /\ draft = [x \in Manuals |-> 0]
  /\ posted = {}
  /\ period \in [Months -> PeriodStatuses] /\ period[Last] = "OPEN"
  /\ tx = [p \in Procs |-> Idle]
  /\ closing = NoClosing
  /\ trouble = 0

-----------------------------------------------------------------------------
(* What the statements read, and the locks they wait for. *)

Has(x, part) == \E w \in posted : w.entry = x /\ w.part = part
MonthOf(x, part) == (CHOOSE w \in posted : w.entry = x /\ w.part = part).month
IsPosted(x) == Has(x, "ENTRY")
IsReversed(x) == Has(x, "REVERSAL")
IsLive(x) == IsPosted(x) /\ ~IsReversed(x)

RowFree(e) == \A p \in Procs : e \notin tx[p].rows
EntryFree(x) == \A p \in Procs : x \notin tx[p].entries

\* Inserting a journal locks its period row FOR KEY SHARE until the end of the
\* transaction; posting a draft leaves its period, and locks nothing.
FromDraft(w) == w.part = "ENTRY" /\ w.entry \in Manuals
Shares(p) == {w.month : w \in {v \in tx[p].writes : ~FromDraft(v)}}
PeriodFree(m) == closing.step = "IDLE" \/ closing.month # m

End(p) == tx' = [tx EXCEPT ![p] = Idle]
\* An error rolls a transaction back; a worker then marks its event, in a
\* statement of its own.
Fails(p) ==
  tx' = [tx EXCEPT ![p] =
    IF p \in Workers THEN [Idle EXCEPT !.step = "MARK", !.job = tx[p].job] ELSE Idle]

-----------------------------------------------------------------------------
(* Financial events. *)

\* A producer records a revision after the one it replaces, with any date.
RecordEvent(e, m) ==
  /\ event[e].status = "ABSENT"
  /\ e \in Revisions => event[Replaces[e]].status # "ABSENT"
  /\ event' = [event EXCEPT ![e] = [status |-> "RECEIVED", month |-> m]]
  /\ UNCHANGED <<draft, posted, period, tx, closing, trouble>>

\* Faulty: a late event waits for its own month.
Faulty_IsPostingMonth(e, m) == m = event[e].month /\ period[m] # "CLOSED"
\* The event's date, or the first later month that is not closed.
IsPostingMonth(e, m) ==
  /\ m >= event[e].month /\ period[m] # "CLOSED"
  /\ \A n \in event[e].month..(m - 1) : period[n] = "CLOSED"

BeginEvent(p, e, m) ==
  /\ tx[p].step = "IDLE"
  /\ RowFree(e) /\ event[e].status \in Pending /\ IsPostingMonth(e, m)
  /\ tx' = [tx EXCEPT ![p] =
       [Idle EXCEPT !.step = IF e \in Revisions THEN "SUPERSEDE" ELSE "WRITE",
                    !.job = e, !.date = m, !.rows = {e},
                    !.todo = IF e \in Voids THEN <<>> ELSE <<Posting(e, "ENTRY", m)>>]]
  /\ UNCHANGED <<event, draft, posted, period, closing, trouble>>

\* Locks the event it replaces, and reads whether its journal is to be reversed.
LockReplaced(p) ==
  /\ tx[p].step = "SUPERSEDE"
  /\ LET d == Replaces[tx[p].job] IN
       /\ RowFree(d)
       /\ tx' = [tx EXCEPT ![p].rows = tx[p].rows \cup {d},
                           ![p].step = IF IsLive(d) THEN "REVERSE" ELSE "WRITE"]
  /\ UNCHANGED <<event, draft, posted, period, closing, trouble>>

\* Faulty: a reversal falls on the day after the original.
Faulty_Later(m, n) == IF m > n THEN m ELSE n + 1
Later(m, n) == IF m > n THEN m ELSE n

\* Locks that journal and reads it again: by now staff may have reversed it, and
\* only a reversal on the same day is taken for this one. The reversal is never
\* dated before the original.
ReverseReplaced(p) ==
  /\ tx[p].step = "REVERSE"
  /\ LET d == Replaces[tx[p].job]
         m == Later(tx[p].date, MonthOf(d, "ENTRY"))
     IN
       /\ EntryFree(d)
       /\ IF ~IsReversed(d)
          THEN tx' = [tx EXCEPT ![p].entries = {d}, ![p].step = "WRITE",
                                ![p].todo = <<Posting(d, "REVERSAL", m)>> \o tx[p].todo]
          ELSE IF MonthOf(d, "REVERSAL") = m
          THEN tx' = [tx EXCEPT ![p].entries = {d}, ![p].step = "WRITE"]
          ELSE Fails(p)
  /\ UNCHANGED <<event, draft, posted, period, closing, trouble>>

\* The event is FAILED only if nothing has settled it in the meantime.
MarkFailed(p) ==
  /\ tx[p].step = "MARK"
  /\ LET e == tx[p].job IN
       /\ RowFree(e)
       /\ event' = IF event[e].status \in Pending
                   THEN [event EXCEPT ![e].status = "FAILED"] ELSE event
  /\ End(p)
  /\ UNCHANGED <<draft, posted, period, closing, trouble>>

-----------------------------------------------------------------------------
(* Staff's journals. A draft may be dated in a closed month; it cannot be    *)
(* posted there. The three operations on a draft are one step each: its row  *)
(* is locked, or not yet there, until they commit.                           *)

CreateDraft(x, m) ==
  /\ draft[x] = 0 /\ ~IsPosted(x) /\ PeriodFree(m)
  /\ draft' = [draft EXCEPT ![x] = m]
  /\ UNCHANGED <<event, posted, period, tx, closing, trouble>>
MoveDraft(x, m) ==
  /\ draft[x] \notin {0, m} /\ EntryFree(x) /\ PeriodFree(m)
  /\ draft' = [draft EXCEPT ![x] = m]
  /\ UNCHANGED <<event, posted, period, tx, closing, trouble>>
DeleteDraft(x) ==
  /\ draft[x] # 0 /\ EntryFree(x)
  /\ draft' = [draft EXCEPT ![x] = 0]
  /\ UNCHANGED <<event, posted, period, tx, closing, trouble>>

\* Locks a journal and reads it and its period.
BeginWriting(p, x, m, todo) ==
  /\ tx[p].step = "IDLE" /\ EntryFree(x) /\ period[m] # "CLOSED"
  /\ tx' = [tx EXCEPT ![p] = [Idle EXCEPT !.step = "WRITE", !.job = x, !.date = m,
                                          !.entries = {x}, !.todo = todo]]
  /\ UNCHANGED <<event, draft, posted, period, closing, trouble>>

PostDraft(p, x) ==
  /\ draft[x] # 0
  /\ BeginWriting(p, x, draft[x], <<Posting(x, "ENTRY", draft[x])>>)
ReverseJournal(p, x, m) ==
  /\ IsLive(x) /\ m >= MonthOf(x, "ENTRY")
  /\ BeginWriting(p, x, m, <<Posting(x, "REVERSAL", m)>>)
\* A reversal made on the same day is taken for this correction's.
CorrectJournal(p, x, m) ==
  /\ IsPosted(x) /\ ~Has(x, "CORRECTION") /\ m >= MonthOf(x, "ENTRY")
  /\ IsReversed(x) => MonthOf(x, "REVERSAL") = m
  /\ BeginWriting(p, x, m,
       (IF IsReversed(x) THEN <<>> ELSE <<Posting(x, "REVERSAL", m)>>)
         \o <<Posting(x, "CORRECTION", m)>>)

-----------------------------------------------------------------------------
(* What every transaction that posts goes through.                           *)

MayPost(m) == period[m] # "CLOSED"

\* An insert waits for the period's row; the trigger then reads its status.
Write(p) ==
  /\ tx[p].step = "WRITE" /\ tx[p].todo # <<>>
  /\ LET w == Head(tx[p].todo) IN
       /\ FromDraft(w) \/ PeriodFree(w.month)
       /\ IF MayPost(w.month)
          THEN tx' = [tx EXCEPT ![p].writes = tx[p].writes \cup {w},
                                ![p].todo = Tail(tx[p].todo)]
          ELSE Fails(p)
  /\ UNCHANGED <<event, draft, posted, period, closing, trouble>>

\* SET CONSTRAINTS ALL IMMEDIATE: the deferred check reads the periods once more.
Check(p) ==
  /\ tx[p].step = "WRITE" /\ tx[p].todo = <<>>
  /\ IF \A w \in tx[p].writes : MayPost(w.month)
     THEN tx' = [tx EXCEPT ![p].step = "CHECKED"] ELSE Fails(p)
  /\ UNCHANGED <<event, draft, posted, period, closing, trouble>>

\* Faulty: a replaced event that has not posted is left to its own delivery.
Faulty_Settled(p, e) == IF e = tx[p].job THEN "POSTED" ELSE event[e].status
\* What a worker's commit makes of an event it has locked.
Settled(p, e) ==
  IF e = tx[p].job THEN "POSTED"
  ELSE IF event[e].status \in Pending THEN "IGNORED" ELSE event[e].status

Commit(p) ==
  /\ tx[p].step = "CHECKED"
  /\ posted' = posted \cup tx[p].writes
  /\ draft' = [x \in Manuals |->
       IF \E w \in tx[p].writes : FromDraft(w) /\ w.entry = x THEN 0 ELSE draft[x]]
  /\ event' = [e \in Events |->
       IF e \in tx[p].rows THEN [event[e] EXCEPT !.status = Settled(p, e)] ELSE event[e]]
  /\ End(p)
  /\ UNCHANGED <<period, closing, trouble>>

\* A timeout or an error of the database, or the end of the process.
Breaks(p) ==
  /\ tx[p].step \notin {"IDLE", "MARK"}
  /\ trouble < MaxTrouble /\ trouble' = trouble + 1
  /\ Fails(p)
  /\ UNCHANGED <<event, draft, posted, period, closing>>
Dies(p) ==
  /\ tx[p].step # "IDLE"
  /\ trouble < MaxTrouble /\ trouble' = trouble + 1
  /\ End(p)
  /\ UNCHANGED <<event, draft, posted, period, closing>>

-----------------------------------------------------------------------------
(* Periods. *)

\* The period's row is locked to the end: the status read here is the one changed.
LockPeriod(m) ==
  /\ closing.step = "IDLE" /\ m # Last
  /\ \A p \in Procs : m \notin Shares(p)
  /\ trouble < MaxTrouble /\ trouble' = trouble + 1
  /\ closing' = [step |-> "LOCKED", month |-> m]
  /\ UNCHANGED <<event, draft, posted, period, tx>>

\* Faulty: the drafts of the month do not keep it open.
Faulty_DraftsIn(m) == {}
DraftsIn(m) == {x \in Manuals : draft[x] = m}
CountDrafts ==
  /\ closing.step = "LOCKED"
  /\ closing' = IF period[closing.month] = "OPEN" /\ DraftsIn(closing.month) # {}
                THEN NoClosing ELSE [closing EXCEPT !.step = "COUNTED"]
  /\ UNCHANGED <<event, draft, posted, period, tx, trouble>>

Toggled(status) == IF status = "OPEN" THEN "CLOSED" ELSE "OPEN"
ChangePeriod ==
  /\ closing.step = "COUNTED"
  /\ period' = [period EXCEPT ![closing.month] = Toggled(@)]
  /\ closing' = NoClosing
  /\ UNCHANGED <<event, draft, posted, tx, trouble>>

-----------------------------------------------------------------------------
OfWorker(p) ==
  \/ \E e \in Events, m \in Months : BeginEvent(p, e, m)
  \/ LockReplaced(p) \/ ReverseReplaced(p) \/ MarkFailed(p)
OfDesk(p) ==
  \/ \E x \in Manuals : PostDraft(p, x)
  \/ \E x \in Entries, m \in Months : ReverseJournal(p, x, m) \/ CorrectJournal(p, x, m)
Posts(p) == Write(p) \/ Check(p) \/ Commit(p)
OfDrafts ==
  \/ \E x \in Manuals, m \in Months : CreateDraft(x, m) \/ MoveDraft(x, m)
  \/ \E x \in Manuals : DeleteDraft(x)
OfPeriods ==
  \/ \E m \in Months : LockPeriod(m)
  \/ CountDrafts \/ ChangePeriod

Next ==
  \/ \E e \in Events, m \in Months : RecordEvent(e, m)
  \/ \E p \in Workers : OfWorker(p)
  \/ \E p \in Desks : OfDesk(p)
  \/ \E p \in Procs : Posts(p) \/ Breaks(p) \/ Dies(p)
  \/ OfDrafts
  \/ OfPeriods

Spec == Init /\ [][Next]_vars

\* The outbox delivers an event until it is processed, and an open transaction
\* goes on: it is one call, with a timeout.
Fairness ==
  /\ \A e \in Events : WF_vars(\E p \in Workers, m \in Months : BeginEvent(p, e, m))
  /\ \A p \in Workers : WF_vars(LockReplaced(p) \/ ReverseReplaced(p) \/ MarkFailed(p))
  /\ \A p \in Procs : WF_vars(Posts(p))
  /\ WF_vars(CountDrafts \/ ChangePeriod)
FairSpec == Spec /\ Fairness

-----------------------------------------------------------------------------
(* Rows, transactions and the closer's step keep their shapes. *)
TypeOK ==
  /\ event \in [Events -> EventRows]
  /\ draft \in [Manuals -> 0..Last]
  /\ posted \subseteq Postings
  /\ period \in [Months -> PeriodStatuses]
  /\ tx \in [Procs -> Transactions]
  /\ closing \in Closings
  /\ trouble \in 0..MaxTrouble

(* No journal is committed into a month that is CLOSED at that moment,       *)
(* however the closer, the workers and staff interleave. A journal inserted  *)
(* by its transaction is protected by the period row's lock, a posted draft  *)
(* only by the closer's count of drafts.                                     *)
NothingIntoClosedMonth == [][\A w \in posted' \ posted : period[w.month] # "CLOSED"]_vars

(* Once a revision has posted, the event it replaces has no effect of its    *)
(* own: it is settled, and its journal, if any, is reversed.                 *)
ReplacedHasNoEffect ==
  \A e \in Revisions :
    event[e].status = "POSTED" =>
      /\ event[Replaces[e]].status \in {"POSTED", "IGNORED"}
      /\ ~IsLive(Replaces[e])

(* events.service.ts: "so a corrected fact never posts twice". When the      *)
(* third revision of a fact has posted, the first one's journal is not live. *)
FactPostsOnce ==
  \A e \in Revisions :
    event[e].status = "POSTED" /\ Replaces[e] \in Revisions => ~IsLive(Replaces[Replaces[e]])

(* A recorded event is eventually posted or ignored, whatever fails and      *)
(* whatever is closed on the way: events.service.ts posts a late event into  *)
(* the first open month. The exception is a revision whose reversal would be *)
(* dated in a closed month, since it is never dated before the journal it    *)
(* reverses: that one fails until the month is reopened.                     *)
ReversalIsStuck(e) ==
  /\ e \in Revisions /\ IsLive(Replaces[e])
  /\ \E m \in Months : /\ IsPostingMonth(e, m)
                       /\ period[Later(m, MonthOf(Replaces[e], "ENTRY"))] = "CLOSED"
EventSettles ==
  \A e \in Events :
    event[e].status \in Pending ~>
      event[e].status \in {"POSTED", "IGNORED"} \/ ReversalIsStuck(e)
=============================================================================
