------------------------ MODULE PaymentClaimsProofs ------------------------
(* Theorems about the successes of PaymentSessions: who books one, what a  *)
(* CONFIRMED order has received, what an attempt asks for, what became of  *)
(* a claimed success, and that the customer's money is kept as module      *)
(* StoreBalance promises; for any number of sessions, orders and handlers, *)
(* any prices and balances.                                                *)
EXTENDS PaymentSessionsProofs, FiniteSetTheorems

(* A process only names sessions that exist; a gateway page belongs to one.*)
Named == \A p \in Procs : proc[p].at \in NamesSession => sess[proc[p].sess].status # "NONE"
Opened == \A s \in Sessions : gw[s] # "none" => sess[s].status # "NONE"

(* Success is claimed, and booked, only of what the gateway took.          *)
PaidFirst ==
  /\ \A s \in Sessions : sess[s].status = "SUCCEEDED" => gw[s] = "paid"
  /\ \A p \in Procs : proc[p].at = "claim" => gw[proc[p].sess] = "paid"

(* One process asks the gateway for a session's page, and before there is one. *)
AtGateway ==
  \A p \in Procs : proc[p].at = "gateway" =>
    /\ gw[proc[p].sess] = "none"
    /\ \A q \in Procs \ {p} : proc[q].at = "gateway" => proc[q].sess # proc[p].sess

(* Without the retry's race, whoever books holds the session SUCCEEDED.    *)
BookerOwns ==
  /\ \A p \in Procs : proc[p].at # "retryExpire"
  /\ \A p \in Procs : proc[p].at = "book" => sess[proc[p].sess].status = "SUCCEEDED"
  /\ ClaimsAreExclusive

ClaimInv ==
  /\ Named /\ Opened /\ PaidFirst /\ AtGateway
  /\ "retry" \notin Entrances => BookerOwns

SuccessStays == \A s \in Sessions : sess[s].status = "SUCCEEDED" => sess'[s].status = "SUCCEEDED"

(* What a step of process p may do.                                        *)
GwStep(s) ==
  \/ gw'[s] = gw[s]
  \/ gw[s] = "open" /\ gw'[s] # "none"
  \/ /\ gw[s] = "none" /\ gw'[s] = "open" /\ sess[s].status # "NONE"
     /\ \A q \in Procs : proc'[q].at = "gateway" => proc'[q].sess # s

ProcStep(p) ==
  /\ \A q \in Procs \ {p} : proc'[q] = proc[q]
  /\ \/ proc'[p] = proc[p]
     \/ /\ proc'[p].at \in NamesSession =>
             proc'[p].sess \in Sessions /\ sess'[proc'[p].sess].status # "NONE"
        /\ proc'[p].at = "claim" => gw[proc'[p].sess] = "paid"
        /\ proc'[p].at \in {"claim", "book"} =>
             \/ sess[proc'[p].sess].order = proc'[p].order
             \/ /\ proc[p].at = "claim"
                /\ proc'[p].sess = proc[p].sess /\ proc'[p].order = proc[p].order
        /\ proc'[p].at = "gateway" =>
             /\ gw'[proc'[p].sess] = "none"
             /\ \A q \in Procs \ {p} : proc[q].at = "gateway" => proc[q].sess # proc'[p].sess
        /\ proc'[p].at = "retryExpire" => "retry" \in Entrances
        /\ proc'[p].at = "book" =>
             sess[proc'[p].sess].status # "SUCCEEDED" /\ sess'[proc'[p].sess].status = "SUCCEEDED"

ClaimStep(p) ==
  /\ ProcStep(p)
  /\ \A s \in Sessions : GwStep(s)
  /\ NoneIsNew
  /\ \A s \in Sessions : sess'[s].status = "SUCCEEDED" =>
       \/ sess[s].status = "SUCCEEDED"
       \/ gw[s] = "paid" /\ proc'[p].at = "book" /\ proc'[p].sess = s
  /\ "retry" \notin Entrances => SuccessStays

LEMMA NamedSession ==
  ASSUME TypeInv, NEW p \in Procs, proc[p].at \in NamesSession
  PROVE  proc[p].sess \in Sessions
  BY DEF TypeInv, ProcOK, GoodProcs

LEMMA ClaimInvStep ==
  ASSUME TypeInv, TypeInv', ClaimInv, NEW p \in Procs, ClaimStep(p)
  PROVE  ClaimInv'
<1> USE DEF ClaimInv, ClaimStep
<1>a. \A q \in Procs : proc[q].at \in NamesSession => proc[q].sess \in Sessions BY NamedSession
<1>b. \A q \in Procs : proc'[q].at \in NamesSession => proc'[q].sess \in Sessions
  BY DEF TypeInv, ProcOK, GoodProcs
<1>n. {"claim", "gateway", "book"} \subseteq NamesSession BY DEF NamesSession
<1>g. \A s \in Sessions : (gw[s] = "paid" => gw'[s] = "paid") /\ (gw[s] # "none" => gw'[s] # "none")
  BY DEF GwStep
<1>1. Named'
  <2> SUFFICES ASSUME NEW q \in Procs, proc'[q].at \in NamesSession PROVE sess'[proc'[q].sess].status # "NONE"
    BY DEF Named
  <2>1. CASE proc'[q] = proc[q] BY <1>a, <2>1 DEF Named, NoneIsNew
  <2>2. CASE proc'[q] # proc[q] BY <2>2 DEF ProcStep
  <2>3. QED BY <2>1, <2>2
<1>2. Opened' BY DEF Opened, GwStep, NoneIsNew
<1>3. PaidFirst'
  <2>1. \A s \in Sessions : sess'[s].status = "SUCCEEDED" => gw'[s] = "paid" BY <1>g DEF PaidFirst
  <2>2. ASSUME NEW q \in Procs, proc'[q].at = "claim" PROVE gw'[proc'[q].sess] = "paid"
    <3>1. proc'[q].sess \in Sessions BY <1>b, <1>n, <2>2
    <3>2. gw[proc'[q].sess] = "paid" BY <2>2 DEF ProcStep, PaidFirst
    <3>3. QED BY <1>g, <3>1, <3>2
  <2>3. QED BY <2>1, <2>2 DEF PaidFirst
<1>4. AtGateway'
  <2> SUFFICES ASSUME NEW q \in Procs, proc'[q].at = "gateway"
               PROVE  /\ gw'[proc'[q].sess] = "none"
                      /\ \A r \in Procs \ {q} : proc'[r].at = "gateway" => proc'[r].sess # proc'[q].sess
    BY DEF AtGateway
  <2>1. proc'[q].sess \in Sessions BY <1>b, <1>n
  <2>2. gw'[proc'[q].sess] = "none"
    <3>1. CASE proc'[q] = proc[q]
      <4>1. gw[proc[q].sess] = "none" BY <3>1 DEF AtGateway
      <4>2. QED BY <2>1, <3>1, <4>1 DEF GwStep
    <3>2. CASE proc'[q] # proc[q] BY <3>2 DEF ProcStep
    <3>3. QED BY <3>1, <3>2
  <2>3. ASSUME NEW r \in Procs \ {q}, proc'[r].at = "gateway" PROVE proc'[r].sess # proc'[q].sess
    <3>1. CASE proc'[q] = proc[q] /\ proc'[r] = proc[r] BY <2>3, <3>1 DEF AtGateway
    <3>2. CASE proc'[q] # proc[q]
      <4>1. q = p /\ proc'[r] = proc[r] BY <3>2 DEF ProcStep
      <4>2. QED BY <2>3, <3>2, <4>1 DEF ProcStep
    <3>3. CASE proc'[r] # proc[r]
      <4>1. r = p /\ proc'[q] = proc[q] BY <3>3 DEF ProcStep
      <4>2. QED BY <2>3, <3>3, <4>1 DEF ProcStep
    <3>4. QED BY <3>1, <3>2, <3>3
  <2>4. QED BY <2>2, <2>3
<1>5. ASSUME "retry" \notin Entrances PROVE BookerOwns'
  <2>1. BookerOwns /\ SuccessStays BY <1>5
  <2>2. \A q \in Procs : proc'[q].at # "retryExpire" BY <1>5, <2>1 DEF BookerOwns, ProcStep
  <2>3. ASSUME NEW q \in Procs, proc'[q].at = "book" PROVE sess'[proc'[q].sess].status = "SUCCEEDED"
    <3>1. proc'[q].sess \in Sessions BY <1>b, <1>n, <2>3
    <3>2. QED BY <2>1, <2>3, <3>1 DEF BookerOwns, SuccessStays, ProcStep
  <2>4. ASSUME NEW q \in Procs, NEW r \in Procs, q # r, proc'[q].at = "book", proc'[r].at = "book"
        PROVE  proc'[q].sess # proc'[r].sess
    <3>1. CASE proc'[q] = proc[q] /\ proc'[r] = proc[r] BY <2>1, <2>4, <3>1 DEF BookerOwns, ClaimsAreExclusive
    <3>2. CASE proc'[q] # proc[q]
      <4>1. q = p /\ proc'[r] = proc[r] BY <2>4, <3>2 DEF ProcStep
      <4>2. sess[proc'[q].sess].status # "SUCCEEDED" BY <2>4, <3>2, <4>1 DEF ProcStep
      <4>3. QED BY <2>1, <2>4, <4>1, <4>2 DEF BookerOwns
    <3>3. CASE proc'[r] # proc[r]
      <4>1. r = p /\ proc'[q] = proc[q] BY <2>4, <3>3 DEF ProcStep
      <4>2. sess[proc'[r].sess].status # "SUCCEEDED" BY <2>4, <3>3, <4>1 DEF ProcStep
      <4>3. QED BY <2>1, <2>4, <4>1, <4>2 DEF BookerOwns
    <3>4. QED BY <3>1, <3>2, <3>3
  <2>5. QED BY <2>2, <2>3, <2>4 DEF BookerOwns, ClaimsAreExclusive
<1>6. QED BY <1>1, <1>2, <1>3, <1>4, <1>5

-----------------------------------------------------------------------------
(* Every action is such a step.                                            *)

(* Status writes of one session, by what they find.                        *)
LEMMA StatusStep ==
  ASSUME TypeInv, NEW s \in Sessions, NEW st \in {"ACTIVE", "FAILED", "CANCELLED", "EXPIRED"}, SetStatus(s, st),
         sess[s].status # "SUCCEEDED"
  PROVE  /\ NoneIsNew /\ SuccessStays
         /\ \A t \in Sessions : sess'[t].status = "SUCCEEDED" => sess[t].status = "SUCCEEDED"
<1>1. \A t \in Sessions : sess'[t].status = IF t = s THEN st ELSE sess[t].status
  BY DEF TypeInv, SessOK, SessionRows, SetStatus
<1>2. QED BY <1>1 DEF NoneIsNew, SuccessStays

(* A process that goes home or waits for its next request names nothing.   *)
LEMMA HomeNames ==
  ASSUME TypeInv, NEW p \in Procs, Return(p)
  PROVE  /\ \A q \in Procs \ {p} : proc'[q] = proc[q]
         /\ proc'[p].at \in {"idle", "ask"}
  BY DEF TypeInv, ProcOK, Return, Home, Idle

LEMMA QuietProc ==
  ASSUME TypeInv, NEW p \in Procs, \A q \in Procs \ {p} : proc'[q] = proc[q],
         proc'[p] = proc[p] \/ proc'[p].at \notin NamesSession
  PROVE  ProcStep(p)
  BY DEF ProcStep, NamesSession

(* Steps that leave the gateway alone, and no session anew SUCCEEDED.      *)
LEMMA QuietClaims ==
  ASSUME NEW p \in Procs, ProcStep(p), UNCHANGED gw, NoneIsNew, SuccessStays,
         \A s \in Sessions : sess'[s].status = "SUCCEEDED" => sess[s].status = "SUCCEEDED"
  PROVE  ClaimStep(p)
  BY DEF ClaimStep, GwStep

LEMMA SameSessions ==
  ASSUME UNCHANGED sess
  PROVE  /\ NoneIsNew /\ SuccessStays
         /\ \A s \in Sessions : sess'[s].status = "SUCCEEDED" => sess[s].status = "SUCCEEDED"
  BY DEF NoneIsNew, SuccessStays

(* The session a retry or a link starts.                                   *)
Starts(p, s, provider) ==
  /\ sess[s].status = "NONE"
  /\ sess' = [sess EXCEPT ![s] = [NoSession EXCEPT !.status = "ACTIVE", !.order = proc[p].order,
                                                   !.provider = provider, !.amount = proc[p].amount]]
  /\ proc' = [proc EXCEPT ![p].at = "gateway", ![p].sess = s]

LEMMA HandlerClaims ==
  ASSUME TypeInv, ClaimInv, NEW p \in Procs, HandlerStep(p)
  PROVE  ClaimStep(p)
<1> USE DEF ledger, outside
<1>p. proc \in [Procs -> ProcStates] BY DEF TypeInv, ProcOK, GoodProcs
<1>s. proc[p].at \in NamesSession => proc[p].sess \in Sessions /\ sess[proc[p].sess].status # "NONE"
  BY NamedSession DEF ClaimInv, Named
<1>t. sess \in [Sessions -> SessionRows] BY DEF TypeInv, SessOK
<1>1. CASE PlaceFromBalance(p) \/ ReleaseStep(p) \/ BookOrder(p) \/ RecordFailure(p)
  <2>1. Return(p) /\ UNCHANGED <<sess, gw>> BY <1>1 DEF PlaceFromBalance, ReleaseStep, BookOrder, RecordFailure
  <2>2. ProcStep(p) BY <2>1, HomeNames, QuietProc DEF NamesSession
  <2>3. QED BY <2>1, <2>2, SameSessions, QuietClaims
<1>2. CASE ReserveAndCreate(p)
  <2>1. CASE ~Covers(proc[p].amount)
    <3>1. Return(p) /\ UNCHANGED <<sess, gw>> BY <1>2, <2>1 DEF ReserveAndCreate
    <3>2. ProcStep(p) BY <3>1, HomeNames, QuietProc DEF NamesSession
    <3>3. QED BY <3>1, <3>2, SameSessions, QuietClaims
  <2>2. CASE Covers(proc[p].amount)
    <3>1. PICK s \in Sessions, provider \in Providers :
            /\ sess[s].status = "NONE"
            /\ sess' = [sess EXCEPT ![s] = [NoSession EXCEPT !.status = "ACTIVE", !.pre = TRUE, !.provider = provider,
                                       !.amount = Total - proc[p].amount, !.coupon = proc[p].coupon]]
            /\ proc' = [proc EXCEPT ![p].at = "gateway", ![p].sess = s]
      BY <1>2, <2>2, Zenon DEF ReserveAndCreate
    <3>2. sess'[s].status = "ACTIVE" /\ \A t \in Sessions : t # s => sess'[t] = sess[t]
      BY <1>t, <3>1 DEF NoSession
    <3>3. proc'[p].at = "gateway" /\ proc'[p].sess = s /\ \A q \in Procs \ {p} : proc'[q] = proc[q]
      BY <1>p, <3>1 DEF ProcStates
    <3>0. UNCHANGED gw BY <1>2, Zenon DEF ReserveAndCreate
    <3>4. UNCHANGED gw /\ gw[s] = "none" BY <3>0, <3>1 DEF ClaimInv, Opened
    <3>5. \A q \in Procs : proc[q].at = "gateway" => proc[q].sess # s
      BY <3>1 DEF ClaimInv, Named, NamesSession
    <3>6. ProcStep(p) BY <3>1, <3>2, <3>3, <3>4, <3>5 DEF ProcStep
    <3>7. QED BY <3>1, <3>2, <3>4, <3>6, QuietClaims DEF NoneIsNew, SuccessStays
  <2>3. QED BY <2>1, <2>2
<1>3. CASE RetryExpire(p)
  <2> DEFINE s == proc[p].sess
  <2>1. /\ proc[p].at = "retryExpire" /\ SetStatus(s, "EXPIRED") /\ UNCHANGED gw
        /\ proc' = [proc EXCEPT ![p].at = "start", ![p].sess = None, ![p].amount = AmountDue(proc[p].order)]
    BY <1>3 DEF RetryExpire
  <2>2. proc'[p].at = "start" /\ \A q \in Procs \ {p} : proc'[q] = proc[q] BY <1>p, <2>1 DEF ProcStates
  <2>3. "retry" \in Entrances BY <2>1 DEF ClaimInv, BookerOwns
  <2>4. \A t \in Sessions : sess'[t].status = IF t = s THEN "EXPIRED" ELSE sess[t].status
    BY <1>s, <1>t, <2>1 DEF SetStatus, SessionRows, NamesSession
  <2>5. ProcStep(p) BY <2>2, QuietProc DEF NamesSession
  <2>6. QED BY <2>1, <2>3, <2>4, <2>5 DEF ClaimStep, GwStep, NoneIsNew
<1>4. CASE LinkExpire(p)
  <2>1. /\ proc' = [proc EXCEPT ![p].at = "start", ![p].sess = None] /\ UNCHANGED gw
        /\ UNCHANGED sess \/ (SetStatus(proc[p].sess, "EXPIRED") /\ sess[proc[p].sess].status = "ACTIVE"
                               /\ proc[p].sess # None)
    BY <1>4 DEF LinkExpire
  <2>2. proc'[p].at = "start" /\ \A q \in Procs \ {p} : proc'[q] = proc[q] BY <1>p, <2>1 DEF ProcStates
  <2>3. ProcStep(p) BY <2>2, QuietProc DEF NamesSession
  <2>4. /\ NoneIsNew /\ SuccessStays
        /\ \A s \in Sessions : sess'[s].status = "SUCCEEDED" => sess[s].status = "SUCCEEDED"
    <3>1. proc[p].sess \in Sessions \cup {None} BY <1>p DEF ProcStates
    <3>2. QED BY <2>1, <3>1, SameSessions, StatusStep
  <2>5. QED BY <2>1, <2>3, <2>4, QuietClaims
<1>5. CASE StartSession(p)
  <2>1. CASE Return(p) /\ UNCHANGED <<sess, gw>>
    <3>1. ProcStep(p) BY <2>1, HomeNames, QuietProc DEF NamesSession
    <3>2. QED BY <2>1, <3>1, SameSessions, QuietClaims
  <2>2. ASSUME NEW s \in Sessions, NEW provider \in Providers, Starts(p, s, provider), UNCHANGED gw
        PROVE  ClaimStep(p)
    <3>0. sess[s].status = "NONE" BY <2>2 DEF Starts
    <3>1. sess'[s].status = "ACTIVE" /\ \A t \in Sessions : t # s => sess'[t] = sess[t]
      BY <1>t, <2>2 DEF Starts, NoSession
    <3>2. proc'[p].at = "gateway" /\ proc'[p].sess = s /\ \A q \in Procs \ {p} : proc'[q] = proc[q]
      BY <1>p, <2>2 DEF Starts, ProcStates
    <3>3. gw[s] = "none" BY <3>0 DEF ClaimInv, Opened
    <3>4. \A q \in Procs : proc[q].at = "gateway" => proc[q].sess # s
      BY <3>0 DEF ClaimInv, Named, NamesSession
    <3>5. ProcStep(p) BY <2>2, <3>1, <3>2, <3>3, <3>4 DEF ProcStep
    <3>6. QED BY <2>2, <3>0, <3>1, <3>5, QuietClaims DEF NoneIsNew, SuccessStays
  <2>3. CASE proc[p].amount = 0 \/ ActiveOf(proc[p].order) # {}
    <3>1. Return(p) /\ UNCHANGED sess BY <1>5, <2>3, Zenon DEF StartSession
    <3>2. UNCHANGED gw BY <1>5, Zenon DEF StartSession
    <3>3. QED BY <2>1, <3>1, <3>2
  <2>4. CASE ~(proc[p].amount = 0 \/ ActiveOf(proc[p].order) # {})
    <3>1. UNCHANGED gw BY <1>5, Zenon DEF StartSession
    <3>2. \E s \in Sessions, provider \in Providers : Starts(p, s, provider)
      BY <1>5, <2>4, Zenon DEF StartSession, Starts
    <3>3. QED BY <2>2, <3>1, <3>2
  <2>5. QED BY <2>3, <2>4
<1>6. CASE GatewayOpens(p)
  <2> DEFINE s == proc[p].sess
  <2>1. Return(p) /\ UNCHANGED sess /\ gw' = [gw EXCEPT ![s] = "open"] /\ proc[p].at = "gateway"
    BY <1>6 DEF GatewayOpens
  <2>2. gw[s] = "none" /\ s \in Sessions /\ sess[s].status # "NONE"
    BY <1>s, <2>1 DEF ClaimInv, AtGateway, NamesSession
  <2>3. proc'[p].at \in {"idle", "ask"} /\ \A q \in Procs \ {p} : proc'[q] = proc[q] BY <2>1, HomeNames
  <2>4. \A q \in Procs : proc'[q].at = "gateway" => proc'[q].sess # s
    BY <2>1, <2>3 DEF ClaimInv, AtGateway
  <2>5. gw'[s] = "open" /\ \A t \in Sessions : t # s => gw'[t] = gw[t] BY <2>1, <2>2 DEF TypeInv, WorldOK
  <2>6. \A t \in Sessions : GwStep(t) BY <2>2, <2>4, <2>5 DEF GwStep
  <2>7. ProcStep(p) BY <2>3, QuietProc DEF NamesSession
  <2>8. QED BY <2>1, <2>6, <2>7, SameSessions DEF ClaimStep
<1>7. CASE GatewayRefuses(p)
  <2> DEFINE s == proc[p].sess
  <2>1. SetStatus(s, "FAILED") /\ UNCHANGED gw /\ proc[p].at = "gateway" BY <1>7 DEF GatewayRefuses
  <2>2. s \in Sessions /\ sess[s].status \notin {"NONE", "SUCCEEDED"}
    BY <1>s, <2>1 DEF ClaimInv, AtGateway, PaidFirst, NamesSession
  <2>3. sess'[s].status = "FAILED" BY <1>t, <2>1, <2>2 DEF SetStatus, SessionRows
  <2>4. ProcStep(p)
    <3>1. CASE Return(p) BY <3>1, HomeNames, QuietProc DEF NamesSession
    <3>2. CASE Go(p, "release")
      <4>1. proc'[p].at = "release" /\ proc'[p].sess = s /\ \A q \in Procs \ {p} : proc'[q] = proc[q]
        BY <1>p, <3>2 DEF Go, ProcStates
      <4>2. QED BY <2>2, <2>3, <4>1 DEF ProcStep
    <3>3. QED BY <1>7, <3>1, <3>2 DEF GatewayRefuses
  <2>5. QED BY <2>1, <2>2, <2>4, StatusStep, QuietClaims
<1>8. CASE ClaimSession(p)
  <2> DEFINE s == proc[p].sess
  <2>1. proc[p].at = "claim" /\ UNCHANGED gw BY <1>8 DEF ClaimSession
  <2>2. s \in Sessions BY <1>s, <2>1 DEF NamesSession
  <2>3. CASE ~ClaimMatches(s)
    <3>1. Return(p) /\ UNCHANGED sess BY <1>8, <2>3 DEF ClaimSession
    <3>2. ProcStep(p) BY <3>1, HomeNames, QuietProc DEF NamesSession
    <3>3. QED BY <2>1, <3>1, <3>2, SameSessions, QuietClaims
  <2>4. CASE ClaimMatches(s)
    <3>1. SetStatus(s, "SUCCEEDED") /\ Go(p, "book") BY <1>8, <2>4 DEF ClaimSession
    <3>2. \A t \in Sessions : sess'[t].status = IF t = s THEN "SUCCEEDED" ELSE sess[t].status
      BY <1>t, <2>2, <3>1 DEF SetStatus, SessionRows
    <3>3. /\ proc'[p].at = "book" /\ proc'[p].sess = s /\ proc'[p].order = proc[p].order
          /\ \A q \in Procs \ {p} : proc'[q] = proc[q]
      BY <1>p, <3>1 DEF Go, ProcStates
    <3>4. sess[s].status # "SUCCEEDED" BY <2>4 DEF ClaimMatches, Settleable
    <3>5. gw[s] = "paid" BY <2>1 DEF ClaimInv, PaidFirst
    <3>6. ProcStep(p) BY <2>1, <2>2, <3>2, <3>3, <3>4 DEF ProcStep
    <3>7. QED BY <2>1, <3>2, <3>3, <3>5, <3>6 DEF ClaimStep, GwStep, NoneIsNew, SuccessStays
  <2>5. QED BY <2>3, <2>4
<1>9. CASE BookCheckout(p)
  <2>1. proc[p].at = "book" /\ UNCHANGED <<sess, gw>> BY <1>9 DEF BookCheckout
  <2>2. ProcStep(p)
    <3>1. CASE Return(p) BY <3>1, HomeNames, QuietProc DEF NamesSession
    <3>2. ASSUME NEW o \in OrderIds, proc' = [proc EXCEPT ![p].at = "link", ![p].order = o] PROVE ProcStep(p)
      <4>1. proc'[p].at = "link" /\ proc'[p].sess = proc[p].sess /\ \A q \in Procs \ {p} : proc'[q] = proc[q]
        BY <1>p, <3>2 DEF ProcStates
      <4>2. proc[p].sess \in Sessions /\ sess[proc[p].sess].status # "NONE" BY <1>s, <2>1 DEF NamesSession
      <4>3. QED BY <2>1, <4>1, <4>2 DEF ProcStep
    <3>3. QED BY <1>9, <3>1, <3>2 DEF BookCheckout
  <2>3. QED BY <2>1, <2>2, SameSessions, QuietClaims
<1>10. CASE LinkOrder(p)
  <2>1. Return(p) /\ UNCHANGED gw /\ sess' = [sess EXCEPT ![proc[p].sess].order = proc[p].order]
    BY <1>10 DEF LinkOrder
  <2>2. \A t \in Sessions : sess'[t].status = sess[t].status BY <1>t, <2>1 DEF SessionRows
  <2>3. ProcStep(p) BY <2>1, HomeNames, QuietProc DEF NamesSession
  <2>4. QED BY <2>1, <2>2, <2>3, QuietClaims DEF NoneIsNew, SuccessStays
<1>11. QED BY <1>1, <1>2, <1>3, <1>4, <1>5, <1>6, <1>7, <1>8, <1>9, <1>10 DEF HandlerStep

LEMMA SettleClaims ==
  ASSUME TypeInv, ClaimInv, NEW p \in Procs, NEW s \in Sessions, ReadForSettle(p, s), UNCHANGED <<sess, gw>>
  PROVE  ClaimStep(p)
<1>p. proc \in [Procs -> ProcStates] BY DEF TypeInv, ProcOK, GoodProcs
<1>1. /\ gw[s] = "paid" /\ sess[s].status # "NONE"
      /\ proc' = [proc EXCEPT ![p] = [Idle EXCEPT !.at = "claim", !.sess = s, !.order = sess[s].order]]
  BY DEF ReadForSettle, Verified, Settleable
<1>2. /\ proc'[p].at = "claim" /\ proc'[p].sess = s /\ proc'[p].order = sess[s].order
      /\ \A q \in Procs \ {p} : proc'[q] = proc[q]
  BY <1>p, <1>1 DEF Idle
<1>3. ProcStep(p) BY <1>1, <1>2 DEF ProcStep
<1>4. QED BY <1>3, SameSessions, QuietClaims

LEMMA CallbackClaims ==
  ASSUME TypeInv, ClaimInv, NEW p \in Procs, NEW s \in Sessions, sess[s].status = "ACTIVE", UNCHANGED gw,
         SetStatus(s, "FAILED") \/ SetStatus(s, "CANCELLED"),
         proc'[p].at \in {"failRecord", "release"}, proc'[p].sess = s,
         \A q \in Procs \ {p} : proc'[q] = proc[q]
  PROVE  ClaimStep(p)
<1>1. sess[s].status # "SUCCEEDED" OBVIOUS
<1>2. /\ NoneIsNew /\ SuccessStays
      /\ \A t \in Sessions : sess'[t].status = "SUCCEEDED" => sess[t].status = "SUCCEEDED"
  <2>1. CASE SetStatus(s, "FAILED") BY <1>1, <2>1, StatusStep
  <2>2. CASE SetStatus(s, "CANCELLED") BY <1>1, <2>2, StatusStep
  <2>3. QED BY <2>1, <2>2
<1>3. ProcStep(p) BY <1>2 DEF ProcStep, NoneIsNew
<1>4. QED BY <1>2, <1>3, QuietClaims

LEMMA RequestClaims ==
  ASSUME TypeInv, ClaimInv, NEW p \in Procs, Request(p)
  PROVE  ClaimStep(p)
<1> USE DEF ledger, outside
<1>p. proc \in [Procs -> ProcStates] BY DEF TypeInv, ProcOK, GoodProcs
<1>1. CASE BeginCheckout(p)
  <2> DEFINE Covered(useBalance) == IF useBalance THEN Min({balance, Total}) ELSE 0
             Entry(useBalance, useCoupon) ==
               [Idle EXCEPT !.at = IF Covered(useBalance) = Total THEN "placeOrder" ELSE "reserve",
                            !.amount = Covered(useBalance), !.coupon = useCoupon]
  <2>1. \E useBalance, useCoupon \in BOOLEAN : proc' = [proc EXCEPT ![p] = Entry(useBalance, useCoupon)]
    BY <1>1, Zenon DEF BeginCheckout
  <2>a. \A useBalance, useCoupon \in BOOLEAN : Entry(useBalance, useCoupon).at \in {"placeOrder", "reserve"}
    BY DEF Idle
  <2> HIDE DEF Entry
  <2>2. proc'[p].at \in {"placeOrder", "reserve"} /\ \A q \in Procs \ {p} : proc'[q] = proc[q]
    BY <1>p, <2>1, <2>a
  <2>3. ProcStep(p) BY <2>2, QuietProc DEF NamesSession
  <2>4. UNCHANGED <<sess, gw>> BY <1>1 DEF BeginCheckout
  <2>5. QED BY <2>3, <2>4, SameSessions, QuietClaims
<1>2. ASSUME NEW o \in OrderIds, BeginRetry(p, o) PROVE ClaimStep(p)
  <2>0. UNCHANGED <<sess, gw>> /\ "retry" \in Entrances BY <1>2 DEF BeginRetry
  <2>1. ProcStep(p)
    <3>1. CASE ActiveOf(o) = {}
      <4>1. proc' = [proc EXCEPT ![p] = [Idle EXCEPT !.at = "start", !.order = o, !.amount = AmountDue(o)]]
        BY <1>2, <3>1 DEF BeginRetry
      <4>2. proc'[p].at = "start" /\ \A q \in Procs \ {p} : proc'[q] = proc[q] BY <1>p, <4>1 DEF Idle
      <4>3. QED BY <4>2, QuietProc DEF NamesSession
    <3>2. CASE ActiveOf(o) # {}
      <4>1. PICK s \in ActiveOf(o) : s = CHOOSE t \in ActiveOf(o) : TRUE BY <3>2
      <4>2. proc' = [proc EXCEPT ![p] = [Idle EXCEPT !.at = "retryExpire", !.order = o, !.sess = s]]
        BY <1>2, <3>2, <4>1 DEF BeginRetry
      <4>3. /\ proc'[p].at = "retryExpire" /\ proc'[p].sess = s
            /\ \A q \in Procs \ {p} : proc'[q] = proc[q]
        BY <1>p, <4>2 DEF Idle
      <4>4. s \in Sessions /\ sess[s].status = "ACTIVE" BY <4>1 DEF ActiveOf
      <4>5. QED BY <2>0, <4>3, <4>4 DEF ProcStep
    <3>3. QED BY <3>1, <3>2
  <2>2. QED BY <2>0, <2>1, SameSessions, QuietClaims
<1>3. ASSUME NEW o \in OrderIds, BeginLink(p, o) PROVE ClaimStep(p)
  <2> DEFINE live == IF ActiveOf(o) = {} THEN None ELSE CHOOSE s \in ActiveOf(o) : TRUE
  <2>1. proc' = [proc EXCEPT ![p] = [Idle EXCEPT !.at = "linkExpire", !.order = o,
                                                 !.amount = AmountDue(o), !.sess = live]]
    BY <1>3, Zenon DEF BeginLink
  <2> HIDE DEF live
  <2>2. proc'[p].at = "linkExpire" /\ \A q \in Procs \ {p} : proc'[q] = proc[q] BY <1>p, <2>1 DEF Idle
  <2>3. ProcStep(p) BY <2>2, QuietProc DEF NamesSession
  <2>4. UNCHANGED <<sess, gw>> BY <1>3 DEF BeginLink
  <2>5. QED BY <2>3, <2>4, SameSessions, QuietClaims
<1>4. ASSUME NEW s \in Sessions, SuccessCallback(p, s) PROVE ClaimStep(p)
  <2>1. ReadForSettle(p, s) /\ UNCHANGED <<sess, gw>> BY <1>4 DEF SuccessCallback
  <2>2. QED BY <2>1, SettleClaims
<1>5. ASSUME NEW s \in Sessions, FailCallback(p, s) PROVE ClaimStep(p)
  <2>1. /\ sess[s].status = "ACTIVE" /\ SetStatus(s, "FAILED") /\ UNCHANGED gw
    BY <1>5 DEF FailCallback
  <2>2. proc' = [proc EXCEPT ![p] = [Idle EXCEPT !.at = "failRecord", !.sess = s]] BY <1>5 DEF FailCallback
  <2>3. proc'[p].at = "failRecord" /\ proc'[p].sess = s /\ \A q \in Procs \ {p} : proc'[q] = proc[q]
    BY <1>p, <2>2 DEF Idle
  <2>4. QED BY <2>1, <2>3, CallbackClaims
<1>6. ASSUME NEW s \in Sessions, CancelCallback(p, s) PROVE ClaimStep(p)
  <2>1. /\ sess[s].status = "ACTIVE" /\ SetStatus(s, "CANCELLED") /\ UNCHANGED gw
    BY <1>6 DEF CancelCallback
  <2>2. proc' = [proc EXCEPT ![p] = [Idle EXCEPT !.at = "release", !.sess = s]] BY <1>6 DEF CancelCallback
  <2>3. proc'[p].at = "release" /\ proc'[p].sess = s /\ \A q \in Procs \ {p} : proc'[q] = proc[q]
    BY <1>p, <2>2 DEF Idle
  <2>4. QED BY <2>1, <2>3, CallbackClaims
<1>7. QED BY <1>1, <1>2, <1>3, <1>4, <1>5, <1>6 DEF Request

(* The cron: a settlement it starts is a claim like any other; its update  *)
(* expires ACTIVE sessions only.                                           *)
LEMMA CronClaims ==
  ASSUME TypeInv, ClaimInv, CronStep
  PROVE  ClaimStep(Cron)
<1> USE DEF ledger, outside
<1>c. Cron \in Procs BY DEF Procs
<1>p. proc \in [Procs -> ProcStates] BY DEF TypeInv, ProcOK, GoodProcs
<1>1. CASE UNCHANGED <<proc, sess, gw>>
  <2>1. ProcStep(Cron) BY <1>1 DEF ProcStep
  <2>2. QED BY <1>1, <1>c, <2>1, SameSessions, QuietClaims
<1>2. ASSUME NEW s \in Sessions, ReadForSettle(Cron, s), UNCHANGED <<sess, gw>> PROVE ClaimStep(Cron)
  BY <1>2, <1>c, SettleClaims
<1>3. ASSUME NEW stage \in {"ask", "idle"}, Go(Cron, stage), UNCHANGED <<sess, gw>> PROVE ClaimStep(Cron)
  <2>1. proc'[Cron].at = stage /\ \A q \in Procs \ {Cron} : proc'[q] = proc[q]
    BY <1>c, <1>p, <1>3 DEF Go, ProcStates
  <2>2. ProcStep(Cron) BY <1>c, <2>1, QuietProc DEF NamesSession
  <2>3. QED BY <1>c, <1>3, <2>2, SameSessions, QuietClaims
<1>4. CASE SweepExpire
  <2>1. Go(Cron, "sweepRelease") /\ UNCHANGED gw BY <1>4 DEF SweepExpire
  <2>2. proc'[Cron].at = "sweepRelease" /\ \A q \in Procs \ {Cron} : proc'[q] = proc[q]
    BY <1>c, <1>p, <2>1 DEF Go, ProcStates
  <2>3. ProcStep(Cron) BY <1>c, <2>2, QuietProc DEF NamesSession
  <2>4. \A t \in Sessions : sess'[t].status \in {sess[t].status, "EXPIRED"}
                              /\ (sess[t].status # "ACTIVE" => sess'[t] = sess[t])
    BY <1>4 DEF SweepExpire, ExpireMatches, TypeInv, SessOK, SessionRows
  <2>5. QED BY <1>c, <2>1, <2>3, <2>4, QuietClaims DEF NoneIsNew, SuccessStays
<1>5. ASSUME NEW s \in Sessions, SweepAsk(s) PROVE ClaimStep(Cron)
  BY <1>1, <1>2, <1>5 DEF SweepAsk
<1>6. QED BY <1>1, <1>2, <1>3, <1>4, <1>5 DEF CronStep, Reconcile, SweepRelease, BeginSweep, EndSweep

(* The gateway answers an open page once; a cancellation expires ACTIVE    *)
(* sessions; a crash forgets a process and nothing else.                   *)
LEMMA WorldClaims ==
  ASSUME TypeInv, ClaimInv, World
  PROVE  \E p \in Procs : ClaimStep(p)
<1> USE DEF ledger, outside
<1>c. Cron \in Procs BY DEF Procs
<1>p. proc \in [Procs -> ProcStates] BY DEF TypeInv, ProcOK, GoodProcs
<1>q. UNCHANGED proc => ProcStep(Cron) BY DEF ProcStep
<1>1. CASE UNCHANGED <<proc, sess, gw>> BY <1>1, <1>c, <1>q, SameSessions, QuietClaims
<1>2. ASSUME NEW s \in Sessions, GatewayAnswers(s) PROVE ClaimStep(Cron)
  <2>1. UNCHANGED <<sess, proc>> /\ gw[s] = "open" BY <1>2 DEF GatewayAnswers
  <2>2. PICK answer \in {"paid", "short"} : gw' = [gw EXCEPT ![s] = answer]
    BY <1>2 DEF GatewayAnswers
  <2>3. \A t \in Sessions : GwStep(t) BY <2>1, <2>2 DEF GwStep, TypeInv, WorldOK
  <2>4. QED BY <1>q, <2>1, <2>3, SameSessions DEF ClaimStep
<1>3. ASSUME NEW s \in Sessions, TimePasses(s) PROVE ClaimStep(Cron)
  <2>1. UNCHANGED <<gw, proc>> BY <1>3 DEF TimePasses
  <2>2. \A t \in Sessions : sess'[t].status = sess[t].status
    BY <1>3 DEF TimePasses, TypeInv, SessOK, SessionRows
  <2>3. QED BY <1>c, <1>q, <2>1, <2>2, QuietClaims DEF NoneIsNew, SuccessStays
<1>4. ASSUME NEW o \in OrderIds, CustomerCancels(o) PROVE ClaimStep(Cron)
  <2>1. UNCHANGED <<gw, proc>> BY <1>4 DEF CustomerCancels
  <2>2. \A t \in Sessions : sess'[t].status \in {sess[t].status, "EXPIRED"}
                              /\ (sess[t].status # "ACTIVE" => sess'[t] = sess[t])
    BY <1>4 DEF CustomerCancels, ActiveOf, TypeInv, SessOK, SessionRows
  <2>3. QED BY <1>c, <1>q, <2>1, <2>2, QuietClaims DEF NoneIsNew, SuccessStays
<1>5. ASSUME NEW p \in Procs, ProcessFails(p) PROVE ClaimStep(p)
  <2>1. proc' = [proc EXCEPT ![p] = Idle] /\ UNCHANGED <<sess, gw>> BY <1>5 DEF ProcessFails
  <2>2. proc'[p].at = "idle" /\ \A q \in Procs \ {p} : proc'[q] = proc[q] BY <1>p, <2>1 DEF Idle
  <2>3. ProcStep(p) BY <2>2, QuietProc DEF NamesSession
  <2>4. QED BY <2>1, <2>3, SameSessions, QuietClaims
<1>6. QED BY <1>c, <1>1, <1>2, <1>3, <1>4, <1>5
  DEF World, StaffCancels, RecordManualPayment, StaffMoves, TrashOrRestore, RetryLockTimesOut, EpsGoesDown, EpsComesBack

LEMMA NextIsClaimStep ==
  ASSUME TypeInv, ClaimInv, Next
  PROVE  \E p \in Procs : ClaimStep(p)
<1>1. Cron \in Procs BY DEF Procs
<1>2. QED BY <1>1, HandlerClaims, RequestClaims, CronClaims, WorldClaims DEF Next

LEMMA ClaimInvInit == Init => ClaimInv
<1> SUFFICES ASSUME Init PROVE ClaimInv OBVIOUS
<1>1. sess = [s \in Sessions |-> NoSession] /\ gw = [s \in Sessions |-> "none"] /\ proc = [p \in Procs |-> Idle]
  BY Zenon DEF Init
<1>2. \A p \in Procs : proc[p].at = "idle" BY <1>1 DEF Idle
<1>3. \A s \in Sessions : sess[s].status = "NONE" BY <1>1 DEF NoSession
<1>4. QED BY <1>1, <1>2, <1>3
  DEF ClaimInv, Named, Opened, PaidFirst, AtGateway, BookerOwns, ClaimsAreExclusive, NamesSession

LEMMA ClaimInvNext == TypeInv /\ ClaimInv /\ [Next]_vars => ClaimInv'
<1> SUFFICES ASSUME TypeInv, ClaimInv, [Next]_vars PROVE ClaimInv' OBVIOUS
<1>1. TypeInv' BY TypeInvNext
<1>2. CASE Next BY <1>1, <1>2, NextIsClaimStep, ClaimInvStep
<1>3. CASE UNCHANGED vars
  BY <1>3 DEF vars, ledger, outside, ClaimInv, Named, Opened, PaidFirst, AtGateway, BookerOwns, ClaimsAreExclusive
<1>4. QED BY <1>2, <1>3

LEMMA ClaimInvAlways == Spec => []ClaimInv
<1>1. QED BY TypeInvAlways, ClaimInvInit, ClaimInvNext, PTL DEF Spec

(* A success is booked by one process only, whatever number of redirects,  *)
(* IPNs and cron passes report it at the same moment: the conditional      *)
(* update of settlePaymentSession lets one of them through.  The retry of  *)
(* an order's payment is left out: it expires a session by its id alone.   *)
THEOREM OneBookerPerSuccess == Spec => []("retry" \notin Entrances => ClaimsAreExclusive)
<1>1. ClaimInv => ("retry" \notin Entrances => ClaimsAreExclusive) BY DEF ClaimInv, BookerOwns
<1>2. QED BY <1>1, ClaimInvAlways, PTL

(* A success is only ever claimed of a session the gateway was paid for.   *)
SuccessIsPaid == \A s \in Sessions : sess[s].status = "SUCCEEDED" => gw[s] = "paid"
THEOREM SuccessMeansPaid == Spec => []SuccessIsPaid
<1>1. ClaimInv => SuccessIsPaid BY DEF ClaimInv, PaidFirst, SuccessIsPaid
<1>2. QED BY <1>1, ClaimInvAlways, PTL

(* Nothing takes a success back but the retry of the payment.              *)
THEOREM SuccessIsForGood == ASSUME "retry" \notin Entrances PROVE Spec => SucceededIsFinal
<1>1. TypeInv /\ ClaimInv /\ [Next]_vars =>
        [\A s \in Sessions : sess[s].status = "SUCCEEDED" => sess'[s].status = "SUCCEEDED"]_vars
  <2> SUFFICES ASSUME TypeInv, ClaimInv, Next
               PROVE  \A s \in Sessions : sess[s].status = "SUCCEEDED" => sess'[s].status = "SUCCEEDED"
    OBVIOUS
  <2>1. QED BY NextIsClaimStep DEF ClaimStep, SuccessStays
<1>2. QED BY <1>1, TypeInvAlways, ClaimInvAlways, PTL DEF Spec, SucceededIsFinal

-----------------------------------------------------------------------------
(* What a CONFIRMED order has received.  A checkout asks the gateway and   *)
(* the balance for exactly the total between them, and it is the checkout  *)
(* of the session that claims and books it.                                *)
CheckoutRows ==
  \A s \in Sessions : sess[s].status # "NONE" =>
    /\ sess[s].pre => sess[s].amount + entry[s].reserve = Total
    /\ sess[s].order = None => sess[s].pre
OrderlessClaims ==
  \A p \in Procs : proc[p].at \in {"claim", "book"} /\ proc[p].order = None => sess[proc[p].sess].pre
PaymentsOfOrders == \A s \in Sessions : payment[s].status = "none" => payment[s].order = None
CoverInv == CheckoutRows /\ OrderlessClaims /\ PaymentsOfOrders /\ ConfirmedIsCovered

(* What a step may do to a session's row and its reservation, and to the   *)
(* one Payment a session has.                                              *)
RowStep(s) ==
  /\ entry[s].released => entry'[s].released
  /\ sess[s].status # "NONE" =>
       /\ sess'[s].pre = sess[s].pre /\ sess'[s].amount = sess[s].amount
       /\ entry'[s].reserve = entry[s].reserve
       /\ sess'[s].order = None => sess[s].order = None
  /\ sess[s].status = "NONE" /\ sess'[s].status # "NONE" =>
       /\ IF sess'[s].pre THEN sess'[s].amount + entry'[s].reserve = Total
          ELSE entry'[s].reserve = entry[s].reserve
       /\ sess'[s].order = None => sess'[s].pre
PaymentStep(s) ==
  \/ payment'[s] = payment[s]
  \/ payment[s].status = "none" /\ payment'[s].status # "none"

(* The entry of every session keeps its reserve, and what was given back   *)
(* stays given back.                                                       *)
EntriesKeep == \A s \in Sessions : entry'[s].reserve = entry[s].reserve /\ (entry[s].released => entry'[s].released)

LEMMA ReleaseRows ==
  ASSUME TypeInv, NEW s \in Sessions, ReleaseReservation(s)
  PROVE  EntriesKeep
  BY DEF TypeInv, LedgerOK, EntryRows, ReleaseReservation, EntriesKeep

LEMMA SameRows ==
  ASSUME UNCHANGED sess, EntriesKeep
  PROVE  \A s \in Sessions : RowStep(s)
  BY DEF RowStep, EntriesKeep

LEMMA StatusRows ==
  ASSUME TypeInv, NEW s \in Sessions, sess[s].status # "NONE", NEW st, SetStatus(s, st), UNCHANGED entry
  PROVE  \A t \in Sessions : RowStep(t)
<1>1. \A t \in Sessions : /\ sess'[t].pre = sess[t].pre /\ sess'[t].amount = sess[t].amount
                          /\ sess'[t].order = sess[t].order
                          /\ t # s => sess'[t] = sess[t]
  BY DEF TypeInv, SessOK, SessionRows, SetStatus
<1>2. QED BY <1>1 DEF RowStep

LEMMA HandlerRows ==
  ASSUME TypeInv, ClaimInv, ChargeInv, NEW p \in Procs, HandlerStep(p)
  PROVE  \A s \in Sessions : RowStep(s)
<1> USE DEF ledger, outside
<1>s. proc[p].at \in NamesSession => proc[p].sess \in Sessions /\ sess[proc[p].sess].status # "NONE"
  BY NamedSession DEF ClaimInv, Named
<1>t. sess \in [Sessions -> SessionRows] BY DEF TypeInv, SessOK
<1>e. entry \in [Sessions -> EntryRows] BY DEF TypeInv, LedgerOK
<1>k. UNCHANGED entry => EntriesKeep BY DEF EntriesKeep
<1>1. CASE PlaceFromBalance(p) \/ BookOrder(p)
  BY <1>1, <1>k, SameRows DEF PlaceFromBalance, BookOrder
<1>2. CASE ReserveAndCreate(p)
  <2>1. CASE ~Covers(proc[p].amount) BY <1>2, <1>k, <2>1, SameRows DEF ReserveAndCreate
  <2>2. CASE Covers(proc[p].amount)
    <3>1. PICK s \in Sessions, provider \in Providers :
            /\ sess[s].status = "NONE"
            /\ sess' = [sess EXCEPT ![s] = [NoSession EXCEPT !.status = "ACTIVE", !.pre = TRUE, !.provider = provider,
                                       !.amount = Total - proc[p].amount, !.coupon = proc[p].coupon]]
            /\ entry' = [entry EXCEPT ![s].reserve = proc[p].amount]
      BY <1>2, <2>2, Zenon DEF ReserveAndCreate
    <3>2. /\ sess'[s].pre /\ sess'[s].amount = Total - proc[p].amount
          /\ \A t \in Sessions : t # s => sess'[t] = sess[t]
      BY <1>t, <3>1 DEF NoSession
    <3>3. \A t \in Sessions : /\ entry'[t].reserve = IF t = s THEN proc[p].amount ELSE entry[t].reserve
                              /\ entry'[t].released = entry[t].released
      BY <1>e, <3>1 DEF EntryRows
    <3>4. proc[p].amount \in Nat /\ Total \in Nat
      BY AmountsAssumption DEF TypeInv, ProcOK, GoodProcs, ProcStates
    <3>5. sess'[s].amount + entry'[s].reserve = Total BY <3>2, <3>3, <3>4
    <3>6. RowStep(s) BY <3>1, <3>2, <3>3, <3>5 DEF RowStep
    <3>7. ASSUME NEW t \in Sessions, t # s PROVE RowStep(t) BY <3>2, <3>3, <3>7 DEF RowStep
    <3>8. QED BY <3>6, <3>7
  <2>3. QED BY <2>1, <2>2
<1>3. CASE RetryExpire(p)
  <2>1. proc[p].at = "retryExpire" /\ SetStatus(proc[p].sess, "EXPIRED") /\ UNCHANGED entry BY <1>3 DEF RetryExpire
  <2>2. QED BY <1>s, <2>1, StatusRows DEF NamesSession
<1>4. CASE LinkExpire(p)
  <2>1. /\ UNCHANGED entry
        /\ UNCHANGED sess \/ (SetStatus(proc[p].sess, "EXPIRED") /\ sess[proc[p].sess].status = "ACTIVE"
                               /\ proc[p].sess # None)
    BY <1>4 DEF LinkExpire
  <2>2. proc[p].sess \in Sessions \cup {None} BY DEF TypeInv, ProcOK, GoodProcs, ProcStates
  <2>3. QED BY <1>k, <2>1, <2>2, StatusRows, SameRows
<1>5. CASE StartSession(p)
  <2>0. UNCHANGED entry /\ proc[p].at = "start" BY <1>5, Zenon DEF StartSession
  <2>1. CASE proc[p].amount = 0 \/ ActiveOf(proc[p].order) # {}
    <3>1. UNCHANGED sess BY <1>5, <2>1, Zenon DEF StartSession
    <3>2. QED BY <1>k, <2>0, <3>1, SameRows
  <2>2. CASE ~(proc[p].amount = 0 \/ ActiveOf(proc[p].order) # {})
    <3>1. PICK s \in Sessions, provider \in Providers : Starts(p, s, provider)
      BY <1>5, <2>2, Zenon DEF StartSession, Starts
    <3>2. /\ ~sess'[s].pre /\ sess'[s].order = proc[p].order
          /\ \A t \in Sessions : t # s => sess'[t] = sess[t]
      BY <1>t, <3>1 DEF Starts, NoSession
    <3>3. proc[p].order # None
      BY <2>0, SetsAssumption DEF TypeInv, ProcOK, GoodProcs, NamesOrder
    <3>4. sess[s].status = "NONE" BY <3>1 DEF Starts
    <3>5. QED BY <2>0, <3>2, <3>3, <3>4 DEF RowStep
  <2>3. QED BY <2>1, <2>2
<1>6. CASE GatewayOpens(p) BY <1>6, <1>k, SameRows DEF GatewayOpens
<1>7. CASE GatewayRefuses(p)
  <2>1. proc[p].at = "gateway" /\ SetStatus(proc[p].sess, "FAILED") /\ UNCHANGED entry BY <1>7 DEF GatewayRefuses
  <2>2. QED BY <1>s, <2>1, StatusRows DEF NamesSession
<1>8. CASE ReleaseStep(p)
  <2>1. proc[p].at = "release" /\ ReleaseReservation(proc[p].sess) /\ UNCHANGED sess BY <1>8 DEF ReleaseStep
  <2>2. QED BY <1>s, <2>1, ReleaseRows, SameRows DEF NamesSession
<1>9. CASE ClaimSession(p)
  <2>1. /\ proc[p].at = "claim" /\ UNCHANGED entry
        /\ UNCHANGED sess \/ SetStatus(proc[p].sess, "SUCCEEDED")
    BY <1>9 DEF ClaimSession
  <2>2. QED BY <1>k, <1>s, <2>1, StatusRows, SameRows DEF NamesSession
<1>10. CASE BookCheckout(p)
  <2>1. UNCHANGED sess BY <1>10, Zenon DEF BookCheckout
  <2>2. EntriesKeep
    <3>1. CASE UNCHANGED entry BY <3>1, <1>k
    <3>2. CASE ~UNCHANGED entry
      <4>1. PICK c, r :
              \/ entry' = [entry EXCEPT ![proc[p].sess].consumed = c]
              \/ entry' = [entry EXCEPT ![proc[p].sess].respent = r]
        BY <1>10, <3>2 DEF BookCheckout
      <4>2. QED BY <1>e, <4>1 DEF EntriesKeep, EntryRows
    <3>3. QED BY <3>1, <3>2
  <2>3. QED BY <2>1, <2>2, SameRows
<1>11. CASE LinkOrder(p)
  <2>1. proc[p].at = "link" /\ sess' = [sess EXCEPT ![proc[p].sess].order = proc[p].order] /\ UNCHANGED entry
    BY <1>11 DEF LinkOrder
  <2>2. proc[p].order \in OrderIds /\ proc[p].order # None
    BY <2>1, SetsAssumption DEF TypeInv, ProcOK, GoodProcs, NamesOrder
  <2>3. \A t \in Sessions : /\ sess'[t].status = sess[t].status /\ sess'[t].pre = sess[t].pre
                            /\ sess'[t].amount = sess[t].amount
                            /\ sess'[t].order = IF t = proc[p].sess THEN proc[p].order ELSE sess[t].order
    BY <1>t, <2>1 DEF SessionRows
  <2>4. QED BY <2>1, <2>2, <2>3 DEF RowStep
<1>12. CASE RecordFailure(p)
  <2>1. proc[p].at = "failRecord" /\ UNCHANGED sess /\ (UNCHANGED entry \/ ReleaseReservation(proc[p].sess))
    BY <1>12 DEF RecordFailure
  <2>2. QED BY <1>k, <1>s, <2>1, ReleaseRows, SameRows DEF NamesSession
<1>13. QED BY <1>1, <1>2, <1>3, <1>4, <1>5, <1>6, <1>7, <1>8, <1>9, <1>10, <1>11, <1>12 DEF HandlerStep

LEMMA NextRows ==
  ASSUME TypeInv, ClaimInv, ChargeInv, [Next]_vars
  PROVE  \A s \in Sessions : RowStep(s)
<1> USE DEF ledger, outside
<1>t. sess \in [Sessions -> SessionRows] BY DEF TypeInv, SessOK
<1>k. UNCHANGED entry => EntriesKeep BY DEF EntriesKeep
<1>q. UNCHANGED <<sess, entry>> => \A s \in Sessions : RowStep(s) BY <1>k, SameRows
<1>1. ASSUME NEW p \in Procs, Request(p) PROVE \A s \in Sessions : RowStep(s)
  <2>1. ASSUME NEW s \in Sessions, FailCallback(p, s) PROVE \A t \in Sessions : RowStep(t)
    <3>1. sess[s].status = "ACTIVE" /\ SetStatus(s, "FAILED") /\ UNCHANGED entry BY <2>1 DEF FailCallback
    <3>2. QED BY <3>1, StatusRows
  <2>2. ASSUME NEW s \in Sessions, CancelCallback(p, s) PROVE \A t \in Sessions : RowStep(t)
    <3>1. sess[s].status = "ACTIVE" /\ SetStatus(s, "CANCELLED") /\ UNCHANGED entry BY <2>2 DEF CancelCallback
    <3>2. QED BY <3>1, StatusRows
  <2>3. ASSUME NEW o \in OrderIds, BeginRetry(p, o) \/ BeginLink(p, o) PROVE UNCHANGED <<sess, entry>>
    BY <2>3, Zenon DEF BeginRetry, BeginLink
  <2>4. ASSUME NEW s \in Sessions, SuccessCallback(p, s) PROVE UNCHANGED <<sess, entry>>
    BY <2>4, Zenon DEF SuccessCallback
  <2>5. BeginCheckout(p) => UNCHANGED <<sess, entry>> BY Zenon DEF BeginCheckout
  <2>6. QED BY <1>1, <1>q, <2>1, <2>2, <2>3, <2>4, <2>5 DEF Request
<1>2. ASSUME SweepExpire PROVE \A s \in Sessions : RowStep(s)
  <2>1. \A t \in Sessions : /\ sess'[t].pre = sess[t].pre /\ sess'[t].amount = sess[t].amount
                            /\ sess'[t].order = sess[t].order
                            /\ sess[t].status = "NONE" => sess'[t].status = "NONE"
    BY <1>2, <1>t DEF SweepExpire, ExpireMatches, SessionRows
  <2>2. QED BY <1>2, <2>1 DEF SweepExpire, RowStep
<1>3. ASSUME NEW s \in Sessions, SweepRelease(s) PROVE \A t \in Sessions : RowStep(t)
  BY <1>3, ReleaseRows, SameRows DEF SweepRelease
<1>4. CASE CronStep
  <2>1. ASSUME NEW s \in Sessions, Reconcile(s) \/ SweepAsk(s) PROVE UNCHANGED <<sess, entry>>
    BY <2>1, Zenon DEF Reconcile, SweepAsk
  <2>2. BeginSweep \/ EndSweep => UNCHANGED <<sess, entry>> BY Zenon DEF BeginSweep, EndSweep
  <2>3. QED BY <1>q, <1>2, <1>3, <1>4, <2>1, <2>2 DEF CronStep
<1>5. ASSUME NEW s \in Sessions, TimePasses(s) PROVE \A t \in Sessions : RowStep(t)
  <2>1. \A t \in Sessions : /\ sess'[t].pre = sess[t].pre /\ sess'[t].amount = sess[t].amount
                            /\ sess'[t].order = sess[t].order /\ sess'[t].status = sess[t].status
    BY <1>5, <1>t DEF TimePasses, SessionRows
  <2>2. QED BY <1>5, <2>1 DEF TimePasses, RowStep
<1>6. ASSUME NEW o \in OrderIds, CustomerCancels(o) PROVE \A t \in Sessions : RowStep(t)
  <2>1. \A t \in Sessions : /\ sess'[t].pre = sess[t].pre /\ sess'[t].amount = sess[t].amount
                            /\ sess'[t].order = sess[t].order
                            /\ sess[t].status = "NONE" => sess'[t].status = "NONE"
    BY <1>6, <1>t DEF CustomerCancels, ActiveOf, SessionRows
  <2>2. QED BY <1>6, <2>1 DEF CustomerCancels, RowStep
<1>7. CASE World
  BY <1>7, <1>q, <1>5, <1>6
  DEF World, GatewayAnswers, StaffCancels, RecordManualPayment, StaffMoves, TrashOrRestore,
      RetryLockTimesOut, EpsGoesDown, EpsComesBack, ProcessFails
<1>8. CASE UNCHANGED vars BY <1>8, <1>q DEF vars
<1>9. QED BY <1>1, <1>4, <1>7, <1>8, HandlerRows DEF Next

(* A request writes no ledger row, nor does the cron but for the release   *)
(* of a reservation; of the handlers, three write payments.                *)
LEMMA RequestLedger ==
  ASSUME NEW p \in Procs, Request(p)
  PROVE  UNCHANGED <<payment, order>>
<1>1. BeginCheckout(p) => UNCHANGED <<payment, order>> BY Zenon DEF BeginCheckout, ledger
<1>2. ASSUME NEW o \in OrderIds, BeginRetry(p, o) \/ BeginLink(p, o) PROVE UNCHANGED <<payment, order>>
  BY <1>2, Zenon DEF BeginRetry, BeginLink, ledger
<1>3. ASSUME NEW s \in Sessions, SuccessCallback(p, s) \/ FailCallback(p, s) \/ CancelCallback(p, s)
      PROVE  UNCHANGED <<payment, order>>
  BY <1>3, Zenon DEF SuccessCallback, FailCallback, CancelCallback, ledger
<1>4. QED BY <1>1, <1>2, <1>3 DEF Request

LEMMA CronLedger == CronStep => UNCHANGED <<payment, order>>
<1>1. ASSUME NEW s \in Sessions, Reconcile(s) \/ SweepAsk(s) \/ SweepRelease(s) PROVE UNCHANGED <<payment, order>>
  BY <1>1, Zenon DEF Reconcile, SweepAsk, SweepRelease, ledger
<1>2. BeginSweep \/ SweepExpire \/ EndSweep => UNCHANGED <<payment, order>>
  BY Zenon DEF BeginSweep, SweepExpire, EndSweep, ledger
<1>3. QED BY <1>1, <1>2 DEF CronStep

LEMMA HandlerLedger ==
  ASSUME NEW p \in Procs, HandlerStep(p)
  PROVE  /\ UNCHANGED payment \/ BookCheckout(p) \/ BookOrder(p) \/ RecordFailure(p)
         /\ UNCHANGED order \/ PlaceFromBalance(p) \/ BookCheckout(p) \/ BookOrder(p)
<1>1. ReserveAndCreate(p) \/ RetryExpire(p) \/ LinkExpire(p) => UNCHANGED <<payment, order>>
  BY Zenon DEF ReserveAndCreate, RetryExpire, LinkExpire, ledger
<1>2. StartSession(p) \/ GatewayOpens(p) \/ GatewayRefuses(p) => UNCHANGED <<payment, order>>
  BY Zenon DEF StartSession, GatewayOpens, GatewayRefuses, ledger
<1>3. ReleaseStep(p) \/ ClaimSession(p) \/ LinkOrder(p) => UNCHANGED <<payment, order>>
  BY Zenon DEF ReleaseStep, ClaimSession, LinkOrder, ledger
<1>4. PlaceFromBalance(p) => UNCHANGED payment BY Zenon DEF PlaceFromBalance
<1>5. RecordFailure(p) => UNCHANGED order BY Zenon DEF RecordFailure
<1>6. QED BY <1>1, <1>2, <1>3, <1>4, <1>5 DEF HandlerStep

(* A session's Payment is written once.                                    *)
LEMMA NextPayments ==
  ASSUME TypeInv, [Next]_vars
  PROVE  \A s \in Sessions : PaymentStep(s)
<1> USE DEF ledger, outside
<1>s. \A p \in Procs : proc[p].at \in NamesSession => proc[p].sess \in Sessions BY NamedSession
<1>0. CASE UNCHANGED payment BY <1>0 DEF PaymentStep
<1>1. ASSUME NEW s \in Sessions, payment[s].status = "none", NEW st \in {"SUCCEEDED", "FAILED"}, NEW o,
             payment' = [payment EXCEPT ![s] = [status |-> st, order |-> o]]
      PROVE  \A t \in Sessions : PaymentStep(t)
  BY <1>1 DEF TypeInv, LedgerOK, PaymentStep
<1>2. ASSUME NEW p \in Procs, HandlerStep(p), ~UNCHANGED payment
      PROVE  \A t \in Sessions : PaymentStep(t)
  <2>1. CASE BookCheckout(p)
    <3>1. proc[p].at = "book" /\ payment[proc[p].sess].status = "none" BY <1>2, <2>1 DEF BookCheckout, BookingThrows
    <3>2. \E o \in OrderIds : payment' = [payment EXCEPT ![proc[p].sess] = [status |-> "SUCCEEDED", order |-> o]]
      BY <1>2, <2>1 DEF BookCheckout
    <3>3. QED BY <1>1, <1>s, <3>1, <3>2 DEF NamesSession
  <2>2. CASE BookOrder(p)
    <3>1. /\ proc[p].at = "book" /\ payment[proc[p].sess].status = "none"
          /\ payment' = [payment EXCEPT ![proc[p].sess] = [status |-> "SUCCEEDED", order |-> proc[p].order]]
      BY <1>2, <2>2 DEF BookOrder, SettlementThrows
    <3>2. QED BY <1>1, <1>s, <3>1 DEF NamesSession
  <2>3. CASE RecordFailure(p)
    <3>1. /\ proc[p].at = "failRecord" /\ payment[proc[p].sess].status = "none"
          /\ payment' = [payment EXCEPT ![proc[p].sess] = [status |-> "FAILED", order |-> sess[proc[p].sess].order]]
      BY <1>2, <2>3 DEF RecordFailure
    <3>2. QED BY <1>1, <1>s, <3>1 DEF NamesSession
  <2>4. QED BY <1>2, <2>1, <2>2, <2>3, HandlerLedger
<1>3. World => UNCHANGED payment
  BY DEF World, GatewayAnswers, TimePasses, CustomerCancels, StaffCancels,
         RecordManualPayment, StaffMoves, TrashOrRestore, RetryLockTimesOut,
         EpsGoesDown, EpsComesBack, ProcessFails
<1>4. QED BY <1>0, <1>2, <1>3, RequestLedger, CronLedger DEF Next, vars

(* The row of an order that a checkout places, and what is in it.          *)
LEMMA PlacedRow ==
  ASSUME TypeInv, NEW p \in Procs, PlaceFromBalance(p), ~UNCHANGED <<order, balance>>
  PROVE  /\ Min({balance, Total}) \in Nat /\ Min({balance, Total}) <= Total /\ proc[p].coupon \in BOOLEAN
         /\ balance' = balance - Min({balance, Total})
         /\ \E o \in OrderIds, st \in {"PENDING", "CONFIRMED"} :
              /\ order[o].status = "NONE" /\ (st = "CONFIRMED" => Min({balance, Total}) = Total)
              /\ order' = [order EXCEPT ![o] = NewOrderRow(st, Min({balance, Total}), proc[p].coupon)]
<1> DEFINE pays == Min({balance, Total})
<1>1. balance \in Nat /\ Total \in Nat BY AmountsAssumption DEF TypeInv, LedgerOK
<1>2. pays \in Nat /\ pays <= Total BY <1>1, MinOfPair
<1>3. proc[p].coupon \in BOOLEAN BY DEF TypeInv, ProcOK, GoodProcs, ProcStates
<1>4. PICK o \in OrderIds :
        /\ order[o].status = "NONE" /\ balance' = balance - pays
        /\ order' = [order EXCEPT ![o] = NewOrderRow(IF pays = Total THEN "CONFIRMED" ELSE "PENDING", pays, proc[p].coupon)]
  BY DEF PlaceFromBalance
<1> HIDE DEF pays
<1>5. PICK st \in {"PENDING", "CONFIRMED"} : st = IF pays = Total THEN "CONFIRMED" ELSE "PENDING" OBVIOUS
<1>6. st = "CONFIRMED" => pays = Total BY <1>5
<1>7. QED BY <1>2, <1>3, <1>4, <1>5, <1>6 DEF pays

LEMMA BookedRow ==
  ASSUME TypeInv, NEW p \in Procs, BookCheckout(p), ~BookingThrows(proc[p].sess)
  PROVE  /\ proc[p].sess \in Sessions /\ payment[proc[p].sess].status = "none"
         /\ sess[proc[p].sess].amount + FromBalance(proc[p].sess) \in Nat /\ sess[proc[p].sess].coupon \in BOOLEAN
         /\ FromBalance(proc[p].sess) \in Nat /\ FromBalance(proc[p].sess) <= entry[proc[p].sess].reserve
         /\ \E o \in OrderIds :
              /\ order[o].status = "NONE"
              /\ order' = [order EXCEPT ![o] = NewOrderRow("CONFIRMED", sess[proc[p].sess].amount
                                                             + FromBalance(proc[p].sess), sess[proc[p].sess].coupon)]
              /\ payment' = [payment EXCEPT ![proc[p].sess] = [status |-> "SUCCEEDED", order |-> o]]
<1> DEFINE s == proc[p].sess
<1>1. proc[p].at = "book" BY Zenon DEF BookCheckout
<1>2. s \in Sessions BY <1>1, NamedSession DEF NamesSession
<1>3. sess[s].amount \in Nat /\ sess[s].coupon \in BOOLEAN /\ entry[s].reserve \in Nat /\ balance \in Nat
  BY <1>2, AmountsAssumption DEF TypeInv, SessOK, SessionRows, LedgerOK, EntryRows
<1>4. FromBalance(s) \in Nat /\ FromBalance(s) <= entry[s].reserve
  <2>1. CASE Unresolved(s) BY <1>3, <2>1 DEF FromBalance
  <2>2. CASE ~Unresolved(s)
    <3>1. FromBalance(s) = Min({entry[s].reserve, balance}) BY <2>2 DEF FromBalance
    <3>2. QED BY <1>3, <3>1, MinOfPair
  <2>3. QED BY <2>1, <2>2
<1>5. payment[s].status = "none" BY DEF BookingThrows
<1>6. \E o \in OrderIds :
        /\ order[o].status = "NONE"
        /\ order' = [order EXCEPT ![o] = NewOrderRow("CONFIRMED", sess[s].amount + FromBalance(s), sess[s].coupon)]
        /\ payment' = [payment EXCEPT ![s] = [status |-> "SUCCEEDED", order |-> o]]
  BY Zenon DEF BookCheckout
<1>7. sess[s].amount + FromBalance(s) \in Nat BY <1>3, <1>4
<1>8. QED BY <1>2, <1>3, <1>4, <1>5, <1>6, <1>7

LEMMA RowWritten ==
  ASSUME TypeInv, NEW o \in OrderIds, NEW st \in {"PENDING", "CONFIRMED"}, NEW paid \in Nat, NEW c \in BOOLEAN,
         order' = [order EXCEPT ![o] = NewOrderRow(st, paid, c)]
  PROVE  /\ order'[o].status = st /\ order'[o].paid = paid
         /\ order'[o].credited = 0 /\ order'[o].cash = 0 /\ order'[o].late = 0
         /\ \A n \in OrderIds : n # o => order'[n] = order[n]
<1>1. order'[o] = NewOrderRow(st, paid, c) /\ \A n \in OrderIds : n # o => order'[n] = order[n]
  BY DEF TypeInv, LedgerOK
<1>2. QED BY <1>1, NewOrders

(* What one step may do to an order, field by field.                       *)
SameMoney(o) ==
  /\ order'[o].paid = order[o].paid /\ order'[o].cash = order[o].cash /\ order'[o].late = order[o].late
SameFlags(o) == (order'[o].moved <=> order[o].moved) /\ order'[o].trash = order[o].trash
AttemptPays(o) ==
  /\ \E amount \in Nat : /\ order'[o].paid = order[o].paid + amount
                         /\ order'[o].status = IF Confirms(o, amount) THEN "CONFIRMED" ELSE order[o].status
  /\ order'[o].credited = order[o].credited /\ order'[o].cash = order[o].cash /\ order'[o].late = order[o].late
  /\ SameFlags(o)
IsCancelled(o) ==
  /\ order[o].status # "NONE" /\ order'[o].status = "CANCELLED"
  /\ SameMoney(o) /\ SameFlags(o)
StaffReceive(o) ==
  /\ order[o].status \in {"PENDING", "CONFIRMED"} /\ order'[o].status = order[o].status
  /\ \E amount \in 1..AmountDue(o) :
       /\ order'[o].paid = order[o].paid + amount /\ order'[o].cash = order[o].cash + amount
       /\ order'[o].late = order[o].late + (IF AttemptIsOut(o) THEN amount ELSE 0)
  /\ order'[o].credited = order[o].credited /\ SameFlags(o)
StaffMove(o) ==
  /\ order[o].status \in {"PENDING", "CONFIRMED"} /\ order'[o].status \in {"PENDING", "CONFIRMED"}
  /\ order'[o].moved /\ order'[o].trash = order[o].trash
  /\ order'[o].credited = order[o].credited /\ SameMoney(o)
StaffTrash(o) ==
  /\ order[o].status # "NONE" /\ order'[o].status = order[o].status
  /\ order'[o].trash # "never" /\ (order'[o].moved <=> order[o].moved)
  /\ order'[o].credited = order[o].credited /\ SameMoney(o)

LEMMA OrderFields ==
  ASSUME TypeInv, [Next]_vars, NEW o \in OrderIds
  PROVE  \/ order'[o] = order[o]
         \/ Placed(o)
         \/ AttemptPays(o)
         \/ IsCancelled(o)
         \/ StaffReceive(o)
         \/ StaffMove(o)
         \/ StaffTrash(o)
<1>1. PICK r \in OrderRows : r = order[o] BY DEF TypeInv, LedgerOK
<1>2. ASSUME NEW amount \in Nat, Paid(o, amount) PROVE AttemptPays(o)
  <2> DEFINE st == IF Confirms(o, amount) THEN "CONFIRMED" ELSE r.status
  <2>1. order'[o] = [r EXCEPT !.paid = r.paid + amount, !.status = st] BY <1>1, <1>2 DEF Paid
  <2> HIDE DEF st
  <2>2. /\ order'[o].paid = r.paid + amount /\ order'[o].status = st
        /\ order'[o].credited = r.credited /\ order'[o].cash = r.cash /\ order'[o].late = r.late
        /\ (order'[o].moved <=> r.moved) /\ order'[o].trash = r.trash
    BY <2>1 DEF OrderRows
  <2>3. QED BY <1>1, <2>2 DEF AttemptPays, SameFlags, st
<1>3. ASSUME order[o].status # "NONE", NEW credit \in Nat,
             order'[o] = [order[o] EXCEPT !.status = "CANCELLED", !.credited = order[o].credited + credit]
      PROVE  IsCancelled(o)
  <2>1. order'[o] = [r EXCEPT !.status = "CANCELLED", !.credited = r.credited + credit] BY <1>1, <1>3
  <2>2. /\ order'[o].status = "CANCELLED" /\ order'[o].paid = r.paid
        /\ order'[o].cash = r.cash /\ order'[o].late = r.late
        /\ (order'[o].moved <=> r.moved) /\ order'[o].trash = r.trash
    BY <2>1 DEF OrderRows
  <2>3. QED BY <1>1, <1>3, <2>2 DEF IsCancelled, SameMoney, SameFlags
<1>4. ASSUME order[o].status \in {"PENDING", "CONFIRMED"}, NEW amount \in 1..AmountDue(o),
             order'[o] = Received(o, amount, IF AttemptIsOut(o) THEN amount ELSE 0)
      PROVE  StaffReceive(o)
  <2> DEFINE late == IF AttemptIsOut(o) THEN amount ELSE 0
  <2>1. order'[o] = [r EXCEPT !.paid = r.paid + amount, !.cash = r.cash + amount, !.late = r.late + late]
    BY <1>1, <1>4 DEF Received
  <2> HIDE DEF late
  <2>2. /\ order'[o].status = r.status /\ order'[o].paid = r.paid + amount /\ order'[o].credited = r.credited
        /\ order'[o].cash = r.cash + amount /\ order'[o].late = r.late + late
        /\ (order'[o].moved <=> r.moved) /\ order'[o].trash = r.trash
    BY <2>1 DEF OrderRows
  <2>3. QED BY <1>1, <1>4, <2>2 DEF StaffReceive, SameFlags, late
<1>5. ASSUME order[o].status \in {"PENDING", "CONFIRMED"}, order'[o] = Moved(o) PROVE StaffMove(o)
  <2> DEFINE st == IF r.status = "PENDING" THEN "CONFIRMED" ELSE "PENDING"
  <2>1. order'[o] = [r EXCEPT !.moved = TRUE, !.status = st] BY <1>1, <1>5 DEF Moved
  <2>s. st \in {"PENDING", "CONFIRMED"} OBVIOUS
  <2> HIDE DEF st
  <2>2. /\ order'[o].status = st /\ order'[o].paid = r.paid /\ order'[o].credited = r.credited
        /\ order'[o].cash = r.cash /\ order'[o].late = r.late /\ order'[o].moved /\ order'[o].trash = r.trash
    BY <2>1 DEF OrderRows
  <2>3. QED BY <1>1, <1>5, <2>s, <2>2 DEF StaffMove, SameMoney
<1>6. ASSUME order[o].status # "NONE", order'[o] = Trashed(o) PROVE StaffTrash(o)
  <2>1. PICK w \in {"in", "out"} : order'[o] = [r EXCEPT !.trash = w]
    <3>1. CASE r.trash = "in" BY <1>1, <1>6, <3>1 DEF Trashed
    <3>2. CASE r.trash # "in" BY <1>1, <1>6, <3>2 DEF Trashed
    <3>3. QED BY <3>1, <3>2
  <2>2. /\ order'[o].status = r.status /\ order'[o].paid = r.paid /\ order'[o].credited = r.credited
        /\ order'[o].cash = r.cash /\ order'[o].late = r.late
        /\ (order'[o].moved <=> r.moved) /\ order'[o].trash = w
    BY <2>1 DEF OrderRows
  <2>3. QED BY <1>1, <1>6, <2>2 DEF StaffTrash, SameMoney
<1>7. QED BY <1>2, <1>3, <1>4, <1>5, <1>6, OrderMoves DEF OrderMove, Cancelled, AtDesk

(* An order that a step confirms as it places it is paid in full, or short *)
(* by a reservation that had been given back.                              *)
LEMMA PlacedPaid ==
  ASSUME TypeInv, ChargeInv, ClaimInv, CoverInv, [Next]_vars, NEW o \in OrderIds,
         order[o].status = "NONE", order'[o].status = "CONFIRMED"
  PROVE  \/ order'[o].paid = Total
         \/ \E s \in Sessions : payment'[s].order = o /\ entry[s].released
<1> USE DEF ledger, outside
<1>w. order \in [OrderIds -> OrderRows] BY DEF TypeInv, LedgerOK
<1>1. ~UNCHANGED order OBVIOUS
<1>2. ASSUME NEW p \in Procs, PlaceFromBalance(p) PROVE order'[o].paid = Total
  <2>1. PICK n \in OrderIds, st \in {"PENDING", "CONFIRMED"} :
          /\ st = "CONFIRMED" => Min({balance, Total}) = Total
          /\ order' = [order EXCEPT ![n] = NewOrderRow(st, Min({balance, Total}), proc[p].coupon)]
    BY <1>1, <1>2, PlacedRow, Zenon
  <2>2. /\ order'[n].status = st /\ order'[n].paid = Min({balance, Total})
        /\ \A m \in OrderIds : m # n => order'[m] = order[m]
    <3> DEFINE pays == Min({balance, Total})
    <3>1. pays \in Nat /\ proc[p].coupon \in BOOLEAN BY <1>1, <1>2, PlacedRow
    <3>2. order' = [order EXCEPT ![n] = NewOrderRow(st, pays, proc[p].coupon)] BY <2>1
    <3> HIDE DEF pays
    <3>3. order'[n].status = st /\ order'[n].paid = pays /\ \A m \in OrderIds : m # n => order'[m] = order[m]
      BY <3>1, <3>2, RowWritten, Zenon
    <3>4. QED BY <3>3 DEF pays
  <2>3. n = o BY <2>2
  <2>4. QED BY <2>1, <2>2, <2>3
<1>3. ASSUME NEW p \in Procs, BookCheckout(p)
      PROVE  \/ order'[o].paid = Total
             \/ \E s \in Sessions : payment'[s].order = o /\ entry[s].released
  <2> DEFINE s == proc[p].sess
  <2>0. ~BookingThrows(s) BY <1>1, <1>3, Zenon DEF BookCheckout, ledger
  <2>1. PICK n \in OrderIds :
          /\ order' = [order EXCEPT ![n] = NewOrderRow("CONFIRMED", sess[s].amount + FromBalance(s), sess[s].coupon)]
          /\ payment' = [payment EXCEPT ![s] = [status |-> "SUCCEEDED", order |-> n]]
    BY <1>3, <2>0, BookedRow
  <2>2. n = o /\ order'[o].paid = sess[s].amount + FromBalance(s)
    <3> DEFINE paid == sess[s].amount + FromBalance(s)
    <3>1. paid \in Nat /\ sess[s].coupon \in BOOLEAN BY <1>3, <2>0, BookedRow
    <3>2. order' = [order EXCEPT ![n] = NewOrderRow("CONFIRMED", paid, sess[s].coupon)] BY <2>1
    <3> HIDE DEF paid
    <3>3. order'[n].paid = paid /\ \A m \in OrderIds : m # n => order'[m] = order[m]
      BY <3>1, <3>2, RowWritten, Zenon
    <3>4. QED BY <3>3 DEF paid
  <2>3. proc[p].at = "book" /\ proc[p].order = None BY <1>3, Zenon DEF BookCheckout
  <2>4. s \in Sessions /\ sess[s].status # "NONE" BY <2>3, NamedSession DEF ClaimInv, Named, NamesSession
  <2>5. sess[s].amount + entry[s].reserve = Total
    BY <2>3, <2>4 DEF CoverInv, CheckoutRows, OrderlessClaims
  <2>6. payment[s].status = "none" BY <2>0 DEF BookingThrows
  <2>7. ~entry[s].consumed BY <2>4, <2>6 DEF ChargeInv, ConsumedIsBooked
  <2>8. /\ entry[s].reserve \in Nat /\ sess[s].amount \in Nat
        /\ entry[s].released \in BOOLEAN
    BY <2>4, AmountsAssumption DEF TypeInv, LedgerOK, EntryRows, SessOK, SessionRows
  <2>9. CASE entry[s].released
    <3>1. payment'[s].order = o BY <2>1, <2>2, <2>4 DEF TypeInv, LedgerOK
    <3>2. QED BY <2>4, <2>9, <3>1
  <2>10. CASE ~entry[s].released /\ entry[s].reserve > 0
    <3>1. Unresolved(s) BY <2>7, <2>10 DEF Unresolved
    <3>2. FromBalance(s) = entry[s].reserve BY <3>1 DEF FromBalance
    <3>3. QED BY <2>2, <2>5, <3>2
  <2>11. CASE entry[s].reserve = 0
    <3>1. FromBalance(s) \in Nat /\ FromBalance(s) <= entry[s].reserve BY <1>3, <2>0, BookedRow
    <3>2. FromBalance(s) = 0 BY <2>11, <3>1
    <3>3. QED BY <2>2, <2>5, <2>8, <2>11, <3>2
  <2>12. QED BY <2>8, <2>9, <2>10, <2>11
<1>4. ASSUME NEW p \in Procs, BookOrder(p) PROVE FALSE
  <2> DEFINE amount == sess[proc[p].sess].amount
             n == proc[p].order
  <2>1. order' = [order EXCEPT ![n].paid = @ + amount, ![n].status = IF Confirms(n, amount) THEN "CONFIRMED" ELSE @]
    BY <1>1, <1>4 DEF BookOrder
  <2> HIDE DEF amount, n
  <2>2. order'[o].status \in {order[o].status, IF Confirms(o, amount) THEN "CONFIRMED" ELSE order[o].status}
    BY <1>w, <2>1 DEF OrderRows
  <2>3. ~Confirms(o, amount) BY DEF Confirms
  <2>4. QED BY <2>2, <2>3
<1>5. ~World
  <2>1. ASSUME NEW n \in OrderIds, CustomerCancels(n) \/ StaffCancels(n) PROVE FALSE
    BY <2>1, <1>w DEF CustomerCancels, StaffCancels, OrderRows
  <2>2. ASSUME NEW n \in OrderIds, DeskAct(n) PROVE FALSE
    <3>1. PICK row \in OrderRows : order' = [order EXCEPT ![n] = row] BY <2>2, DeskRows DEF TypeInv
    <3>2. n = o BY <1>w, <3>1
    <3>3. order[o].status # "NONE" BY <2>2, <3>2, DeskWrites DEF TypeInv
    <3>4. QED BY <3>3
  <2>3. QED
    BY <1>1, <2>1, <2>2
    DEF World, DeskAct, GatewayAnswers, TimePasses, RetryLockTimesOut, EpsGoesDown, EpsComesBack, ProcessFails
<1>6. QED
  BY <1>1, <1>2, <1>3, <1>4, <1>5, RequestLedger, CronLedger, HandlerLedger DEF Next, vars

LEMMA CoverInvInit == Init => CoverInv
<1> SUFFICES ASSUME Init PROVE CoverInv OBVIOUS
<1>1. /\ sess = [s \in Sessions |-> NoSession] /\ proc = [p \in Procs |-> Idle]
      /\ payment = [s \in Sessions |-> NoPayment]
  BY Zenon DEF Init
<1>2. CheckoutRows /\ OrderlessClaims /\ PaymentsOfOrders
  BY <1>1 DEF CheckoutRows, OrderlessClaims, PaymentsOfOrders, NoSession, NoPayment, Idle
<1>3. PICK advance \in [Existing -> 0..(Total - 1)] :
        order = [n \in OrderIds |-> IF n \in Existing
                                      THEN [NoOrder EXCEPT !.status = "PENDING", !.paid = advance[n]]
                                      ELSE NoOrder]
  BY Zenon DEF Init
<1>4. \A o \in OrderIds : order[o].status # "CONFIRMED"
  <2> SUFFICES ASSUME NEW o \in OrderIds PROVE order[o].status # "CONFIRMED" OBVIOUS
  <2>1. order[o] = IF o \in Existing THEN [NoOrder EXCEPT !.status = "PENDING", !.paid = advance[o]] ELSE NoOrder
    BY <1>3, Zenon
  <2>2. [NoOrder EXCEPT !.status = "PENDING", !.paid = advance[o]].status = "PENDING" BY DEF NoOrder
  <2>3. NoOrder.status = "NONE" BY DEF NoOrder
  <2>4. QED BY <2>1, <2>2, <2>3, Zenon
<1>5. QED BY <1>2, <1>4 DEF CoverInv, ConfirmedIsCovered

LEMMA CoverInvNext == TypeInv /\ ChargeInv /\ ClaimInv /\ CoverInv /\ [Next]_vars => CoverInv'
<1> SUFFICES ASSUME TypeInv, ChargeInv, ClaimInv, CoverInv, [Next]_vars PROVE CoverInv' OBVIOUS
<1>r. \A s \in Sessions : RowStep(s) BY NextRows
<1>y. \A s \in Sessions : PaymentStep(s) BY NextPayments
<1>s. \A q \in Procs : proc[q].at \in NamesSession => proc[q].sess \in Sessions BY NamedSession
<1>n. {"claim", "book"} \subseteq NamesSession BY DEF NamesSession
<1>1. CheckoutRows'
  <2> SUFFICES ASSUME NEW s \in Sessions, sess'[s].status # "NONE"
               PROVE  /\ sess'[s].pre => sess'[s].amount + entry'[s].reserve = Total
                      /\ sess'[s].order = None => sess'[s].pre
    BY DEF CheckoutRows
  <2>1. CASE sess[s].status = "NONE" BY <1>r, <2>1 DEF RowStep
  <2>2. CASE sess[s].status # "NONE" BY <1>r, <2>2 DEF RowStep, CoverInv, CheckoutRows
  <2>3. QED BY <2>1, <2>2
<1>2. OrderlessClaims'
  <2> SUFFICES ASSUME NEW q \in Procs, proc'[q].at \in {"claim", "book"}, proc'[q].order = None
               PROVE  sess'[proc'[q].sess].pre
    BY DEF OrderlessClaims
  <2>1. ASSUME NEW s \in Sessions, sess[s].status # "NONE", sess[s].pre PROVE sess'[s].pre
    BY <1>r, <2>1 DEF RowStep
  <2>2. ASSUME proc[q].at \in {"claim", "book"}, proc[q].order = None, proc'[q].sess = proc[q].sess
        PROVE  sess'[proc'[q].sess].pre
    <3>1. proc[q].sess \in Sessions /\ sess[proc[q].sess].status # "NONE"
      BY <1>n, <1>s, <2>2 DEF ClaimInv, Named
    <3>2. sess[proc[q].sess].pre BY <2>2 DEF CoverInv, OrderlessClaims
    <3>3. QED BY <2>1, <2>2, <3>1, <3>2
  <2>3. CASE proc'[q] = proc[q] BY <2>2, <2>3
  <2>4. CASE proc'[q] # proc[q]
    <3>1. Next BY <2>4 DEF vars
    <3>2. PICK p \in Procs : ClaimStep(p) BY <3>1, NextIsClaimStep
    <3>3. q = p BY <2>4, <3>2 DEF ClaimStep, ProcStep
    <3>4. \/ sess[proc'[q].sess].order = proc'[q].order
          \/ proc[q].at = "claim" /\ proc'[q].sess = proc[q].sess /\ proc'[q].order = proc[q].order
      BY <2>4, <3>2, <3>3 DEF ClaimStep, ProcStep
    <3>5. CASE sess[proc'[q].sess].order = proc'[q].order
      <4>1. /\ proc'[q].sess \in Sessions /\ sess'[proc'[q].sess].status # "NONE"
            /\ sess[proc'[q].sess].status # "NONE"
        <5>1. proc'[q].sess \in Sessions /\ sess'[proc'[q].sess].status # "NONE"
          BY <1>n, <2>4, <3>2, <3>3 DEF ClaimStep, ProcStep
        <5>2. proc'[q].at = "claim" => gw[proc'[q].sess] = "paid"
          BY <2>4, <3>2, <3>3 DEF ClaimStep, ProcStep
        <5>3. proc'[q].at = "book" => sess'[proc'[q].sess].status = "SUCCEEDED"
          BY <2>4, <3>2, <3>3 DEF ClaimStep, ProcStep
        <5>4. \A s \in Sessions : sess'[s].status = "SUCCEEDED" => sess[s].status = "SUCCEEDED" \/ gw[s] = "paid"
          BY <3>2 DEF ClaimStep
        <5>5. QED BY <5>1, <5>2, <5>3, <5>4 DEF ClaimInv, Opened
      <4>2. sess[proc'[q].sess].pre BY <3>5, <4>1 DEF CoverInv, CheckoutRows
      <4>3. QED BY <2>1, <4>1, <4>2
    <3>6. QED BY <2>2, <3>4, <3>5
  <2>5. QED BY <2>3, <2>4
<1>3. PaymentsOfOrders' BY <1>y DEF PaymentStep, CoverInv, PaymentsOfOrders
<1>4. ConfirmedIsCovered'
  <2> SUFFICES ASSUME NEW o \in OrderIds, order'[o].status = "CONFIRMED", ~order'[o].moved, order'[o].paid < Total
               PROVE  \E s \in Sessions : payment'[s].order = o /\ entry'[s].released
    BY DEF ConfirmedIsCovered
  <2>t. /\ order[o].paid \in Nat /\ order[o].credited \in Nat /\ Total \in Nat /\ AmountDue(o) \in Nat
        /\ o # None
    BY AmountsAssumption, SetsAssumption, DueIsAmount DEF TypeInv, LedgerOK, OrderRows
  <2>1. ASSUME order[o].status = "CONFIRMED", ~order[o].moved, order[o].paid < Total
        PROVE  \E s \in Sessions : payment'[s].order = o /\ entry'[s].released
    <3>1. PICK s \in Sessions : payment[s].order = o /\ entry[s].released
      BY <2>1 DEF CoverInv, ConfirmedIsCovered
    <3>2. payment'[s] = payment[s] BY <1>y, <2>t, <3>1 DEF PaymentStep, CoverInv, PaymentsOfOrders
    <3>3. QED BY <1>r, <3>1, <3>2 DEF RowStep
  <2>2. CASE order'[o] = order[o] BY <2>1, <2>2
  <2>3. CASE AttemptPays(o)
    <3>1. PICK amount \in Nat : /\ order'[o].paid = order[o].paid + amount
                                /\ order'[o].status = IF Confirms(o, amount) THEN "CONFIRMED" ELSE order[o].status
      BY <2>3 DEF AttemptPays
    <3>2. ~Confirms(o, amount) BY <2>t, <3>1 DEF Confirms, BecomesPaid, HeldFor
    <3>3. order[o].status = "CONFIRMED" /\ ~order[o].moved BY <2>3, <3>1, <3>2 DEF AttemptPays, SameFlags
    <3>4. QED BY <2>1, <2>t, <3>1, <3>3
  <2>4. CASE Placed(o)
    <3>1. PICK s \in Sessions : payment'[s].order = o /\ entry[s].released
      <4>1. order[o].status = "NONE" BY <2>4 DEF Placed
      <4>2. order'[o].paid # Total
        <5>1. TypeInv' BY TypeInvNext
        <5>2. order'[o].paid \in Nat BY <5>1 DEF TypeInv, LedgerOK, OrderRows
        <5>3. QED BY <2>t, <5>2
      <4>3. QED BY <4>1, <4>2, PlacedPaid
    <3>2. QED BY <1>r, <3>1 DEF RowStep
  <2>5. CASE StaffReceive(o)
    <3>1. order[o].status = "CONFIRMED" /\ ~order[o].moved BY <2>5 DEF StaffReceive, SameFlags
    <3>2. PICK amount \in 1..AmountDue(o) : order'[o].paid = order[o].paid + amount BY <2>5 DEF StaffReceive
    <3>3. order[o].paid < Total BY <2>t, <3>2
    <3>4. QED BY <2>1, <3>1, <3>3
  <2>6. CASE StaffTrash(o) BY <2>1, <2>6 DEF StaffTrash, SameMoney
  <2>7. ~IsCancelled(o) /\ ~StaffMove(o) BY DEF IsCancelled, StaffMove
  <2>8. QED BY <2>2, <2>3, <2>4, <2>5, <2>6, <2>7, OrderFields
<1>5. QED BY <1>1, <1>2, <1>3, <1>4 DEF CoverInv

(* An order that staff did not move and is CONFIRMED is paid in full,      *)
(* whichever of checkout, retry, link or staff took its money; short it    *)
(* only is by a reservation that the expiry or a failure had given back,   *)
(* and the customer spent, before the late success booked.                 *)
THEOREM ConfirmedOrdersAreCovered == Spec => []ConfirmedIsCovered
<1>1. CoverInv => ConfirmedIsCovered BY DEF CoverInv
<1>2. QED
  BY <1>1, TypeInvAlways, ChargeInvInit, ChargeInvNext, ClaimInvAlways, CoverInvInit, CoverInvNext, PTL DEF Spec

-----------------------------------------------------------------------------
(* What an attempt asks the gateway for, and what an order was paid.       *)

(* Somebody asks the gateway for n of order o: an attempt for an order     *)
(* that exists and may still be paid, or a process about to start one.  A  *)
(* checkout's session asks for an order of its own, also once it was       *)
(* linked to it.                                                           *)
Asking(p) == proc[p].at \in {"linkExpire", "start"}
ProcAsks(o, n) == \E p \in Procs : Asking(p) /\ proc[p].order = o /\ proc[p].amount = n
SessionAsks(s) == sess[s].status # "NONE" /\ ~sess[s].pre /\ gw[s] # "short" /\ payment[s].status = "none"
Asked(o, n) ==
  \/ ProcAsks(o, n)
  \/ \E s \in Sessions : SessionAsks(s) /\ sess[s].order = o /\ sess[s].amount = n
Uncharged(o) == \A s \in Sessions : ~(payment[s].status = "SUCCEEDED" /\ payment[s].order = o)

(* While no attempt of the order was paid, none asks for more than is due, *)
(* but for what staff received while an attempt was out.                   *)
AsksAreDue ==
  \A o \in OrderIds, n \in Nat : Asked(o, n) =>
    order[o].status # "NONE" /\ (Uncharged(o) => n + order[o].paid <= Total + order[o].late)
OrdersNamed == \A p \in Procs : proc[p].at = "retryExpire" => order[proc[p].order].status # "NONE"
CreditedIsCancelled == \A o \in OrderIds : order[o].credited > 0 => order[o].status = "CANCELLED"
NoneIsUntouched == \A o \in OrderIds : order[o].status = "NONE" => order[o].cash = 0 /\ order[o].trash = "never"

(* A checkout's session learns its order after its Payment is written; a   *)
(* claim carries the order its session has, or comes too late to book; and *)
(* only what the gateway took is booked.                                   *)
LinkedIsBooked ==
  \A s \in Sessions : sess[s].status # "NONE" /\ sess[s].pre /\ sess[s].order # None => payment[s].status # "none"
Linking == \A p \in Procs : proc[p].at = "link" => sess[proc[p].sess].pre /\ payment[proc[p].sess].status # "none"
ClaimOrder ==
  \A p \in Procs : proc[p].at \in {"claim", "book"} /\ payment[proc[p].sess].status = "none" =>
    proc[p].order = sess[proc[p].sess].order
BookingIsPaid == \A p \in Procs : proc[p].at = "book" => gw[proc[p].sess] = "paid"

(* The successes the claim left without a Payment, and nothing refused.    *)
Lost == {s \in Unbooked : ~Refusable(s)}
LostByFaults == IsFiniteSet(Lost) /\ ClaimsAreBooked

AskInv ==
  /\ AsksAreDue /\ OrdersNamed /\ CreditedIsCancelled /\ NoneIsUntouched
  /\ LinkedIsBooked /\ Linking /\ ClaimOrder /\ BookingIsPaid

(* What a step may do to a session's row, beyond RowStep.                  *)
AttemptStep(s) ==
  /\ sess[s].status # "NONE" =>
       /\ sess'[s].coupon = sess[s].coupon
       /\ sess'[s].order # sess[s].order => sess[s].pre /\ payment[s].status # "none"
  /\ sess[s].status = "NONE" /\ sess'[s].status # "NONE" =>
       IF sess'[s].pre THEN sess'[s].order = None ELSE ProcAsks(sess'[s].order, sess'[s].amount)

(* What it may do to where a process is.                                   *)
StageStep(p) ==
  \/ proc'[p] = proc[p]
  \/ /\ Asking(p)' =>
          \/ Asking(p) /\ proc'[p].order = proc[p].order /\ proc'[p].amount = proc[p].amount
          \/ /\ UNCHANGED order
             /\ order[proc'[p].order].status # "NONE" /\ proc'[p].amount = AmountDue(proc'[p].order)
     /\ proc'[p].at = "retryExpire" => order[proc'[p].order].status # "NONE"
     /\ proc'[p].at = "link" => /\ sess[proc'[p].sess].status # "NONE" /\ sess[proc'[p].sess].pre
                                /\ payment'[proc'[p].sess].status # "none"
     /\ proc[p].at = "book" =>
          \/ payment[proc[p].sess].status # "none" \/ payment'[proc[p].sess].status = "SUCCEEDED"
          \/ Refusable(proc[p].sess) \/ faults' = faults + 1

(* What it may add to what an order was paid, and to its Payments.         *)
PlacesPaid(o) == order[o].status = "NONE" /\ order'[o].status # "NONE" /\ order'[o].paid <= Total
PaysAsked(o) ==
  \E s \in Sessions :
    /\ payment[s].status = "none" /\ payment'[s] = [status |-> "SUCCEEDED", order |-> o]
    /\ Asked(o, sess[s].amount) /\ order'[o].paid = order[o].paid + sess[s].amount
    /\ order'[o].late = order[o].late
ReceiptStep(o) ==
  \/ order'[o].paid = order[o].paid /\ order'[o].late = order[o].late
  \/ PlacesPaid(o)
  \/ PaysAsked(o)
  \/ StaffReceive(o)

(* Every action writes a session's row as AttemptStep says.                *)
LEMMA SameAttempts == UNCHANGED sess => \A s \in Sessions : AttemptStep(s)
  BY DEF AttemptStep

LEMMA StatusAttempts ==
  ASSUME TypeInv, NEW s \in Sessions, sess[s].status # "NONE", NEW st, SetStatus(s, st)
  PROVE  \A t \in Sessions : AttemptStep(t)
<1>1. \A t \in Sessions : /\ sess'[t].coupon = sess[t].coupon /\ sess'[t].order = sess[t].order
                          /\ t # s => sess'[t] = sess[t]
  BY DEF TypeInv, SessOK, SessionRows, SetStatus
<1>2. QED BY <1>1 DEF AttemptStep

LEMMA HandlerAttempts ==
  ASSUME TypeInv, ClaimInv, Linking, NEW p \in Procs, HandlerStep(p)
  PROVE  \A s \in Sessions : AttemptStep(s)
<1> USE DEF ledger, outside
<1>s. proc[p].at \in NamesSession => proc[p].sess \in Sessions /\ sess[proc[p].sess].status # "NONE"
  BY NamedSession DEF ClaimInv, Named
<1>t. sess \in [Sessions -> SessionRows] BY DEF TypeInv, SessOK
<1>1. CASE PlaceFromBalance(p) \/ BookOrder(p) \/ BookCheckout(p)
  <2>1. UNCHANGED sess BY <1>1, Zenon DEF PlaceFromBalance, BookOrder, BookCheckout
  <2>2. QED BY <2>1, SameAttempts
<1>2. CASE ReserveAndCreate(p)
  <2>1. CASE ~Covers(proc[p].amount) BY <1>2, <2>1, SameAttempts DEF ReserveAndCreate
  <2>2. CASE Covers(proc[p].amount)
    <3>1. PICK s \in Sessions, provider \in Providers :
            /\ sess[s].status = "NONE"
            /\ sess' = [sess EXCEPT ![s] = [NoSession EXCEPT !.status = "ACTIVE", !.pre = TRUE, !.provider = provider,
                                       !.amount = Total - proc[p].amount, !.coupon = proc[p].coupon]]
      BY <1>2, <2>2, Zenon DEF ReserveAndCreate
    <3>2. /\ sess'[s].pre /\ sess'[s].order = None
          /\ \A t \in Sessions : t # s => sess'[t] = sess[t]
      BY <1>t, <3>1 DEF NoSession
    <3>3. QED BY <3>1, <3>2 DEF AttemptStep
  <2>3. QED BY <2>1, <2>2
<1>3. CASE RetryExpire(p)
  <2>1. proc[p].at = "retryExpire" /\ SetStatus(proc[p].sess, "EXPIRED") BY <1>3 DEF RetryExpire
  <2>2. QED BY <1>s, <2>1, StatusAttempts DEF NamesSession
<1>4. CASE LinkExpire(p)
  <2>1. UNCHANGED sess \/ (SetStatus(proc[p].sess, "EXPIRED") /\ sess[proc[p].sess].status = "ACTIVE"
                             /\ proc[p].sess # None)
    BY <1>4 DEF LinkExpire
  <2>2. proc[p].sess \in Sessions \cup {None} BY DEF TypeInv, ProcOK, GoodProcs, ProcStates
  <2>3. QED BY <2>1, <2>2, StatusAttempts, SameAttempts
<1>5. CASE StartSession(p)
  <2>0. proc[p].at = "start" BY <1>5, Zenon DEF StartSession
  <2>1. CASE proc[p].amount = 0 \/ ActiveOf(proc[p].order) # {}
    <3>1. UNCHANGED sess BY <1>5, <2>1, Zenon DEF StartSession
    <3>2. QED BY <3>1, SameAttempts
  <2>2. CASE ~(proc[p].amount = 0 \/ ActiveOf(proc[p].order) # {})
    <3>1. PICK s \in Sessions, provider \in Providers : Starts(p, s, provider)
      BY <1>5, <2>2, Zenon DEF StartSession, Starts
    <3>2. /\ ~sess'[s].pre /\ sess'[s].order = proc[p].order /\ sess'[s].amount = proc[p].amount
          /\ \A t \in Sessions : t # s => sess'[t] = sess[t]
      BY <1>t, <3>1 DEF Starts, NoSession
    <3>3. sess[s].status = "NONE" BY <3>1 DEF Starts
    <3>4. ProcAsks(sess'[s].order, sess'[s].amount) BY <2>0, <3>2 DEF ProcAsks, Asking
    <3>5. AttemptStep(s) BY <3>2, <3>3, <3>4 DEF AttemptStep
    <3>6. \A t \in Sessions : t # s => AttemptStep(t) BY <3>2 DEF AttemptStep
    <3>7. QED BY <3>5, <3>6
  <2>3. QED BY <2>1, <2>2
<1>6. CASE GatewayOpens(p) \/ ReleaseStep(p) \/ RecordFailure(p)
  BY <1>6, SameAttempts DEF GatewayOpens, ReleaseStep, RecordFailure
<1>7. CASE GatewayRefuses(p)
  <2>1. proc[p].at = "gateway" /\ SetStatus(proc[p].sess, "FAILED") BY <1>7 DEF GatewayRefuses
  <2>2. QED BY <1>s, <2>1, StatusAttempts DEF NamesSession
<1>8. CASE ClaimSession(p)
  <2>1. proc[p].at = "claim" /\ (UNCHANGED sess \/ SetStatus(proc[p].sess, "SUCCEEDED")) BY <1>8 DEF ClaimSession
  <2>2. QED BY <1>s, <2>1, StatusAttempts, SameAttempts DEF NamesSession
<1>9. CASE LinkOrder(p)
  <2>1. proc[p].at = "link" /\ sess' = [sess EXCEPT ![proc[p].sess].order = proc[p].order] BY <1>9 DEF LinkOrder
  <2>2. sess[proc[p].sess].pre /\ payment[proc[p].sess].status # "none" BY <2>1 DEF Linking
  <2>3. \A t \in Sessions : /\ sess'[t].status = sess[t].status /\ sess'[t].coupon = sess[t].coupon
                            /\ t # proc[p].sess => sess'[t].order = sess[t].order
    BY <1>t, <2>1 DEF SessionRows
  <2>4. QED BY <2>2, <2>3 DEF AttemptStep
<1>10. QED BY <1>1, <1>2, <1>3, <1>4, <1>5, <1>6, <1>7, <1>8, <1>9 DEF HandlerStep

LEMMA NextAttempts ==
  ASSUME TypeInv, ClaimInv, Linking, [Next]_vars
  PROVE  \A s \in Sessions : AttemptStep(s)
<1> USE DEF ledger, outside
<1>t. sess \in [Sessions -> SessionRows] BY DEF TypeInv, SessOK
<1>1. ASSUME NEW p \in Procs, Request(p) PROVE \A s \in Sessions : AttemptStep(s)
  <2>1. ASSUME NEW s \in Sessions, FailCallback(p, s) PROVE \A t \in Sessions : AttemptStep(t)
    <3>1. sess[s].status = "ACTIVE" /\ SetStatus(s, "FAILED") BY <2>1 DEF FailCallback
    <3>2. QED BY <3>1, StatusAttempts
  <2>2. ASSUME NEW s \in Sessions, CancelCallback(p, s) PROVE \A t \in Sessions : AttemptStep(t)
    <3>1. sess[s].status = "ACTIVE" /\ SetStatus(s, "CANCELLED") BY <2>2 DEF CancelCallback
    <3>2. QED BY <3>1, StatusAttempts
  <2>3. ASSUME NEW o \in OrderIds, BeginRetry(p, o) \/ BeginLink(p, o) PROVE UNCHANGED sess
    BY <2>3, Zenon DEF BeginRetry, BeginLink
  <2>4. ASSUME NEW s \in Sessions, SuccessCallback(p, s) PROVE UNCHANGED sess BY <2>4, Zenon DEF SuccessCallback
  <2>5. BeginCheckout(p) => UNCHANGED sess BY Zenon DEF BeginCheckout
  <2>6. QED BY <1>1, <2>1, <2>2, <2>3, <2>4, <2>5, SameAttempts DEF Request
<1>2. ASSUME \A t \in Sessions : /\ sess'[t].coupon = sess[t].coupon /\ sess'[t].order = sess[t].order
                                 /\ sess[t].status = "NONE" => sess'[t].status = "NONE"
      PROVE  \A s \in Sessions : AttemptStep(s)
  BY <1>2 DEF AttemptStep
<1>3. CASE CronStep
  <2>1. SweepExpire => \A t \in Sessions : /\ sess'[t].coupon = sess[t].coupon /\ sess'[t].order = sess[t].order
                                           /\ sess[t].status = "NONE" => sess'[t].status = "NONE"
    BY <1>t DEF SweepExpire, ExpireMatches, SessionRows
  <2>2. ASSUME NEW s \in Sessions, Reconcile(s) \/ SweepAsk(s) \/ SweepRelease(s) PROVE UNCHANGED sess
    BY <2>2, Zenon DEF Reconcile, SweepAsk, SweepRelease
  <2>3. BeginSweep \/ EndSweep => UNCHANGED sess BY Zenon DEF BeginSweep, EndSweep
  <2>4. QED BY <1>2, <1>3, <2>1, <2>2, <2>3, SameAttempts DEF CronStep
<1>4. CASE World
  <2>1. ASSUME NEW s \in Sessions, TimePasses(s)
        PROVE  \A t \in Sessions : /\ sess'[t].coupon = sess[t].coupon /\ sess'[t].order = sess[t].order
                                   /\ sess[t].status = "NONE" => sess'[t].status = "NONE"
    BY <1>t, <2>1 DEF TimePasses, SessionRows
  <2>2. ASSUME NEW o \in OrderIds, CustomerCancels(o)
        PROVE  \A t \in Sessions : /\ sess'[t].coupon = sess[t].coupon /\ sess'[t].order = sess[t].order
                                   /\ sess[t].status = "NONE" => sess'[t].status = "NONE"
    BY <1>t, <2>2 DEF CustomerCancels, ActiveOf, SessionRows
  <2>3. CASE UNCHANGED sess BY <2>3, SameAttempts
  <2>4. QED BY <1>2, <1>4, <2>1, <2>2, <2>3
    DEF World, GatewayAnswers, StaffCancels, RecordManualPayment, StaffMoves, TrashOrRestore,
      RetryLockTimesOut, EpsGoesDown, EpsComesBack, ProcessFails
<1>5. CASE UNCHANGED vars BY <1>5, SameAttempts DEF vars
<1>6. QED BY <1>1, <1>3, <1>4, <1>5, HandlerAttempts DEF Next

(* Every action moves a process as StageStep says.                         *)
LEMMA QuietStage ==
  ASSUME NEW p \in Procs, \A q \in Procs \ {p} : proc'[q] = proc[q], proc[p].at # "book",
         proc'[p].at \notin {"linkExpire", "start", "retryExpire", "link"}
  PROVE  \A q \in Procs : StageStep(q)
  BY DEF StageStep, Asking

LEMMA HomeStage ==
  ASSUME TypeInv, NEW p \in Procs, Return(p), proc[p].at # "book"
  PROVE  \A q \in Procs : StageStep(q)
  BY HomeNames, QuietStage

LEMMA BookStages ==
  ASSUME TypeInv, ClaimInv, CoverInv, ClaimOrder, NEW p \in Procs, BookCheckout(p) \/ BookOrder(p)
  PROVE  \A q \in Procs : StageStep(q)
<1> DEFINE s == proc[p].sess
<1>p. proc \in [Procs -> ProcStates] BY DEF TypeInv, ProcOK, GoodProcs
<1>y. payment \in [Sessions -> PaymentRows] BY DEF TypeInv, LedgerOK
<1>1. proc[p].at = "book" BY Zenon DEF BookCheckout, BookOrder
<1>2. s \in Sessions /\ sess[s].status # "NONE" BY <1>1, NamedSession DEF ClaimInv, Named, NamesSession
<1>3. ASSUME Return(p), payment[s].status # "none" \/ payment'[s].status = "SUCCEEDED" \/ Refusable(s)
      PROVE  \A q \in Procs : StageStep(q)
  BY <1>3, HomeNames DEF StageStep, Asking
<1>4. CASE BookCheckout(p)
  <2>1. CASE BookingThrows(s)
    <3>1. Return(p) BY <1>4, <2>1, Zenon DEF BookCheckout
    <3>2. payment[s].status # "none" \/ Refusable(s) BY <2>1 DEF BookingThrows, Refusable
    <3>3. QED BY <1>3, <3>1, <3>2
  <2>2. CASE ~BookingThrows(s)
    <3>1. PICK o \in OrderIds : /\ payment' = [payment EXCEPT ![s] = [status |-> "SUCCEEDED", order |-> o]]
                                /\ proc' = [proc EXCEPT ![p].at = "link", ![p].order = o]
      BY <1>4, <2>2, Zenon DEF BookCheckout
    <3>2. payment'[s].status = "SUCCEEDED" BY <1>2, <1>y, <3>1
    <3>3. proc'[p].at = "link" /\ proc'[p].sess = s /\ \A q \in Procs \ {p} : proc'[q] = proc[q]
      BY <1>p, <3>1 DEF ProcStates
    <3>4. sess[s].pre
      <4>1. proc[p].order = None BY <1>4, Zenon DEF BookCheckout
      <4>2. QED BY <1>1, <4>1 DEF CoverInv, OrderlessClaims
    <3>5. QED BY <1>2, <3>2, <3>3, <3>4 DEF StageStep, Asking
  <2>3. QED BY <2>1, <2>2
<1>5. CASE BookOrder(p)
  <2>1. Return(p) BY <1>5, Zenon DEF BookOrder
  <2>2. payment[s].status # "none" \/ payment'[s].status = "SUCCEEDED" \/ Refusable(s)
    <3>1. CASE payment[s].status = "none" /\ SettlementThrows(s, proc[p].order)
      <4>1. order[proc[p].order].trash = "in" BY <3>1 DEF SettlementThrows, InTrash
      <4>2. proc[p].order # None BY <1>5, Zenon DEF BookOrder
      <4>3. sess[s].order = proc[p].order BY <1>1, <3>1 DEF ClaimOrder
      <4>4. QED BY <4>1, <4>2, <4>3 DEF Refusable
    <3>2. CASE ~SettlementThrows(s, proc[p].order)
      <4>1. payment' = [payment EXCEPT ![s] = [status |-> "SUCCEEDED", order |-> proc[p].order]]
        BY <1>5, <3>2, Zenon DEF BookOrder
      <4>2. QED BY <1>2, <1>y, <4>1
    <3>3. QED BY <3>1, <3>2
  <2>3. QED BY <1>3, <2>1, <2>2
<1>6. QED BY <1>4, <1>5

LEMMA HandlerStages ==
  ASSUME TypeInv, ClaimInv, CoverInv, OrdersNamed, ClaimOrder, NEW p \in Procs, HandlerStep(p)
  PROVE  \A q \in Procs : StageStep(q)
<1> USE DEF ledger, outside
<1>p. proc \in [Procs -> ProcStates] BY DEF TypeInv, ProcOK, GoodProcs
<1>q. ASSUME proc[p].at # "book", \A q \in Procs \ {p} : proc'[q] = proc[q],
             proc'[p].at \in {"gateway", "release", "book"}
      PROVE  \A q \in Procs : StageStep(q)
  BY <1>q, QuietStage
<1>1. CASE PlaceFromBalance(p) \/ GatewayOpens(p) \/ ReleaseStep(p) \/ LinkOrder(p) \/ RecordFailure(p)
  <2>1. Return(p) /\ proc[p].at # "book"
    BY <1>1 DEF PlaceFromBalance, GatewayOpens, ReleaseStep, LinkOrder, RecordFailure
  <2>2. QED BY <2>1, HomeStage
<1>2. CASE ReserveAndCreate(p)
  <2>0. proc[p].at = "reserve" BY <1>2, Zenon DEF ReserveAndCreate
  <2>1. CASE ~Covers(proc[p].amount)
    <3>1. Return(p) BY <1>2, <2>1, Zenon DEF ReserveAndCreate
    <3>2. QED BY <2>0, <3>1, HomeStage
  <2>2. CASE Covers(proc[p].amount)
    <3>1. PICK s \in Sessions : proc' = [proc EXCEPT ![p].at = "gateway", ![p].sess = s]
      BY <1>2, <2>2, Zenon DEF ReserveAndCreate
    <3>2. proc'[p].at = "gateway" /\ \A q \in Procs \ {p} : proc'[q] = proc[q] BY <1>p, <3>1 DEF ProcStates
    <3>3. QED BY <1>q, <2>0, <3>2
  <2>3. QED BY <2>1, <2>2
<1>3. CASE RetryExpire(p)
  <2>1. /\ proc[p].at = "retryExpire" /\ UNCHANGED order
        /\ proc' = [proc EXCEPT ![p].at = "start", ![p].sess = None, ![p].amount = AmountDue(proc[p].order)]
    BY <1>3, Zenon DEF RetryExpire
  <2>2. /\ proc'[p].at = "start" /\ proc'[p].order = proc[p].order /\ proc'[p].amount = AmountDue(proc[p].order)
        /\ \A q \in Procs \ {p} : proc'[q] = proc[q]
    <3> DEFINE due == AmountDue(proc[p].order)
    <3> HIDE DEF due
    <3>1. proc' = [proc EXCEPT ![p].at = "start", ![p].sess = None, ![p].amount = due] BY <2>1 DEF due
    <3>2. /\ proc'[p].at = "start" /\ proc'[p].order = proc[p].order /\ proc'[p].amount = due
          /\ \A q \in Procs \ {p} : proc'[q] = proc[q]
      BY <1>p, <3>1 DEF ProcStates
    <3>3. QED BY <3>2 DEF due
  <2>3. order[proc[p].order].status # "NONE" BY <2>1 DEF OrdersNamed
  <2>4. StageStep(p) BY <2>1, <2>2, <2>3 DEF StageStep, Asking
  <2>5. QED BY <2>2, <2>4 DEF StageStep
<1>4. CASE LinkExpire(p)
  <2>1. proc[p].at = "linkExpire" /\ proc' = [proc EXCEPT ![p].at = "start", ![p].sess = None]
    BY <1>4, Zenon DEF LinkExpire
  <2>2. /\ proc'[p].at = "start" /\ proc'[p].order = proc[p].order /\ proc'[p].amount = proc[p].amount
        /\ \A q \in Procs \ {p} : proc'[q] = proc[q]
    BY <1>p, <2>1 DEF ProcStates
  <2>3. QED BY <2>1, <2>2 DEF StageStep, Asking
<1>5. CASE StartSession(p)
  <2>0. proc[p].at = "start" BY <1>5, Zenon DEF StartSession
  <2>1. CASE proc[p].amount = 0 \/ ActiveOf(proc[p].order) # {}
    <3>1. Return(p) BY <1>5, <2>1, Zenon DEF StartSession
    <3>2. QED BY <2>0, <3>1, HomeStage
  <2>2. CASE ~(proc[p].amount = 0 \/ ActiveOf(proc[p].order) # {})
    <3>1. PICK s \in Sessions : proc' = [proc EXCEPT ![p].at = "gateway", ![p].sess = s]
      BY <1>5, <2>2, Zenon DEF StartSession
    <3>2. proc'[p].at = "gateway" /\ \A q \in Procs \ {p} : proc'[q] = proc[q] BY <1>p, <3>1 DEF ProcStates
    <3>3. QED BY <1>q, <2>0, <3>2
  <2>3. QED BY <2>1, <2>2
<1>6. CASE GatewayRefuses(p)
  <2>1. proc[p].at = "gateway" /\ (Return(p) \/ Go(p, "release")) BY <1>6, Zenon DEF GatewayRefuses
  <2>2. CASE Return(p) BY <2>1, <2>2, HomeStage
  <2>3. CASE Go(p, "release")
    <3>1. proc'[p].at = "release" /\ \A q \in Procs \ {p} : proc'[q] = proc[q] BY <1>p, <2>3 DEF Go, ProcStates
    <3>2. QED BY <1>q, <2>1, <3>1
  <2>4. QED BY <2>1, <2>2, <2>3
<1>7. CASE ClaimSession(p)
  <2>1. proc[p].at = "claim" /\ (Return(p) \/ Go(p, "book")) BY <1>7, Zenon DEF ClaimSession
  <2>2. CASE Return(p) BY <2>1, <2>2, HomeStage
  <2>3. CASE Go(p, "book")
    <3>1. proc'[p].at = "book" /\ \A q \in Procs \ {p} : proc'[q] = proc[q] BY <1>p, <2>3 DEF Go, ProcStates
    <3>2. QED BY <1>q, <2>1, <3>1
  <2>4. QED BY <2>1, <2>2, <2>3
<1>8. CASE BookCheckout(p) \/ BookOrder(p) BY <1>8, BookStages
<1>9. QED BY <1>1, <1>2, <1>3, <1>4, <1>5, <1>6, <1>7, <1>8 DEF HandlerStep

LEMMA RequestStages ==
  ASSUME TypeInv, NEW p \in Procs, Request(p)
  PROVE  \A q \in Procs : StageStep(q)
<1> USE DEF ledger, outside
<1>p. proc \in [Procs -> ProcStates] BY DEF TypeInv, ProcOK, GoodProcs
<1>q. ASSUME proc[p].at = "idle", \A q \in Procs \ {p} : proc'[q] = proc[q],
             proc'[p].at \in {"placeOrder", "reserve", "claim", "release"}
      PROVE  \A q \in Procs : StageStep(q)
  BY <1>q, QuietStage
<1>1. CASE BeginCheckout(p)
  <2> DEFINE Covered(useBalance) == IF useBalance THEN Min({balance, Total}) ELSE 0
             Entry(useBalance, useCoupon) ==
               [Idle EXCEPT !.at = IF Covered(useBalance) = Total THEN "placeOrder" ELSE "reserve",
                            !.amount = Covered(useBalance), !.coupon = useCoupon]
  <2>1. \E useBalance, useCoupon \in BOOLEAN : proc' = [proc EXCEPT ![p] = Entry(useBalance, useCoupon)]
    BY <1>1, Zenon DEF BeginCheckout
  <2>a. \A useBalance, useCoupon \in BOOLEAN : Entry(useBalance, useCoupon).at \in {"placeOrder", "reserve"}
    BY DEF Idle
  <2> HIDE DEF Entry
  <2>2. proc'[p].at \in {"placeOrder", "reserve"} /\ \A q \in Procs \ {p} : proc'[q] = proc[q]
    BY <1>p, <2>1, <2>a
  <2>3. proc[p].at = "idle" BY <1>1, Zenon DEF BeginCheckout
  <2>4. QED BY <1>q, <2>2, <2>3
<1>2. ASSUME NEW o \in OrderIds, BeginRetry(p, o) PROVE \A q \in Procs : StageStep(q)
  <2>0. proc[p].at = "idle" /\ UNCHANGED order /\ order[o].status = "PENDING" BY <1>2, Zenon DEF BeginRetry
  <2>1. CASE ActiveOf(o) = {}
    <3> DEFINE due == AmountDue(o)
    <3>1. proc' = [proc EXCEPT ![p] = [Idle EXCEPT !.at = "start", !.order = o, !.amount = due]]
      BY <1>2, <2>1 DEF BeginRetry
    <3> HIDE DEF due
    <3>2. /\ proc'[p].at = "start" /\ proc'[p].order = o /\ proc'[p].amount = due
          /\ \A q \in Procs \ {p} : proc'[q] = proc[q]
      BY <1>p, <3>1 DEF Idle
    <3> USE DEF due
    <3>3. StageStep(p) BY <2>0, <3>2 DEF StageStep, Asking
    <3>4. QED BY <3>2, <3>3 DEF StageStep
  <2>2. CASE ActiveOf(o) # {}
    <3>1. PICK s \in ActiveOf(o) : s = CHOOSE t \in ActiveOf(o) : TRUE BY <2>2
    <3>2. proc' = [proc EXCEPT ![p] = [Idle EXCEPT !.at = "retryExpire", !.order = o, !.sess = s]]
      BY <1>2, <2>2, <3>1 DEF BeginRetry
    <3>3. proc'[p].at = "retryExpire" /\ proc'[p].order = o /\ \A q \in Procs \ {p} : proc'[q] = proc[q]
      BY <1>p, <3>2 DEF Idle
    <3>4. StageStep(p) BY <2>0, <3>3 DEF StageStep, Asking
    <3>5. QED BY <3>3, <3>4 DEF StageStep
  <2>3. QED BY <2>1, <2>2
<1>3. ASSUME NEW o \in OrderIds, BeginLink(p, o) PROVE \A q \in Procs : StageStep(q)
  <2> DEFINE live == IF ActiveOf(o) = {} THEN None ELSE CHOOSE s \in ActiveOf(o) : TRUE
             due == AmountDue(o)
  <2>0. proc[p].at = "idle" /\ UNCHANGED order /\ order[o].status # "NONE" BY <1>3 DEF BeginLink
  <2>1. proc' = [proc EXCEPT ![p] = [Idle EXCEPT !.at = "linkExpire", !.order = o, !.amount = due, !.sess = live]]
    BY <1>3, Zenon DEF BeginLink
  <2> HIDE DEF live, due
  <2>2. /\ proc'[p].at = "linkExpire" /\ proc'[p].order = o /\ proc'[p].amount = due
        /\ \A q \in Procs \ {p} : proc'[q] = proc[q]
    BY <1>p, <2>1 DEF Idle
  <2> USE DEF due
  <2>3. StageStep(p) BY <2>0, <2>2 DEF StageStep, Asking
  <2>4. QED BY <2>2, <2>3 DEF StageStep
<1>4. ASSUME NEW s \in Sessions, SuccessCallback(p, s) PROVE \A q \in Procs : StageStep(q)
  <2>1. /\ proc[p].at = "idle"
        /\ proc' = [proc EXCEPT ![p] = [Idle EXCEPT !.at = "claim", !.sess = s, !.order = sess[s].order]]
    BY <1>4 DEF SuccessCallback, ReadForSettle
  <2>2. proc'[p].at = "claim" /\ \A q \in Procs \ {p} : proc'[q] = proc[q] BY <1>p, <2>1 DEF Idle
  <2>3. QED BY <1>q, <2>1, <2>2
<1>5. ASSUME NEW s \in Sessions, FailCallback(p, s) PROVE \A q \in Procs : StageStep(q)
  <2>1. /\ proc[p].at = "idle"
        /\ proc' = [proc EXCEPT ![p] = [Idle EXCEPT !.at = "failRecord", !.sess = s]]
    BY <1>5 DEF FailCallback
  <2>2. proc'[p].at = "failRecord" /\ proc'[p].sess = s /\ \A q \in Procs \ {p} : proc'[q] = proc[q]
    BY <1>p, <2>1 DEF Idle
  <2>3. QED BY <2>1, <2>2 DEF StageStep, Asking
<1>6. ASSUME NEW s \in Sessions, CancelCallback(p, s) PROVE \A q \in Procs : StageStep(q)
  <2>1. proc[p].at = "idle" /\ proc' = [proc EXCEPT ![p] = [Idle EXCEPT !.at = "release", !.sess = s]]
    BY <1>6 DEF CancelCallback
  <2>2. proc'[p].at = "release" /\ \A q \in Procs \ {p} : proc'[q] = proc[q] BY <1>p, <2>1 DEF Idle
  <2>3. QED BY <1>q, <2>1, <2>2
<1>7. QED BY <1>1, <1>2, <1>3, <1>4, <1>5, <1>6 DEF Request

LEMMA NextStages ==
  ASSUME TypeInv, ClaimInv, CoverInv, OrdersNamed, ClaimOrder, [Next]_vars
  PROVE  \A q \in Procs : StageStep(q)
<1> USE DEF ledger, outside
<1>c. Cron \in Procs BY DEF Procs
<1>p. proc \in [Procs -> ProcStates] BY DEF TypeInv, ProcOK, GoodProcs
<1>u. UNCHANGED proc => \A q \in Procs : StageStep(q) BY DEF StageStep
<1>1. CASE CronStep
  <2>1. ASSUME proc[Cron].at # "book", NEW s \in Sessions, ReadForSettle(Cron, s)
        PROVE  \A q \in Procs : StageStep(q)
    <3>1. proc' = [proc EXCEPT ![Cron] = [Idle EXCEPT !.at = "claim", !.sess = s, !.order = sess[s].order]]
      BY <2>1 DEF ReadForSettle
    <3>2. proc'[Cron].at = "claim" /\ \A q \in Procs \ {Cron} : proc'[q] = proc[q] BY <1>c, <1>p, <3>1 DEF Idle
    <3>3. QED BY <1>c, <2>1, <3>2, QuietStage
  <2>2. ASSUME proc[Cron].at # "book", NEW stage \in {"idle", "ask", "sweepRelease"}, Go(Cron, stage)
        PROVE  \A q \in Procs : StageStep(q)
    <3>1. proc'[Cron].at = stage /\ \A q \in Procs \ {Cron} : proc'[q] = proc[q]
      BY <1>c, <1>p, <2>2 DEF Go, ProcStates
    <3>2. QED BY <1>c, <2>2, <3>1, QuietStage
  <2>3. ASSUME NEW s \in Sessions, Reconcile(s) \/ SweepAsk(s) \/ SweepRelease(s)
        PROVE  proc[Cron].at # "book" /\ (UNCHANGED proc \/ ReadForSettle(Cron, s))
    BY <2>3 DEF Reconcile, SweepAsk, SweepRelease
  <2>4. BeginSweep \/ SweepExpire \/ EndSweep =>
          proc[Cron].at # "book" /\ (Go(Cron, "ask") \/ Go(Cron, "sweepRelease") \/ Go(Cron, "idle"))
    BY DEF BeginSweep, SweepExpire, EndSweep
  <2>5. QED BY <1>1, <1>u, <2>1, <2>2, <2>3, <2>4 DEF CronStep
<1>2. CASE World
  <2>1. ASSUME NEW p \in Procs, ProcessFails(p) PROVE \A q \in Procs : StageStep(q)
    <3>1. proc' = [proc EXCEPT ![p] = Idle] /\ faults' = faults + 1 BY <2>1 DEF ProcessFails
    <3>2. proc'[p].at = "idle" /\ \A q \in Procs \ {p} : proc'[q] = proc[q] BY <1>p, <3>1 DEF Idle
    <3>3. QED BY <3>1, <3>2 DEF StageStep, Asking
  <2>2. CASE UNCHANGED proc BY <1>u, <2>2
  <2>3. QED BY <1>2, <2>1, <2>2
    DEF World, GatewayAnswers, TimePasses, CustomerCancels, StaffCancels,
        RecordManualPayment, StaffMoves, TrashOrRestore, RetryLockTimesOut, EpsGoesDown, EpsComesBack
<1>3. CASE UNCHANGED vars BY <1>3, <1>u DEF vars
<1>4. QED BY <1>1, <1>2, <1>3, HandlerStages, RequestStages DEF Next

(* Every action pays an order, and records its Payments, as ReceiptStep    *)
(* says.                                                                   *)
LEMMA PlaceReceipts ==
  ASSUME TypeInv, NEW p \in Procs, PlaceFromBalance(p)
  PROVE  \A o \in OrderIds : ReceiptStep(o)
<1>1. CASE UNCHANGED order BY <1>1 DEF ReceiptStep
<1>2. CASE ~UNCHANGED order
  <2> DEFINE pays == Min({balance, Total})
  <2>1. PICK n \in OrderIds, st \in {"PENDING", "CONFIRMED"} :
          /\ order[n].status = "NONE"
          /\ order' = [order EXCEPT ![n] = NewOrderRow(st, pays, proc[p].coupon)]
    BY <1>2, PlacedRow
  <2>2. pays \in Nat /\ pays <= Total /\ proc[p].coupon \in BOOLEAN BY <1>2, PlacedRow
  <2> HIDE DEF pays
  <2>3. /\ order'[n].paid = pays /\ order'[n].status = st
        /\ \A o \in OrderIds : o # n => order'[o] = order[o]
    BY <2>1, <2>2, RowWritten
  <2>4. QED BY <2>1, <2>2, <2>3 DEF ReceiptStep, PlacesPaid
<1>3. QED BY <1>1, <1>2

(* A checkout's gateway payment and its reservation make up the total; a   *)
(* reservation that was given back pays what the balance still holds of it.*)
LEMMA BookReceipts ==
  ASSUME TypeInv, ClaimInv, CoverInv, NEW p \in Procs, BookCheckout(p)
  PROVE  \A o \in OrderIds : ReceiptStep(o)
<1> DEFINE s == proc[p].sess
<1>1. CASE UNCHANGED order BY <1>1 DEF ReceiptStep
<1>2. CASE ~UNCHANGED order
  <2> DEFINE paid == sess[s].amount + FromBalance(s)
  <2>0. ~BookingThrows(s) BY <1>2, Zenon DEF BookCheckout, ledger
  <2>1. PICK n \in OrderIds :
          order[n].status = "NONE" /\ order' = [order EXCEPT ![n] = NewOrderRow("CONFIRMED", paid, sess[s].coupon)]
    BY <2>0, BookedRow
  <2>2. paid <= Total
    <3>1. proc[p].at = "book" /\ proc[p].order = None BY Zenon DEF BookCheckout
    <3>2. s \in Sessions /\ sess[s].status # "NONE" BY <3>1, NamedSession DEF ClaimInv, Named, NamesSession
    <3>3. sess[s].amount + entry[s].reserve = Total
      BY <3>1, <3>2 DEF CoverInv, CheckoutRows, OrderlessClaims
    <3>4. entry[s].reserve \in Nat /\ sess[s].amount \in Nat
      BY <3>2, AmountsAssumption DEF TypeInv, LedgerOK, EntryRows, SessOK, SessionRows
    <3>5. FromBalance(s) \in Nat /\ FromBalance(s) <= entry[s].reserve BY <2>0, BookedRow
    <3>6. QED BY <3>3, <3>4, <3>5
  <2>3. paid \in Nat /\ sess[s].coupon \in BOOLEAN BY <2>0, BookedRow
  <2> HIDE DEF paid
  <2>4. /\ order'[n].paid = paid /\ order'[n].status = "CONFIRMED"
        /\ \A o \in OrderIds : o # n => order'[o] = order[o]
    BY <2>1, <2>3, RowWritten
  <2>5. QED BY <2>1, <2>2, <2>4 DEF ReceiptStep, PlacesPaid
<1>3. QED BY <1>1, <1>2

(* An attempt for an order pays it what it asked for.                      *)
LEMMA AttemptReceipts ==
  ASSUME TypeInv, ClaimInv, CoverInv, LinkedIsBooked, ClaimOrder, BookingIsPaid, NEW p \in Procs, BookOrder(p)
  PROVE  \A o \in OrderIds : ReceiptStep(o)
<1> DEFINE s == proc[p].sess
           n == proc[p].order
<1>w. order \in [OrderIds -> OrderRows] BY DEF TypeInv, LedgerOK
<1>0. proc[p].at = "book" /\ n # None BY Zenon DEF BookOrder
<1>s. s \in Sessions /\ sess[s].status # "NONE" BY <1>0, NamedSession DEF ClaimInv, Named, NamesSession
<1>1. CASE SettlementThrows(s, n)
  <2>1. UNCHANGED order BY <1>1, Zenon DEF BookOrder
  <2>2. QED BY <2>1 DEF ReceiptStep
<1>2. CASE ~SettlementThrows(s, n)
  <2> DEFINE amount == sess[s].amount
  <2>0. payment[s].status = "none" BY <1>2 DEF SettlementThrows
  <2>1. /\ payment' = [payment EXCEPT ![s] = [status |-> "SUCCEEDED", order |-> n]]
        /\ order' = [order EXCEPT ![n].paid = @ + amount, ![n].status = IF Confirms(n, amount) THEN "CONFIRMED" ELSE @]
    BY <1>2 DEF BookOrder
  <2>2. payment'[s] = [status |-> "SUCCEEDED", order |-> n] BY <1>s, <2>1 DEF TypeInv, LedgerOK
  <2>3. Asked(n, amount)
    <3>1. sess[s].order = n BY <1>0, <2>0 DEF ClaimOrder
    <3>2. ~sess[s].pre BY <1>0, <2>0, <1>s, <3>1 DEF LinkedIsBooked
    <3>3. gw[s] = "paid" BY <1>0 DEF BookingIsPaid
    <3>4. SessionAsks(s) BY <1>s, <2>0, <3>2, <3>3 DEF SessionAsks
    <3>5. QED BY <1>s, <3>1, <3>4 DEF Asked
  <2>a. \A o \in OrderIds : /\ order'[o].paid = IF o = n THEN order[o].paid + amount ELSE order[o].paid
                            /\ order'[o].late = order[o].late
    <3> HIDE DEF amount, n
    <3>1. QED BY <1>w, <2>1 DEF OrderRows
  <2>4. ASSUME NEW o \in OrderIds PROVE ReceiptStep(o)
    <3>1. CASE o = n
      <4>1. order'[o].paid = order[o].paid + sess[s].amount /\ order'[o].late = order[o].late BY <2>a, <3>1
      <4>2. PaysAsked(o) BY <2>0, <1>s, <2>2, <2>3, <3>1, <4>1 DEF PaysAsked
      <4>3. QED BY <4>2 DEF ReceiptStep
    <3>2. CASE o # n BY <2>a, <3>2 DEF ReceiptStep
    <3>3. QED BY <3>1, <3>2
  <2>5. QED BY <2>4
<1>3. QED BY <1>1, <1>2

LEMMA DeskFields ==
  ASSUME TypeInv, NEW n \in OrderIds, DeskAct(n)
  PROVE  /\ \A o \in OrderIds : o # n => order'[o] = order[o]
         /\ order'[n].credited = order[n].credited
         /\ SameMoney(n) \/ StaffReceive(n)
<1>w. order \in [OrderIds -> OrderRows] BY DEF TypeInv, LedgerOK
<1>1. PICK row \in OrderRows : order' = [order EXCEPT ![n] = row] BY DeskRows DEF TypeInv
<1>2. \A o \in OrderIds : o # n => order'[o] = order[o] BY <1>w, <1>1
<1>3. CASE order' = [order EXCEPT ![n] = Moved(n)] \/ order' = [order EXCEPT ![n] = Trashed(n)]
  <2>1. /\ order'[n].paid = order[n].paid /\ order'[n].late = order[n].late
        /\ order'[n].cash = order[n].cash /\ order'[n].credited = order[n].credited
    <3>1. order'[n] = Moved(n) \/ order'[n] = Trashed(n) BY <1>w, <1>3
    <3>2. PICK r \in OrderRows : r = order[n] BY <1>w
    <3>3. CASE order'[n] = Moved(n)
      <4>1. PICK st \in {"PENDING", "CONFIRMED"} : order'[n] = [r EXCEPT !.moved = TRUE, !.status = st]
        BY <3>2, <3>3 DEF Moved
      <4>2. QED BY <3>2, <4>1 DEF OrderRows
    <3>4. CASE order'[n] = Trashed(n)
      <4>1. PICK w \in {"in", "out"} : order'[n] = [r EXCEPT !.trash = w] BY <3>2, <3>4 DEF Trashed
      <4>2. QED BY <3>2, <4>1 DEF OrderRows
    <3>5. QED BY <3>1, <3>3, <3>4
  <2>2. QED BY <1>2, <2>1 DEF SameMoney
<1>4. ASSUME NEW amount \in 1..AmountDue(n), order[n].status \in {"PENDING", "CONFIRMED"},
             order' = [order EXCEPT ![n] = Received(n, amount, IF AttemptIsOut(n) THEN amount ELSE 0)]
      PROVE  StaffReceive(n)
  <2> DEFINE late == IF AttemptIsOut(n) THEN amount ELSE 0
  <2>1. order'[n] = Received(n, amount, late) BY <1>w, <1>4
  <2> HIDE DEF late
  <2>2. PICK r \in OrderRows : r = order[n] BY <1>w
  <2>3. order'[n] = [r EXCEPT !.paid = r.paid + amount, !.cash = r.cash + amount, !.late = r.late + late]
    BY <2>1, <2>2 DEF Received
  <2>4. /\ order'[n].status = r.status /\ order'[n].paid = r.paid + amount /\ order'[n].credited = r.credited
        /\ order'[n].cash = r.cash + amount /\ order'[n].late = r.late + late
        /\ (order'[n].moved <=> r.moved) /\ order'[n].trash = r.trash
    BY <2>3 DEF OrderRows
  <2>5. QED BY <1>4, <2>2, <2>4 DEF StaffReceive, SameFlags, late
<1>5. QED BY <1>2, <1>3, <1>4, DeskWrites DEF TypeInv, StaffReceive

LEMMA DeskReceipts ==
  ASSUME TypeInv, [Next]_vars, NEW n \in OrderIds, CustomerCancels(n) \/ StaffCancels(n) \/ DeskAct(n)
  PROVE  \A o \in OrderIds : ReceiptStep(o)
<1>w. order \in [OrderIds -> OrderRows] BY DEF TypeInv, LedgerOK
<1>1. CASE CustomerCancels(n) \/ StaffCancels(n)
  <2>1. \A o \in OrderIds : order'[o].paid = order[o].paid /\ order'[o].late = order[o].late
    BY <1>1, <1>w DEF CustomerCancels, StaffCancels, OrderRows
  <2>2. QED BY <2>1 DEF ReceiptStep
<1>2. CASE DeskAct(n) BY <1>2, DeskFields DEF ReceiptStep, SameMoney
<1>3. QED BY <1>1, <1>2

LEMMA NextReceipts ==
  ASSUME TypeInv, ClaimInv, CoverInv, LinkedIsBooked, ClaimOrder, BookingIsPaid, [Next]_vars
  PROVE  \A o \in OrderIds : ReceiptStep(o)
<1> USE DEF ledger, outside
<1>1. CASE UNCHANGED order BY <1>1 DEF ReceiptStep
<1>2. CASE World
  BY <1>1, <1>2, DeskReceipts
  DEF World, DeskAct, GatewayAnswers, TimePasses, RetryLockTimesOut, EpsGoesDown, EpsComesBack, ProcessFails
<1>3. QED
  BY <1>1, <1>2, RequestLedger, CronLedger, HandlerLedger, PlaceReceipts, BookReceipts, AttemptReceipts DEF Next, vars

LEMMA FaultsGrow == ASSUME TypeInv, [Next]_vars PROVE faults' \in {faults, faults + 1}
<1> USE DEF ledger, outside
<1>1. ASSUME NEW p \in Procs, Request(p) PROVE UNCHANGED faults
  <2>1. BeginCheckout(p) => UNCHANGED faults BY Zenon DEF BeginCheckout
  <2>2. ASSUME NEW o \in OrderIds, BeginRetry(p, o) \/ BeginLink(p, o) PROVE UNCHANGED faults
    BY <2>2, Zenon DEF BeginRetry, BeginLink
  <2>3. ASSUME NEW s \in Sessions, SuccessCallback(p, s) \/ FailCallback(p, s) \/ CancelCallback(p, s)
        PROVE  UNCHANGED faults
    BY <2>3, Zenon DEF SuccessCallback, FailCallback, CancelCallback
  <2>4. QED BY <1>1, <2>1, <2>2, <2>3 DEF Request
<1>2. ASSUME NEW p \in Procs, HandlerStep(p) PROVE UNCHANGED faults
  <2>1. PlaceFromBalance(p) \/ ReserveAndCreate(p) \/ RetryExpire(p) \/ LinkExpire(p) \/ StartSession(p)
          => UNCHANGED faults
    BY Zenon DEF PlaceFromBalance, ReserveAndCreate, RetryExpire, LinkExpire, StartSession
  <2>2. GatewayOpens(p) \/ GatewayRefuses(p) \/ ReleaseStep(p) \/ ClaimSession(p) => UNCHANGED faults
    BY Zenon DEF GatewayOpens, GatewayRefuses, ReleaseStep, ClaimSession
  <2>3. BookCheckout(p) \/ BookOrder(p) \/ LinkOrder(p) \/ RecordFailure(p) => UNCHANGED faults
    BY Zenon DEF BookCheckout, BookOrder, LinkOrder, RecordFailure
  <2>4. QED BY <1>2, <2>1, <2>2, <2>3 DEF HandlerStep
<1>3. CronStep => UNCHANGED faults
  BY Zenon DEF CronStep, Reconcile, SweepAsk, SweepRelease, BeginSweep, SweepExpire, EndSweep
<1>4. World => faults' \in {faults, faults + 1}
  BY DEF World, GatewayAnswers, TimePasses, CustomerCancels, StaffCancels,
         RecordManualPayment, StaffMoves, TrashOrRestore, RetryLockTimesOut,
         EpsGoesDown, EpsComesBack, ProcessFails
<1>5. QED BY <1>1, <1>2, <1>3, <1>4 DEF Next, vars

(* A Payment that was written stays; so does an order, and a session.      *)
LEMMA UnchargedBefore ==
  ASSUME TypeInv, [Next]_vars, NEW o, Uncharged(o)'
  PROVE  Uncharged(o)
  BY NextPayments DEF PaymentStep, Uncharged

LEMMA OrdersStay ==
  ASSUME TypeInv, [Next]_vars, NEW o \in OrderIds, order[o].status # "NONE"
  PROVE  order'[o].status # "NONE"
<1>1. AttemptPays(o) => order'[o].status # "NONE" BY DEF AttemptPays
<1>2. QED BY <1>1, OrderFields DEF Placed, IsCancelled, StaffReceive, StaffMove, StaffTrash

(* What staff receive is no more than is due, on an order not cancelled,   *)
(* from which nothing was credited.                                        *)
LEMMA ReceivedIsDue ==
  ASSUME TypeInv, AskInv, NEW o \in OrderIds, StaffReceive(o)
  PROVE  order'[o].paid <= Total
<1>1. PICK amount \in 1..AmountDue(o) : order'[o].paid = order[o].paid + amount BY DEF StaffReceive
<1>2. order[o].paid \in Nat /\ order[o].credited \in Nat /\ Total \in Nat /\ AmountDue(o) \in Nat
  BY AmountsAssumption, DueIsAmount DEF TypeInv, LedgerOK, OrderRows
<1>3. order[o].credited = 0 BY <1>2 DEF StaffReceive, AskInv, CreditedIsCancelled
<1>4. AmountDue(o) # 0 BY <1>1, <1>2
<1>5. AmountDue(o) = Total - order[o].paid BY <1>2, <1>3, <1>4 DEF AmountDue, HeldFor
<1>6. QED BY <1>1, <1>2, <1>5

LEMMA NeverOverchargedNext ==
  ASSUME TypeInv, ClaimInv, CoverInv, AskInv, NeverOvercharged, [Next]_vars
  PROVE  NeverOvercharged'
<1> SUFFICES ASSUME NEW o \in OrderIds, order'[o].paid > Total + order'[o].late
             PROVE  \E s, t \in Sessions : s # t /\ payment'[s].order = o /\ payment'[t].order = o
                                           /\ payment'[s].status = "SUCCEEDED" /\ payment'[t].status = "SUCCEEDED"
  BY DEF NeverOvercharged
<1>t. TypeInv' BY TypeInvNext
<1>n. /\ order[o].paid \in Nat /\ order'[o].paid \in Nat /\ Total \in Nat
      /\ order[o].late \in Nat /\ order'[o].late \in Nat
  BY <1>t, AmountsAssumption DEF TypeInv, LedgerOK, OrderRows
<1>y. \A s \in Sessions : payment[s].status = "SUCCEEDED" => payment'[s] = payment[s]
  BY NextPayments DEF PaymentStep
<1>1. CASE order'[o].paid = order[o].paid /\ order'[o].late = order[o].late
  <2>1. PICK s, t \in Sessions : /\ s # t /\ payment[s].order = o /\ payment[t].order = o
                                 /\ payment[s].status = "SUCCEEDED" /\ payment[t].status = "SUCCEEDED"
    BY <1>1 DEF NeverOvercharged
  <2>2. QED BY <1>y, <2>1
<1>2. CASE PaysAsked(o)
  <2>0. PICK s \in Sessions :
          /\ payment[s].status = "none" /\ payment'[s] = [status |-> "SUCCEEDED", order |-> o]
          /\ Asked(o, sess[s].amount) /\ order'[o].paid = order[o].paid + sess[s].amount
          /\ order'[o].late = order[o].late
    BY <1>2 DEF PaysAsked
  <2>1. sess[s].amount \in Nat BY AmountsAssumption DEF TypeInv, SessOK, SessionRows
  <2>2. ~Uncharged(o)
    <3>1. ~(sess[s].amount + order[o].paid <= Total + order[o].late) BY <2>0, <1>n, <2>1
    <3>2. QED BY <2>0, <2>1, <3>1 DEF AskInv, AsksAreDue
  <2>3. PICK t \in Sessions : payment[t].status = "SUCCEEDED" /\ payment[t].order = o BY <2>2 DEF Uncharged
  <2>4. payment'[t] = payment[t] /\ t # s BY <2>0, <1>y, <2>3
  <2>5. payment'[s].status = "SUCCEEDED" /\ payment'[s].order = o BY <2>0
  <2>6. QED BY <2>3, <2>4, <2>5
<1>3. ~PlacesPaid(o) BY <1>n DEF PlacesPaid
<1>4. ~StaffReceive(o) BY <1>n, ReceivedIsDue
<1>5. QED BY <1>1, <1>2, <1>3, <1>4, NextReceipts DEF ReceiptStep, AskInv

(* Who asks has an attempt out.                                            *)
LEMMA AskedIsOut ==
  ASSUME NEW o, NEW n, Asked(o, n)
  PROVE  AttemptIsOut(o)
BY DEF Asked, ProcAsks, Asking, SessionAsks, AttemptIsOut

LEMMA AsksAreDueNext ==
  ASSUME TypeInv, ChargeInv, ClaimInv, CoverInv, AskInv, NeverOvercharged, [Next]_vars
  PROVE  AsksAreDue'
<1> SUFFICES ASSUME NEW o \in OrderIds, NEW n \in Nat, Asked(o, n)'
             PROVE  order'[o].status # "NONE" /\ (Uncharged(o)' => n + order'[o].paid <= Total + order'[o].late)
  BY DEF AsksAreDue
<1>t. TypeInv' BY TypeInvNext
<1>n. /\ order[o].paid \in Nat /\ order[o].credited \in Nat /\ Total \in Nat
      /\ order[o].late \in Nat /\ order'[o].late \in Nat /\ AmountDue(o) \in Nat
      /\ order[o].status \in {"NONE", "PENDING", "CONFIRMED", "CANCELLED"}
  BY <1>t, AmountsAssumption, DueIsAmount DEF TypeInv, LedgerOK, OrderRows
<1>1. \/ Asked(o, n)
      \/ UNCHANGED order /\ order[o].status # "NONE" /\ n = AmountDue(o)
  <2>1. ASSUME NEW p \in Procs, Asking(p)', proc'[p].order = o, proc'[p].amount = n
        PROVE  Asked(o, n) \/ (UNCHANGED order /\ order[o].status # "NONE" /\ n = AmountDue(o))
    <3>1. CASE proc'[p] = proc[p] BY <2>1, <3>1 DEF Asking, Asked, ProcAsks
    <3>2. CASE Asking(p) /\ proc'[p].order = proc[p].order /\ proc'[p].amount = proc[p].amount
      BY <2>1, <3>2 DEF Asked, ProcAsks
    <3>3. QED BY <2>1, <3>1, <3>2, NextStages DEF StageStep, AskInv
  <2>2. ASSUME NEW s \in Sessions, SessionAsks(s)', sess'[s].order = o, sess'[s].amount = n
        PROVE  Asked(o, n)
    <3>1. CASE sess[s].status = "NONE"
      <4>1. ProcAsks(o, n) BY <2>2, <3>1, NextAttempts DEF AskInv, AttemptStep, SessionAsks
      <4>2. QED BY <4>1 DEF Asked
    <3>2. CASE sess[s].status # "NONE"
      <4>1. sess'[s].pre = sess[s].pre /\ sess'[s].amount = sess[s].amount BY <3>2, NextRows DEF RowStep
      <4>2. ~sess[s].pre BY <2>2, <4>1 DEF SessionAsks
      <4>3. sess'[s].order = sess[s].order BY <3>2, <4>2, NextAttempts DEF AskInv, AttemptStep
      <4>4. gw[s] # "short"
        <5>1. UNCHANGED gw \/ \E p \in Procs : ClaimStep(p) BY NextIsClaimStep DEF vars, outside
        <5>2. QED BY <2>2, <5>1 DEF ClaimStep, GwStep, SessionAsks
      <4>5. payment[s].status = "none" BY <2>2, NextPayments DEF PaymentStep, SessionAsks
      <4>6. SessionAsks(s) BY <3>2, <4>2, <4>4, <4>5 DEF SessionAsks
      <4>7. QED BY <2>2, <4>1, <4>3, <4>6 DEF Asked
    <3>3. QED BY <3>1, <3>2
  <2>3. QED BY <2>1, <2>2 DEF Asked, ProcAsks
<1>2. CASE Asked(o, n)
  <2>1. order[o].status # "NONE" /\ (Uncharged(o) => n + order[o].paid <= Total + order[o].late)
    BY <1>2 DEF AskInv, AsksAreDue
  <2>2. order'[o].status # "NONE" BY <2>1, OrdersStay
  <2>3. ASSUME Uncharged(o)' PROVE n + order'[o].paid <= Total + order'[o].late
    <3>1. n + order[o].paid <= Total + order[o].late BY <2>1, <2>3, UnchargedBefore
    <3>2. ~PaysAsked(o) /\ ~PlacesPaid(o) BY <2>1, <2>3 DEF Uncharged, PaysAsked, PlacesPaid
    <3>3. CASE StaffReceive(o)
      <4>1. AttemptIsOut(o) BY <1>2, AskedIsOut
      <4>2. PICK amount \in 1..AmountDue(o) : /\ order'[o].paid = order[o].paid + amount
                                              /\ order'[o].late = order[o].late + amount
        BY <3>3, <4>1 DEF StaffReceive
      <4>3. QED BY <1>n, <3>1, <4>2
    <3>4. CASE order'[o].paid = order[o].paid /\ order'[o].late = order[o].late BY <3>1, <3>4
    <3>5. QED BY <3>2, <3>3, <3>4, NextReceipts DEF ReceiptStep, AskInv
  <2>4. QED BY <2>2, <2>3
<1>3. CASE UNCHANGED order /\ order[o].status # "NONE" /\ n = AmountDue(o)
  <2>1. ASSUME Uncharged(o) PROVE n + order[o].paid <= Total + order[o].late
    <3>1. order[o].paid <= Total + order[o].late
      <4>1. ~(order[o].paid > Total + order[o].late) BY <2>1 DEF Uncharged, NeverOvercharged
      <4>2. QED BY <1>n, <4>1
    <3>2. CASE n = 0 BY <1>n, <3>1, <3>2
    <3>3. CASE n # 0
      <4>1. order[o].status # "CANCELLED" /\ n = Total - HeldFor(o) BY <1>3, <3>3 DEF AmountDue
      <4>2. ~(order[o].credited > 0) BY <4>1 DEF AskInv, CreditedIsCancelled
      <4>3. QED BY <1>n, <3>1, <4>1, <4>2 DEF HeldFor
    <3>4. QED BY <3>2, <3>3
  <2>2. QED BY <1>3, <2>1, UnchargedBefore
<1>4. QED BY <1>1, <1>2, <1>3

LEMMA AskInvNext ==
  ASSUME TypeInv, ChargeInv, ClaimInv, CoverInv, AskInv, NeverOvercharged, [Next]_vars
  PROVE  AskInv'
<1> USE DEF AskInv
<1>t. TypeInv' BY TypeInvNext
<1>s. \A q \in Procs : proc[q].at \in NamesSession => proc[q].sess \in Sessions /\ sess[proc[q].sess].status # "NONE"
  BY NamedSession DEF ClaimInv, Named
<1>o. \A q \in Procs : proc'[q].at = "retryExpire" => proc'[q].order \in OrderIds
  BY <1>t DEF TypeInv, ProcOK, GoodProcs, NamesOrder
<1>y. \A s \in Sessions : payment[s].status # "none" => payment'[s] = payment[s] BY NextPayments DEF PaymentStep
<1>1. OrdersNamed'
  <2> SUFFICES ASSUME NEW p \in Procs, proc'[p].at = "retryExpire" PROVE order'[proc'[p].order].status # "NONE"
    BY DEF OrdersNamed
  <2>1. order[proc'[p].order].status # "NONE" BY NextStages DEF StageStep, OrdersNamed
  <2>2. QED BY <1>o, <2>1, OrdersStay
<1>2. CreditedIsCancelled'
  <2> SUFFICES ASSUME NEW o \in OrderIds, order'[o].credited > 0 PROVE order'[o].status = "CANCELLED"
    BY DEF CreditedIsCancelled
  <2>1. CASE order'[o] = order[o] BY <2>1 DEF CreditedIsCancelled
  <2>2. ~Placed(o) BY DEF Placed
  <2>3. CASE AttemptPays(o) BY <2>3 DEF AttemptPays, Confirms, CreditedIsCancelled
  <2>4. CASE StaffReceive(o) \/ StaffMove(o) \/ StaffTrash(o)
    BY <2>4 DEF StaffReceive, StaffMove, StaffTrash, CreditedIsCancelled
  <2>5. QED BY <2>1, <2>2, <2>3, <2>4, OrderFields DEF IsCancelled
<1>3. LinkedIsBooked'
  <2> SUFFICES ASSUME NEW s \in Sessions, sess'[s].status # "NONE", sess'[s].pre, sess'[s].order # None
               PROVE  payment'[s].status # "none"
    BY DEF LinkedIsBooked
  <2>1. sess[s].status # "NONE" BY NextAttempts DEF AttemptStep
  <2>2. sess[s].pre BY <2>1, NextRows DEF RowStep
  <2>3. payment[s].status # "none" BY <2>1, <2>2, NextAttempts DEF AttemptStep, LinkedIsBooked
  <2>4. QED BY <1>y, <2>3
<1>4. Linking'
  <2> SUFFICES ASSUME NEW p \in Procs, proc'[p].at = "link"
               PROVE  sess'[proc'[p].sess].pre /\ payment'[proc'[p].sess].status # "none"
    BY DEF Linking
  <2>s. proc'[p].sess \in Sessions BY <1>t DEF TypeInv, ProcOK, GoodProcs, NamesSession
  <2>1. sess[proc'[p].sess].pre /\ payment'[proc'[p].sess].status # "none"
    BY <1>y, <2>s, NextStages DEF StageStep, Linking
  <2>2. sess[proc'[p].sess].status # "NONE"
    <3>1. CASE proc'[p] = proc[p] BY <1>s, <3>1 DEF NamesSession
    <3>2. CASE proc'[p] # proc[p] BY <3>2, NextStages DEF StageStep
    <3>3. QED BY <3>1, <3>2
  <2>3. QED BY <2>s, <2>1, <2>2, NextRows DEF RowStep
<1>5. ClaimOrder'
  <2> SUFFICES ASSUME NEW q \in Procs, proc'[q].at \in {"claim", "book"}, payment'[proc'[q].sess].status = "none"
               PROVE  proc'[q].order = sess'[proc'[q].sess].order
    BY DEF ClaimOrder
  <2>n. {"claim", "book"} \subseteq NamesSession BY DEF NamesSession
  <2>s. proc'[q].sess \in Sessions BY <1>t, <2>n DEF TypeInv, ProcOK, GoodProcs
  <2>y. payment[proc'[q].sess].status = "none" BY <1>y, <2>s
  <2>1. sess[proc'[q].sess].status # "NONE" => sess'[proc'[q].sess].order = sess[proc'[q].sess].order
    BY <2>s, <2>y, NextAttempts DEF AttemptStep
  <2>2. CASE proc[q].at \in {"claim", "book"} /\ proc'[q].sess = proc[q].sess /\ proc'[q].order = proc[q].order
    BY <1>s, <2>n, <2>y, <2>1, <2>2 DEF ClaimOrder
  <2>3. CASE proc'[q] # proc[q] /\ sess[proc'[q].sess].order = proc'[q].order
    <3>1. Next BY <2>3 DEF vars
    <3>2. PICK p \in Procs : ClaimStep(p) BY <3>1, NextIsClaimStep
    <3>3. q = p BY <2>3, <3>2 DEF ClaimStep, ProcStep
    <3>4. \/ gw[proc'[q].sess] = "paid"
          \/ sess'[proc'[q].sess].status = "SUCCEEDED"
      BY <2>3, <3>2, <3>3 DEF ClaimStep, ProcStep
    <3>5. \A s \in Sessions : sess'[s].status = "SUCCEEDED" => sess[s].status = "SUCCEEDED" \/ gw[s] = "paid"
      BY <3>2 DEF ClaimStep
    <3>6. sess[proc'[q].sess].status # "NONE" BY <2>s, <3>4, <3>5 DEF ClaimInv, Opened
    <3>7. QED BY <2>1, <2>3, <3>6
  <2>4. CASE proc'[q] # proc[q] /\ sess[proc'[q].sess].order # proc'[q].order
    <3>1. Next BY <2>4 DEF vars
    <3>2. PICK p \in Procs : ClaimStep(p) BY <3>1, NextIsClaimStep
    <3>3. q = p BY <2>4, <3>2 DEF ClaimStep, ProcStep
    <3>4. proc[q].at = "claim" /\ proc'[q].sess = proc[q].sess /\ proc'[q].order = proc[q].order
      BY <2>4, <3>2, <3>3 DEF ClaimStep, ProcStep
    <3>5. QED BY <2>2, <3>4
  <2>5. QED BY <2>2, <2>3, <2>4
<1>6. NoneIsUntouched'
  <2> SUFFICES ASSUME NEW o \in OrderIds, order'[o].status = "NONE"
               PROVE  order'[o].cash = 0 /\ order'[o].trash = "never"
    BY DEF NoneIsUntouched
  <2>1. order[o].status = "NONE" BY OrdersStay
  <2>2. order[o].cash = 0 /\ order[o].trash = "never" BY <2>1 DEF NoneIsUntouched
  <2>3. CASE AttemptPays(o) BY <2>2, <2>3 DEF AttemptPays, SameFlags
  <2>4. QED BY <2>1, <2>2, <2>3, OrderFields
    DEF Placed, IsCancelled, StaffReceive, StaffMove, StaffTrash
<1>7. BookingIsPaid'
  <2> SUFFICES ASSUME NEW q \in Procs, proc'[q].at = "book" PROVE gw'[proc'[q].sess] = "paid"
    BY DEF BookingIsPaid
  <2>c. ClaimInv' BY ClaimInvNext
  <2>s. proc'[q].sess \in Sessions BY <1>t DEF TypeInv, ProcOK, GoodProcs, NamesSession
  <2>0. CASE UNCHANGED vars BY <2>0 DEF vars, outside, BookingIsPaid
  <2>1. CASE Next
    <3>1. PICK p \in Procs : ClaimStep(p) BY <2>1, NextIsClaimStep
    <3>2. CASE proc'[q] = proc[q] BY <2>s, <3>1, <3>2 DEF BookingIsPaid, ClaimStep, GwStep
    <3>3. CASE proc'[q] # proc[q]
      <4>1. sess'[proc'[q].sess].status = "SUCCEEDED" BY <3>1, <3>3 DEF ClaimStep, ProcStep
      <4>2. QED BY <2>c, <2>s, <4>1 DEF ClaimInv, PaidFirst
    <3>4. QED BY <3>2, <3>3
  <2>2. QED BY <2>0, <2>1
<1>8. QED BY <1>1, <1>2, <1>3, <1>4, <1>5, <1>6, <1>7, AsksAreDueNext

LEMMA AskInvInit == Init => AskInv /\ NeverOvercharged
<1> SUFFICES ASSUME Init PROVE AskInv /\ NeverOvercharged OBVIOUS
<1>1. /\ sess = [s \in Sessions |-> NoSession] /\ proc = [p \in Procs |-> Idle]
  BY Zenon DEF Init
<1>2. \A s \in Sessions : sess[s].status = "NONE" BY <1>1 DEF NoSession
<1>3. \A p \in Procs : proc[p].at = "idle" BY <1>1 DEF Idle
<1>4. PICK advance \in [Existing -> 0..(Total - 1)] :
        order = [n \in OrderIds |-> IF n \in Existing
                                      THEN [NoOrder EXCEPT !.status = "PENDING", !.paid = advance[n]]
                                      ELSE NoOrder]
  BY Zenon DEF Init
<1>5. ASSUME NEW o \in OrderIds
      PROVE  order[o].credited = 0 /\ order[o].paid <= Total /\ order[o].cash = 0 /\ order[o].trash = "never"
  <2>1. order[o] = IF o \in Existing THEN [NoOrder EXCEPT !.status = "PENDING", !.paid = advance[o]] ELSE NoOrder
    BY <1>4, Zenon
  <2>2. CASE o \in Existing
    <3>1. advance[o] \in 0..(Total - 1) BY <2>2
    <3>2. order[o] = [NoOrder EXCEPT !.status = "PENDING", !.paid = advance[o]] BY <2>1, <2>2, Zenon
    <3>3. order[o].credited = 0 /\ order[o].paid = advance[o] /\ order[o].cash = 0 /\ order[o].trash = "never"
      BY <3>2 DEF NoOrder
    <3>4. QED BY <3>1, <3>3, AmountsAssumption
  <2>3. CASE o \notin Existing
    <3>1. order[o] = NoOrder BY <2>1, <2>3, Zenon
    <3>2. QED BY <3>1, AmountsAssumption DEF NoOrder
  <2>4. QED BY <2>2, <2>3
<1>6. NeverOvercharged
  <2>1. \A o \in OrderIds : order[o].paid \in Nat /\ order[o].late \in Nat
    BY TypeInvInit DEF TypeInv, LedgerOK, OrderRows
  <2>2. \A o \in OrderIds : ~(order[o].paid > Total + order[o].late) BY <1>5, <2>1, AmountsAssumption
  <2>3. QED BY <2>2 DEF NeverOvercharged
<1>7. \A o, n : ~Asked(o, n) BY <1>2, <1>3 DEF Asked, ProcAsks, Asking, SessionAsks
<1>8. AsksAreDue BY <1>7 DEF AsksAreDue
<1>9. OrdersNamed /\ LinkedIsBooked /\ Linking /\ ClaimOrder /\ BookingIsPaid
  BY <1>2, <1>3 DEF OrdersNamed, LinkedIsBooked, Linking, ClaimOrder, BookingIsPaid
<1>10. CreditedIsCancelled /\ NoneIsUntouched BY <1>5 DEF CreditedIsCancelled, NoneIsUntouched
<1>11. QED BY <1>6, <1>8, <1>9, <1>10 DEF AskInv

LEMMA CoverInvAlways == Spec => []CoverInv
<1>1. QED
  BY TypeInvAlways, ChargeInvInit, ChargeInvNext, ClaimInvAlways, CoverInvInit, CoverInvNext, PTL DEF Spec

LEMMA AskInvAlways == Spec => [](AskInv /\ NeverOvercharged)
<1>1. QED
  BY TypeInvAlways, ChargeInvInit, ChargeInvNext, ClaimInvAlways, CoverInvAlways, AskInvInit, AskInvNext,
     NeverOverchargedNext, PTL DEF Spec

(* An order takes more than its total only when two attempts of it were    *)
(* really paid, or staff recorded a payment while an attempt was out, and  *)
(* then by no more than that: retries, links, late successes, staff moves, *)
(* Trash, cancellations and crashes never make one attempt ask for what    *)
(* was paid before it, by an advance, by hand, by the store balance or by  *)
(* a checkout.                                                             *)
THEOREM OrdersAreNotOvercharged == Spec => []NeverOvercharged
<1>1. QED BY AskInvAlways, PTL

-----------------------------------------------------------------------------
(* What becomes of a claimed success.                                      *)
(* What a booking may be refused for does not go away.                     *)
LEMMA RefusableStays ==
  ASSUME TypeInv, ClaimInv, CoverInv, AskInv, [Next]_vars, NEW s \in Sessions,
         sess[s].status # "NONE", payment'[s].status # "SUCCEEDED", Refusable(s)
  PROVE  Refusable(s)'
<1>y. payment \in [Sessions -> PaymentRows] BY DEF TypeInv, LedgerOK
<1>p. payment[s].status # "none" => payment'[s] = payment[s] BY NextPayments DEF PaymentStep
<1>1. CASE payment[s].status # "none"
  <2>1. payment'[s].status # "none" /\ payment'[s] = payment[s] BY <1>1, <1>p
  <2>2. payment'[s].status = "FAILED" BY <1>y, <2>1 DEF PaymentRows
  <2>3. QED BY <2>2 DEF Refusable
<1>2. CASE payment[s].status = "none"
  <2>1. sess'[s].coupon = sess[s].coupon /\ sess'[s].order = sess[s].order
    BY <1>2, NextAttempts DEF AskInv, AttemptStep
  <2>2. ASSUME sess[s].order # None, order[sess[s].order].trash # "never"
        PROVE  order'[sess[s].order].trash # "never"
    <3> DEFINE o == sess[s].order
    <3>1. o \in OrderIds BY <2>2 DEF TypeInv, SessOK, SessionRows
    <3>2. order[o].status # "NONE" BY <2>2, <3>1 DEF AskInv, NoneIsUntouched
    <3> HIDE DEF o
    <3>3. AttemptPays(o) \/ IsCancelled(o) \/ StaffReceive(o) \/ StaffMove(o) \/ StaffTrash(o)
            => order'[o].trash = order[o].trash \/ order'[o].trash # "never"
      BY DEF AttemptPays, IsCancelled, StaffReceive, StaffMove, StaffTrash, SameFlags
    <3>4. order[o].trash # "never" BY <2>2 DEF o
    <3>5. order'[o].trash # "never" BY <3>1, <3>2, <3>3, <3>4, OrderFields DEF Placed
    <3>6. QED BY <3>5 DEF o
  <2>3. QED BY <1>2, <2>1, <2>2 DEF Refusable
<1>3. QED BY <1>1, <1>2

(* A booking that starts ends with the Payment, or is refused, or with a   *)
(* fault: a step loses no success but the one it crashes on.               *)
LEMMA LostStep ==
  ASSUME TypeInv, ClaimInv, CoverInv, AskInv, Next
  PROVE  \/ Lost' \subseteq Lost
         \/ faults' = faults + 1 /\ \E s \in Sessions : Lost' \subseteq Lost \cup {s}
<1>p. PICK p \in Procs : ClaimStep(p) BY NextIsClaimStep
<1>y. payment \in [Sessions -> PaymentRows] BY DEF TypeInv, LedgerOK
<1>s. \A q \in Procs : proc[q].at = "book" => proc[q].sess \in Sessions BY NamedSession DEF NamesSession
<1>1. ASSUME NEW s \in Sessions, s \in Lost', s \notin Lost
      PROVE  faults' = faults + 1 /\ proc[p].at = "book" /\ s = proc[p].sess
  <2>1. /\ sess'[s].status = "SUCCEEDED" /\ payment'[s].status # "SUCCEEDED" /\ ~Refusable(s)'
        /\ \A q \in Procs : ~(proc'[q].at = "book" /\ proc'[q].sess = s)
    BY <1>1 DEF Lost, Unbooked
  <2>2. sess[s].status = "SUCCEEDED" BY <1>p, <2>1 DEF ClaimStep
  <2>3. payment[s].status # "SUCCEEDED" BY <2>1, NextPayments DEF PaymentStep
  <2>4. ~Refusable(s) BY <2>1, <2>2, RefusableStays
  <2>5. PICK q \in Procs : proc[q].at = "book" /\ proc[q].sess = s
    BY <1>1, <2>2, <2>3, <2>4 DEF Lost, Unbooked
  <2>6. proc'[q] # proc[q] BY <2>1, <2>5
  <2>7. q = p BY <1>p, <2>6 DEF ClaimStep, ProcStep
  <2>8. payment[s].status = "none"
    <3>1. payment[s].status # "FAILED" BY <2>4 DEF Refusable
    <3>2. QED BY <1>y, <2>3, <3>1 DEF PaymentRows
  <2>9. faults' = faults + 1 BY <2>1, <2>4, <2>5, <2>6, <2>8, NextStages DEF StageStep, AskInv
  <2>10. QED BY <2>5, <2>7, <2>9
<1>2. Lost' \subseteq Sessions BY DEF Lost, Unbooked
<1>3. CASE Lost' \subseteq Lost BY <1>3
<1>4. CASE ~(Lost' \subseteq Lost)
  <2>1. PICK s \in Sessions : s \in Lost' /\ s \notin Lost BY <1>2, <1>4
  <2>2. faults' = faults + 1 /\ s = proc[p].sess BY <1>1, <2>1
  <2>3. Lost' \subseteq Lost \cup {s} BY <1>1, <1>2, <2>2
  <2>4. QED BY <2>2, <2>3
<1>5. QED BY <1>3, <1>4

LEMMA LostInit == Init => LostByFaults
<1> SUFFICES ASSUME Init PROVE LostByFaults OBVIOUS
<1>1. sess = [s \in Sessions |-> NoSession] /\ faults = 0 BY Zenon DEF Init
<1>2. Lost = {} BY <1>1 DEF Lost, Unbooked, NoSession
<1>3. IsFiniteSet({}) /\ Cardinality({}) = 0 BY FS_EmptySet
<1>4. ClaimsAreBooked <=> Cardinality(Lost) <= faults BY DEF Lost, ClaimsAreBooked
<1>5. IsFiniteSet(Lost) /\ Cardinality(Lost) = 0 BY <1>2, <1>3
<1>6. ClaimsAreBooked BY <1>1, <1>4, <1>5
<1>7. QED BY <1>5, <1>6 DEF LostByFaults

LEMMA LostNext ==
  ASSUME TypeInv, ClaimInv, CoverInv, AskInv, LostByFaults, [Next]_vars
  PROVE  LostByFaults'
<1>t. faults \in Nat /\ faults' \in {faults, faults + 1} BY FaultsGrow DEF TypeInv, WorldOK
<1>l. ClaimsAreBooked <=> Cardinality(Lost) <= faults BY DEF Lost, ClaimsAreBooked
<1>m. ClaimsAreBooked' <=> Cardinality(Lost') <= faults' BY DEF Lost, ClaimsAreBooked
<1>0. IsFiniteSet(Lost) /\ Cardinality(Lost) \in Nat /\ Cardinality(Lost) <= faults
  BY <1>l, FS_CardinalityType DEF LostByFaults
<1>1. CASE Lost' \subseteq Lost
  <2>1. IsFiniteSet(Lost') /\ Cardinality(Lost') <= Cardinality(Lost) BY <1>0, <1>1, FS_Subset
  <2>2. Cardinality(Lost') \in Nat BY <2>1, FS_CardinalityType
  <2>3. Cardinality(Lost') <= faults' BY <1>t, <1>0, <2>1, <2>2
  <2>4. QED BY <1>m, <2>1, <2>3 DEF LostByFaults
<1>2. ASSUME faults' = faults + 1, NEW s \in Sessions, Lost' \subseteq Lost \cup {s} PROVE LostByFaults'
  <2>1. /\ IsFiniteSet(Lost \cup {s})
        /\ Cardinality(Lost \cup {s}) = Cardinality(Lost) \/ Cardinality(Lost \cup {s}) = Cardinality(Lost) + 1
    BY <1>0, FS_AddElement
  <2>2. IsFiniteSet(Lost') /\ Cardinality(Lost') <= Cardinality(Lost \cup {s}) BY <1>2, <2>1, FS_Subset
  <2>3. Cardinality(Lost') \in Nat BY <2>2, FS_CardinalityType
  <2>4. Cardinality(Lost') <= faults' BY <1>t, <1>0, <1>2, <2>1, <2>2, <2>3
  <2>5. QED BY <1>m, <2>2, <2>4 DEF LostByFaults
<1>3. CASE UNCHANGED vars
  <2>1. Lost' = Lost BY <1>3 DEF vars, ledger, outside, Lost, Unbooked, Refusable
  <2>2. QED BY <1>1, <2>1
<1>4. QED BY <1>1, <1>2, <1>3, LostStep

(* A claimed success gets its Payment: as many are left without as         *)
(* processes died or failed between the claim and the booking, and those   *)
(* the booking refuses, because the coupon was used up, the order is in    *)
(* Trash or the attempt had been recorded as FAILED.  Late failures,       *)
(* sweeps, retries, manual payments and cancellations lose none.           *)
THEOREM ClaimedSuccessesAreBooked == Spec => []ClaimsAreBooked
<1>1. TypeInv /\ ClaimInv /\ CoverInv /\ AskInv /\ LostByFaults /\ [Next]_vars => LostByFaults' BY LostNext
<1>2. LostByFaults => ClaimsAreBooked BY DEF LostByFaults
<1>3. QED
  BY <1>1, <1>2, TypeInvAlways, ClaimInvAlways, CoverInvAlways, AskInvAlways, LostInit, PTL DEF Spec

-----------------------------------------------------------------------------
(* What module StoreBalance promises of the customer's money.              *)

(* The steps that may touch it: every other one leaves the rows of the     *)
(* ledger as they are.                                                     *)
LEMMA LedgerSteps ==
  ASSUME [Next]_vars
  PROVE  \/ UNCHANGED <<payment, entry, balance, order>>
         \/ \E p \in Procs : \/ PlaceFromBalance(p) \/ ReserveAndCreate(p) \/ ReleaseStep(p)
                             \/ BookCheckout(p) \/ BookOrder(p) \/ RecordFailure(p)
         \/ \E s \in Sessions : SweepRelease(s)
         \/ \E o \in OrderIds : CustomerCancels(o) \/ StaffCancels(o) \/ DeskAct(o)
<1> DEFINE quiet == UNCHANGED <<payment, entry, balance, order>>
<1>1. ASSUME NEW p \in Procs, HandlerStep(p)
      PROVE  \/ quiet
             \/ PlaceFromBalance(p) \/ ReserveAndCreate(p) \/ ReleaseStep(p)
             \/ BookCheckout(p) \/ BookOrder(p) \/ RecordFailure(p)
  <2>1. RetryExpire(p) \/ LinkExpire(p) \/ StartSession(p) => quiet
    BY Zenon DEF RetryExpire, LinkExpire, StartSession, ledger
  <2>2. GatewayOpens(p) \/ GatewayRefuses(p) => quiet BY Zenon DEF GatewayOpens, GatewayRefuses, ledger
  <2>3. ClaimSession(p) \/ LinkOrder(p) => quiet BY Zenon DEF ClaimSession, LinkOrder, ledger
  <2>4. QED BY <1>1, <2>1, <2>2, <2>3 DEF HandlerStep
<1>2. ASSUME NEW p \in Procs, Request(p) PROVE quiet
  <2>1. BeginCheckout(p) => quiet BY Zenon DEF BeginCheckout, ledger
  <2>2. ASSUME NEW o \in OrderIds, BeginRetry(p, o) \/ BeginLink(p, o) PROVE quiet
    BY <2>2, Zenon DEF BeginRetry, BeginLink, ledger
  <2>3. ASSUME NEW s \in Sessions, SuccessCallback(p, s) \/ FailCallback(p, s) \/ CancelCallback(p, s)
        PROVE  quiet
    BY <2>3, Zenon DEF SuccessCallback, FailCallback, CancelCallback, ledger
  <2>4. QED BY <1>2, <2>1, <2>2, <2>3 DEF Request
<1>3. CronStep => quiet \/ \E s \in Sessions : SweepRelease(s)
  <2>1. ASSUME NEW s \in Sessions, Reconcile(s) \/ SweepAsk(s) PROVE quiet
    BY <2>1, Zenon DEF Reconcile, SweepAsk, ledger
  <2>2. BeginSweep \/ SweepExpire \/ EndSweep => quiet BY Zenon DEF BeginSweep, SweepExpire, EndSweep, ledger
  <2>3. QED BY <2>1, <2>2 DEF CronStep
<1>4. World => quiet \/ \E o \in OrderIds : CustomerCancels(o) \/ StaffCancels(o) \/ DeskAct(o)
  BY DEF World, DeskAct, GatewayAnswers, TimePasses, RetryLockTimesOut, EpsGoesDown, EpsComesBack, ProcessFails, ledger
<1>5. UNCHANGED vars => quiet BY DEF vars
<1>6. QED BY <1>1, <1>2, <1>3, <1>4, <1>5 DEF Next

(* Only a checkout reserves, only what was reserved is released or paid, a *)
(* Payment is of a session there is, and an order that does not exist has  *)
(* received nothing.                                                       *)
ReservesOfCheckouts == \A s \in Sessions : entry[s].reserve # 0 => sess[s].status # "NONE" /\ sess[s].pre
ReleasesOfReserves == \A s \in Sessions : entry[s].released \/ entry[s].consumed => entry[s].reserve # 0
PaymentsOfSessions == \A s \in Sessions : payment[s].status # "none" => sess[s].status # "NONE"
NoneIsUnpaid == \A o \in OrderIds : order[o].status = "NONE" => order[o].paid = 0
AccountInv == ReservesOfCheckouts /\ ReleasesOfReserves /\ PaymentsOfSessions /\ NoneIsUnpaid

Known == TypeInv /\ ChargeInv /\ ClaimInv /\ CoverInv /\ AskInv /\ AccountInv

LEMMA AccountInvInit == Init => AccountInv
<1> SUFFICES ASSUME Init PROVE AccountInv OBVIOUS
<1>1. ReservesOfCheckouts /\ ReleasesOfReserves BY DEF Init, NoEntry, ReservesOfCheckouts, ReleasesOfReserves
<1>2. PaymentsOfSessions BY DEF Init, NoPayment, PaymentsOfSessions
<1>3. NoneIsUnpaid
  <2>1. PICK advance \in [Existing -> 0..(Total - 1)] :
          order = [n \in OrderIds |-> IF n \in Existing
                                        THEN [NoOrder EXCEPT !.status = "PENDING", !.paid = advance[n]]
                                        ELSE NoOrder]
    BY Zenon DEF Init
  <2>2. ASSUME NEW o \in OrderIds, order[o].status = "NONE" PROVE order[o].paid = 0
    <3>1. order[o] = IF o \in Existing THEN [NoOrder EXCEPT !.status = "PENDING", !.paid = advance[o]] ELSE NoOrder
      BY <2>1, Zenon
    <3>2. QED BY <2>2, <3>1 DEF NoOrder
  <2>3. QED BY <2>2 DEF NoneIsUnpaid
<1>4. QED BY <1>1, <1>2, <1>3 DEF AccountInv

(* Sessions, and their Payments and reservations, are of one attempt for   *)
(* good: what one step may do to them.                                     *)
LEMMA NextIsNew == ASSUME TypeInv, ClaimInv, [Next]_vars PROVE NoneIsNew
<1>1. CASE UNCHANGED vars BY <1>1 DEF vars, NoneIsNew
<1>2. CASE Next BY <1>2, NextIsClaimStep DEF ClaimStep
<1>3. QED BY <1>1, <1>2

ResolveStep(s) ==
  entry'[s].released \/ entry'[s].consumed => entry[s].released \/ entry[s].consumed \/ Unresolved(s)

LEMMA ReleaseResolves ==
  ASSUME TypeInv, NEW n \in Sessions, ReleaseReservation(n)
  PROVE  \A s \in Sessions : ResolveStep(s)
<1>1. entry \in [Sessions -> EntryRows] BY DEF TypeInv, LedgerOK
<1>2. CASE Unresolved(n)
  <2>1. entry' = [entry EXCEPT ![n].released = TRUE] BY <1>2 DEF ReleaseReservation
  <2>2. QED BY <1>1, <1>2, <2>1 DEF EntryRows, ResolveStep
<1>3. CASE ~Unresolved(n) BY <1>3 DEF ReleaseReservation, ResolveStep
<1>4. QED BY <1>2, <1>3

LEMMA NextResolves ==
  ASSUME TypeInv, ClaimInv, [Next]_vars
  PROVE  \A s \in Sessions : ResolveStep(s)
<1>1. entry \in [Sessions -> EntryRows] BY DEF TypeInv, LedgerOK
<1>2. CASE UNCHANGED entry BY <1>2 DEF ResolveStep
<1>3. ASSUME NEW p \in Procs, ReserveAndCreate(p), ~UNCHANGED entry PROVE \A s \in Sessions : ResolveStep(s)
  <2>1. \E n \in Sessions : entry' = [entry EXCEPT ![n].reserve = proc[p].amount]
    BY <1>3, Zenon DEF ReserveAndCreate
  <2>2. QED BY <1>1, <2>1 DEF EntryRows, ResolveStep
<1>4. ASSUME NEW p \in Procs, BookCheckout(p), ~UNCHANGED entry PROVE \A s \in Sessions : ResolveStep(s)
  <2> DEFINE n == proc[p].sess
  <2>1. n \in Sessions BY <1>4, NamedSession DEF BookCheckout, NamesSession
  <2>2. CASE Unresolved(n)
    <3>1. entry' = [entry EXCEPT ![n].consumed = TRUE] BY <1>4, <2>2 DEF BookCheckout, ledger
    <3>2. QED BY <1>1, <2>1, <2>2, <3>1 DEF EntryRows, ResolveStep
  <2>3. CASE ~Unresolved(n)
    <3>1. entry' = [entry EXCEPT ![n].respent = FromBalance(n)] BY <1>4, <2>3 DEF BookCheckout, ledger
    <3>2. QED BY <1>1, <3>1 DEF EntryRows, ResolveStep
  <2>4. QED BY <2>2, <2>3
<1>5. ASSUME NEW p \in Procs, ReleaseStep(p) \/ RecordFailure(p), ~UNCHANGED entry
      PROVE  \A s \in Sessions : ResolveStep(s)
  <2>1. ReleaseReservation(proc[p].sess) BY <1>5 DEF ReleaseStep, RecordFailure
  <2>2. proc[p].sess \in Sessions BY <1>5, NamedSession DEF ReleaseStep, RecordFailure, NamesSession
  <2>3. QED BY <2>1, <2>2, ReleaseResolves
<1>6. ASSUME NEW s \in Sessions, SweepRelease(s) PROVE \A t \in Sessions : ResolveStep(t)
  BY <1>6, ReleaseResolves DEF SweepRelease
<1>7. ASSUME NEW p \in Procs, PlaceFromBalance(p) \/ BookOrder(p) PROVE UNCHANGED entry
  BY <1>7 DEF PlaceFromBalance, BookOrder
<1>8. ASSUME NEW o \in OrderIds, CustomerCancels(o) \/ StaffCancels(o) \/ DeskAct(o) PROVE UNCHANGED entry
  BY <1>8 DEF CustomerCancels, StaffCancels, DeskAct, RecordManualPayment, StaffMoves, TrashOrRestore
<1>9. QED BY <1>2, <1>3, <1>4, <1>5, <1>6, <1>7, <1>8, LedgerSteps

(* A Payment is written by the process that books, or failed, its session. *)
LEMMA PaymentWriter ==
  ASSUME TypeInv, [Next]_vars, NEW s \in Sessions, payment'[s] # payment[s]
  PROVE  \E p \in Procs : proc[p].at \in {"book", "failRecord"} /\ proc[p].sess = s
<1>1. payment \in [Sessions -> PaymentRows] BY DEF TypeInv, LedgerOK
<1>2. PICK p \in Procs : BookCheckout(p) \/ BookOrder(p) \/ RecordFailure(p)
  <2>1. ASSUME NEW p \in Procs, PlaceFromBalance(p) \/ ReserveAndCreate(p) \/ ReleaseStep(p) PROVE UNCHANGED payment
    BY <2>1 DEF PlaceFromBalance, ReserveAndCreate, ReleaseStep
  <2>2. ASSUME NEW t \in Sessions, SweepRelease(t) PROVE UNCHANGED payment BY <2>2 DEF SweepRelease
  <2>3. ASSUME NEW o \in OrderIds, CustomerCancels(o) \/ StaffCancels(o) \/ DeskAct(o) PROVE UNCHANGED payment
    BY <2>3 DEF CustomerCancels, StaffCancels, DeskAct, RecordManualPayment, StaffMoves, TrashOrRestore
  <2>4. QED BY <2>1, <2>2, <2>3, LedgerSteps
<1>3. proc[p].at \in {"book", "failRecord"} BY <1>2, Zenon DEF BookCheckout, BookOrder, RecordFailure
<1>4. \E row : payment' = [payment EXCEPT ![proc[p].sess] = row]
  <2>0. ~UNCHANGED payment OBVIOUS
  <2>1. CASE BookCheckout(p) BY <2>0, <2>1 DEF BookCheckout, ledger
  <2>2. CASE BookOrder(p) BY <2>0, <2>2 DEF BookOrder
  <2>3. CASE RecordFailure(p) BY <2>0, <2>3 DEF RecordFailure
  <2>4. QED BY <1>2, <2>1, <2>2, <2>3
<1>5. proc[p].sess = s BY <1>1, <1>4
<1>6. QED BY <1>3, <1>5

LEMMA AccountInvNext == Known /\ [Next]_vars => AccountInv'
<1> SUFFICES ASSUME Known, [Next]_vars PROVE AccountInv' OBVIOUS
<1> USE DEF Known
<1>c. ChargeInv' /\ TypeInv' BY ChargeInvNext, TypeInvNext
<1>r. \A s \in Sessions : RowStep(s) BY NextRows
<1>n. \A s \in Sessions : sess[s].status # "NONE" => sess'[s].status # "NONE"
  BY NextIsNew DEF NoneIsNew
<1>1. ReservesOfCheckouts'
  <2> SUFFICES ASSUME NEW s \in Sessions, entry'[s].reserve # 0
               PROVE  sess'[s].status # "NONE" /\ sess'[s].pre
    BY DEF ReservesOfCheckouts
  <2>1. sess'[s].status # "NONE" BY <1>c DEF ChargeInv, Fresh
  <2>2. CASE sess[s].status # "NONE" BY <1>r, <2>1, <2>2 DEF RowStep, AccountInv, ReservesOfCheckouts
  <2>3. CASE sess[s].status = "NONE"
    <3>1. entry[s].reserve = 0 BY <2>3 DEF ChargeInv, Fresh
    <3>2. QED BY <1>r, <2>1, <2>3, <3>1 DEF RowStep
  <2>4. QED BY <2>2, <2>3
<1>2. ReleasesOfReserves'
  <2> SUFFICES ASSUME NEW s \in Sessions, entry'[s].released \/ entry'[s].consumed PROVE entry'[s].reserve # 0
    BY DEF ReleasesOfReserves
  <2>1. entry[s].reserve # 0
    BY NextResolves DEF ResolveStep, Unresolved, AccountInv, ReleasesOfReserves
  <2>2. sess[s].status # "NONE" BY <2>1 DEF AccountInv, ReservesOfCheckouts
  <2>3. QED BY <1>r, <2>1, <2>2 DEF RowStep
<1>3. PaymentsOfSessions'
  <2> SUFFICES ASSUME NEW s \in Sessions, payment'[s].status # "none" PROVE sess'[s].status # "NONE"
    BY DEF PaymentsOfSessions
  <2>1. CASE payment'[s] = payment[s] BY <1>n, <2>1 DEF AccountInv, PaymentsOfSessions
  <2>2. CASE payment'[s] # payment[s]
    <3>1. PICK p \in Procs : proc[p].at \in {"book", "failRecord"} /\ proc[p].sess = s BY <2>2, PaymentWriter
    <3>2. sess[s].status # "NONE" BY <3>1 DEF ClaimInv, Named, NamesSession
    <3>3. QED BY <1>n, <3>2
  <2>3. QED BY <2>1, <2>2
<1>4. NoneIsUnpaid'
  <2> SUFFICES ASSUME NEW o \in OrderIds, order'[o].status = "NONE" PROVE order'[o].paid = 0
    BY DEF NoneIsUnpaid
  <2>1. order[o].status = "NONE" BY OrdersStay
  <2>2. \A n \in Nat : ~Asked(o, n) BY <2>1 DEF AskInv, AsksAreDue
  <2>3. \A s \in Sessions : sess[s].amount \in Nat BY AmountsAssumption DEF TypeInv, SessOK, SessionRows
  <2>4. ReceiptStep(o) BY NextReceipts DEF AskInv
  <2>5. ~StaffReceive(o) BY <2>1 DEF StaffReceive
  <2>6. QED BY <2>1, <2>2, <2>3, <2>4, <2>5 DEF ReceiptStep, PlacesPaid, PaysAsked, AccountInv, NoneIsUnpaid
<1>5. QED BY <1>1, <1>2, <1>3, <1>4 DEF AccountInv

LEMMA KnownAlways == Spec => []Known
BY AccountInvInit, AccountInvNext, TypeInvAlways, ChargeInvInit, ChargeInvNext, ClaimInvAlways, CoverInvAlways,
   AskInvAlways, PTL DEF Spec, Known

(* What an attempt asked for is not changed once it was paid, and nothing  *)
(* changes the accounts but their own rows.                                *)
LEMMA ChargesStay ==
  ASSUME Known, [Next]_vars
  PROVE  \A s \in Settled : sess'[s].amount = sess[s].amount
<1>1. \A s \in Settled : s \in Sessions /\ sess[s].status # "NONE"
  BY DEF Settled, Known, AccountInv, PaymentsOfSessions
<1>2. QED BY <1>1, NextRows DEF Known, RowStep

LEMMA SameCharges == ASSUME Known, [Next]_vars, Settled' = Settled PROVE Charged' = Charged
BY ChargesStay DEF Charged

LEMMA OneCharged ==
  ASSUME Known, [Next]_vars, NEW s \in Sessions, Settled' = Settled \cup {s}, UNCHANGED sess
  PROVE  Charged' = [Charged EXCEPT ![s] = sess[s].amount]
BY ChargesStay DEF Charged

LEMMA SamePayments == UNCHANGED payment => Settled' = Settled
BY DEF Settled

LEMMA SameOrders == UNCHANGED order => UNCHANGED <<Kept, Cash, Credited>>
BY DEF Kept, Cash, Credited, HeldFor

LEMMA SameReserves == UNCHANGED entry => UNCHANGED <<Reserved, Fate>>
BY DEF Reserved, Fate

LEMMA QuietAccounts ==
  ASSUME Known, [Next]_vars, UNCHANGED <<entry, balance, Settled, Kept, Cash, Credited>>
  PROVE  UNCHANGED Account!vars
<1>1. UNCHANGED <<Reserved, Fate>> BY SameReserves
<1>2. Charged' = Charged BY SameCharges
<1>3. QED BY <1>1, <1>2 DEF Account!vars

LEMMA ReleaseAccounts ==
  ASSUME Known, [Next]_vars, NEW s \in Sessions, ReleaseReservation(s), UNCHANGED <<order, Settled>>
  PROVE  Account!Release(s) \/ UNCHANGED Account!vars
<1>1. entry \in [Sessions -> EntryRows] BY DEF Known, TypeInv, LedgerOK
<1>2. UNCHANGED <<Kept, Cash, Credited>> BY SameOrders
<1>3. CASE ~Unresolved(s)
  <2>1. UNCHANGED <<entry, balance>> BY <1>3 DEF ReleaseReservation
  <2>2. QED BY <1>2, <2>1, QuietAccounts
<1>4. CASE Unresolved(s)
  <2>1. entry' = [entry EXCEPT ![s].released = TRUE] /\ balance' = balance + entry[s].reserve
    BY <1>4 DEF ReleaseReservation
  <2>2. \A t \in Sessions : /\ entry'[t].reserve = entry[t].reserve /\ entry'[t].consumed = entry[t].consumed
                            /\ entry'[t].released = IF t = s THEN TRUE ELSE entry[t].released
    BY <1>1, <2>1 DEF EntryRows
  <2>3. Reserved' = Reserved /\ Reserved[s] = entry[s].reserve BY <2>2 DEF Reserved
  <2>4. entry[s].reserve # 0 /\ ~entry[s].consumed /\ ~entry[s].released
    BY <1>1, <1>4 DEF EntryRows, Unresolved
  <2>5. Fate[s] = "reserved" /\ Fate' = [Fate EXCEPT ![s] = "released"] BY <2>2, <2>4 DEF Fate
  <2>6. Charged' = Charged BY SameCharges
  <2>7. QED BY <1>2, <2>1, <2>3, <2>5, <2>6 DEF Account!Release
<1>5. QED BY <1>3, <1>4

LEMMA ReserveAccounts ==
  ASSUME Known, [Next]_vars, NEW p \in Procs, ReserveAndCreate(p)
  PROVE  (\E s \in Sessions : Account!Reserve(s)) \/ UNCHANGED Account!vars
<1> DEFINE amount == proc[p].amount
<1>1. entry \in [Sessions -> EntryRows] /\ balance \in Nat BY DEF Known, TypeInv, LedgerOK
<1>2. amount \in 0..Total /\ Total \in Nat BY AmountsAssumption DEF Known, TypeInv, ProcOK, GoodProcs, ProcStates
<1>3. UNCHANGED <<Settled, Kept, Cash, Credited>>
  <2>1. UNCHANGED <<payment, order>> BY Zenon DEF ReserveAndCreate
  <2>2. QED BY <2>1, SamePayments, SameOrders
<1>4. CASE ~Covers(amount)
  <2>1. UNCHANGED <<entry, balance>> BY <1>4 DEF ReserveAndCreate
  <2>2. QED BY <1>3, <2>1, QuietAccounts
<1>5. CASE Covers(amount)
  <2>1. PICK s \in Sessions : /\ sess[s].status = "NONE"
                              /\ entry' = [entry EXCEPT ![s].reserve = amount]
                              /\ balance' = balance - amount
    BY <1>5, Zenon DEF ReserveAndCreate
  <2>2. entry[s].reserve = 0 /\ ~entry[s].released /\ ~entry[s].consumed /\ s \notin Settled
    BY <1>1, <2>1 DEF Known, ChargeInv, Fresh, AccountInv, ReleasesOfReserves, PaymentsOfSessions, Settled, EntryRows
  <2> HIDE DEF amount
  <2>3. \A t \in Sessions : /\ entry'[t].consumed = entry[t].consumed /\ entry'[t].released = entry[t].released
                            /\ entry'[t].reserve = IF t = s THEN amount ELSE entry[t].reserve
    BY <1>1, <2>1 DEF EntryRows
  <2>4. Charged' = Charged BY <1>3, SameCharges
  <2>5. CASE amount = 0
    <3>1. balance' = balance BY <1>1, <2>1, <2>5
    <3>2. UNCHANGED <<Reserved, Fate>> BY <2>2, <2>3, <2>5 DEF Reserved, Fate
    <3>3. QED BY <1>3, <2>4, <3>1, <3>2 DEF Account!vars
  <2>6. CASE amount # 0
    <3>1. amount \in 1..Total /\ balance >= amount BY <1>2, <1>5, <2>6 DEF Covers, amount
    <3>2. Fate[s] = "none" /\ Fate' = [Fate EXCEPT ![s] = "reserved"] BY <2>2, <2>3, <2>6 DEF Fate
    <3>3. Reserved' = [Reserved EXCEPT ![s] = amount] BY <2>3 DEF Reserved
    <3>4. Account!Reserve(s) BY <1>3, <2>1, <2>2, <2>4, <3>1, <3>2, <3>3 DEF Account!Reserve
    <3>5. QED BY <3>4
  <2>7. QED BY <2>5, <2>6
<1>6. QED BY <1>4, <1>5

LEMMA LeastIsMin == ASSUME NEW a \in Nat, NEW b \in Nat PROVE Min({a, b}) = Account!Least(a, b)
BY MinOfPair DEF Account!Least

(* An order that does not exist has no account yet; one that does counts   *)
(* what it holds, with what one step adds to it.                           *)
LEMMA NewAccount ==
  ASSUME Known, NEW o \in OrderIds, order[o].status = "NONE"
  PROVE  Kept[o] = 0 /\ order[o].cash = 0 /\ o \notin Credited
<1>1. order[o].paid = 0 BY DEF Known, AccountInv, NoneIsUnpaid
<1>2. order[o].credited \in Nat /\ order[o].credited <= order[o].paid
  BY DEF Known, TypeInv, LedgerOK, OrderRows, CreditedIsPaid
<1>3. order[o].credited = 0 BY <1>1, <1>2
<1>4. order[o].cash = 0 BY DEF Known, AskInv, NoneIsUntouched
<1>5. QED BY <1>1, <1>3, <1>4 DEF Kept, HeldFor, Credited

LEMMA NewOrder ==
  ASSUME Known, NEW o \in OrderIds, order[o].status = "NONE",
         NEW st \in {"PENDING", "CONFIRMED"}, NEW paid \in Nat, NEW c \in BOOLEAN,
         order' = [order EXCEPT ![o] = NewOrderRow(st, paid, c)]
  PROVE  Kept' = [Kept EXCEPT ![o] = paid] /\ Credited' = Credited /\ Cash' = Cash
<1>2. /\ order'[o].paid = paid /\ order'[o].credited = 0 /\ order'[o].cash = 0
      /\ \A n \in OrderIds : n # o => order'[n] = order[n]
  BY RowWritten DEF Known
<1>3. Kept' = [Kept EXCEPT ![o] = paid]
  <2>1. order'[o].paid - order'[o].credited = paid BY <1>2
  <2>2. \A n \in OrderIds : order'[n].paid - order'[n].credited = IF n = o THEN paid ELSE order[n].paid - order[n].credited
    BY <1>2, <2>1
  <2>3. QED BY <2>2, Zenon DEF Kept, HeldFor
<1>4. Credited' = Credited BY <1>2, NewAccount DEF Credited
<1>5. Cash' = Cash
  <2>1. \A n \in OrderIds : order'[n].cash = order[n].cash BY <1>2, NewAccount
  <2>2. QED BY <2>1, Zenon DEF Cash
<1>6. QED BY <1>3, <1>4, <1>5

(* The order of a checkout is paid by the gateway and by the balance.      *)
LEMMA CheckoutAccounts ==
  ASSUME Known, [Next]_vars, NEW p \in Procs, BookCheckout(p)
  PROVE  (\E s \in Sessions : Account!Settle(s)) \/ UNCHANGED Account!vars
<1> DEFINE s == proc[p].sess
           amount == sess[s].amount
           share == FromBalance(s)
<1>1. entry \in [Sessions -> EntryRows] /\ payment \in [Sessions -> PaymentRows] /\ balance \in Nat
  BY DEF Known, TypeInv, LedgerOK
<1>2. proc[p].at = "book" /\ proc[p].order = None /\ UNCHANGED sess BY Zenon DEF BookCheckout
<1>3. s \in Sessions /\ sess[s].status # "NONE"
  BY <1>2, NamedSession DEF Known, ClaimInv, Named, NamesSession
<1>4. CASE BookingThrows(s)
  <2>1. UNCHANGED <<payment, entry, balance, order>> BY <1>4 DEF BookCheckout, ledger
  <2>2. QED BY <2>1, SamePayments, SameOrders, QuietAccounts
<1>5. CASE ~BookingThrows(s)
  <2>1. PICK o \in OrderIds :
          /\ order[o].status = "NONE"
          /\ order' = [order EXCEPT ![o] = NewOrderRow("CONFIRMED", amount + share, sess[s].coupon)]
          /\ payment' = [payment EXCEPT ![s] = [status |-> "SUCCEEDED", order |-> o]]
    BY <1>5, BookedRow DEF Known
  <2>c. sess[s].coupon \in BOOLEAN BY <1>3 DEF Known, TypeInv, SessOK, SessionRows
  <2>2. payment[s].status = "none" BY <1>5 DEF BookingThrows
  <2>3. s \notin Settled /\ Settled' = Settled \cup {s} BY <1>1, <1>3, <2>1, <2>2 DEF Settled
  <2>4. amount + entry[s].reserve = Total
    BY <1>2, <1>3 DEF Known, CoverInv, CheckoutRows, OrderlessClaims
  <2>5. amount \in 0..Total /\ entry[s].reserve \in 0..Total /\ Total \in Nat
    BY <1>1, <1>3, AmountsAssumption DEF Known, TypeInv, SessOK, SessionRows, EntryRows
  <2>6. ~entry[s].consumed BY <1>3, <2>2 DEF Known, ChargeInv, ConsumedIsBooked
  <2>7. Charged' = [Charged EXCEPT ![s] = amount] BY <1>2, <1>3, <2>3, OneCharged
  <2>8. Kept[o] = 0 /\ o \notin Credited BY <2>1, NewAccount
  <2>9. Reserved[s] = entry[s].reserve BY <1>3 DEF Reserved
  <2> HIDE DEF s, amount
  <2>10. Account!PaysNew(s, o, amount) BY <2>4, <2>8, <2>9 DEF Account!PaysNew
  <2>11. /\ share \in 0..Total /\ Account!Share(s, o, amount, share)
         /\ Reserved' = Reserved
    <3>1. CASE Unresolved(s)
      <4>1. entry' = [entry EXCEPT ![s].consumed = TRUE] /\ UNCHANGED balance
        BY <1>5, <3>1 DEF BookCheckout, s
      <4>2. share = entry[s].reserve BY <3>1 DEF FromBalance
      <4>3. entry[s].reserve # 0 /\ ~entry[s].released BY <2>5, <3>1 DEF Unresolved
      <4>4. \A t \in Sessions : /\ entry'[t].reserve = entry[t].reserve /\ entry'[t].released = entry[t].released
                                /\ entry'[t].consumed = IF t = s THEN TRUE ELSE entry[t].consumed
        BY <1>1, <4>1 DEF EntryRows
      <4>5. Fate[s] = "reserved" /\ Fate' = [Fate EXCEPT ![s] = "paid"] BY <1>3, <2>6, <4>3, <4>4 DEF Fate
      <4>6. Reserved' = Reserved BY <4>4 DEF Reserved
      <4>7. Account!Share(s, o, amount, share) BY <2>9, <2>10, <4>1, <4>2, <4>5 DEF Account!Share
      <4>8. QED BY <2>5, <4>2, <4>6, <4>7
    <3>2. CASE ~Unresolved(s)
      <4>1. entry' = [entry EXCEPT ![s].respent = share] /\ balance' = balance - share
        BY <1>5, <3>2 DEF BookCheckout, s
      <4>2. share = Account!Least(entry[s].reserve, balance) BY <1>1, <2>5, <3>2, LeastIsMin DEF FromBalance
      <4> HIDE DEF share
      <4>3. \A t \in Sessions : /\ entry'[t].reserve = entry[t].reserve /\ entry'[t].released = entry[t].released
                                /\ entry'[t].consumed = entry[t].consumed
        BY <1>1, <4>1 DEF EntryRows
      <4>4. Reserved' = Reserved /\ Fate' = Fate BY <4>3 DEF Reserved, Fate
      <4>5. share \in 0..Total BY <1>1, <2>5, <4>2 DEF Account!Least
      <4>6. CASE entry[s].reserve = 0
        <5>1. Fate[s] = "none" BY <1>3, <4>6 DEF Fate
        <5>2. share = 0 BY <1>1, <4>2, <4>6 DEF Account!Least
        <5>3. balance' = balance BY <1>1, <4>1, <5>2
        <5>4. Account!Share(s, o, amount, share) BY <4>4, <5>1, <5>2, <5>3 DEF Account!Share
        <5>5. QED BY <4>4, <4>5, <5>4
      <4>7. CASE entry[s].reserve # 0
        <5>1. Fate[s] = "released" BY <1>3, <2>5, <2>6, <3>2, <4>7 DEF Fate, Unresolved
        <5>2. Account!Share(s, o, amount, share) BY <2>9, <2>10, <4>1, <4>2, <4>4, <5>1 DEF Account!Share
        <5>3. QED BY <4>4, <4>5, <5>2
      <4>8. QED BY <4>6, <4>7
    <3>3. QED BY <3>1, <3>2
  <2> HIDE DEF share
  <2>12. amount + share \in Nat BY <2>5, <2>11
  <2>13. Kept' = [Kept EXCEPT ![o] = amount + share] /\ Credited' = Credited /\ Cash' = Cash
    <3> DEFINE c == sess[s].coupon
               paid == amount + share
    <3>1. order' = [order EXCEPT ![o] = NewOrderRow("CONFIRMED", paid, c)] /\ c \in BOOLEAN /\ paid \in Nat
      BY <2>1, <2>c, <2>12
    <3> HIDE DEF c, paid
    <3>2. Kept' = [Kept EXCEPT ![o] = paid] /\ Credited' = Credited /\ Cash' = Cash
      BY <2>1, <3>1, NewOrder
    <3>3. QED BY <3>2 DEF paid
  <2>14. Kept' = [Kept EXCEPT ![o] = @ + amount + share] BY <2>5, <2>8, <2>11, <2>13
  <2>15. Account!Settle(s) BY <2>3, <2>5, <2>7, <2>11, <2>13, <2>14 DEF Account!Settle
  <2>16. QED BY <1>3, <2>15 DEF s
<1>6. QED BY <1>4, <1>5

(* What an attempt for an order asked for is added to what it received.    *)
LEMMA AttemptAccounts ==
  ASSUME Known, [Next]_vars, NEW p \in Procs, BookOrder(p)
  PROVE  (\E s \in Sessions : Account!Settle(s)) \/ UNCHANGED Account!vars
<1> DEFINE s == proc[p].sess
           o == proc[p].order
           amount == sess[s].amount
<1>1. payment \in [Sessions -> PaymentRows] /\ order \in [OrderIds -> OrderRows] BY DEF Known, TypeInv, LedgerOK
<1>2. proc[p].at = "book" /\ o # None /\ UNCHANGED <<sess, entry, balance>> BY Zenon DEF BookOrder
<1>3. s \in Sessions /\ sess[s].status # "NONE"
  BY <1>2, NamedSession DEF Known, ClaimInv, Named, NamesSession
<1>4. CASE SettlementThrows(s, o)
  <2>1. UNCHANGED <<payment, order>> BY <1>4, Zenon DEF BookOrder
  <2>2. QED BY <1>2, <2>1, SamePayments, SameOrders, QuietAccounts
<1>5. CASE ~SettlementThrows(s, o)
  <2>1. /\ payment' = [payment EXCEPT ![s] = [status |-> "SUCCEEDED", order |-> o]]
        /\ order' = [order EXCEPT ![o].paid = @ + amount, ![o].status = IF Confirms(o, amount) THEN "CONFIRMED" ELSE @]
    BY <1>5 DEF BookOrder
  <2>0. payment[s].status = "none" BY <1>5 DEF SettlementThrows
  <2>2. sess[s].order = o BY <1>2, <2>0 DEF Known, AskInv, ClaimOrder
  <2>3. o \in OrderIds BY <1>2, <1>3, <2>2 DEF Known, TypeInv, SessOK, SessionRows
  <2>4. ~sess[s].pre BY <1>2, <1>3, <2>0, <2>2 DEF Known, AskInv, LinkedIsBooked
  <2>5. entry[s].reserve = 0 BY <1>3, <2>4 DEF Known, AccountInv, ReservesOfCheckouts
  <2>6. Fate[s] = "none" BY <1>3, <2>5 DEF Fate
  <2>7. s \notin Settled /\ Settled' = Settled \cup {s} BY <1>1, <1>3, <2>0, <2>1 DEF Settled
  <2>8. Charged' = [Charged EXCEPT ![s] = amount] BY <1>2, <1>3, <2>7, OneCharged
  <2>9. amount \in 0..Total /\ Total \in Nat
    BY <1>3, AmountsAssumption DEF Known, TypeInv, SessOK, SessionRows
  <2> HIDE DEF s, o, amount
  <2>10. \A n \in OrderIds : /\ order'[n].credited = order[n].credited /\ order'[n].cash = order[n].cash
                             /\ order'[n].paid = IF n = o THEN order[n].paid + amount ELSE order[n].paid
    BY <1>1, <2>1 DEF OrderRows
  <2>11. Credited' = Credited /\ Cash' = Cash BY <2>10 DEF Credited, Cash
  <2>12. Kept' = [Kept EXCEPT ![o] = @ + amount + 0]
    <3>1. order[o].paid \in Nat /\ order[o].credited \in Nat BY <1>1, <2>3 DEF OrderRows
    <3>2. (order[o].paid + amount) - order[o].credited = (order[o].paid - order[o].credited) + amount + 0
      BY <2>9, <3>1
    <3>3. \A n \in OrderIds : order'[n].paid - order'[n].credited =
            IF n = o THEN (order[o].paid - order[o].credited) + amount + 0 ELSE order[n].paid - order[n].credited
      BY <2>10, <3>2
    <3>4. QED BY <2>3, <3>3, Zenon DEF Kept, HeldFor
  <2>13. UNCHANGED <<Reserved, Fate>> BY <1>2, SameReserves
  <2>14. Account!Share(s, o, amount, 0) BY <1>2, <2>6, <2>13 DEF Account!Share
  <2>15. Account!Settle(s)
    <3> DEFINE share == 0
    <3>1. share \in 0..Total /\ Account!Share(s, o, amount, share) /\ Kept' = [Kept EXCEPT ![o] = @ + amount + share]
      BY <2>9, <2>12, <2>14
    <3> HIDE DEF share
    <3>2. QED BY <2>3, <2>7, <2>8, <2>9, <2>11, <2>13, <3>1 DEF Account!Settle
  <2>16. QED BY <1>3, <2>15 DEF s
<1>6. QED BY <1>4, <1>5

LEMMA PlaceAccounts ==
  ASSUME Known, [Next]_vars, NEW p \in Procs, PlaceFromBalance(p)
  PROVE  (\E o \in OrderIds : Account!Place(o)) \/ UNCHANGED Account!vars
<1> DEFINE pays == Min({balance, Total})
<1>1. balance \in Nat /\ Total \in Nat \ {0} BY AmountsAssumption DEF Known, TypeInv, LedgerOK
<1>2. UNCHANGED <<payment, entry, Settled>> BY SamePayments DEF PlaceFromBalance
<1>3. CASE UNCHANGED <<order, balance>> BY <1>2, <1>3, SameOrders, QuietAccounts
<1>4. CASE ~UNCHANGED <<order, balance>>
  <2>1. PICK o \in OrderIds, st \in {"PENDING", "CONFIRMED"} :
          /\ order[o].status = "NONE"
          /\ order' = [order EXCEPT ![o] = NewOrderRow(st, pays, proc[p].coupon)]
    BY <1>4, PlacedRow DEF Known
  <2>b. balance' = balance - pays /\ proc[p].coupon \in BOOLEAN BY <1>4, PlacedRow DEF Known
  <2>2. pays = Account!Least(balance, Total) BY <1>1, LeastIsMin
  <2> HIDE DEF pays
  <2>3. pays \in Nat /\ (balance = 0 => pays = 0) BY <1>1, <2>2 DEF Account!Least
  <2>4. Kept' = [Kept EXCEPT ![o] = pays] /\ Credited' = Credited /\ Cash' = Cash
    <3> DEFINE c == proc[p].coupon
    <3>1. order' = [order EXCEPT ![o] = NewOrderRow(st, pays, c)] /\ c \in BOOLEAN BY <2>1, <2>b
    <3> HIDE DEF c
    <3>2. QED BY <2>1, <2>3, <3>1, NewOrder
  <2>5. Kept[o] = 0 /\ o \notin Credited BY <2>1, NewAccount
  <2>6. UNCHANGED <<Reserved, Fate, Charged>> BY <1>2, SameReserves, SameCharges
  <2>7. CASE balance = 0
    <3>1. balance' = balance
      <4>1. balance' = balance - pays /\ pays = 0 BY <2>b, <2>3, <2>7
      <4>2. QED BY <1>1, <4>1
    <3>2. Kept' = Kept BY <2>3, <2>4, <2>5, <2>7 DEF Kept
    <3>3. QED BY <1>2, <2>4, <2>6, <3>1, <3>2 DEF Account!vars
  <2>8. CASE balance # 0
    <3>1. Account!Place(o) BY <1>1, <1>2, <2>b, <2>2, <2>4, <2>5, <2>6, <2>8 DEF Account!Place
    <3>2. QED BY <3>1
  <2>9. QED BY <2>7, <2>8
<1>5. QED BY <1>3, <1>4

(* A customer's cancellation credits what was received, once; staff only   *)
(* cancel.                                                                 *)
LEMMA CancelAccounts ==
  ASSUME Known, [Next]_vars, NEW o \in OrderIds, CustomerCancels(o) \/ StaffCancels(o)
  PROVE  Account!Credit(o) \/ UNCHANGED Account!vars
<1> DEFINE credit == IF CustomerCancels(o) THEN CancellationCredit(o) ELSE 0
<1>1. order \in [OrderIds -> OrderRows] /\ balance \in Nat BY DEF Known, TypeInv, LedgerOK
<1>2. UNCHANGED <<payment, entry, Settled>> BY SamePayments DEF CustomerCancels, StaffCancels
<1>3. order[o].paid \in Nat /\ order[o].credited \in Nat BY <1>1 DEF OrderRows
<1>4. credit = 0 \/ (credit = order[o].paid /\ order[o].credited = 0) BY DEF CancellationCredit
<1>5. /\ balance' = balance + credit
      /\ \A n \in OrderIds : /\ order'[n].paid = order[n].paid /\ order'[n].cash = order[n].cash
                             /\ order'[n].credited = IF n = o THEN order[n].credited + credit ELSE order[n].credited
  <2>1. CASE CustomerCancels(o)
    <3>1. /\ balance' = balance + credit
          /\ order' = [order EXCEPT ![o].status = "CANCELLED", ![o].credited = @ + credit]
      BY <2>1 DEF CustomerCancels
    <3> HIDE DEF credit
    <3>2. QED BY <1>1, <3>1 DEF OrderRows
  <2>2. CASE ~CustomerCancels(o)
    <3>1. credit = 0 /\ UNCHANGED balance /\ order' = [order EXCEPT ![o].status = "CANCELLED"]
      BY <2>2 DEF StaffCancels
    <3> HIDE DEF credit
    <3>2. QED BY <1>1, <1>3, <3>1 DEF OrderRows
  <2>3. QED BY <2>1, <2>2
<1> HIDE DEF credit
<1>6. UNCHANGED <<Reserved, Fate, Charged, Cash>>
  <2>1. Cash' = Cash BY <1>5, Zenon DEF Cash
  <2>2. QED BY <1>2, <2>1, SameReserves, SameCharges
<1>7. CASE credit = 0
  <2>1. balance' = balance BY <1>1, <1>5, <1>7
  <2>2. \A n \in OrderIds : order'[n].credited = order[n].credited BY <1>3, <1>5, <1>7
  <2>3. Kept' = Kept /\ Credited' = Credited BY <1>5, <2>2, Zenon DEF Kept, HeldFor, Credited
  <2>4. QED BY <1>2, <1>6, <2>1, <2>3 DEF Account!vars
<1>8. CASE credit # 0
  <2>1. Kept[o] = credit /\ credit > 0 BY <1>3, <1>4, <1>8 DEF Kept, HeldFor
  <2>2. o \notin Credited /\ Credited' = Credited \cup {o} BY <1>3, <1>4, <1>5, <1>8 DEF Credited
  <2>3. Kept' = [Kept EXCEPT ![o] = 0]
    <3>1. order'[o].paid - order'[o].credited = 0 BY <1>3, <1>4, <1>5, <1>8
    <3>2. \A n \in OrderIds : order'[n].paid - order'[n].credited = IF n = o THEN 0 ELSE order[n].paid - order[n].credited
      BY <1>5, <3>1
    <3>3. QED BY <3>2, Zenon DEF Kept, HeldFor
  <2>4. Account!Credit(o) BY <1>2, <1>5, <1>6, <2>1, <2>2, <2>3 DEF Account!Credit
  <2>5. QED BY <2>4
<1>9. QED BY <1>7, <1>8

LEMMA NewMoney ==
  ASSUME Init, NEW o \in OrderIds
  PROVE  /\ order[o].paid \in 0..Total /\ order[o].credited = 0 /\ order[o].cash = 0
         /\ o \notin Existing => order[o].paid = 0
<1>1. PICK advance \in [Existing -> 0..(Total - 1)] :
        order = [n \in OrderIds |-> IF n \in Existing
                                      THEN [NoOrder EXCEPT !.status = "PENDING", !.paid = advance[n]]
                                      ELSE NoOrder]
  BY Zenon DEF Init
<1>2. order[o] = IF o \in Existing THEN [NoOrder EXCEPT !.status = "PENDING", !.paid = advance[o]] ELSE NoOrder
  BY <1>1, Zenon
<1>3. o \in Existing => advance[o] \in 0..(Total - 1) OBVIOUS
<1>4. QED BY <1>2, <1>3, AmountsAssumption DEF NoOrder

(* Staff receive no more than is due; what else they do moves no money.    *)
LEMMA DeskAccounts ==
  ASSUME Known, [Next]_vars, NEW o \in OrderIds, DeskAct(o)
  PROVE  Account!Pay(o) \/ UNCHANGED Account!vars
<1>1. UNCHANGED <<payment, entry, balance, Settled>>
  BY SamePayments DEF DeskAct, RecordManualPayment, StaffMoves, TrashOrRestore
<1>2. UNCHANGED <<Reserved, Fate, Charged>> BY <1>1, SameReserves, SameCharges
<1>3. /\ order'[o].credited = order[o].credited
      /\ \A n \in OrderIds : n # o => order'[n] = order[n]
  BY DeskFields DEF Known
<1>4. Credited' = Credited BY <1>3 DEF Credited
<1>5. CASE SameMoney(o)
  <2>1. \A n \in OrderIds : /\ order'[n].paid = order[n].paid /\ order'[n].credited = order[n].credited
                            /\ order'[n].cash = order[n].cash
    BY <1>3, <1>5 DEF SameMoney
  <2>2. Kept' = Kept /\ Cash' = Cash BY <2>1, Zenon DEF Kept, HeldFor, Cash
  <2>3. QED BY <1>1, <1>2, <1>4, <2>2 DEF Account!vars
<1>6. CASE StaffReceive(o)
  <2>1. PICK amount \in 1..AmountDue(o) :
          order'[o].paid = order[o].paid + amount /\ order'[o].cash = order[o].cash + amount
    BY <1>6 DEF StaffReceive
  <2>2. /\ order[o].paid \in Nat /\ order[o].credited \in Nat /\ order[o].cash \in Nat
        /\ Total \in Nat /\ AmountDue(o) \in Nat
    BY AmountsAssumption, DueIsAmount DEF Known, TypeInv, LedgerOK, OrderRows
  <2>3. order[o].credited = 0 BY <1>6, <2>2 DEF StaffReceive, Known, AskInv, CreditedIsCancelled
  <2>4. AmountDue(o) = Total - order[o].paid
    <3>1. AmountDue(o) # 0 BY <2>1, <2>2
    <3>2. QED BY <2>2, <2>3, <3>1 DEF AmountDue, HeldFor
  <2>5. amount \in 1..Total /\ order[o].paid - 0 + amount <= Total BY <2>1, <2>2, <2>4
  <2>6. Kept[o] = order[o].paid - 0 BY <2>3 DEF Kept, HeldFor
  <2>7. Kept' = [Kept EXCEPT ![o] = @ + amount]
    <3>1. order'[o].paid - order'[o].credited = (order[o].paid - order[o].credited) + amount BY <1>3, <2>1, <2>2
    <3>2. \A n \in OrderIds : order'[n].paid - order'[n].credited =
            IF n = o THEN (order[o].paid - order[o].credited) + amount ELSE order[n].paid - order[n].credited
      BY <1>3, <3>1
    <3>3. QED BY <3>2, Zenon DEF Kept, HeldFor
  <2>8. Cash' = [Cash EXCEPT ![o] = @ + amount] BY <1>3, <2>1 DEF Cash
  <2>9. o \notin Credited BY <2>3 DEF Credited
  <2>10. Account!Pay(o) BY <1>1, <1>2, <1>4, <2>5, <2>6, <2>7, <2>8, <2>9 DEF Account!Pay
  <2>11. QED BY <2>10
<1>7. QED BY <1>5, <1>6, DeskFields DEF Known

LEMMA AccountInit == Init => Account!Init
<1> SUFFICES ASSUME Init PROVE Account!Init OBVIOUS
<1>1. balance \in Nat BY AmountsAssumption DEF Init
<1>2. \A s \in Sessions : entry[s] = NoEntry /\ payment[s] = NoPayment BY DEF Init
<1>3. Reserved = [s \in Sessions |-> 0] /\ Fate = [s \in Sessions |-> "none"] BY <1>2 DEF NoEntry, Reserved, Fate
<1>4. Settled = {} BY <1>2 DEF NoPayment, Settled
<1>5. Charged = [s \in Sessions |-> 0] BY <1>4 DEF Charged
<1>6. \A o \in OrderIds : order[o].paid \in 0..Total /\ order[o].credited = 0 /\ order[o].cash = 0 BY NewMoney
<1>7. Cash = [o \in OrderIds |-> 0] BY <1>6 DEF Cash
<1>8. Kept \in [OrderIds -> 0..Total] /\ Credited = {} BY <1>6, AmountsAssumption DEF Kept, HeldFor, Credited
<1>9. QED BY <1>1, <1>3, <1>4, <1>5, <1>7, <1>8 DEF Account!Init

LEMMA AccountNext == Known /\ [Next]_vars => [Account!Next]_(Account!vars)
<1> SUFFICES ASSUME Known, [Next]_vars PROVE Account!Next \/ UNCHANGED Account!vars BY DEF Account!vars
<1>1. CASE UNCHANGED <<payment, entry, balance, order>> BY <1>1, SamePayments, SameOrders, QuietAccounts
<1>2. ASSUME NEW p \in Procs, ReleaseStep(p) \/ RecordFailure(p) PROVE Account!Next \/ UNCHANGED Account!vars
  <2> DEFINE s == proc[p].sess
  <2>1. s \in Sessions /\ UNCHANGED order
    BY <1>2, NamedSession DEF Known, ReleaseStep, RecordFailure, NamesSession
  <2>2. Settled' = Settled
    <3>1. CASE ReleaseStep(p) BY <3>1, SamePayments DEF ReleaseStep
    <3>2. CASE RecordFailure(p)
      <4>1. payment \in [Sessions -> PaymentRows] BY DEF Known, TypeInv, LedgerOK
      <4>2. CASE payment[s].status # "none"
        <5>1. UNCHANGED payment BY <3>2, <4>2 DEF RecordFailure
        <5>2. QED BY <5>1, SamePayments
      <4>3. CASE payment[s].status = "none"
        <5>1. payment' = [payment EXCEPT ![s] = [status |-> "FAILED", order |-> sess[s].order]]
          BY <3>2, <4>3 DEF RecordFailure
        <5>2. QED BY <4>1, <4>3, <5>1 DEF Settled
      <4>4. QED BY <4>2, <4>3
    <3>3. QED BY <1>2, <3>1, <3>2
  <2>3. ReleaseReservation(s) \/ UNCHANGED <<entry, balance>> BY <1>2 DEF ReleaseStep, RecordFailure
  <2>4. CASE ReleaseReservation(s) BY <2>1, <2>2, <2>4, ReleaseAccounts DEF Account!Next
  <2>5. CASE UNCHANGED <<entry, balance>> BY <2>1, <2>2, <2>5, SameOrders, QuietAccounts
  <2>6. QED BY <2>3, <2>4, <2>5
<1>3. ASSUME NEW s \in Sessions, SweepRelease(s) PROVE Account!Next \/ UNCHANGED Account!vars
  BY <1>3, SamePayments, ReleaseAccounts DEF SweepRelease, Account!Next
<1>4. ASSUME NEW p \in Procs, PlaceFromBalance(p) PROVE Account!Next \/ UNCHANGED Account!vars
  BY <1>4, PlaceAccounts DEF Account!Next
<1>5. ASSUME NEW p \in Procs, ReserveAndCreate(p) PROVE Account!Next \/ UNCHANGED Account!vars
  BY <1>5, ReserveAccounts DEF Account!Next
<1>6. ASSUME NEW p \in Procs, BookCheckout(p) \/ BookOrder(p) PROVE Account!Next \/ UNCHANGED Account!vars
  BY <1>6, CheckoutAccounts, AttemptAccounts DEF Account!Next
<1>7. ASSUME NEW o \in OrderIds, CustomerCancels(o) \/ StaffCancels(o) \/ DeskAct(o)
      PROVE  Account!Next \/ UNCHANGED Account!vars
  BY <1>7, CancelAccounts, DeskAccounts DEF Account!Next
<1>8. QED BY <1>1, <1>2, <1>3, <1>4, <1>5, <1>6, <1>7, LedgerSteps

(* The handlers, the callbacks, the cron and their retries keep the        *)
(* promise of module StoreBalance, whatever the interleaving: a reserve is *)
(* paid or released once, a payment settles once, a late success pays what *)
(* the balance still allows, and an order's money is credited back once.   *)
THEOREM PaymentsKeepAccounts == Spec => KeepsAccounts
<1>1. Known /\ [Next]_vars => [Account!Next]_(Account!vars) BY AccountNext
<1>2. QED BY <1>1, AccountInit, KnownAlways, PTL DEF Spec, KeepsAccounts, Account!Spec

-----------------------------------------------------------------------------
(* No money is made or lost.  A sum is the number of units of its members, *)
(* a finite set; one member's new count changes it by as much.             *)
Pile(x, n) == {x} \X (1..n)

LEMMA PileSize ==
  ASSUME NEW x, NEW n \in Nat
  PROVE  IsFiniteSet(Pile(x, n)) /\ Cardinality(Pile(x, n)) = n
<1>1. IsFiniteSet(1..n) /\ Cardinality(1..n) = n
  <2>1. IsFiniteSet(1..n) /\ Cardinality(1..n) = IF 1 > n THEN 0 ELSE n - 1 + 1 BY SMTT(30), FS_Interval
  <2>2. (IF 1 > n THEN 0 ELSE n - 1 + 1) = n OBVIOUS
  <2>3. QED BY <2>1, <2>2
<1>2. IsFiniteSet({x}) /\ Cardinality({x}) = 1 BY FS_Singleton
<1>3. IsFiniteSet({x} \X (1..n)) /\ Cardinality({x} \X (1..n)) = Cardinality({x}) * Cardinality(1..n)
  BY <1>1, <1>2, FS_Product
<1>4. Cardinality({x}) * Cardinality(1..n) = 1 * n BY <1>1, <1>2
<1>5. 1 * n = n OBVIOUS
<1>6. QED BY <1>3, <1>4, <1>5 DEF Pile

\* g counts as f does, but for x; and f's units are finitely many.
DiffersAt(x, f, g, S) ==
  /\ \A y \in S : y # x => g[y] = f[y]
  /\ f[x] \in Nat /\ g[x] \in Nat
  /\ IsFiniteSet(Account!Units(f, S))

LEMMA SumMoves ==
  ASSUME NEW S, NEW f, NEW g, NEW x \in S, DiffersAt(x, f, g, S)
  PROVE  /\ IsFiniteSet(Account!Units(g, S))
         /\ Account!SumOver(g, S) = Account!SumOver(f, S) + (g[x] - f[x])
<1> DEFINE rest == Account!Units(f, S) \ Pile(x, f[x])
<1> USE DEF DiffersAt
<1>1. Account!Units(f, S) = UNION {Pile(y, f[y]) : y \in S} /\ Account!Units(g, S) = UNION {Pile(y, g[y]) : y \in S}
  BY DEF Account!Units, Pile
<1>2. \A y, z, m, n : y # z => Pile(y, m) \cap Pile(z, n) = {} BY DEF Pile
<1>3. Pile(x, f[x]) \subseteq Account!Units(f, S) BY <1>1
<1>4. rest = UNION {Pile(y, f[y]) : y \in S \ {x}}
  <2>1. Account!Units(f, S) = Pile(x, f[x]) \cup UNION {Pile(y, f[y]) : y \in S \ {x}} BY <1>1
  <2>2. Pile(x, f[x]) \cap UNION {Pile(y, f[y]) : y \in S \ {x}} = {} BY <1>2
  <2>3. QED BY <2>1, <2>2
<1>5. UNION {Pile(y, f[y]) : y \in S \ {x}} = UNION {Pile(y, g[y]) : y \in S \ {x}} OBVIOUS
<1>6. Account!Units(g, S) = rest \cup Pile(x, g[x]) /\ rest \cap Pile(x, g[x]) = {}
  <2>1. Account!Units(g, S) = Pile(x, g[x]) \cup UNION {Pile(y, g[y]) : y \in S \ {x}} BY <1>1
  <2>2. Pile(x, g[x]) \cap UNION {Pile(y, g[y]) : y \in S \ {x}} = {} BY <1>2
  <2>3. QED BY <1>4, <1>5, <2>1, <2>2
<1>7. IsFiniteSet(Pile(x, f[x])) /\ Cardinality(Pile(x, f[x])) = f[x]
      /\ IsFiniteSet(Pile(x, g[x])) /\ Cardinality(Pile(x, g[x])) = g[x]
  BY PileSize
<1>8. /\ IsFiniteSet(rest)
      /\ Cardinality(rest) = Cardinality(Account!Units(f, S)) - Cardinality(Account!Units(f, S) \cap Pile(x, f[x]))
  BY FS_Difference
<1>9. Account!Units(f, S) \cap Pile(x, f[x]) = Pile(x, f[x]) BY <1>3
<1> HIDE DEF rest
<1>10. /\ IsFiniteSet(rest \cup Pile(x, g[x]))
       /\ Cardinality(rest \cup Pile(x, g[x]))
            = Cardinality(rest) + Cardinality(Pile(x, g[x])) - Cardinality(rest \cap Pile(x, g[x]))
  BY <1>7, <1>8, FS_Union
<1>11. Cardinality(rest \cap Pile(x, g[x])) = 0 BY <1>6, FS_EmptySet
<1>12. Cardinality(rest) \in Nat BY <1>8, FS_CardinalityType
<1>s. /\ Account!SumOver(f, S) = Cardinality(Account!Units(f, S))
      /\ Account!SumOver(g, S) = Cardinality(Account!Units(g, S))
  BY DEF Account!SumOver, Account!Cardinality, Cardinality
<1>13. Cardinality(rest) = Account!SumOver(f, S) - f[x] BY <1>7, <1>8, <1>9, <1>s
<1>14. Account!SumOver(g, S) = Cardinality(rest) + g[x]
  BY <1>6, <1>7, <1>10, <1>11, <1>12, <1>s
<1>15. Account!SumOver(f, S) = Cardinality(rest) + f[x]
  <2>1. Account!SumOver(f, S) \in Nat BY <1>s, FS_CardinalityType
  <2>2. QED BY <1>12, <1>13, <2>1
<1>16. Account!SumOver(g, S) = Account!SumOver(f, S) + (g[x] - f[x]) BY <1>12, <1>14, <1>15
<1>17. QED BY <1>6, <1>10, <1>16

LEMMA SumSize ==
  ASSUME NEW S, NEW f, IsFiniteSet(Account!Units(f, S))
  PROVE  Account!SumOver(f, S) \in Nat
<1>1. Account!SumOver(f, S) = Cardinality(Account!Units(f, S)) BY DEF Account!SumOver, Account!Cardinality, Cardinality
<1>2. QED BY <1>1, FS_CardinalityType

Counted ==
  /\ IsFiniteSet(Account!Units(Account!Held, Sessions))
  /\ IsFiniteSet(Account!Units(Charged, Sessions))
  /\ IsFiniteSet(Account!Units(Kept, OrderIds))
  /\ IsFiniteSet(Account!Units(Cash, OrderIds))

LEMMA AccountCounts ==
  ASSUME Known
  PROVE  /\ balance \in Nat
         /\ \A s \in Sessions : Reserved[s] \in Nat /\ Account!Held[s] \in Nat /\ Charged[s] \in Nat
         /\ \A o \in OrderIds : Kept[o] \in Nat /\ Cash[o] \in Nat
<1>1. balance \in Nat /\ entry \in [Sessions -> EntryRows] BY DEF Known, TypeInv, LedgerOK
<1>2. \A s \in Sessions : entry[s].reserve \in Nat /\ sess[s].amount \in Nat
  BY <1>1, AmountsAssumption DEF Known, TypeInv, SessOK, SessionRows, EntryRows
<1>3. ASSUME NEW o \in OrderIds PROVE Kept[o] \in Nat /\ Cash[o] \in Nat
  <2>1. order[o].paid \in Nat /\ order[o].cash \in Nat /\ order[o].credited \in Nat /\ order[o].credited <= order[o].paid
    BY DEF Known, TypeInv, LedgerOK, OrderRows, CreditedIsPaid
  <2>2. order[o].paid - order[o].credited \in Nat BY <2>1
  <2>3. QED BY <2>1, <2>2 DEF Kept, Cash, HeldFor
<1>4. ASSUME NEW s \in Sessions PROVE Reserved[s] \in Nat /\ Account!Held[s] \in Nat /\ Charged[s] \in Nat
  BY <1>2 DEF Reserved, Account!Held, Charged
<1>5. QED BY <1>1, <1>3, <1>4

LEMMA SameSums ==
  /\ UNCHANGED <<Reserved, Fate>> => Account!Held' = Account!Held
  /\ UNCHANGED Account!Held => UNCHANGED Account!SumOver(Account!Held, Sessions)
  /\ UNCHANGED Charged => UNCHANGED Account!SumOver(Charged, Sessions)
  /\ UNCHANGED Kept => UNCHANGED Account!SumOver(Kept, OrderIds)
  /\ UNCHANGED Cash => UNCHANGED Account!SumOver(Cash, OrderIds)
BY DEF Account!Held

LEMMA WorthOf ==
  LET held == Account!SumOver(Account!Held, Sessions)
      charged == Account!SumOver(Charged, Sessions)
      kept == Account!SumOver(Kept, OrderIds)
      cash == Account!SumOver(Cash, OrderIds)
  IN  /\ Account!Worth = balance + held + kept - charged - cash
      /\ Account!Worth' = balance' + held' + kept' - charged' - cash'
BY DEF Account!Worth

LEMMA HeldMoves ==
  ASSUME Known, Counted, NEW s \in Sessions, \A t \in Sessions : t # s => Account!Held'[t] = Account!Held[t],
         Account!Held'[s] \in Nat
  PROVE  /\ IsFiniteSet(Account!Units(Account!Held', Sessions))
         /\ Account!SumOver(Account!Held', Sessions)
              = Account!SumOver(Account!Held, Sessions) + (Account!Held'[s] - Account!Held[s])
<1>1. Account!Held[s] \in Nat BY AccountCounts
<1>2. DiffersAt(s, Account!Held, Account!Held', Sessions) BY <1>1 DEF DiffersAt, Counted
<1>3. QED BY <1>2, SumMoves

LEMMA ChargedMoves ==
  ASSUME Known, Counted, NEW s \in Sessions, \A t \in Sessions : t # s => Charged'[t] = Charged[t],
         Charged'[s] \in Nat
  PROVE  /\ IsFiniteSet(Account!Units(Charged', Sessions))
         /\ Account!SumOver(Charged', Sessions) = Account!SumOver(Charged, Sessions) + (Charged'[s] - Charged[s])
<1>1. Charged[s] \in Nat BY AccountCounts
<1>2. DiffersAt(s, Charged, Charged', Sessions) BY <1>1 DEF DiffersAt, Counted
<1>3. QED BY <1>2, SumMoves

LEMMA KeptMoves ==
  ASSUME Known, Counted, NEW o \in OrderIds, \A n \in OrderIds : n # o => Kept'[n] = Kept[n], Kept'[o] \in Nat
  PROVE  /\ IsFiniteSet(Account!Units(Kept', OrderIds))
         /\ Account!SumOver(Kept', OrderIds) = Account!SumOver(Kept, OrderIds) + (Kept'[o] - Kept[o])
<1>1. Kept[o] \in Nat BY AccountCounts
<1>2. DiffersAt(o, Kept, Kept', OrderIds) BY <1>1 DEF DiffersAt, Counted
<1>3. QED BY <1>2, SumMoves

LEMMA CashMoves ==
  ASSUME Known, Counted, NEW o \in OrderIds, \A n \in OrderIds : n # o => Cash'[n] = Cash[n], Cash'[o] \in Nat
  PROVE  /\ IsFiniteSet(Account!Units(Cash', OrderIds))
         /\ Account!SumOver(Cash', OrderIds) = Account!SumOver(Cash, OrderIds) + (Cash'[o] - Cash[o])
<1>1. Cash[o] \in Nat BY AccountCounts
<1>2. DiffersAt(o, Cash, Cash', OrderIds) BY <1>1 DEF DiffersAt, Counted
<1>3. QED BY <1>2, SumMoves

(* A step keeps the worth when what it adds to the balance, to what is     *)
(* held and to what is kept makes up what it charged or staff received.    *)
LEMMA WorthMoves ==
  ASSUME Known, Counted, NEW b \in Int, NEW h \in Int, NEW k \in Int, NEW c \in Int, NEW m \in Int, b + h + k = c + m,
         balance' = balance + b,
         Account!SumOver(Account!Held', Sessions) = Account!SumOver(Account!Held, Sessions) + h,
         Account!SumOver(Kept', OrderIds) = Account!SumOver(Kept, OrderIds) + k,
         Account!SumOver(Charged', Sessions) = Account!SumOver(Charged, Sessions) + c,
         Account!SumOver(Cash', OrderIds) = Account!SumOver(Cash, OrderIds) + m
  PROVE  Account!Worth' = Account!Worth
<1> DEFINE held == Account!SumOver(Account!Held, Sessions)
           kept == Account!SumOver(Kept, OrderIds)
           charged == Account!SumOver(Charged, Sessions)
           cash == Account!SumOver(Cash, OrderIds)
<1>1. balance \in Int BY AccountCounts
<1>2. held \in Int /\ kept \in Int /\ charged \in Int /\ cash \in Int BY SumSize DEF Counted
<1>3. /\ Account!Worth = balance + held + kept - charged - cash
      /\ Account!Worth' = (balance + b) + (held + h) + (kept + k) - (charged + c) - (cash + m)
  BY WorthOf
<1> HIDE DEF held, kept, charged, cash
<1>4. (balance + b) + (held + h) + (kept + k) - (charged + c) - (cash + m) = balance + held + kept - charged - cash
  BY <1>1, <1>2
<1>5. QED BY <1>3, <1>4

LEMMA SameCash ==
  ASSUME Known, Counted, UNCHANGED Cash
  PROVE  /\ IsFiniteSet(Account!Units(Cash', OrderIds))
         /\ Account!SumOver(Cash', OrderIds) = Account!SumOver(Cash, OrderIds) + 0
<1>1. Account!SumOver(Cash, OrderIds) \in Nat BY SumSize DEF Counted
<1>2. QED BY <1>1 DEF Counted

LEMMA ReserveWorth ==
  ASSUME Known, Counted, NEW s \in Sessions, Account!Reserve(s) \/ Account!Release(s)
  PROVE  Counted' /\ Account!Worth' = Account!Worth
<1>b. balance \in Nat /\ Reserved[s] \in Nat BY AccountCounts
<1>1. PICK d \in Int : /\ balance' = balance + (0 - d)
                       /\ Account!Held'[s] = Account!Held[s] + d /\ Account!Held'[s] \in Nat
  <2>1. CASE Account!Reserve(s)
    <3>1. PICK d \in 1..Total : /\ balance' = balance - d /\ Fate[s] = "none"
                                /\ Reserved' = [Reserved EXCEPT ![s] = d]
      BY <2>1 DEF Account!Reserve
    <3>2. Fate' = [Fate EXCEPT ![s] = "reserved"] BY <2>1 DEF Account!Reserve
    <3>3. Account!Held[s] = 0 /\ Account!Held'[s] = d BY <3>1, <3>2 DEF Account!Held, Reserved, Fate
    <3>4. d \in Nat /\ balance' = balance + (0 - d) BY <1>b, <3>1, AmountsAssumption
    <3>5. QED BY <3>3, <3>4
  <2>2. CASE Account!Release(s)
    <3>1. /\ balance' = balance + Reserved[s] /\ Fate[s] = "reserved" /\ Fate' = [Fate EXCEPT ![s] = "released"]
      BY <2>2 DEF Account!Release
    <3>2. Account!Held[s] = Reserved[s] /\ Account!Held'[s] = 0 BY <3>1 DEF Account!Held, Fate
    <3>3. /\ 0 - Reserved[s] \in Int /\ balance' = balance + (0 - (0 - Reserved[s]))
          /\ Account!Held'[s] = Account!Held[s] + (0 - Reserved[s]) /\ Account!Held'[s] \in Nat
      BY <1>b, <3>1, <3>2
    <3>4. QED BY <3>3
  <2>3. QED BY <2>1, <2>2
<1>2. \A t \in Sessions : t # s => Account!Held'[t] = Account!Held[t]
  BY DEF Account!Reserve, Account!Release, Account!Held, Reserved, Fate
<1>3. UNCHANGED <<Charged, Kept, Cash>> BY DEF Account!Reserve, Account!Release
<1>4. /\ IsFiniteSet(Account!Units(Account!Held', Sessions))
      /\ Account!SumOver(Account!Held', Sessions)
           = Account!SumOver(Account!Held, Sessions) + (Account!Held'[s] - Account!Held[s])
  BY <1>1, <1>2, HeldMoves
<1>5. Account!Held'[s] - Account!Held[s] = d
  <2>1. Account!Held[s] \in Nat BY AccountCounts
  <2>2. QED BY <1>1, <2>1
<1>6. Counted' BY <1>3, <1>4, SameCash DEF Counted
<1>7. /\ Account!SumOver(Kept', OrderIds) = Account!SumOver(Kept, OrderIds) + 0
      /\ Account!SumOver(Charged', Sessions) = Account!SumOver(Charged, Sessions) + 0
  <2>1. Account!SumOver(Kept, OrderIds) \in Nat /\ Account!SumOver(Charged, Sessions) \in Nat
    BY SumSize DEF Counted
  <2>2. QED BY <1>3, <2>1
<1>8. (0 - d) + d + 0 = 0 + 0 /\ 0 - d \in Int BY <1>1
<1>9. Account!Worth' = Account!Worth BY <1>1, <1>3, <1>4, <1>5, <1>7, <1>8, SameCash, WorthMoves
<1>10. QED BY <1>6, <1>9

LEMMA PlaceWorth ==
  ASSUME Known, Counted, NEW o \in OrderIds, Account!Place(o) \/ Account!Credit(o)
  PROVE  Counted' /\ Account!Worth' = Account!Worth
<1>b. balance \in Nat /\ Total \in Nat /\ Kept[o] \in Nat BY AccountCounts, AmountsAssumption
<1>1. PICK d \in Int : /\ balance' = balance + (0 - d) /\ Kept'[o] = Kept[o] + d /\ Kept'[o] \in Nat
                       /\ \A n \in OrderIds : n # o => Kept'[n] = Kept[n]
  <2>1. CASE Account!Place(o)
    <3> DEFINE d == Account!Least(balance, Total)
    <3>1. balance' = balance - d /\ Kept[o] = 0 /\ Kept' = [Kept EXCEPT ![o] = d] BY <2>1 DEF Account!Place
    <3>2. d \in Nat BY <1>b DEF Account!Least
    <3> HIDE DEF d
    <3>3. Kept'[o] = d /\ \A n \in OrderIds : n # o => Kept'[n] = Kept[n] BY <3>1 DEF Kept
    <3>4. balance' = balance + (0 - d) BY <1>b, <3>1, <3>2
    <3>5. QED BY <3>1, <3>2, <3>3, <3>4
  <2>2. CASE Account!Credit(o)
    <3>1. balance' = balance + Kept[o] /\ Kept' = [Kept EXCEPT ![o] = 0] BY <2>2 DEF Account!Credit
    <3>2. Kept'[o] = 0 /\ \A n \in OrderIds : n # o => Kept'[n] = Kept[n] BY <3>1 DEF Kept
    <3>3. /\ 0 - Kept[o] \in Int /\ balance' = balance + (0 - (0 - Kept[o]))
          /\ Kept'[o] = Kept[o] + (0 - Kept[o]) /\ Kept'[o] \in Nat
      BY <1>b, <3>1, <3>2
    <3>4. QED BY <3>2, <3>3
  <2>3. QED BY <2>1, <2>2
<1>2. UNCHANGED <<Account!Held, Charged, Cash>>
  BY SameSums DEF Account!Place, Account!Credit
<1>3. /\ IsFiniteSet(Account!Units(Kept', OrderIds))
      /\ Account!SumOver(Kept', OrderIds) = Account!SumOver(Kept, OrderIds) + (Kept'[o] - Kept[o])
  BY <1>1, KeptMoves
<1>4. Kept'[o] - Kept[o] = d BY <1>b, <1>1
<1>5. Counted' BY <1>2, <1>3, SameCash DEF Counted
<1>6. /\ Account!SumOver(Account!Held', Sessions) = Account!SumOver(Account!Held, Sessions) + 0
      /\ Account!SumOver(Charged', Sessions) = Account!SumOver(Charged, Sessions) + 0
  <2>1. Account!SumOver(Account!Held, Sessions) \in Nat /\ Account!SumOver(Charged, Sessions) \in Nat
    BY SumSize DEF Counted
  <2>2. QED BY <1>2, <2>1
<1>7. (0 - d) + 0 + d = 0 + 0 /\ 0 - d \in Int BY <1>1
<1>8. Account!Worth' = Account!Worth BY <1>1, <1>2, <1>3, <1>4, <1>6, <1>7, SameCash, WorthMoves
<1>9. QED BY <1>5, <1>8

LEMMA PayWorth ==
  ASSUME Known, Counted, NEW o \in OrderIds, Account!Pay(o)
  PROVE  Counted' /\ Account!Worth' = Account!Worth
<1>1. PICK d \in 1..Total : Kept' = [Kept EXCEPT ![o] = @ + d] /\ Cash' = [Cash EXCEPT ![o] = @ + d]
  BY DEF Account!Pay
<1>2. d \in Nat /\ balance \in Nat /\ Kept[o] \in Nat /\ Cash[o] \in Nat BY AmountsAssumption, AccountCounts
<1>3. /\ Kept'[o] = Kept[o] + d /\ \A n \in OrderIds : n # o => Kept'[n] = Kept[n]
      /\ Cash'[o] = Cash[o] + d /\ \A n \in OrderIds : n # o => Cash'[n] = Cash[n]
  BY <1>1 DEF Kept, Cash
<1>4. /\ Kept'[o] \in Nat /\ Kept'[o] - Kept[o] = d
      /\ Cash'[o] \in Nat /\ Cash'[o] - Cash[o] = d
  BY <1>2, <1>3
<1>5. /\ IsFiniteSet(Account!Units(Kept', OrderIds))
      /\ Account!SumOver(Kept', OrderIds) = Account!SumOver(Kept, OrderIds) + d
  BY <1>3, <1>4, KeptMoves
<1>6. /\ IsFiniteSet(Account!Units(Cash', OrderIds))
      /\ Account!SumOver(Cash', OrderIds) = Account!SumOver(Cash, OrderIds) + d
  BY <1>3, <1>4, CashMoves
<1>7. UNCHANGED <<balance, Account!Held, Charged>> BY SameSums DEF Account!Pay
<1>8. Counted' BY <1>5, <1>6, <1>7 DEF Counted
<1>9. /\ Account!SumOver(Account!Held', Sessions) = Account!SumOver(Account!Held, Sessions) + 0
      /\ Account!SumOver(Charged', Sessions) = Account!SumOver(Charged, Sessions) + 0
  <2>1. Account!SumOver(Account!Held, Sessions) \in Nat /\ Account!SumOver(Charged, Sessions) \in Nat
    BY SumSize DEF Counted
  <2>2. QED BY <1>7, <2>1
<1>10. balance' = balance + 0 /\ 0 + 0 + d = 0 + d /\ d \in Int BY <1>2, <1>7
<1>11. Account!Worth' = Account!Worth BY <1>5, <1>6, <1>9, <1>10, WorthMoves
<1>12. QED BY <1>8, <1>11

LEMMA SettleWorth ==
  ASSUME Known, Counted, NEW s \in Sessions, Account!Settle(s)
  PROVE  Counted' /\ Account!Worth' = Account!Worth
<1>b. balance \in Nat /\ Reserved[s] \in Nat /\ Account!Held[s] \in Nat BY AccountCounts
<1>1. PICK o \in OrderIds, amount \in 0..Total, share \in 0..Total :
        /\ Account!Share(s, o, amount, share)
        /\ Charged' = [Charged EXCEPT ![s] = amount]
        /\ Kept' = [Kept EXCEPT ![o] = @ + amount + share]
  BY DEF Account!Settle
<1>2. amount \in Nat /\ share \in Nat /\ Kept[o] \in Nat BY AmountsAssumption, AccountCounts
<1>3. s \notin Settled /\ Reserved' = Reserved /\ Cash' = Cash BY DEF Account!Settle
<1>4. Account!Share(s, o, amount, share) BY <1>1
<1>5. \A t \in Sessions : t # s => Charged'[t] = Charged[t] BY <1>1 DEF Charged
<1>6. Charged[s] = 0 /\ Charged'[s] = amount BY <1>1, <1>3 DEF Charged
<1>7. /\ Kept'[o] = Kept[o] + amount + share
      /\ \A n \in OrderIds : n # o => Kept'[n] = Kept[n]
  BY <1>1 DEF Kept
<1>8. PICK b, h \in Int : /\ balance' = balance + b /\ b + h = 0 - share
                          /\ Account!Held'[s] = Account!Held[s] + h /\ Account!Held'[s] \in Nat
                          /\ \A t \in Sessions : t # s => Account!Held'[t] = Account!Held[t]
  <2>1. CASE Fate[s] = "none"
    <3>1. share = 0 /\ UNCHANGED <<Fate, balance>> BY <1>4, <2>1 DEF Account!Share
    <3>2. Account!Held' = Account!Held BY <1>3, <3>1, SameSums
    <3>3. QED BY <1>b, <3>1, <3>2
  <2>2. CASE Fate[s] = "reserved"
    <3>1. share = Reserved[s] /\ UNCHANGED balance /\ Fate' = [Fate EXCEPT ![s] = "paid"]
      BY <1>4, <2>2 DEF Account!Share
    <3>2. /\ Account!Held[s] = Reserved[s] /\ Account!Held'[s] = 0
          /\ \A t \in Sessions : t # s => Account!Held'[t] = Account!Held[t]
      BY <1>3, <2>2, <3>1 DEF Account!Held, Fate
    <3>3. /\ balance' = balance + 0 /\ 0 + (0 - share) = 0 - share /\ 0 - share \in Int
          /\ Account!Held'[s] = Account!Held[s] + (0 - share)
      BY <1>b, <1>2, <3>1, <3>2
    <3>4. QED BY <3>2, <3>3
  <2>3. CASE Fate[s] = "released"
    <3>1. UNCHANGED Fate /\ balance' = balance - share BY <1>4, <2>3 DEF Account!Share
    <3>2. Account!Held' = Account!Held BY <1>3, <3>1, SameSums
    <3>3. /\ balance' = balance + (0 - share) /\ (0 - share) + 0 = 0 - share /\ 0 - share \in Int
          /\ Account!Held'[s] = Account!Held[s] + 0
      BY <1>b, <1>2, <3>1, <3>2
    <3>4. QED BY <1>b, <3>2, <3>3
  <2>4. QED BY <1>4, <2>1, <2>2, <2>3 DEF Account!Share
<1>9. /\ Kept'[o] - Kept[o] = amount + share /\ Kept'[o] \in Nat
      /\ Charged'[s] - Charged[s] = amount /\ Charged'[s] \in Nat
  BY <1>2, <1>6, <1>7
<1>10. /\ IsFiniteSet(Account!Units(Kept', OrderIds))
       /\ Account!SumOver(Kept', OrderIds) = Account!SumOver(Kept, OrderIds) + (amount + share)
  BY <1>7, <1>9, KeptMoves
<1>11. /\ IsFiniteSet(Account!Units(Charged', Sessions))
       /\ Account!SumOver(Charged', Sessions) = Account!SumOver(Charged, Sessions) + amount
  BY <1>5, <1>9, ChargedMoves
<1>12. Account!Held'[s] - Account!Held[s] = h BY <1>b, <1>8
<1>13. /\ IsFiniteSet(Account!Units(Account!Held', Sessions))
       /\ Account!SumOver(Account!Held', Sessions) = Account!SumOver(Account!Held, Sessions) + h
  BY <1>8, <1>12, HeldMoves
<1>14. b + h + (amount + share) = amount + 0 /\ amount + share \in Int /\ amount \in Int BY <1>2, <1>8
<1>15. Account!Worth' = Account!Worth
  <2>1. Account!SumOver(Cash', OrderIds) = Account!SumOver(Cash, OrderIds) + 0 BY <1>3, SameCash
  <2>2. balance' = balance + b /\ b \in Int /\ h \in Int /\ 0 \in Int BY <1>8
  <2> DEFINE k == amount + share
  <2>3. Account!SumOver(Kept', OrderIds) = Account!SumOver(Kept, OrderIds) + k BY <1>10
  <2>4. b + h + k = amount + 0 /\ k \in Int /\ amount \in Int BY <1>14
  <2> HIDE DEF k
  <2>5. QED BY <1>11, <1>13, <2>1, <2>2, <2>3, <2>4, WorthMoves
<1>16. QED BY <1>3, <1>10, <1>11, <1>13, <1>15, SameCash DEF Counted

LEMMA CountedInit == Init => Counted
<1> SUFFICES ASSUME Init PROVE Counted OBVIOUS
<1>1. \A s \in Sessions : entry[s] = NoEntry /\ payment[s] = NoPayment BY DEF Init
<1>2. \A s \in Sessions : Account!Held[s] = 0 /\ Charged[s] = 0
  BY <1>1 DEF NoEntry, NoPayment, Account!Held, Fate, Reserved, Charged, Settled
<1>3. 1..0 = {} OBVIOUS
<1>4. Account!Units(Account!Held, Sessions) = {} /\ Account!Units(Charged, Sessions) = {}
  BY <1>2, <1>3 DEF Account!Units
<1>5. \A o \in OrderIds : Cash[o] = 0 BY NewMoney DEF Cash
<1>c. Account!Units(Cash, OrderIds) = {} BY <1>3, <1>5 DEF Account!Units
<1>6. ASSUME NEW o \in OrderIds PROVE Kept[o] \in 0..Total /\ (o \notin Existing => Kept[o] = 0)
  <2>1. Kept[o] = order[o].paid - order[o].credited BY DEF Kept, HeldFor
  <2>2. QED BY <2>1, NewMoney, AmountsAssumption
<1>7. Account!Units(Kept, OrderIds) \subseteq Existing \X (1..Total)
  <2>1. ASSUME NEW o \in OrderIds PROVE {o} \X (1..Kept[o]) \subseteq Existing \X (1..Total)
    <3>1. CASE o \in Existing
      <4>1. 1..Kept[o] \subseteq 1..Total BY <1>6, AmountsAssumption
      <4>2. QED BY <3>1, <4>1
    <3>2. CASE o \notin Existing
      <4>1. Kept[o] = 0 BY <1>6, <3>2
      <4>2. 1..Kept[o] = {} BY <1>3, <4>1
      <4>3. QED BY <4>2
    <3>3. QED BY <3>1, <3>2
  <2>2. QED BY <2>1 DEF Account!Units
<1>8. IsFiniteSet(Existing \X (1..Total))
  <2>1. IsFiniteSet(Existing) /\ Total \in Nat BY SetsAssumption, AmountsAssumption
  <2>2. IsFiniteSet(1..Total) BY <2>1, FS_Interval
  <2>3. QED BY <2>1, <2>2, FS_Product
<1>9. QED BY <1>4, <1>c, <1>7, <1>8, FS_EmptySet, FS_Subset DEF Counted

LEMMA WorthStays ==
  ASSUME Known, Counted, Account!Next \/ UNCHANGED Account!vars
  PROVE  Counted' /\ Account!Worth' = Account!Worth
<1>1. CASE UNCHANGED Account!vars
  <2>1. UNCHANGED <<balance, Reserved, Fate, Charged, Kept, Cash>> BY <1>1 DEF Account!vars
  <2>2. Account!Held' = Account!Held BY <2>1, SameSums
  <2>3. Counted' BY <2>1, <2>2 DEF Counted
  <2>4. UNCHANGED <<Account!SumOver(Account!Held, Sessions), Account!SumOver(Charged, Sessions),
                    Account!SumOver(Kept, OrderIds), Account!SumOver(Cash, OrderIds)>>
    BY <2>1, <2>2
  <2>5. QED BY <2>1, <2>3, <2>4, WorthOf
<1>2. CASE Account!Next BY <1>2, ReserveWorth, SettleWorth, PlaceWorth, PayWorth DEF Account!Next
<1>3. QED BY <1>1, <1>2

(* The balance, what checkouts hold of it and what orders keep, less what  *)
(* the gateway brought in and staff received by hand, come to the same     *)
(* after every step of a handler, a callback, the cron, the desk or a      *)
(* cancellation: no interleaving of releases, late successes, retries,     *)
(* payments by hand and credits makes money or loses any.                  *)
THEOREM MoneyIsConserved == Spec => Account!Conserved
<1>1. Known /\ Counted /\ [Next]_vars => Counted' /\ Account!Worth' = Account!Worth
  <2>1. Known /\ [Next]_vars => Account!Next \/ UNCHANGED Account!vars BY AccountNext DEF Account!vars
  <2>2. QED BY <2>1, WorthStays
<1>2. Spec => []Counted BY <1>1, CountedInit, KnownAlways, PTL DEF Spec
<1>3. Known /\ Counted /\ [Next]_vars => [Account!Worth' = Account!Worth]_(Account!vars) BY <1>1
<1>4. QED BY <1>2, <1>3, KnownAlways, PTL DEF Spec, Account!Conserved
=============================================================================
