------------------------ MODULE PaymentGateway_proofs ------------------------
(***************************************************************************)
(* For every set of providers, targets, amounts and overlapping checkouts: *)
(* the type invariant of PaymentGateway, and what may reopen a paid        *)
(* attempt.                                                                *)
(***************************************************************************)
EXTENDS PaymentGateway, TLAPS

AttemptRows == [status : AttemptStatuses, url : BOOLEAN]

(* What the type invariant says of a checkout.                             *)
CallOK(call) ==
    /\ call \in CallRows
    /\ call.at = "target" => call.provider # None /\ call.target # None
    /\ call.at \in {"attempt", "provider"} => KeyOf(call) \in Keys

LEMMA Typing ==
    GatewayTypeOK <=> /\ attempts \in [Keys -> AttemptRows]
                      /\ calls \in [Calls -> CallRows]
                      /\ \A c \in Calls : CallOK(calls[c])
                      /\ pages \subseteq Keys
BY DEF GatewayTypeOK, AttemptRows, CallOK

LEMMA IdleOK == CallOK(Idle)
BY DEF CallOK, Idle, CallRows, CallSteps

LEMMA GatewayTypeInit == GatewayInit => GatewayTypeOK
<1> SUFFICES ASSUME GatewayInit PROVE GatewayTypeOK
  OBVIOUS
<1>1. attempts \in [Keys -> AttemptRows]
  BY DEF GatewayInit, AttemptRows, AttemptStatuses
<1>2. calls \in [Calls -> CallRows] /\ \A c \in Calls : CallOK(calls[c])
  BY IdleOK DEF GatewayInit, CallOK
<1>3. QED BY <1>1, <1>2, Typing DEF GatewayInit

(* The rows that opening an attempt leaves.                                *)
LEMMA OpenAttemptsRows ==
    ASSUME attempts \in [Keys -> AttemptRows], NEW k \in Keys
    PROVE  /\ OpenAttempts(k) \in [Keys -> AttemptRows]
           /\ \A j \in Keys : attempts[j].status = "paid" => OpenAttempts(k)[j] = attempts[j]
<1>1. \A j \in Keys : attempts[j] \in AttemptRows
  OBVIOUS
<1>2. /\ [status |-> "created", url |-> FALSE] \in AttemptRows
      /\ [status |-> "cancelled", url |-> FALSE] \in AttemptRows
  BY DEF AttemptRows, AttemptStatuses
<1>3. OpenedAttempt(attempts[k]) \in AttemptRows
  BY <1>1, <1>2 DEF OpenedAttempt
<1>4. attempts[k].status = "paid" => OpenedAttempt(attempts[k]) = attempts[k]
  BY DEF OpenedAttempt, ClosedStatuses
<1>5. \A j \in Keys : attempts[j].status = "paid" => ~Superseded(j, k)
  BY DEF Superseded, Active, ActiveStatuses
<1>6. QED BY <1>1, <1>2, <1>3, <1>4, <1>5 DEF OpenAttempts

LEMMA GatewayTypeStep == GatewayTypeOK /\ [GatewayNext]_gatewayVars => GatewayTypeOK'
<1> SUFFICES ASSUME GatewayTypeOK, [GatewayNext]_gatewayVars PROVE GatewayTypeOK'
  OBVIOUS
<1>0. /\ attempts \in [Keys -> AttemptRows]
      /\ calls \in [Calls -> CallRows]
      /\ \A c \in Calls : CallOK(calls[c])
      /\ pages \subseteq Keys
  BY Typing
<1>a. ASSUME NEW c \in Calls, NEW call, CallOK(call), calls' = [calls EXCEPT ![c] = call]
      PROVE  calls' \in [Calls -> CallRows] /\ \A d \in Calls : CallOK(calls'[d])
  <2>1. call \in CallRows
    BY <1>a DEF CallOK
  <2>2. QED BY <1>0, <1>a, <2>1
<1>1. ASSUME NEW c \in Calls, NEW p \in Providers, NEW t \in Targets, StartCheckout(c, p, t)
      PROVE  GatewayTypeOK'
  <2>1. CallOK([at |-> "target", provider |-> p, target |-> t, due |-> None])
    BY NoneAssumption DEF CallOK, CallRows, CallSteps
  <2>2. QED BY <1>0, <1>1, <1>a, <2>1, Typing DEF StartCheckout, GatewayTypeOK, AttemptRows, CallOK
<1>2. ASSUME NEW c \in Calls, NEW due \in Dues, ReadTarget(c, due) PROVE GatewayTypeOK'
  <2>1. CallOK([calls[c] EXCEPT !.at = "attempt", !.due = due])
    BY <1>0, <1>2 DEF CallOK, CallRows, CallSteps, ReadTarget, KeyOf, Keys
  <2>2. calls' = [calls EXCEPT ![c] = [calls[c] EXCEPT !.at = "attempt", !.due = due]]
    BY <1>2 DEF ReadTarget
  <2>3. QED BY <1>0, <1>2, <1>a, <2>1, <2>2 DEF ReadTarget, GatewayTypeOK, AttemptRows, CallOK
<1>3. ASSUME NEW c \in Calls, EndCall(c) PROVE GatewayTypeOK'
  BY <1>0, <1>3, <1>a, IdleOK DEF EndCall, GatewayTypeOK, AttemptRows, CallOK
<1>4. ASSUME NEW c \in Calls, OpenAttempt(c) PROVE GatewayTypeOK'
  <2>1. KeyOf(calls[c]) \in Keys
    BY <1>0, <1>4 DEF OpenAttempt, CallOK
  <2>2. CallOK([calls[c] EXCEPT !.at = "provider"])
    BY <1>0, <1>4, <2>1 DEF CallOK, CallRows, CallSteps, KeyOf, OpenAttempt
  <2>3. attempts' \in [Keys -> AttemptRows]
    BY <1>0, <1>4, <2>1, OpenAttemptsRows DEF OpenAttempt
  <2>4. \E call : CallOK(call) /\ calls' = [calls EXCEPT ![c] = call]
    BY <1>4, <2>2, IdleOK DEF OpenAttempt
  <2>5. QED BY <1>0, <1>4, <1>a, <2>3, <2>4 DEF OpenAttempt, GatewayTypeOK, AttemptRows, CallOK
<1>5. ASSUME NEW c \in Calls, RecordSession(c) PROVE GatewayTypeOK'
  <2>1. KeyOf(calls[c]) \in Keys
    BY <1>0, <1>5 DEF RecordSession, CallOK
  <2>2. [status |-> "pending", url |-> TRUE] \in AttemptRows
    BY DEF AttemptRows, AttemptStatuses
  <2>3. attempts' \in [Keys -> AttemptRows] /\ pages' \subseteq Keys
    BY <1>0, <1>5, <2>1, <2>2 DEF RecordSession
  <2>4. QED BY <1>5, <1>a, <2>3, IdleOK DEF RecordSession, GatewayTypeOK, AttemptRows, CallOK
<1>6. ASSUME NEW k \in Keys, NEW s \in AttemptStatuses, attempts' = [attempts EXCEPT ![k].status = s]
      PROVE  attempts' \in [Keys -> AttemptRows]
  <2>1. attempts[k] \in AttemptRows
    BY <1>0
  <2>2. [attempts[k] EXCEPT !.status = s] \in AttemptRows
    BY <2>1 DEF AttemptRows
  <2>3. attempts' = [attempts EXCEPT ![k] = [attempts[k] EXCEPT !.status = s]]
    BY <1>6
  <2>4. QED BY <1>0, <2>2, <2>3
<1>7. ASSUME NEW c \in Calls, RecordProviderError(c) PROVE GatewayTypeOK'
  <2>1. KeyOf(calls[c]) \in Keys
    BY <1>0, <1>7 DEF RecordProviderError, CallOK
  <2>2. attempts' \in [Keys -> AttemptRows]
    BY <1>6, <1>7, <2>1 DEF RecordProviderError, AttemptStatuses
  <2>3. QED BY <1>0, <1>7, <1>a, <2>2, IdleOK DEF RecordProviderError, GatewayTypeOK, AttemptRows, CallOK
<1>8. ASSUME NEW k \in Keys, WebhookFailure(k) \/ WebhookSuccess(k) PROVE GatewayTypeOK'
  <2>1. attempts' \in [Keys -> AttemptRows]
    BY <1>6, <1>8 DEF WebhookFailure, WebhookSuccess, AttemptStatuses
  <2>2. QED BY <1>0, <1>8, <2>1 DEF WebhookFailure, WebhookSuccess, GatewayTypeOK, AttemptRows, CallOK
<1>9. CASE UNCHANGED gatewayVars
  BY <1>9 DEF gatewayVars, GatewayTypeOK
<1>10. QED
  BY <1>1, <1>2, <1>3, <1>4, <1>5, <1>7, <1>8, <1>9 DEF GatewayNext

(* Every call that has reached its attempt has a key of the table, and     *)
(* every attempt a status of the enumeration.                              *)
THEOREM GatewayTypeCorrect == GatewaySpec => []GatewayTypeOK
BY GatewayTypeInit, GatewayTypeStep, PTL DEF GatewaySpec

(* A paid attempt is reopened by nothing but a checkout whose call to the  *)
(* provider, for the same key, was under way when the payment came in.     *)
THEOREM PaidReopening == GatewaySpec => PaidReopensOnlyInFlight
<1>1. ASSUME GatewayTypeOK, [GatewayNext]_gatewayVars, NEW k \in Keys, attempts[k].status = "paid"
      PROVE  \/ attempts'[k].status = "paid"
             \/ \E c \in Calls : calls[c].at = "provider" /\ KeyOf(calls[c]) = k
  <2>0. attempts \in [Keys -> AttemptRows] /\ \A c \in Calls : CallOK(calls[c])
    BY <1>1, Typing
  <2>1. CASE UNCHANGED attempts
    BY <1>1, <2>1
  <2>2. ASSUME NEW c \in Calls, OpenAttempt(c) PROVE attempts'[k].status = "paid"
    <3>1. KeyOf(calls[c]) \in Keys
      BY <2>0, <2>2 DEF OpenAttempt, CallOK
    <3>2. QED BY <1>1, <2>0, <2>2, <3>1, OpenAttemptsRows DEF OpenAttempt
  <2>3. ASSUME NEW c \in Calls, RecordSession(c) \/ RecordProviderError(c), KeyOf(calls[c]) # k
        PROVE  attempts'[k].status = "paid"
    BY <1>1, <2>0, <2>3 DEF RecordSession, RecordProviderError
  <2>4. ASSUME NEW c \in Calls, RecordSession(c) \/ RecordProviderError(c)
        PROVE  calls[c].at = "provider"
    BY <2>4 DEF RecordSession, RecordProviderError
  <2>5. ASSUME NEW j \in Keys, WebhookFailure(j) \/ WebhookSuccess(j) PROVE attempts'[k].status = "paid"
    <3>1. attempts[j] # attempts[k]
      BY <1>1, <2>5 DEF WebhookFailure, WebhookSuccess, Settleable, Active, ActiveStatuses
    <3>2. QED BY <1>1, <2>0, <2>5, <3>1 DEF WebhookFailure, WebhookSuccess
  <2>6. QED
    BY <1>1, <2>1, <2>2, <2>3, <2>4, <2>5
    DEF GatewayNext, gatewayVars, StartCheckout, ReadTarget, EndCall
<1>2. GatewayTypeOK /\ [GatewayNext]_gatewayVars
        => [\A k \in Keys :
              attempts[k].status = "paid" =>
                 \/ attempts'[k].status = "paid"
                 \/ \E c \in Calls : calls[c].at = "provider" /\ KeyOf(calls[c]) = k]_gatewayVars
  BY <1>1
<1>3. QED BY <1>2, GatewayTypeCorrect, PTL DEF GatewaySpec, PaidReopensOnlyInFlight

=============================================================================
