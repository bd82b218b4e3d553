----------------------------- MODULE RampProofs -----------------------------
(***************************************************************************)
(* Theorems about the TRY ramp, for any number of attempts and users and   *)
(* any amounts: what the dialog says in the end is true, and no payment    *)
(* is taken for another.                                                   *)
(***************************************************************************)
EXTENDS RampDialog, TLAPS

\* The steps before money moves, and the others.
Early(kind) ==
    IF kind = "deposit"
    THEN {"discover", "trustline", "auth", "kyc", "quote", "deposit"}
    ELSE {"discover", "auth", "kyc", "quote", "withdraw"}
Late(kind) ==
    {IF kind = "deposit" THEN "bank_transfer" ELSE "payment", "waiting", "done"}

Owner == User \cup {NoTransfer.user}

AttemptRecord ==
    [at : At, step : RampStep, err : RampError, kind : Kind, user : Owner, amount : Nat,
     quote : Nat, polls : Nat, seq : Nat, shown : Nat]
Transfer ==
    [status : TransferStatus, kind : Kind, user : Owner, sell : Nat, buy : Nat,
     got : Nat, gave : Nat]
ClassicTx ==
    [op : {"trust", "pay"}, user : Owner, seq : Nat, memo : Attempt, amount : Nat]

RampTypeOK ==
    /\ mode \in {"chain", "mock"}
    /\ attempt \in [Attempt -> AttemptRecord]
    /\ anchorTx \in [Attempt -> Transfer]
    /\ pool \in SUBSET ClassicTx
    /\ mode = "mock" => pool = {}
    /\ seq \in [User -> Nat]
    /\ rate \in {1, 2}

\* The payments under way with the memo of an attempt.
PaymentsOf(i) == {tx \in pool : tx.memo = i /\ tx.op = "pay"}

-----------------------------------------------------------------------------
(***************************************************************************)
(* What holds between an attempt a, its transaction t and the payments ps  *)
(* with its memo.                                                          *)
(***************************************************************************)
Unpaid(t, ps) == t.got = 0 /\ t.gave = 0 /\ ps = {}
Expecting == {"pending_user_transfer_start", "expired"}

\* The user signs only at three steps, and nothing has begun before Run.
StepsFit(a) ==
    /\ a.step \in Early(a.kind) \cup Late(a.kind)
    /\ a.at = "sign" => a.step \in {"trustline", "auth", "payment"}
    /\ a.at = "sent" => a.step \in {"trustline", "payment"}
    /\ a.at = "idle" => a.step = "discover"
    /\ a.at # "idle" => a.user \in User /\ a.amount > 0

\* The anchor pays out what it was asked for or nothing.
PaysWhatItBuys(t) ==
    /\ t.gave = IF t.status = "completed" THEN t.buy ELSE 0
    /\ t.status # "none" => t.sell > 0

\* A payment under way is the only one, of a withdrawal nothing was paid for yet.
OnePayment(t, ps) ==
    /\ ps # {} => /\ t.kind = "withdraw" /\ t.status \in Expecting
                  /\ t.sell > 0 /\ t.got = 0 /\ t.gave = 0
    /\ \A x, y \in ps : x = y
    /\ \A x \in ps : x.amount = t.sell

\* The attempt runs, and the client knows its transaction.
Opened(a) ==
    /\ a.at \notin {"idle", "ended", "gone"}
    /\ \/ a.step \in {"bank_transfer", "payment", "waiting"}
       \/ a.step = "withdraw" /\ a.at = "poll"
Agrees(a, t) ==
    t.buy = a.quote /\ t.user = a.user /\ t.kind = a.kind /\ t.sell = a.amount

AboutToPay(a) ==
    \/ a.step = "bank_transfer" /\ a.at = "call"
    \/ a.step = "payment" /\ a.at \in {"call", "sign"}

Sound(m, a, t, ps) ==
    /\ StepsFit(a) /\ PaysWhatItBuys(t) /\ OnePayment(t, ps)
    /\ a.step \in Early(a.kind) =>
         t.status \in {"none"} \cup Expecting /\ Unpaid(t, ps)
    /\ m = "chain" /\ Opened(a) => Agrees(a, t)
    /\ m = "chain" /\ AboutToPay(a) => t.status \in Expecting /\ Unpaid(t, ps)
    /\ a.step = "done" =>
         /\ a.at = "ended" /\ t.status = "completed"
         /\ t.buy = a.quote /\ a.shown = a.quote /\ t.user = a.user
    /\ a.err = "tx_failed" => a.at = "ended" /\ t.status \in {"refunded", "expired"}

RampInv ==
    /\ RampTypeOK
    /\ \A i \in Attempt : Sound(mode, attempt[i], anchorTx[i], PaymentsOf(i))

-----------------------------------------------------------------------------
(***************************************************************************)
(* Moves of one attempt.                                                   *)
(***************************************************************************)
Waiting(a) == a.at \notin {"idle", "ended", "gone"}

Thrown(a, err) ==
    [a EXCEPT !.at = "ended", !.err = err, !.quote = 0, !.polls = 0, !.seq = 0]
Stepped(a, step, at) ==
    [a EXCEPT !.step = step, !.at = at, !.polls = 0, !.seq = 0]

LEMMA ThrownSound ==
    ASSUME NEW m, NEW a \in AttemptRecord, NEW t, NEW ps, Sound(m, a, t, ps), Waiting(a),
           NEW err \in RampError, err = "tx_failed" => t.status \in {"refunded", "expired"}
    PROVE  Thrown(a, err) \in AttemptRecord /\ Sound(m, Thrown(a, err), t, ps)
<1> DEFINE b == Thrown(a, err)
<1>1. b \in AttemptRecord
  BY DEF Thrown, AttemptRecord, At
<1>2. b.at = "ended" /\ b.err = err /\ b.step = a.step /\ b.kind = a.kind
      /\ b.user = a.user /\ b.amount = a.amount
  BY DEF Thrown, AttemptRecord
<1> HIDE DEF b
<1>3. a.step # "done"
  BY DEF Sound, Waiting
<1>4. StepsFit(b) /\ ~Opened(b) /\ ~AboutToPay(b)
  BY <1>2 DEF Sound, StepsFit, Opened, AboutToPay, Waiting
<1>5. Sound(m, b, t, ps)
  BY <1>2, <1>3, <1>4 DEF Sound
<1> QED
  BY <1>1, <1>5 DEF b

LEMMA SteppedSound ==
    ASSUME NEW m, NEW a \in AttemptRecord, NEW t, NEW ps, Sound(m, a, t, ps), Waiting(a),
           NEW step \in RampStep \ {"done"}, NEW at \in At \ {"idle"},
           step \in Early(a.kind) \cup Late(a.kind),
           at = "sign" => step \in {"trustline", "auth", "payment"}, at # "sent",
           step \in Early(a.kind) => a.step \in Early(a.kind),
           m = "chain" /\ Opened(Stepped(a, step, at)) => Agrees(a, t),
           m = "chain" /\ AboutToPay(Stepped(a, step, at)) =>
             t.status \in Expecting /\ Unpaid(t, ps)
    PROVE  Stepped(a, step, at) \in AttemptRecord /\ Sound(m, Stepped(a, step, at), t, ps)
<1> DEFINE b == Stepped(a, step, at)
<1>1. b \in AttemptRecord
  BY DEF Stepped, AttemptRecord
<1>2. b.at = at /\ b.step = step /\ b.err = a.err /\ b.kind = a.kind
      /\ b.user = a.user /\ b.amount = a.amount /\ b.quote = a.quote
  BY DEF Stepped, AttemptRecord
<1> HIDE DEF b
<1>3. StepsFit(b)
  BY <1>2 DEF Sound, StepsFit, Waiting
<1>4. Agrees(b, t) <=> Agrees(a, t)
  BY <1>2 DEF Agrees
<1>5. a.err # "tx_failed"
  BY DEF Sound, Waiting
<1>6. (m = "chain" /\ Opened(b) => Agrees(b, t))
      /\ (m = "chain" /\ AboutToPay(b) => t.status \in Expecting /\ Unpaid(t, ps))
  BY <1>4 DEF b
<1>7. Sound(m, b, t, ps)
  BY <1>2, <1>3, <1>5, <1>6 DEF Sound
<1> QED
  BY <1>1, <1>7 DEF b

\* A step that moves one attempt, its transaction or its payments.
LEMMA OneMoves ==
    ASSUME RampInv, RampTypeOK', mode' = mode, NEW i \in Attempt,
           \A j \in Attempt : j # i =>
             /\ attempt'[j] = attempt[j] /\ anchorTx'[j] = anchorTx[j]
             /\ PaymentsOf(j)' = PaymentsOf(j),
           Sound(mode, attempt'[i], anchorTx'[i], PaymentsOf(i)')
    PROVE  RampInv'
<1>1. \A j \in Attempt : Sound(mode', attempt'[j], anchorTx'[j], PaymentsOf(j)')
  BY DEF RampInv
<1> QED
  BY <1>1 DEF RampInv

\* A step that only moves one attempt.
LEMMA AttemptMoves ==
    ASSUME RampInv, NEW i \in Attempt, NEW b,
           attempt' = [attempt EXCEPT ![i] = b],
           mode' = mode, anchorTx' = anchorTx, pool' = pool, seq' = seq, rate' = rate,
           b \in AttemptRecord /\ Sound(mode, b, anchorTx[i], PaymentsOf(i))
    PROVE  RampInv'
<1>1. attempt \in [Attempt -> AttemptRecord]
  BY DEF RampInv, RampTypeOK
<1>2. attempt'[i] = b /\ \A j \in Attempt : j # i => attempt'[j] = attempt[j]
  BY <1>1
<1>3. \A j \in Attempt : PaymentsOf(j)' = PaymentsOf(j)
  BY DEF PaymentsOf
<1>4. RampTypeOK'
  BY <1>1 DEF RampInv, RampTypeOK
<1> QED
  BY <1>2, <1>3, <1>4, OneMoves

\* What Step and Throws do, and how they keep the invariant.
LEMMA StepIs ==
    ASSUME RampTypeOK, NEW i \in Attempt, NEW step, NEW at, Step(i, step, at)
    PROVE  attempt' = [attempt EXCEPT ![i] = Stepped(attempt[i], step, at)]
BY DEF Step, Stepped, RampTypeOK, AttemptRecord

LEMMA ThrowsIs ==
    ASSUME RampTypeOK, NEW i \in Attempt, NEW err, Throws(i, err)
    PROVE  attempt' = [attempt EXCEPT ![i] = Thrown(attempt[i], err)]
BY DEF Throws, Thrown, RampTypeOK, AttemptRecord

Elsewhere == mode' = mode /\ anchorTx' = anchorTx /\ pool' = pool /\ seq' = seq /\ rate' = rate

LEMMA ThrowsKeeps ==
    ASSUME RampInv, NEW i \in Attempt, Waiting(attempt[i]),
           NEW err \in RampError, Throws(i, err), Elsewhere,
           err = "tx_failed" => anchorTx[i].status \in {"refunded", "expired"}
    PROVE  RampInv'
<1>1. attempt[i] \in AttemptRecord /\ Sound(mode, attempt[i], anchorTx[i], PaymentsOf(i))
  BY DEF RampInv, RampTypeOK
<1>2. attempt' = [attempt EXCEPT ![i] = Thrown(attempt[i], err)]
  BY ThrowsIs DEF RampInv
<1>3. /\ Thrown(attempt[i], err) \in AttemptRecord
      /\ Sound(mode, Thrown(attempt[i], err), anchorTx[i], PaymentsOf(i))
  BY <1>1, ThrownSound
<1> QED
  BY <1>2, <1>3, AttemptMoves DEF Elsewhere

LEMMA StepKeeps ==
    ASSUME RampInv, NEW i \in Attempt, Waiting(attempt[i]), Elsewhere,
           NEW step \in RampStep \ {"done"}, NEW at \in At \ {"idle"}, Step(i, step, at),
           step \in Early(attempt[i].kind) \cup Late(attempt[i].kind),
           at = "sign" => step \in {"trustline", "auth", "payment"}, at # "sent",
           step \in Early(attempt[i].kind) => attempt[i].step \in Early(attempt[i].kind),
           mode = "chain" /\ Opened(Stepped(attempt[i], step, at)) =>
             Agrees(attempt[i], anchorTx[i]),
           mode = "chain" /\ AboutToPay(Stepped(attempt[i], step, at)) =>
             anchorTx[i].status \in Expecting /\ Unpaid(anchorTx[i], PaymentsOf(i))
    PROVE  RampInv'
<1>1. attempt[i] \in AttemptRecord /\ Sound(mode, attempt[i], anchorTx[i], PaymentsOf(i))
  BY DEF RampInv, RampTypeOK
<1>2. attempt' = [attempt EXCEPT ![i] = Stepped(attempt[i], step, at)]
  BY StepIs DEF RampInv
<1>3. /\ Stepped(attempt[i], step, at) \in AttemptRecord
      /\ Sound(mode, Stepped(attempt[i], step, at), anchorTx[i], PaymentsOf(i))
  BY <1>1, SteppedSound
<1> QED
  BY <1>2, <1>3, AttemptMoves DEF Elsewhere

\* Steps to where nothing is about to be paid.
LEMMA EarlyStepKeeps ==
    ASSUME RampInv, NEW i \in Attempt, Waiting(attempt[i]), Elsewhere,
           NEW step, step \in Early(attempt[i].kind), attempt[i].step \in Early(attempt[i].kind),
           NEW at \in {"call", "balance", "sign", "post", "put", "reread"},
           Step(i, step, at), at = "sign" => step = "auth"
    PROVE  RampInv'
<1>1. step \in RampStep \ {"done"} /\ step \notin {"bank_transfer", "payment", "waiting"}
  BY DEF Early, RampStep
<1>2. attempt[i] \in AttemptRecord
  BY DEF RampInv, RampTypeOK
<1>3. ~Opened(Stepped(attempt[i], step, at)) /\ ~AboutToPay(Stepped(attempt[i], step, at))
  BY <1>1, <1>2 DEF Opened, AboutToPay, Stepped, AttemptRecord
<1>4. at \in At \ {"idle"} /\ at # "sent"
  BY DEF At
<1> QED
  BY <1>1, <1>3, <1>4, StepKeeps

LEMMA RunningSound ==
    ASSUME RampInv, NEW i \in Attempt
    PROVE  /\ attempt[i] \in AttemptRecord /\ anchorTx[i] \in Transfer
           /\ attempt[i].kind \in {"deposit", "withdraw"}
           /\ Sound(mode, attempt[i], anchorTx[i], PaymentsOf(i))
           /\ StepsFit(attempt[i])
           /\ attempt[i].step \in Early(attempt[i].kind) \cup Late(attempt[i].kind)
BY DEF RampInv, RampTypeOK, AttemptRecord, Kind, Sound, StepsFit

\* The steps before an exchange, which change the client's state only.
LEMMA BeforeExchangeKeeps ==
    ASSUME RampInv, NEW i \in Attempt, mode' = mode,
           \/ \E toml \in Published : Discover(i, toml)
           \/ CheckBalance(i) \/ Challenge(i) \/ SignIn(i) \/ ReadKyc(i) \/ PutKyc(i)
           \/ EnsureTrustline(i) /\ Step(i, "auth", "call")
    PROVE  RampInv'
<1> DEFINE a == attempt[i]
<1>1. Elsewhere
  BY DEF Discover, CheckBalance, Challenge, SignIn, ReadKyc, PutKyc, EnsureTrustline,
         ledger, anchorVars, Elsewhere
<1>2. /\ a.step \in {"discover", "trustline", "auth", "kyc"}
      /\ a.at \in {"call", "balance", "sign", "post", "put", "reread"}
  BY DEF Discover, CheckBalance, Challenge, SignIn, ReadKyc, PutKyc, EnsureTrustline, At_, A
<1>3. Waiting(a) /\ a.kind \in {"deposit", "withdraw"} /\ a.step \in Early(a.kind)
  BY <1>2, RunningSound DEF Waiting, Early, Late
<1>4. CASE Throws(i, "failed")
  BY <1>1, <1>3, <1>4, ThrowsKeeps DEF RampError
<1>5. ASSUME NEW step \in {"discover", "trustline", "auth", "kyc", "quote"},
             NEW at \in {"call", "balance", "sign", "post", "put", "reread"},
             Step(i, step, at), at = "sign" => step = "auth",
             step = "trustline" => a.kind = "deposit"
      PROVE  RampInv'
  <2>1. step \in Early(a.kind)
    BY <1>3, <1>5 DEF Early
  <2> QED
    BY <1>1, <1>3, <1>5, <2>1, EarlyStepKeeps
<1>6. CASE \E toml \in Published : Discover(i, toml)
  <2>1. \/ Throws(i, "failed")
        \/ Step(i, "trustline", "call") /\ a.kind = "deposit"
        \/ Step(i, "discover", "balance")
    BY <1>6 DEF Discover, A
  <2> QED
    BY <1>4, <1>5, <2>1
<1>7. CASE \/ CheckBalance(i) \/ Challenge(i)
           \/ EnsureTrustline(i) /\ Step(i, "auth", "call")
  BY <1>4, <1>5, <1>7 DEF CheckBalance, Challenge, EnsureTrustline
<1>8. CASE SignIn(i)
  BY <1>5, <1>8 DEF SignIn
<1>9. CASE ReadKyc(i) \/ PutKyc(i)
  <2>1. \/ Throws(i, "failed")
        \/ \E step \in {"kyc", "quote"}, at \in {"call", "put", "reread"} : Step(i, step, at)
    BY <1>9 DEF ReadKyc, PutKyc, KycPassed
  <2> QED
    BY <1>4, <1>5, <2>1
<1> QED
  BY <1>6, <1>7, <1>8, <1>9

\* A transaction is built for the trustline or for the payment.
LEMMA BuildsKeeps ==
    ASSUME RampInv, NEW i \in Attempt, mode' = mode, Builds(i),
           EnsureTrustline(i) \/ BuildPayment(i)
    PROVE  RampInv'
<1> DEFINE a == attempt[i]
           b == [a EXCEPT !.at = "sign", !.seq = seq[a.user] + 1]
<1>1. Elsewhere
  BY DEF EnsureTrustline, BuildPayment, ledger, anchorVars, Elsewhere
<1>2. a.step \in {"trustline", "payment"} /\ a.at = "call"
  BY DEF EnsureTrustline, BuildPayment, At_, A
<1>3. /\ a \in AttemptRecord /\ Sound(mode, a, anchorTx[i], PaymentsOf(i))
      /\ a.user \in User
  BY <1>2, RunningSound DEF StepsFit
<1>4. seq[a.user] + 1 \in Nat
  BY <1>3 DEF RampInv, RampTypeOK
<1>5. /\ b \in AttemptRecord /\ b.at = "sign" /\ b.step = a.step /\ b.err = a.err
      /\ b.kind = a.kind /\ b.user = a.user /\ b.amount = a.amount /\ b.quote = a.quote
  BY <1>3, <1>4 DEF AttemptRecord, At
<1>6. attempt' = [attempt EXCEPT ![i] = b]
  BY <1>3 DEF Builds, A, AttemptRecord, RampInv, RampTypeOK
<1> HIDE DEF a, b
<1>7. Sound(mode, b, anchorTx[i], PaymentsOf(i))
  <2>1. StepsFit(b)
    BY <1>2, <1>3, <1>5 DEF Sound, StepsFit
  <2>2. (Opened(b) <=> Opened(a)) /\ (AboutToPay(b) => AboutToPay(a))
        /\ (Agrees(b, anchorTx[i]) <=> Agrees(a, anchorTx[i]))
    BY <1>2, <1>5 DEF Opened, AboutToPay, Agrees
  <2>3. a.err # "tx_failed" /\ b.step # "done"
    BY <1>2, <1>3, <1>5 DEF Sound
  <2> QED
    BY <1>3, <1>5, <2>1, <2>2, <2>3 DEF Sound
<1> QED
  BY <1>1, <1>5, <1>6, <1>7, AttemptMoves DEF Elsewhere

LEMMA BoughtType ==
    ASSUME RampTypeOK, NEW kind, NEW amount \in Nat
    PROVE  Bought(kind, amount) \in Nat
<1>1. rate \in {1, 2}
  BY DEF RampTypeOK
<1>2. CASE rate = 1
  BY <1>2 DEF Bought
<1>3. CASE rate = 2
  BY <1>3 DEF Bought
<1> QED
  BY <1>1, <1>2, <1>3

LEMMA QuoteKeeps ==
    ASSUME RampInv, NEW i \in Attempt, mode' = mode, Quote(i)
    PROVE  RampInv'
<1> DEFINE a == attempt[i]
           b == [a EXCEPT !.at = "call", !.step = a.kind, !.quote = Bought(a.kind, a.amount)]
<1>1. Elsewhere
  BY DEF Quote, ledger, anchorVars, Elsewhere
<1>2. a.step = "quote" /\ a.at = "call"
  BY DEF Quote, At_, A
<1>3. /\ a \in AttemptRecord /\ Sound(mode, a, anchorTx[i], PaymentsOf(i))
      /\ a.kind \in {"deposit", "withdraw"}
  BY RunningSound
<1>4. Bought(a.kind, a.amount) \in Nat
  BY <1>3, BoughtType DEF AttemptRecord, RampInv
<1>5. /\ b \in AttemptRecord /\ b.at = "call" /\ b.step = a.kind /\ b.err = a.err
      /\ b.kind = a.kind /\ b.user = a.user /\ b.amount = a.amount
  BY <1>3, <1>4 DEF AttemptRecord, At, RampStep
<1>6. attempt' = [attempt EXCEPT ![i] = b]
  BY <1>3 DEF Quote, A, AttemptRecord, RampInv, RampTypeOK
<1> HIDE DEF a, b
<1>7. Sound(mode, b, anchorTx[i], PaymentsOf(i))
  <2>1. StepsFit(b) /\ b.step \in Early(b.kind) /\ a.step \in Early(a.kind)
    BY <1>2, <1>3, <1>5 DEF Sound, StepsFit, Early
  <2>2. ~Opened(b) /\ ~AboutToPay(b)
    BY <1>3, <1>5 DEF Opened, AboutToPay
  <2>3. a.err # "tx_failed" /\ b.step # "done"
    BY <1>2, <1>3, <1>5 DEF Sound
  <2> QED
    BY <1>3, <1>5, <2>1, <2>2, <2>3 DEF Sound
<1> QED
  BY <1>1, <1>5, <1>6, <1>7, AttemptMoves DEF Elsewhere

\* Giving up, and being refused.
LEMMA FailsKeeps ==
    ASSUME RampInv, NEW i \in Attempt, mode' = mode,
           GivesUp(i) \/ Refused(i) \/ CallFails(i)
    PROVE  RampInv'
<1>1. Elsewhere /\ Throws(i, "failed")
  BY DEF GivesUp, Refused, CallFails, ledger, anchorVars, Elsewhere
<1>2. Waiting(attempt[i])
  BY DEF GivesUp, Refused, CallFails, Awaiting, At_, A, Waiting
<1> QED
  BY <1>1, <1>2, ThrowsKeeps DEF RampError

LEMMA PollsKeeps ==
    ASSUME RampInv, NEW i \in Attempt, Elsewhere, NEW until, Polls(i, until), Waiting(attempt[i])
    PROVE  RampInv'
<1> DEFINE a == attempt[i]
           b == [a EXCEPT !.polls = @ + 1]
<1>1. CASE Throws(i, "timeout")
  BY <1>1, ThrowsKeeps DEF RampError
<1>2. CASE attempt' = [attempt EXCEPT ![i].polls = @ + 1]
  <2>1. a \in AttemptRecord /\ Sound(mode, a, anchorTx[i], PaymentsOf(i))
    BY RunningSound
  <2>2. /\ b \in AttemptRecord /\ b.at = a.at /\ b.step = a.step /\ b.err = a.err
        /\ b.kind = a.kind /\ b.user = a.user /\ b.amount = a.amount /\ b.quote = a.quote
        /\ b.shown = a.shown
    BY <2>1 DEF AttemptRecord
  <2>3. attempt' = [attempt EXCEPT ![i] = b]
    BY <1>2, <2>1 DEF RampInv, RampTypeOK
  <2> HIDE DEF a, b
  <2>4. Sound(mode, b, anchorTx[i], PaymentsOf(i))
    BY <2>1, <2>2 DEF Sound, StepsFit, Opened, AboutToPay, Agrees
  <2> QED
    BY <2>2, <2>3, <2>4, AttemptMoves DEF Elsewhere
<1> QED
  BY <1>1, <1>2 DEF Polls

LEMMA AwaitReadyKeeps ==
    ASSUME RampInv, NEW i \in Attempt, mode' = mode, mode = "chain", AwaitReady(i)
    PROVE  RampInv'
<1> DEFINE a == attempt[i]
           t == anchorTx[i]
<1>1. Elsewhere /\ a.step = "withdraw" /\ a.at = "poll"
  BY DEF AwaitReady, ledger, anchorVars, At_, A, Elsewhere
<1>2. Waiting(a) /\ Sound(mode, a, t, PaymentsOf(i)) /\ a \in AttemptRecord
      /\ a.kind \in {"deposit", "withdraw"} /\ a.step \in Early(a.kind) \cup Late(a.kind)
  BY <1>1, RunningSound DEF Waiting
<1>3. a.kind = "withdraw" /\ a.step \in Early(a.kind)
  BY <1>1, <1>2 DEF Early, Late
<1>4. t.status \in {"none"} \cup Expecting /\ Unpaid(t, PaymentsOf(i)) /\ Agrees(a, t)
  BY <1>1, <1>2, <1>3 DEF Sound, Opened
<1>5. CASE Polls(i, {"pending_user_transfer_start"})
  BY <1>1, <1>2, <1>5, PollsKeeps
<1>6. CASE t.status = "pending_user_transfer_start" /\ Step(i, "payment", "call")
  <2>1. "payment" \in Late(a.kind) /\ "payment" \notin Early(a.kind)
    BY <1>3 DEF Early, Late
  <2>2. t.status \in Expecting
    BY <1>6 DEF Expecting
  <2> QED
    BY <1>1, <1>2, <1>4, <1>6, <2>1, <2>2, StepKeeps DEF RampStep, At
<1>7. CASE t.status \in Final /\ Throws(i, "tx_failed")
  <2>1. t.status = "expired"
    BY <1>4, <1>7 DEF Final, Expecting
  <2> QED
    BY <1>1, <1>2, <1>7, <2>1, ThrowsKeeps DEF RampError
<1> QED
  BY <1>5, <1>6, <1>7 DEF AwaitReady, ReadyForPayment

-----------------------------------------------------------------------------
(***************************************************************************)
(* Moves of an attempt and its transaction.                                *)
(***************************************************************************)
LEMMA BothMove ==
    ASSUME RampInv, NEW i \in Attempt, NEW b, NEW u,
           attempt' = [attempt EXCEPT ![i] = b], anchorTx' = [anchorTx EXCEPT ![i] = u],
           mode' = mode, pool' = pool, seq' = seq, rate' = rate,
           b \in AttemptRecord, u \in Transfer, Sound(mode, b, u, PaymentsOf(i))
    PROVE  RampInv'
<1>1. attempt \in [Attempt -> AttemptRecord] /\ anchorTx \in [Attempt -> Transfer]
  BY DEF RampInv, RampTypeOK
<1>2. /\ attempt'[i] = b /\ anchorTx'[i] = u
      /\ \A j \in Attempt : j # i => attempt'[j] = attempt[j] /\ anchorTx'[j] = anchorTx[j]
  BY <1>1
<1>3. \A j \in Attempt : PaymentsOf(j)' = PaymentsOf(j)
  BY DEF PaymentsOf
<1>4. RampTypeOK'
  BY <1>1 DEF RampInv, RampTypeOK
<1> QED
  BY <1>2, <1>3, <1>4, OneMoves

\* A new transaction, which nothing was paid for.
LEMMA ExchangeKeeps ==
    ASSUME RampInv, NEW i \in Attempt, mode' = mode, mode = "chain",
           DepositExchange(i) \/ WithdrawExchange(i)
    PROVE  RampInv'
<1> DEFINE a == attempt[i]
           u == [NoTransfer EXCEPT !.status = "pending_user_transfer_start",
                   !.kind = a.kind, !.user = a.user, !.sell = a.amount, !.buy = a.quote]
           ps == PaymentsOf(i)
           next == IF a.step = "deposit" THEN "bank_transfer" ELSE "withdraw"
           at == IF a.step = "deposit" THEN "call" ELSE "poll"
<1>1. /\ pool' = pool /\ seq' = seq /\ rate' = rate
      /\ anchorTx' = [anchorTx EXCEPT ![i] = u]
      /\ a.step \in {"deposit", "withdraw"} /\ a.at = "call"
      /\ Step(i, next, at) \/ Throws(i, "failed")
  BY DEF DepositExchange, WithdrawExchange, Created, Quoted, A, At_, ledger
<1>2. /\ a \in AttemptRecord /\ Sound(mode, a, anchorTx[i], ps) /\ Waiting(a)
      /\ a.kind \in {"deposit", "withdraw"} /\ a.step \in Early(a.kind) \cup Late(a.kind)
      /\ a.user \in User /\ a.amount \in Nat /\ a.amount > 0 /\ a.quote \in Nat
      /\ a.err # "tx_failed"
  BY <1>1, RunningSound DEF Waiting, StepsFit, AttemptRecord, Sound
<1>3. a.step = a.kind /\ a.step \in Early(a.kind) /\ next \in Early(a.kind) \cup Late(a.kind)
      /\ (next \in Early(a.kind) => next = "withdraw")
  BY <1>1, <1>2 DEF Early, Late
<1>4. ps = {}
  BY <1>2, <1>3 DEF Sound, Unpaid
<1>5. /\ u \in Transfer /\ u.status = "pending_user_transfer_start" /\ u.kind = a.kind
      /\ u.user = a.user /\ u.sell = a.amount /\ u.buy = a.quote /\ u.got = 0 /\ u.gave = 0
  BY <1>2 DEF NoTransfer, Transfer, TransferStatus, Kind, Owner
<1> HIDE DEF a, u, ps, next, at
<1>6. Agrees(a, u) /\ u.status \in Expecting /\ Unpaid(u, ps)
  BY <1>4, <1>5 DEF Agrees, Expecting, Unpaid
<1>7. Sound(mode, a, u, ps)
  <2>1. PaysWhatItBuys(u) /\ OnePayment(u, ps)
    BY <1>2, <1>4, <1>5 DEF PaysWhatItBuys, OnePayment
  <2>2. a.step # "done"
    BY <1>1
  <2> QED
    BY <1>2, <1>6, <2>1, <2>2 DEF Sound
<1>8. CASE Throws(i, "failed")
  <2>1. /\ attempt' = [attempt EXCEPT ![i] = Thrown(a, "failed")]
        /\ Thrown(a, "failed") \in AttemptRecord /\ Sound(mode, Thrown(a, "failed"), u, ps)
    BY <1>2, <1>7, <1>8, ThrowsIs, ThrownSound DEF RampInv, RampError, a
  <2> QED
    BY <1>1, <1>5, <2>1, BothMove DEF ps
<1>9. CASE Step(i, next, at)
  <2>1. next \in RampStep \ {"done"} /\ at \in At \ {"idle"} /\ at # "sent" /\ at # "sign"
    BY DEF RampStep, At, next, at
  <2>2. Stepped(a, next, at) \in AttemptRecord /\ Sound(mode, Stepped(a, next, at), u, ps)
    BY <1>2, <1>3, <1>6, <1>7, <2>1, SteppedSound
  <2>3. attempt' = [attempt EXCEPT ![i] = Stepped(a, next, at)]
    BY <1>9, StepIs DEF RampInv, a
  <2> QED
    BY <1>1, <1>5, <2>2, <2>3, BothMove DEF ps
<1> QED
  BY <1>1, <1>8, <1>9

\* The bank transfer is the only thing a deposit gets.
LEMMA BankTransferKeeps ==
    ASSUME RampInv, NEW i \in Attempt, mode' = mode, mode = "chain", BankTransfer(i)
    PROVE  RampInv'
<1> DEFINE a == attempt[i]
           t == anchorTx[i]
           u == [t EXCEPT !.status = "pending_anchor", !.got = t.sell]
           ps == PaymentsOf(i)
<1>1. /\ pool' = pool /\ seq' = seq /\ rate' = rate
      /\ anchorTx' = [anchorTx EXCEPT ![i] = u]
      /\ a.step = "bank_transfer" /\ a.at = "call" /\ t.status = "pending_user_transfer_start"
      /\ Step(i, "waiting", "call") \/ Throws(i, "failed")
  <2>1. t \in Transfer /\ anchorTx \in [Attempt -> Transfer]
    BY DEF RampInv, RampTypeOK
  <2>2. anchorTx' = [anchorTx EXCEPT ![i] = u]
    BY <2>1 DEF BankTransfer, Transfer
  <2> QED
    BY <2>2 DEF BankTransfer, A, At_, ledger
<1>2. /\ a \in AttemptRecord /\ t \in Transfer /\ Sound(mode, a, t, ps) /\ Waiting(a)
      /\ a.kind \in {"deposit", "withdraw"} /\ a.step \in Early(a.kind) \cup Late(a.kind)
  BY <1>1, RunningSound DEF Waiting
<1>3. /\ Opened(a) /\ AboutToPay(a) /\ Agrees(a, t) /\ Unpaid(t, ps)
      /\ a.step \notin Early(a.kind) /\ a.err # "tx_failed"
  BY <1>1, <1>2 DEF Sound, Opened, AboutToPay, Waiting, Early
<1>4. /\ u \in Transfer /\ u.status = "pending_anchor" /\ u.got = t.sell /\ u.gave = t.gave
      /\ u.buy = t.buy /\ u.user = t.user /\ u.kind = t.kind /\ u.sell = t.sell
  BY <1>2 DEF Transfer, TransferStatus
<1> HIDE DEF a, t, u, ps
<1>5. PaysWhatItBuys(u) /\ OnePayment(u, ps) /\ Agrees(a, u) /\ StepsFit(a) /\ ps = {}
  BY <1>1, <1>2, <1>3, <1>4 DEF Sound, PaysWhatItBuys, OnePayment, Agrees, Unpaid
<1>6. CASE Throws(i, "failed")
  <2> DEFINE b == Thrown(a, "failed")
  <2>1. attempt' = [attempt EXCEPT ![i] = b]
    BY <1>6, ThrowsIs DEF RampInv, a
  <2>2. b \in AttemptRecord /\ Sound(mode, b, t, ps)
    BY <1>2, ThrownSound DEF RampError
  <2>3. /\ b.at = "ended" /\ b.err = "failed" /\ b.step = "bank_transfer"
        /\ b.kind = a.kind
    BY <1>1, <1>2 DEF Thrown, AttemptRecord
  <2> HIDE DEF b
  <2>4. Sound(mode, b, u, ps)
    BY <1>1, <1>3, <1>5, <2>2, <2>3 DEF Sound, Opened, AboutToPay
  <2> QED
    BY <1>1, <1>4, <2>1, <2>2, <2>4, BothMove DEF ps
<1>7. CASE Step(i, "waiting", "call")
  <2> DEFINE b == Stepped(a, "waiting", "call")
  <2>1. attempt' = [attempt EXCEPT ![i] = b]
    BY <1>7, StepIs DEF RampInv, a
  <2>2. /\ b \in AttemptRecord /\ b.at = "call" /\ b.step = "waiting" /\ b.err = a.err
        /\ b.kind = a.kind /\ b.user = a.user /\ b.amount = a.amount /\ b.quote = a.quote
    BY <1>2 DEF Stepped, AttemptRecord, At, RampStep
  <2> HIDE DEF b
  <2>3. StepsFit(b) /\ b.step \notin Early(b.kind) /\ ~AboutToPay(b) /\ Agrees(b, u)
    BY <1>1, <1>2, <1>5, <2>2 DEF StepsFit, Early, Late, AboutToPay, Agrees
  <2>4. Sound(mode, b, u, ps)
    BY <1>3, <1>5, <2>2, <2>3 DEF Sound
  <2> QED
    BY <1>1, <1>4, <2>1, <2>2, <2>4, BothMove DEF ps
<1> QED
  BY <1>1, <1>6, <1>7

\* What the result shows is what was paid out.
LEMMA AwaitCompletionKeeps ==
    ASSUME RampInv, NEW i \in Attempt, mode' = mode, mode = "chain", AwaitCompletion(i)
    PROVE  RampInv'
<1> DEFINE a == attempt[i]
           t == anchorTx[i]
           ps == PaymentsOf(i)
<1>1. Elsewhere /\ a.step = "waiting" /\ a.at = "call"
  BY DEF AwaitCompletion, ledger, anchorVars, At_, A, Elsewhere
<1>2. Waiting(a) /\ Sound(mode, a, t, ps) /\ a \in AttemptRecord /\ t \in Transfer
      /\ a.kind \in {"deposit", "withdraw"}
  BY <1>1, RunningSound DEF Waiting
<1>3. Agrees(a, t) /\ a.err # "tx_failed" /\ a.step \notin Early(a.kind)
  BY <1>1, <1>2 DEF Sound, Opened, Waiting, Early
<1>4. CASE Polls(i, Until(i))
  BY <1>1, <1>2, <1>4, PollsKeeps
<1>5. ASSUME NEW amount \in {t.buy, a.quote}, t.status = "completed",
             attempt' = [attempt EXCEPT ![i].at = "ended", ![i].step = "done",
                                        ![i].shown = amount]
      PROVE  RampInv'
  <2> DEFINE b == [a EXCEPT !.at = "ended", !.step = "done", !.shown = amount]
  <2>1. amount = a.quote /\ amount \in Nat
    BY <1>2, <1>3, <1>5 DEF Agrees, AttemptRecord
  <2>2. attempt' = [attempt EXCEPT ![i] = b]
    BY <1>2, <1>5 DEF RampInv, RampTypeOK, AttemptRecord
  <2>3. /\ b \in AttemptRecord /\ b.at = "ended" /\ b.step = "done" /\ b.err = a.err
        /\ b.kind = a.kind /\ b.user = a.user /\ b.amount = a.amount /\ b.quote = a.quote
        /\ b.shown = a.quote
    BY <1>2, <2>1 DEF AttemptRecord, At, RampStep
  <2> HIDE DEF b, a, t, ps
  <2>4. StepsFit(b) /\ b.step \notin Early(b.kind) /\ ~Opened(b) /\ ~AboutToPay(b)
    BY <1>1, <1>2, <2>3 DEF Sound, StepsFit, Early, Late, AboutToPay, Opened
  <2>5. Sound(mode, b, t, ps)
    BY <1>2, <1>3, <1>5, <2>3, <2>4 DEF Sound, Agrees
  <2> QED
    BY <1>1, <2>2, <2>3, <2>5, AttemptMoves DEF Elsewhere, t, ps
<1>6. CASE Throws(i, "pending_trust")
  BY <1>1, <1>2, <1>6, ThrowsKeeps DEF RampError
<1>7. CASE /\ t.status \in Final \cup Until(i) /\ t.status # "completed"
           /\ t.status # "pending_trust" /\ Throws(i, "tx_failed")
  <2>1. t.status \in {"refunded", "expired"}
    BY <1>7 DEF Final, Until
  <2> QED
    BY <1>1, <1>2, <1>7, <2>1, ThrowsKeeps DEF RampError
<1> QED
  BY <1>4, <1>5, <1>6, <1>7 DEF AwaitCompletion, Completed, A

-----------------------------------------------------------------------------
(***************************************************************************)
(* Transactions of the account: signed, decided, or timed out.             *)
(***************************************************************************)
LEMMA FewerPayments ==
    ASSUME NEW m, NEW a, NEW t, NEW ps, Sound(m, a, t, ps), NEW qs \in SUBSET ps
    PROVE  Sound(m, a, t, qs)
BY DEF Sound, OnePayment, Unpaid

\* The only payment there is arrives.
LEMMA PaymentArrives ==
    ASSUME NEW a, NEW t \in Transfer, NEW ps, Sound("chain", a, t, ps), NEW tx \in ps
    PROVE  Sound("chain", a, [t EXCEPT !.got = @ + tx.amount], ps \ {tx})
<1> DEFINE u == [t EXCEPT !.got = @ + tx.amount]
<1>1. /\ t.status \in Expecting /\ ~Unpaid(t, ps) /\ ps \ {tx} = {}
  BY DEF Sound, OnePayment, Unpaid
<1>2. /\ u.status = t.status /\ u.gave = t.gave /\ u.buy = t.buy /\ u.user = t.user
      /\ u.kind = t.kind /\ u.sell = t.sell
  BY DEF Transfer
<1> HIDE DEF u
<1>3. PaysWhatItBuys(u) /\ OnePayment(u, ps \ {tx}) /\ (Agrees(a, t) => Agrees(a, u))
  BY <1>1, <1>2 DEF Sound, PaysWhatItBuys, OnePayment, Agrees
<1>4. a.step \notin Early(a.kind) /\ ~AboutToPay(a)
  BY <1>1 DEF Sound
<1>5. Sound("chain", a, u, ps \ {tx})
  BY <1>1, <1>2, <1>3, <1>4 DEF Sound
<1> QED
  BY <1>5 DEF u

\* Whatever becomes of a transaction, every attempt finds what it relies on.
LEMMA DecidedSound ==
    ASSUME RampInv, mode = "chain", NEW tx, NEW ok \in BOOLEAN, Decided(tx, ok)
    PROVE  /\ anchorTx' \in [Attempt -> Transfer] /\ pool' \in SUBSET ClassicTx
           /\ seq' \in [User -> Nat] /\ rate' = rate
           /\ \A j \in Attempt : Sound(mode, attempt[j], anchorTx'[j], PaymentsOf(j)')
<1>1. /\ tx \in ClassicTx /\ tx \in pool /\ pool' = pool \ {tx} /\ rate' = rate
      /\ anchorTx \in [Attempt -> Transfer] /\ seq \in [User -> Nat]
      /\ pool \in SUBSET ClassicTx
  BY DEF Decided, RampInv, RampTypeOK
<1>2. seq' \in [User -> Nat]
  <2> DEFINE next == IF tx.seq = seq[tx.user] + 1 THEN seq[tx.user] + 1 ELSE seq[tx.user]
  <2>1. seq' = [seq EXCEPT ![tx.user] = next]
    BY <1>1 DEF Decided
  <2>2. tx.user \in User => next \in Nat
    BY <1>1
  <2> HIDE DEF next
  <2> QED
    BY <1>1, <2>1, <2>2
<1>3. \A j \in Attempt : Sound(mode, attempt[j], anchorTx[j], PaymentsOf(j))
  BY DEF RampInv
<1>4. \A j \in Attempt : PaymentsOf(j)' \in SUBSET PaymentsOf(j)
  BY <1>1 DEF PaymentsOf
<1>5. CASE ~(ok /\ tx.op = "pay")
  <2>1. anchorTx' = anchorTx
    BY <1>5 DEF Decided
  <2>2. ASSUME NEW j \in Attempt
        PROVE  Sound(mode, attempt[j], anchorTx'[j], PaymentsOf(j)')
    BY <1>3, <1>4, <2>1, FewerPayments
  <2> QED
    BY <1>1, <1>2, <2>1, <2>2
<1>6. CASE ok /\ tx.op = "pay"
  <2> DEFINE k == tx.memo
             u == [anchorTx[k] EXCEPT !.got = @ + tx.amount]
  <2>1. k \in Attempt /\ tx.amount \in Nat /\ anchorTx[k] \in Transfer
    BY <1>1 DEF ClassicTx
  <2>2. anchorTx' = [anchorTx EXCEPT ![k] = u]
    BY <1>1, <1>6, <2>1 DEF Decided, Transfer
  <2>3. u \in Transfer
    BY <2>1 DEF Transfer
  <2>4. anchorTx' \in [Attempt -> Transfer] /\ anchorTx'[k] = u
        /\ \A j \in Attempt : j # k => anchorTx'[j] = anchorTx[j]
    BY <1>1, <2>1, <2>2, <2>3
  <2>5. tx \in PaymentsOf(k) /\ PaymentsOf(k)' = PaymentsOf(k) \ {tx}
    BY <1>1, <1>6 DEF PaymentsOf
  <2>6. Sound(mode, attempt[k], u, PaymentsOf(k)')
    BY <1>3, <2>1, <2>5, PaymentArrives
  <2> HIDE DEF k, u
  <2>7. ASSUME NEW j \in Attempt
        PROVE  Sound(mode, attempt[j], anchorTx'[j], PaymentsOf(j)')
    BY <1>3, <1>4, <2>4, <2>6, FewerPayments
  <2> QED
    BY <1>1, <1>2, <2>4, <2>7
<1> QED
  BY <1>5, <1>6

LEMMA PoolKeeps ==
    ASSUME RampInv, mode' = mode, mode = "chain", attempt' = attempt, NEW tx,
           TimedOut(tx) \/ \E ok \in BOOLEAN : Decided(tx, ok)
    PROVE  RampInv'
<1>1. CASE \E ok \in BOOLEAN : Decided(tx, ok)
  <2>1. RampTypeOK'
    BY <1>1, DecidedSound DEF RampInv, RampTypeOK
  <2>2. \A j \in Attempt : Sound(mode', attempt'[j], anchorTx'[j], PaymentsOf(j)')
    BY <1>1, DecidedSound
  <2> QED
    BY <2>1, <2>2 DEF RampInv
<1>2. CASE TimedOut(tx)
  <2>1. pool' = pool \ {tx} /\ anchorTx' = anchorTx /\ seq' = seq /\ rate' = rate
    BY <1>2 DEF TimedOut, anchorVars
  <2>2. RampTypeOK'
    BY <2>1 DEF RampInv, RampTypeOK
  <2>3. ASSUME NEW j \in Attempt
        PROVE  Sound(mode', attempt'[j], anchorTx'[j], PaymentsOf(j)')
    <3>1. PaymentsOf(j)' \in SUBSET PaymentsOf(j)
      BY <2>1 DEF PaymentsOf
    <3>2. Sound(mode, attempt[j], anchorTx[j], PaymentsOf(j))
      BY DEF RampInv
    <3> QED
      BY <2>1, <3>1, <3>2, FewerPayments
  <2> QED
    BY <2>2, <2>3 DEF RampInv
<1> QED
  BY <1>1, <1>2

\* A payment is signed only for a transaction nothing was paid for.
LEMMA SubmitKeeps ==
    ASSUME RampInv, NEW i \in Attempt, mode' = mode, mode = "chain", Submit(i)
    PROVE  RampInv'
<1> DEFINE a == attempt[i]
           b == [a EXCEPT !.at = "sent"]
           t == anchorTx[i]
           ps == PaymentsOf(i)
           qs == IF a.step = "payment" THEN ps \cup {Tx(i)} ELSE ps
<1>1. /\ anchorTx' = anchorTx /\ seq' = seq /\ rate' = rate /\ pool' = pool \cup {Tx(i)}
      /\ a.at = "sign" /\ a.step # "auth"
  BY DEF Submit, anchorVars, A
<1>2. /\ a \in AttemptRecord /\ t \in Transfer /\ Sound(mode, a, t, ps) /\ StepsFit(a)
      /\ a.kind \in {"deposit", "withdraw"}
  BY RunningSound
<1>3. a.step \in {"trustline", "payment"} /\ a.user \in User /\ a.err # "tx_failed"
  BY <1>1, <1>2 DEF StepsFit, Sound
<1>4. attempt' = [attempt EXCEPT ![i] = b]
  BY <1>2 DEF Submit, AttemptRecord, RampInv, RampTypeOK
<1>5. /\ Tx(i) \in ClassicTx /\ Tx(i).memo = i
      /\ Tx(i).op = (IF a.step = "trustline" THEN "trust" ELSE "pay")
      /\ a.step = "payment" => Tx(i).amount = a.amount
  BY <1>2, <1>3 DEF Tx, Paid, A, ClassicTx, AttemptRecord
<1>6. /\ b \in AttemptRecord /\ b.at = "sent" /\ b.step = a.step /\ b.err = a.err
      /\ b.kind = a.kind /\ b.user = a.user /\ b.amount = a.amount /\ b.quote = a.quote
  BY <1>2 DEF AttemptRecord, At
<1>7. PaymentsOf(i)' = qs
  BY <1>1, <1>3, <1>5 DEF PaymentsOf
<1>8. \A j \in Attempt : j # i => PaymentsOf(j)' = PaymentsOf(j)
  BY <1>1, <1>5 DEF PaymentsOf
<1>9. Sound(mode, b, t, qs)
  <2>1. StepsFit(b) /\ ~AboutToPay(b) /\ b.step # "done"
    BY <1>2, <1>3, <1>6 DEF StepsFit, AboutToPay
  <2>2. (Opened(b) => Opened(a)) /\ (Agrees(a, t) => Agrees(b, t))
    BY <1>1, <1>6 DEF Opened, Agrees
  <2>3. CASE a.step = "trustline"
    <3>1. qs = ps
      BY <2>3
    <3> HIDE DEF a, b, t, ps, qs
    <3> QED
      BY <1>1, <1>2, <1>3, <1>6, <2>1, <2>2, <3>1 DEF Sound
  <2>4. CASE a.step = "payment"
    <3>1. /\ t.status \in Expecting /\ Unpaid(t, ps) /\ Agrees(a, t) /\ a.kind = "withdraw"
          /\ a.step \notin Early(a.kind)
      BY <1>1, <1>2, <2>4 DEF Sound, AboutToPay, Opened, StepsFit, Early, Late
    <3>2. OnePayment(t, qs)
      <4>1. qs = {Tx(i)}
        BY <2>4, <3>1 DEF Unpaid
      <4>2. t.kind = "withdraw" /\ t.sell = a.amount /\ t.status # "none"
        BY <3>1 DEF Agrees, Expecting
      <4>3. t.sell > 0
        BY <1>2, <4>2 DEF Sound, PaysWhatItBuys
      <4> QED
        BY <1>5, <2>4, <3>1, <4>1, <4>2, <4>3 DEF OnePayment, Unpaid
    <3> HIDE DEF a, b, t, ps, qs
    <3> QED
      BY <1>1, <1>2, <1>3, <1>6, <2>1, <2>2, <3>1, <3>2 DEF Sound
  <2> QED
    BY <1>3, <2>3, <2>4
<1>10. RampTypeOK'
  <2>1. attempt \in [Attempt -> AttemptRecord]
    BY DEF RampInv, RampTypeOK
  <2> HIDE DEF b
  <2> QED
    BY <1>1, <1>4, <1>5, <1>6, <2>1 DEF RampInv, RampTypeOK
<1>11. attempt'[i] = b /\ \A j \in Attempt : j # i => attempt'[j] = attempt[j]
  BY <1>4 DEF RampInv, RampTypeOK
<1> HIDE DEF b, qs
<1> QED
  BY <1>1, <1>7, <1>8, <1>9, <1>10, <1>11, OneMoves

\* The attempt that waited for the answer goes on, or ends.
LEMMA AnsweredKeeps ==
    ASSUME RampInv, NEW i \in Attempt, mode' = mode, mode = "chain", Answered(i)
    PROVE  RampInv'
<1> DEFINE a == attempt[i]
           next == IF a.step = "trustline" THEN "auth" ELSE "waiting"
<1>1. PICK ok \in BOOLEAN :
        /\ Decided(Tx(i), ok)
        /\ IF ok THEN Step(i, next, "call") ELSE Throws(i, "failed")
  BY DEF Answered, A
<1>2. /\ anchorTx' \in [Attempt -> Transfer] /\ pool' \in SUBSET ClassicTx
      /\ seq' \in [User -> Nat] /\ rate' = rate
      /\ \A j \in Attempt : Sound(mode, attempt[j], anchorTx'[j], PaymentsOf(j)')
  BY <1>1, DecidedSound
<1>3. /\ a \in AttemptRecord /\ StepsFit(a) /\ a.kind \in {"deposit", "withdraw"}
      /\ a.at = "sent" /\ Waiting(a)
      /\ a.step \in Early(a.kind) \cup Late(a.kind)
  BY RunningSound DEF Answered, A, Waiting
<1>4. a.step \in {"trustline", "payment"}
  BY <1>3 DEF StepsFit
<1> DEFINE u == anchorTx'[i]
           qs == PaymentsOf(i)'
<1>5. Sound(mode, a, u, qs)
  BY <1>2
<1>6. ASSUME NEW b, attempt' = [attempt EXCEPT ![i] = b],
             b \in AttemptRecord /\ Sound(mode, b, u, qs)
      PROVE  RampInv'
  <2>1. attempt \in [Attempt -> AttemptRecord]
    BY DEF RampInv, RampTypeOK
  <2>2. RampTypeOK'
    BY <1>2, <1>6, <2>1 DEF RampInv, RampTypeOK
  <2>3. attempt'[i] = b /\ \A j \in Attempt : j # i => attempt'[j] = attempt[j]
    BY <1>6, <2>1
  <2>4. ASSUME NEW j \in Attempt
        PROVE  Sound(mode', attempt'[j], anchorTx'[j], PaymentsOf(j)')
    BY <1>2, <1>6, <2>3
  <2> QED
    BY <2>2, <2>4 DEF RampInv
<1>7. CASE ~ok
  <2>1. attempt' = [attempt EXCEPT ![i] = Thrown(a, "failed")]
    BY <1>1, <1>7, ThrowsIs DEF RampInv
  <2> HIDE DEF a, u, qs
  <2>2. Thrown(a, "failed") \in AttemptRecord /\ Sound(mode, Thrown(a, "failed"), u, qs)
    BY <1>3, <1>5, ThrownSound DEF RampError
  <2> QED
    BY <1>6, <2>1, <2>2
<1>8. CASE ok
  <2> DEFINE b == Stepped(a, next, "call")
  <2>1. attempt' = [attempt EXCEPT ![i] = b]
    BY <1>1, <1>8, StepIs DEF RampInv
  <2>2. /\ next \in RampStep \ {"done"} /\ next \in Early(a.kind) \cup Late(a.kind)
        /\ next \in Early(a.kind) => a.step \in Early(a.kind)
    BY <1>3, <1>4 DEF RampStep, Early, Late
  <2>3. b.step = next /\ b.at = "call"
    BY <1>3 DEF Stepped, AttemptRecord
  <2>4. ~AboutToPay(b) /\ (Opened(b) => Opened(a))
    BY <1>3, <1>4, <2>3 DEF AboutToPay, Opened
  <2>5. "call" \in At \ {"idle"}
    BY DEF At
  <2> HIDE DEF a, u, qs, next
  <2>6. mode = "chain" /\ Opened(b) => Agrees(a, u)
    BY <1>5, <2>4 DEF Sound
  <2>7. b \in AttemptRecord /\ Sound(mode, b, u, qs)
    BY <1>3, <1>5, <2>2, <2>4, <2>5, <2>6, SteppedSound
  <2> QED
    BY <1>6, <2>1, <2>7
<1> QED
  BY <1>7, <1>8

-----------------------------------------------------------------------------
(***************************************************************************)
(* What happens around the attempts.                                       *)
(***************************************************************************)
\* A step that only moves one transaction of the anchor.
LEMMA TransferMoves ==
    ASSUME RampInv, NEW i \in Attempt, NEW u \in Transfer,
           anchorTx' = [anchorTx EXCEPT ![i] = u],
           mode' = mode, attempt' = attempt, pool' = pool, seq' = seq, rate' = rate,
           Sound(mode, attempt[i], u, PaymentsOf(i))
    PROVE  RampInv'
<1>1. anchorTx \in [Attempt -> Transfer]
  BY DEF RampInv, RampTypeOK
<1>2. anchorTx'[i] = u /\ \A j \in Attempt : j # i => anchorTx'[j] = anchorTx[j]
  BY <1>1
<1>3. \A j \in Attempt : PaymentsOf(j)' = PaymentsOf(j)
  BY DEF PaymentsOf
<1>4. RampTypeOK'
  BY <1>1 DEF RampInv, RampTypeOK
<1> QED
  BY <1>2, <1>3, <1>4, OneMoves

LEMMA AnchorKeeps ==
    ASSUME RampInv, NEW i \in Attempt, mode' = mode, mode = "chain", attempt' = attempt,
           AnchorNext(i)
    PROVE  RampInv'
<1> DEFINE a == attempt[i]
           t == anchorTx[i]
           ps == PaymentsOf(i)
<1>1. /\ t \in Transfer /\ Sound(mode, a, t, ps) /\ anchorTx \in [Attempt -> Transfer]
  BY RunningSound DEF RampInv, RampTypeOK
<1>2. pool' = pool /\ seq' = seq /\ rate' = rate
  BY DEF AnchorNext, Credit, PayOut, NeedsTrust, GiveBack, Expire, ledger
<1>3. ASSUME NEW status \in {"pending_anchor", "pending_trust", "completed",
                             "refunded", "expired"},
             NEW got \in {t.got, 0}, NEW gave \in {t.gave, t.buy},
             anchorTx' = [anchorTx EXCEPT ![i].status = status, ![i].got = got,
                                          ![i].gave = gave],
             gave = IF status = "completed" THEN t.buy ELSE 0,
             \/ t.got > 0 /\ t.status \in Expecting
             \/ t.status \in {"pending_anchor", "pending_trust"}
             \/ t.status \in {"refunded"} /\ got = 0 /\ status = "refunded"
             \/ t.status = "pending_user_transfer_start" /\ t.got = 0 /\ status = "expired",
             t.status \in {"refunded", "expired"} => status = t.status
      PROVE  RampInv'
  <2> DEFINE u == [t EXCEPT !.status = status, !.got = got, !.gave = gave]
  <2>1. anchorTx' = [anchorTx EXCEPT ![i] = u]
    BY <1>1, <1>3 DEF Transfer
  <2>2. /\ u \in Transfer /\ u.status = status /\ u.got = got /\ u.gave = gave
        /\ u.buy = t.buy /\ u.user = t.user /\ u.kind = t.kind /\ u.sell = t.sell
    <3>1. status \in TransferStatus /\ got \in Nat /\ gave \in Nat
      BY <1>1, <1>3 DEF Transfer, TransferStatus
    <3> HIDE DEF t
    <3> QED
      BY <1>1, <3>1 DEF Transfer
  <2> HIDE DEF u, a, t, ps
  <2>3. PaysWhatItBuys(u) /\ (Agrees(a, t) => Agrees(a, u))
    BY <1>1, <1>3, <2>2 DEF Sound, PaysWhatItBuys, Agrees, Expecting
  <2>4. CASE t.status = "pending_user_transfer_start" /\ t.got = 0 /\ status = "expired"
    <3>1. t.gave = 0 /\ u.gave = 0 /\ u.got = 0 /\ u.status = "expired"
      BY <1>1, <1>3, <2>2, <2>4 DEF Sound, PaysWhatItBuys
    <3>2. OnePayment(u, ps)
      BY <1>1, <2>2, <2>4, <3>1 DEF Sound, OnePayment, Expecting
    <3>3. Sound(mode, a, u, ps)
      BY <1>1, <2>2, <2>3, <2>4, <3>1, <3>2 DEF Sound, Unpaid, Expecting
    <3> QED
      BY <1>2, <2>1, <2>2, <3>3, TransferMoves DEF a, ps
  <2>5. CASE ~(t.status = "pending_user_transfer_start" /\ t.got = 0)
    <3>1. t.status \notin Expecting \cup {"none"} \/ t.got > 0
      BY <1>3, <2>5 DEF Expecting
    <3>2. ps = {} /\ a.step \notin Early(a.kind) /\ ~AboutToPay(a) /\ t.status # "completed"
      BY <1>1, <1>3, <3>1 DEF Sound, OnePayment, Unpaid, Expecting
    <3>3. OnePayment(u, ps)
      BY <3>2 DEF OnePayment
    <3>4. Sound(mode, a, u, ps)
      BY <1>1, <1>3, <2>2, <2>3, <3>2, <3>3 DEF Sound
    <3> QED
      BY <1>2, <2>1, <2>2, <3>4, TransferMoves DEF a, ps
  <2> QED
    BY <1>3, <2>4, <2>5
<1>4. t.gave = (IF t.status = "completed" THEN t.buy ELSE 0)
      /\ (t.status # "none" => t.sell > 0)
  BY <1>1 DEF Sound, PaysWhatItBuys
<1>5. CASE Credit(i)
  <2>1. t.got > 0 /\ t.status \in Expecting /\ t.gave = 0
    BY <1>4, <1>5 DEF Credit, Expecting
  <2>2. anchorTx' = [anchorTx EXCEPT ![i].status = "pending_anchor", ![i].got = t.got,
                                     ![i].gave = t.gave]
    BY <1>1, <1>5 DEF Credit, Goes, Transfer
  <2> QED
    BY <1>3, <1>5, <2>1, <2>2 DEF Credit
<1>6. CASE PayOut(i)
  <2>1. anchorTx' = [anchorTx EXCEPT ![i].status = "completed", ![i].got = t.got,
                                     ![i].gave = t.buy]
    BY <1>1, <1>6 DEF PayOut, Transfer
  <2> QED
    BY <1>3, <1>6, <2>1 DEF PayOut
<1>7. CASE NeedsTrust(i)
  <2>1. anchorTx' = [anchorTx EXCEPT ![i].status = "pending_trust", ![i].got = t.got,
                                     ![i].gave = t.gave]
    BY <1>1, <1>7 DEF NeedsTrust, Goes, Transfer
  <2> QED
    BY <1>3, <1>4, <1>7, <2>1 DEF NeedsTrust
<1>8. CASE GiveBack(i)
  <2>1. t.gave = 0 /\ t.got > 0 /\ t.status \in {"pending_anchor", "expired", "refunded"}
    BY <1>4, <1>8 DEF GiveBack
  <2>2. CASE t.status = "pending_anchor"
    <3>1. anchorTx' = [anchorTx EXCEPT ![i].status = "refunded", ![i].got = 0,
                                       ![i].gave = t.gave]
      BY <1>1, <1>8, <2>2 DEF GiveBack, Transfer
    <3> QED
      BY <1>3, <2>1, <2>2, <3>1
  <2>3. CASE t.status \in {"expired", "refunded"}
    <3>1. anchorTx' = [anchorTx EXCEPT ![i].status = t.status, ![i].got = 0,
                                       ![i].gave = t.gave]
      BY <1>1, <1>8, <2>3 DEF GiveBack, Transfer
    <3> QED
      BY <1>3, <2>1, <2>3, <3>1 DEF Expecting
  <2> QED
    BY <2>1, <2>2, <2>3
<1>9. CASE Expire(i)
  <2>1. anchorTx' = [anchorTx EXCEPT ![i].status = "expired", ![i].got = 0,
                                     ![i].gave = t.gave]
    BY <1>1, <1>9 DEF Expire, Goes, Transfer
  <2> QED
    BY <1>3, <1>4, <1>9, <2>1 DEF Expire
<1> QED
  BY <1>5, <1>6, <1>7, <1>8, <1>9 DEF AnchorNext

LEMMA ElsewhereKeeps ==
    ASSUME RampInv, mode' = mode, attempt' = attempt,
           RateMoves \/ \E u \in User : OtherTx(u)
    PROVE  RampInv'
<1>1. anchorTx' = anchorTx /\ pool' = pool
  BY DEF RateMoves, OtherTx, ledger, anchorVars
<1>2. RampTypeOK'
  <2>1. CASE RateMoves
    BY <1>1, <2>1 DEF RampInv, RampTypeOK, RateMoves, ledger
  <2>2. CASE \E u \in User : OtherTx(u)
    BY <1>1, <2>2 DEF RampInv, RampTypeOK, OtherTx, anchorVars
  <2> QED
    BY <2>1, <2>2
<1>3. \A j \in Attempt : PaymentsOf(j)' = PaymentsOf(j)
  BY <1>1 DEF PaymentsOf
<1> QED
  BY <1>1, <1>2, <1>3 DEF RampInv

\* The offline ramp: nothing is ever sent, and the result is what it says it is.
LEMMA MockStepKeeps ==
    ASSUME RampInv, NEW i \in Attempt, mode' = mode, mode = "mock", MockStep(i)
    PROVE  RampInv'
<1> DEFINE a == attempt[i]
<1>1. Elsewhere /\ Waiting(a) /\ a.kind \in {"deposit", "withdraw"}
  BY RunningSound DEF MockStep, Awaiting, A, Waiting, ledger, anchorVars, Elsewhere
<1>2. PICK n \in 1 .. Len(MockSteps(a.kind)) - 1 :
        MockSteps(a.kind)[n] = a.step /\ Step(i, MockSteps(a.kind)[n + 1], "call")
  BY DEF MockStep, A
<1> DEFINE next == MockSteps(a.kind)[n + 1]
<1>3. /\ next \in RampStep \ {"done"} /\ next \in Early(a.kind) \cup Late(a.kind)
      /\ next \in Early(a.kind) => a.step \in Early(a.kind)
  <2>1. CASE a.kind = "deposit"
    <3>1. n \in {1, 2, 3, 4, 5, 6, 7}
      BY <1>2, <2>1 DEF MockSteps
    <3>2. n \in {1, 2, 3, 4, 5} => a.step \in Early(a.kind) /\ next \in Early(a.kind)
      BY <1>2, <2>1 DEF MockSteps, Early
    <3>3. n \in {6, 7} => next \in {"bank_transfer", "waiting"}
      BY <2>1 DEF MockSteps
    <3> QED
      BY <2>1, <3>1, <3>2, <3>3 DEF RampStep, Early, Late
  <2>2. CASE a.kind = "withdraw"
    <3>1. n \in {1, 2, 3, 4, 5, 6}
      BY <1>2, <2>2 DEF MockSteps
    <3>2. n \in {1, 2, 3, 4} => a.step \in Early(a.kind) /\ next \in Early(a.kind)
      BY <1>2, <2>2 DEF MockSteps, Early
    <3>3. n \in {5, 6} => next \in {"payment", "waiting"}
      BY <2>2 DEF MockSteps
    <3> QED
      BY <2>2, <3>1, <3>2, <3>3 DEF RampStep, Early, Late
  <2> QED
    BY <1>1, <2>1, <2>2
<1>4. Step(i, next, "call") /\ "call" \in At \ {"idle"}
  BY <1>2 DEF At
<1> HIDE DEF next
<1> QED
  BY <1>1, <1>3, <1>4, StepKeeps

LEMMA MockDoneKeeps ==
    ASSUME RampInv, NEW i \in Attempt, mode' = mode, mode = "mock", MockDone(i)
    PROVE  RampInv'
<1> DEFINE a == attempt[i]
           out == Bought(a.kind, a.amount)
           b == [a EXCEPT !.at = "ended", !.step = "done", !.quote = out, !.shown = out]
           u == [NoTransfer EXCEPT !.status = "completed", !.kind = a.kind, !.user = a.user,
                   !.sell = a.amount, !.buy = out, !.gave = out]
           ps == PaymentsOf(i)
<1>1. /\ pool' = pool /\ seq' = seq /\ rate' = rate /\ a.step = "waiting" /\ a.at = "call"
      /\ anchorTx' = [anchorTx EXCEPT ![i] = u]
  BY DEF MockDone, At_, A, ledger
<1>2. /\ a \in AttemptRecord /\ Sound(mode, a, anchorTx[i], ps) /\ StepsFit(a)
      /\ a.kind \in {"deposit", "withdraw"} /\ a.amount \in Nat
  BY RunningSound DEF AttemptRecord
<1>3. a.user \in User /\ a.amount > 0 /\ a.err # "tx_failed" /\ out \in Nat /\ ps = {}
  BY <1>1, <1>2, BoughtType DEF StepsFit, Sound, PaymentsOf, RampInv, RampTypeOK
<1>4. attempt' = [attempt EXCEPT ![i] = b]
  BY <1>2 DEF MockDone, A, AttemptRecord, RampInv, RampTypeOK
<1> HIDE DEF out
<1>5. /\ b \in AttemptRecord /\ b.at = "ended" /\ b.step = "done" /\ b.err = a.err
      /\ b.kind = a.kind /\ b.user = a.user /\ b.amount = a.amount
      /\ b.quote = out /\ b.shown = out
  BY <1>2, <1>3 DEF AttemptRecord, At, RampStep
<1>6. /\ u \in Transfer /\ u.status = "completed" /\ u.user = a.user /\ u.sell = a.amount
      /\ u.buy = out /\ u.gave = out
  BY <1>2, <1>3 DEF NoTransfer, Transfer, TransferStatus, Kind, Owner
<1> HIDE DEF a, b, u, ps
<1>7. StepsFit(b) /\ b.step \notin Early(b.kind)
  BY <1>2, <1>3, <1>5 DEF StepsFit, Early, Late
<1>8. PaysWhatItBuys(u) /\ OnePayment(u, ps)
  BY <1>3, <1>6 DEF PaysWhatItBuys, OnePayment
<1>9. Sound(mode, b, u, ps)
  BY <1>3, <1>5, <1>6, <1>7, <1>8 DEF Sound, Opened, AboutToPay
<1> QED
  BY <1>1, <1>4, <1>5, <1>6, <1>9, BothMove DEF ps

-----------------------------------------------------------------------------
(***************************************************************************)
(* The dialog.                                                             *)
(***************************************************************************)
DialogTypeOK == dialog.kind \in Kind \cup {"none"}

LEMMA RunKeeps ==
    ASSUME RampInv, DialogTypeOK, NEW i \in Attempt, NEW u \in User, NEW amount \in Amount,
           Run(i, u, amount)
    PROVE  RampInv'
<1> DEFINE a == attempt[i]
           t == anchorTx[i]
           b == [Idle EXCEPT !.at = "call", !.kind = dialog.kind, !.user = u, !.amount = amount]
           ps == PaymentsOf(i)
<1>1. Elsewhere /\ mode' = mode /\ a.at = "idle" /\ dialog.kind \in {"deposit", "withdraw"}
      /\ attempt' = [attempt EXCEPT ![i] = b]
  BY DEF Run, A, ledger, anchorVars, Elsewhere, DialogTypeOK, Kind
<1>2. a \in AttemptRecord /\ Sound(mode, a, t, ps) /\ StepsFit(a)
      /\ a.kind \in {"deposit", "withdraw"} /\ amount \in Nat /\ amount > 0
  BY RunningSound, RampAssumption
<1>3. a.step \in Early(a.kind)
  BY <1>1, <1>2 DEF StepsFit, Early
<1>4. /\ b \in AttemptRecord /\ b.at = "call" /\ b.step = "discover" /\ b.err = "none"
      /\ b.kind = dialog.kind /\ b.user = u /\ b.amount = amount
  BY <1>1, <1>2 DEF Idle, NoTransfer, AttemptRecord, At, RampStep, RampError, Kind, Owner
<1> HIDE DEF a, t, b, ps
<1>5. StepsFit(b)
  BY <1>1, <1>2, <1>4 DEF StepsFit, Early
<1>6. Sound(mode, b, t, ps)
  BY <1>2, <1>3, <1>4, <1>5 DEF Sound, Opened, AboutToPay
<1> QED
  BY <1>1, <1>4, <1>6, AttemptMoves DEF t, ps, Elsewhere

\* Every attempt that runs is gone; what it paid is not.
LEMMA ReloadKeeps ==
    ASSUME RampInv, Reload
    PROVE  RampInv'
<1>1. anchorTx' = anchorTx /\ pool' = pool /\ seq' = seq /\ rate' = rate /\ mode' = mode
  BY DEF Reload, ledger, anchorVars
<1>2. ASSUME NEW i \in Attempt
      PROVE  /\ attempt'[i] \in AttemptRecord
             /\ Sound(mode, attempt'[i], anchorTx[i], PaymentsOf(i))
  <2> DEFINE a == attempt[i]
             b == [a EXCEPT !.at = "gone", !.quote = 0, !.polls = 0, !.seq = 0]
             t == anchorTx[i]
             ps == PaymentsOf(i)
  <2>1. a \in AttemptRecord /\ Sound(mode, a, t, ps)
    BY RunningSound
  <2>2. attempt'[i] = IF Awaiting(i) THEN b ELSE a
    BY DEF Reload, A
  <2>3. CASE ~Awaiting(i)
    BY <2>1, <2>2, <2>3
  <2>4. CASE Awaiting(i)
    <3>1. Waiting(a)
      BY <2>4 DEF Awaiting, A, Waiting
    <3>2. /\ b \in AttemptRecord /\ b.at = "gone" /\ b.step = a.step /\ b.err = a.err
          /\ b.kind = a.kind /\ b.user = a.user /\ b.amount = a.amount
      BY <2>1 DEF AttemptRecord, At
    <3> HIDE DEF a, b, t, ps
    <3>3. StepsFit(b) /\ a.step # "done" /\ a.err # "tx_failed"
      BY <2>1, <3>1, <3>2 DEF Sound, StepsFit, Waiting
    <3>4. Sound(mode, b, t, ps)
      BY <2>1, <3>2, <3>3 DEF Sound, Opened, AboutToPay
    <3> QED
      BY <2>2, <2>4, <3>2, <3>4 DEF t, ps
  <2> QED
    BY <2>3, <2>4
<1>3. attempt' \in [Attempt -> AttemptRecord]
  BY <1>2 DEF Reload
<1>4. RampTypeOK'
  BY <1>1, <1>3 DEF RampInv, RampTypeOK
<1>5. \A i \in Attempt : PaymentsOf(i)' = PaymentsOf(i)
  BY <1>1 DEF PaymentsOf
<1> QED
  BY <1>1, <1>2, <1>4, <1>5 DEF RampInv

LEMMA StillKeeps ==
    ASSUME RampInv, UNCHANGED rampVars
    PROVE  RampInv'
<1>1. attempt' = attempt /\ anchorTx' = anchorTx /\ pool' = pool /\ seq' = seq
      /\ rate' = rate /\ mode' = mode
  BY DEF rampVars, ledger, anchorVars
<1>2. \A i \in Attempt : PaymentsOf(i)' = PaymentsOf(i)
  BY <1>1 DEF PaymentsOf
<1> QED
  BY <1>1, <1>2 DEF RampInv, RampTypeOK

LEMMA ChainKeeps ==
    ASSUME RampInv, NEW i \in Attempt, mode' = mode, mode = "chain", ChainNext(i)
    PROVE  RampInv'
<1>1. CASE EnsureTrustline(i)
  <2>1. Builds(i) \/ Step(i, "auth", "call")
    BY <1>1 DEF EnsureTrustline
  <2> QED
    BY <1>1, <2>1, BeforeExchangeKeeps, BuildsKeeps
<1>2. CASE BuildPayment(i)
  <2>1. Builds(i)
    BY <1>2 DEF BuildPayment
  <2> QED
    BY <1>2, <2>1, BuildsKeeps
<1>3. CASE \/ \E toml \in Published : Discover(i, toml)
           \/ CheckBalance(i) \/ Challenge(i) \/ SignIn(i) \/ ReadKyc(i) \/ PutKyc(i)
  BY <1>3, BeforeExchangeKeeps
<1>4. CASE Quote(i) \/ Refused(i) \/ GivesUp(i)
  BY <1>4, QuoteKeeps, FailsKeeps
<1>5. CASE DepositExchange(i) \/ WithdrawExchange(i) \/ BankTransfer(i)
  BY <1>5, ExchangeKeeps, BankTransferKeeps
<1>6. CASE AwaitReady(i) \/ AwaitCompletion(i)
  BY <1>6, AwaitReadyKeeps, AwaitCompletionKeeps
<1>7. CASE Submit(i) \/ Answered(i)
  BY <1>7, SubmitKeeps, AnsweredKeeps
<1> QED
  BY <1>1, <1>2, <1>3, <1>4, <1>5, <1>6, <1>7 DEF ChainNext

LEMMA DialogKeeps ==
    ASSUME RampInv, DialogTypeOK, [DialogNext]_dialogVars
    PROVE  RampInv' /\ DialogTypeOK'
<1>1. CASE \E kind \in Kind : Open(kind)
  BY <1>1, StillKeeps DEF Open, DialogTypeOK
<1>2. CASE \E i \in Attempt, u \in User, amount \in Amount : Run(i, u, amount)
  <2>1. PICK i \in Attempt, u \in User, amount \in Amount : Run(i, u, amount)
    BY <1>2
  <2>2. dialog' = [dialog EXCEPT !.shows = i]
    BY <2>1 DEF Run
  <2>3. dialog'.kind = dialog.kind
    BY <2>2
  <2> QED
    BY <2>1, <2>3, RunKeeps DEF DialogTypeOK
<1>3. CASE Close \/ LeavePage
  BY <1>3, StillKeeps DEF Close, LeavePage, NoDialog, DialogTypeOK
<1>4. CASE Reload
  BY <1>4, ReloadKeeps DEF Reload, NoDialog, DialogTypeOK
<1>5. CASE mode = "chain" /\ Environment /\ UNCHANGED <<mode, attempt, dialog>>
  BY <1>5, PoolKeeps, ElsewhereKeeps, AnchorKeeps DEF Environment, DialogTypeOK
<1>6. CASE \E i \in Attempt : (CallFails(i) \/ RampNext(i)) /\ UNCHANGED dialog
  <2>1. PICK i \in Attempt : (CallFails(i) \/ RampNext(i)) /\ UNCHANGED dialog
    BY <1>6
  <2>2. mode' = mode
    BY <2>1 DEF CallFails, RampNext
  <2>3. RampInv'
    BY <2>1, <2>2, FailsKeeps, ChainKeeps, MockStepKeeps, MockDoneKeeps DEF RampNext
  <2> QED
    BY <2>1, <2>3 DEF DialogTypeOK
<1>7. CASE UNCHANGED dialogVars
  BY <1>7, StillKeeps DEF dialogVars, DialogTypeOK
<1> QED
  BY <1>1, <1>2, <1>3, <1>4, <1>5, <1>6, <1>7 DEF DialogNext

LEMMA DialogStarts ==
    ASSUME DialogInit
    PROVE  RampInv /\ DialogTypeOK
<1>1. /\ mode \in {"chain", "mock"} /\ pool = {} /\ rate = 1
      /\ seq = [u \in User |-> 0] /\ anchorTx = [i \in Attempt |-> NoTransfer]
      /\ attempt = [i \in Attempt |-> Idle] /\ dialog = NoDialog
  BY DEF DialogInit, RampInit, AnchorInit
<1>2. Idle \in AttemptRecord /\ NoTransfer \in Transfer
  BY DEF Idle, NoTransfer, AttemptRecord, Transfer, At, RampStep, RampError, Kind, Owner,
         TransferStatus
<1>3. RampTypeOK /\ DialogTypeOK
  BY <1>1, <1>2 DEF RampTypeOK, DialogTypeOK, NoDialog
<1>4. Sound(mode, Idle, NoTransfer, {})
  BY DEF Sound, StepsFit, PaysWhatItBuys, OnePayment, Opened, AboutToPay, Unpaid, Early,
         Idle, NoTransfer
<1>5. \A i \in Attempt : PaymentsOf(i) = {}
  BY <1>1 DEF PaymentsOf
<1> QED
  BY <1>1, <1>3, <1>4, <1>5 DEF RampInv

\* Every attempt, its transaction at the anchor and its payments under way fit together.
THEOREM RampInvariance == DialogSpec => []RampInv
<1>1. DialogInit => RampInv /\ DialogTypeOK
  BY DialogStarts
<1>2. RampInv /\ DialogTypeOK /\ [DialogNext]_dialogVars => RampInv' /\ DialogTypeOK'
  BY DialogKeeps
<1> QED
  BY <1>1, <1>2, PTL DEF DialogSpec

-----------------------------------------------------------------------------
\* A dialog whose list has not come to the step that moves money is at an early one.
LEMMA EndedEarlyIsEarly ==
    ASSUME RampInv, NEW i \in Attempt, EndedEarly(i)
    PROVE  attempt[i].step \in Early(attempt[i].kind)
<1> DEFINE a == attempt[i]
           steps == Steps(a.kind)
           idx == StepIdx(i)
<1>1. a.kind \in {"deposit", "withdraw"} /\ a.step \in Early(a.kind) \cup Late(a.kind)
  BY RunningSound
<1>2. PICK n \in idx + 1 .. Len(steps) : steps[n] = PointOfNoReturn(a.kind)
  BY DEF EndedEarly, A
<1>3. SUFFICES ASSUME a.step \in Late(a.kind)
               PROVE  FALSE
  BY <1>1
<1>4. CASE a.kind = "deposit"
  <2>1. Len(steps) = 9 /\ steps[7] = "bank_transfer" /\ steps[8] = "waiting"
        /\ steps[9] = "done"
    BY <1>4 DEF Steps
  <2>2. \E k \in 1 .. Len(steps) : steps[k] = a.step
    <3>1. a.step \in {steps[7], steps[8], steps[9]} /\ {7, 8, 9} \subseteq 1 .. Len(steps)
      BY <1>3, <1>4, <2>1 DEF Late
    <3> HIDE DEF steps
    <3> QED
      BY <3>1
  <2>3. idx \in 1 .. Len(steps) /\ steps[idx] = a.step
    BY <2>2 DEF StepIdx, A
  <2>4. idx \in {7, 8, 9}
    <3> HIDE DEF idx
    <3>1. \A k \in 1 .. 9 : k \notin {7, 8, 9} =>
            steps[k] \notin {"bank_transfer", "waiting", "done"}
      BY <1>4 DEF Steps
    <3> QED
      BY <1>3, <1>4, <2>1, <2>3, <3>1 DEF Late
  <2> HIDE DEF idx
  <2>5. n \in {8, 9}
    BY <1>2, <2>1, <2>4
  <2> QED
    BY <1>2, <1>4, <2>1, <2>5 DEF PointOfNoReturn
<1>5. CASE a.kind = "withdraw"
  <2>1. Len(steps) = 8 /\ steps[6] = "payment" /\ steps[7] = "waiting" /\ steps[8] = "done"
    BY <1>5 DEF Steps
  <2>2. \E k \in 1 .. Len(steps) : steps[k] = a.step
    <3>1. a.step \in {steps[6], steps[7], steps[8]} /\ {6, 7, 8} \subseteq 1 .. Len(steps)
      BY <1>3, <1>5, <2>1 DEF Late
    <3> HIDE DEF steps
    <3> QED
      BY <3>1
  <2>3. idx \in 1 .. Len(steps) /\ steps[idx] = a.step
    BY <2>2 DEF StepIdx, A
  <2>4. idx \in {6, 7, 8}
    <3> HIDE DEF idx
    <3>1. \A k \in 1 .. 8 : k \notin {6, 7, 8} =>
            steps[k] \notin {"payment", "waiting", "done"}
      BY <1>5 DEF Steps
    <3> QED
      BY <1>3, <1>5, <2>1, <2>3, <3>1 DEF Late
  <2> HIDE DEF idx
  <2>5. n \in {7, 8}
    BY <1>2, <2>1, <2>4
  <2> QED
    BY <1>2, <1>5, <2>1, <2>5 DEF PointOfNoReturn
<1> QED
  BY <1>1, <1>4, <1>5

LEMMA SoundIsTrue ==
    ASSUME RampInv
    PROVE  VerdictIsTrue
<1> SUFFICES ASSUME NEW i \in Attempt
             PROVE  /\ A(i).step = "done" =>
                         /\ anchorTx[i].status = "completed"
                         /\ anchorTx[i].gave = A(i).quote
                         /\ Result(i) = [amount |-> anchorTx[i].gave,
                                         user |-> anchorTx[i].user]
                    /\ A(i).err = "tx_failed" => anchorTx[i].gave = 0
                    /\ EndedEarly(i) =>
                         /\ anchorTx[i].got = 0 /\ anchorTx[i].gave = 0
                         /\ \A tx \in pool : tx.memo = i => tx.op = "trust"
  BY DEF VerdictIsTrue
<1>1. Sound(mode, attempt[i], anchorTx[i], PaymentsOf(i))
  BY RunningSound
<1>2. anchorTx[i].gave = IF anchorTx[i].status = "completed" THEN anchorTx[i].buy ELSE 0
  BY <1>1 DEF Sound, PaysWhatItBuys
<1>3. A(i).step = "done" =>
        /\ anchorTx[i].status = "completed" /\ anchorTx[i].gave = A(i).quote
        /\ Result(i) = [amount |-> anchorTx[i].gave, user |-> anchorTx[i].user]
  BY <1>1, <1>2 DEF Sound, Result, A
<1>4. A(i).err = "tx_failed" => anchorTx[i].gave = 0
  BY <1>1, <1>2 DEF Sound, A
<1>5. ASSUME EndedEarly(i)
      PROVE  /\ anchorTx[i].got = 0 /\ anchorTx[i].gave = 0
             /\ \A tx \in pool : tx.memo = i => tx.op = "trust"
  <2>1. Unpaid(anchorTx[i], PaymentsOf(i))
    BY <1>1, <1>5, EndedEarlyIsEarly DEF Sound
  <2>2. \A tx \in pool : tx.op \in {"trust", "pay"}
    BY DEF RampInv, RampTypeOK, ClassicTx
  <2> QED
    BY <2>1, <2>2 DEF Unpaid, PaymentsOf
<1> QED
  BY <1>3, <1>4, <1>5

\* What the dialog says in the end is true, whatever the anchor, the rate and the network
\* did meanwhile: anchorDepositTRY and anchorWithdrawToTRY show as completed what was paid
\* out by the quote; "The anchor transaction failed." means nothing is; and an attempt that
\* stopped at an earlier step than the one that moves money costs nothing.
THEOREM VerdictsAreTrue == DialogSpec => []VerdictIsTrue
<1>1. RampInv => VerdictIsTrue
  BY SoundIsTrue
<1> QED
  BY <1>1, RampInvariance, PTL

-----------------------------------------------------------------------------
\* What PaymentsMatch says of one attempt's transaction.
Matched(i) ==
    anchorTx'[i].got > anchorTx[i].got
    => /\ anchorTx[i].got = 0 /\ anchorTx[i].gave = 0
       /\ anchorTx'[i].got = anchorTx[i].sell
       /\ anchorTx[i].status \in {"pending_user_transfer_start", "expired"}

LEMMA NothingGot ==
    ASSUME RampInv, NEW i \in Attempt, anchorTx'[i].got \in {anchorTx[i].got, 0}
    PROVE  Matched(i)
<1>1. anchorTx[i].got \in Nat
  BY DEF RampInv, RampTypeOK, Transfer
<1> QED
  BY <1>1 DEF Matched

\* Steps that are only about one transaction match there, and so everywhere.
LEMMA OneMatches ==
    ASSUME RampInv, NEW i \in Attempt, NEW u, anchorTx' = [anchorTx EXCEPT ![i] = u],
           Matched(i)
    PROVE  \A j \in Attempt : Matched(j)
<1>1. \A j \in Attempt : j # i => anchorTx'[j].got = anchorTx[j].got
  BY DEF RampInv, RampTypeOK
<1> QED
  BY <1>1, NothingGot

LEMMA DecidedMatches ==
    ASSUME RampInv, NEW tx, NEW ok \in BOOLEAN, Decided(tx, ok)
    PROVE  \A j \in Attempt : Matched(j)
<1>1. /\ tx \in ClassicTx /\ tx \in pool /\ anchorTx \in [Attempt -> Transfer]
  BY DEF Decided, RampInv, RampTypeOK
<1>2. CASE ~(ok /\ tx.op = "pay")
  <2>1. anchorTx' = anchorTx
    BY <1>2 DEF Decided
  <2> QED
    BY <2>1, NothingGot
<1>3. CASE ok /\ tx.op = "pay"
  <2> DEFINE k == tx.memo
             t == anchorTx[k]
             u == [t EXCEPT !.got = @ + tx.amount]
  <2>1. k \in Attempt /\ tx.amount \in Nat /\ t \in Transfer
    BY <1>1 DEF ClassicTx
  <2>2. anchorTx' = [anchorTx EXCEPT ![k] = u]
    BY <1>1, <1>3, <2>1 DEF Decided, Transfer
  <2>3. tx \in PaymentsOf(k)
    BY <1>1, <1>3 DEF PaymentsOf
  <2>4. OnePayment(t, PaymentsOf(k))
    BY <2>1, RunningSound DEF Sound
  <2>5. /\ t.status \in {"pending_user_transfer_start", "expired"}
        /\ t.got = 0 /\ t.gave = 0 /\ tx.amount = t.sell
    BY <2>3, <2>4 DEF OnePayment, Expecting
  <2>6. anchorTx'[k] = u /\ u.got = t.sell
    BY <1>1, <2>1, <2>2, <2>5 DEF Transfer
  <2>7. Matched(k)
    <3> HIDE DEF k, u
    <3> QED
      BY <2>5, <2>6 DEF Matched
  <2> QED
    BY <2>1, <2>2, <2>7, OneMatches
<1> QED
  BY <1>2, <1>3

LEMMA BankTransferMatches ==
    ASSUME RampInv, NEW i \in Attempt, mode = "chain", BankTransfer(i)
    PROVE  \A j \in Attempt : Matched(j)
<1> DEFINE a == attempt[i]
           t == anchorTx[i]
           u == [t EXCEPT !.status = "pending_anchor", !.got = t.sell]
<1>1. t \in Transfer /\ anchorTx \in [Attempt -> Transfer]
  BY DEF RampInv, RampTypeOK
<1>2. anchorTx' = [anchorTx EXCEPT ![i] = u]
      /\ a.step = "bank_transfer" /\ a.at = "call"
  BY <1>1 DEF BankTransfer, Transfer, At_, A
<1>3. t.status \in Expecting /\ Unpaid(t, PaymentsOf(i))
  BY <1>2, RunningSound DEF Sound, AboutToPay
<1>4. anchorTx'[i].got = t.sell
  BY <1>1, <1>2 DEF Transfer
<1>5. Matched(i)
  BY <1>3, <1>4 DEF Matched, Unpaid, Expecting
<1> QED
  BY <1>2, <1>5, OneMatches

\* Nothing else adds to what the anchor got.
LEMMA OthersMatch ==
    ASSUME RampInv, NEW i \in Attempt,
           Created(i) \/ MockDone(i) \/ AnchorNext(i)
    PROVE  \A j \in Attempt : Matched(j)
<1> DEFINE t == anchorTx[i]
<1>1. t \in Transfer /\ anchorTx \in [Attempt -> Transfer]
  BY DEF RampInv, RampTypeOK
<1>2. ASSUME NEW u, anchorTx' = [anchorTx EXCEPT ![i] = u], u.got \in {t.got, 0}
      PROVE  \A j \in Attempt : Matched(j)
  <2>1. anchorTx'[i].got \in {anchorTx[i].got, 0}
    BY <1>1, <1>2
  <2> QED
    BY <1>2, <2>1, NothingGot, OneMatches
<1>3. CASE Created(i)
  BY <1>2, <1>3 DEF Created, NoTransfer
<1>4. CASE MockDone(i)
  BY <1>2, <1>4 DEF MockDone, NoTransfer
<1>5. CASE Credit(i) \/ NeedsTrust(i) \/ Expire(i)
  <2>1. PICK status \in TransferStatus : Goes(i, status)
    BY <1>5 DEF Credit, NeedsTrust, Expire, TransferStatus
  <2>2. [t EXCEPT !.status = status].got = t.got
    BY <1>1 DEF Transfer
  <2>3. anchorTx' = [anchorTx EXCEPT ![i] = [t EXCEPT !.status = status]]
    BY <2>1 DEF Goes
  <2> QED
    BY <1>2, <2>2, <2>3
<1>6. CASE PayOut(i)
  <2> DEFINE u == [t EXCEPT !.status = "completed", !.gave = t.buy]
  <2>1. u.got = t.got
    BY <1>1 DEF Transfer
  <2>2. anchorTx' = [anchorTx EXCEPT ![i] = u]
    BY <1>1, <1>6 DEF PayOut, Transfer
  <2> QED
    BY <1>2, <2>1, <2>2
<1>7. CASE GiveBack(i)
  <2> DEFINE status == IF t.status = "pending_anchor" THEN "refunded" ELSE t.status
             u == [t EXCEPT !.got = 0, !.status = status]
  <2>1. u.got = 0
    BY <1>1 DEF Transfer
  <2>2. anchorTx' = [anchorTx EXCEPT ![i] = u]
    BY <1>1, <1>7 DEF GiveBack, Transfer
  <2> QED
    BY <1>2, <2>1, <2>2
<1> QED
  BY <1>3, <1>4, <1>5, <1>6, <1>7 DEF AnchorNext

LEMMA UnmovedMatches ==
    ASSUME RampInv, anchorTx' = anchorTx
    PROVE  \A j \in Attempt : Matched(j)
BY NothingGot

LEMMA ChainMatches ==
    ASSUME RampInv, NEW i \in Attempt, mode = "chain", ChainNext(i)
    PROVE  \A j \in Attempt : Matched(j)
<1>1. CASE DepositExchange(i) \/ WithdrawExchange(i)
  BY <1>1, OthersMatch DEF DepositExchange, WithdrawExchange
<1>2. CASE BankTransfer(i)
  BY <1>2, BankTransferMatches
<1>3. CASE Answered(i)
  BY <1>3, DecidedMatches DEF Answered
<1>4. CASE \/ \E toml \in Published : Discover(i, toml)
           \/ CheckBalance(i) \/ EnsureTrustline(i) \/ Challenge(i) \/ SignIn(i)
           \/ ReadKyc(i) \/ PutKyc(i) \/ Quote(i) \/ Refused(i) \/ AwaitReady(i)
           \/ BuildPayment(i) \/ Submit(i) \/ GivesUp(i) \/ AwaitCompletion(i)
  <2>1. anchorTx' = anchorTx
    BY <1>4 DEF Discover, CheckBalance, EnsureTrustline, Challenge, SignIn, ReadKyc, PutKyc,
                Quote, Refused, AwaitReady, BuildPayment, Submit, GivesUp, AwaitCompletion,
                anchorVars
  <2> QED
    BY <2>1, UnmovedMatches
<1> QED
  BY <1>1, <1>2, <1>3, <1>4 DEF ChainNext

LEMMA StepMatches ==
    ASSUME RampInv, [DialogNext]_dialogVars
    PROVE  \A j \in Attempt : Matched(j)
<1>1. CASE \/ \E kind \in Kind : Open(kind)
           \/ \E i \in Attempt, u \in User, amount \in Amount : Run(i, u, amount)
           \/ Close \/ LeavePage \/ Reload \/ UNCHANGED dialogVars
  <2>1. anchorTx' = anchorTx
    BY <1>1 DEF Open, Run, Close, LeavePage, Reload, dialogVars, rampVars, anchorVars
  <2> QED
    BY <2>1, UnmovedMatches
<1>2. CASE Environment
  <2>1. CASE \E tx \in pool : \E ok \in BOOLEAN : Decided(tx, ok)
    BY <2>1, DecidedMatches
  <2>2. CASE \E i \in Attempt : AnchorNext(i)
    BY <2>2, OthersMatch
  <2>3. CASE RateMoves \/ (\E u \in User : OtherTx(u)) \/ \E tx \in pool : TimedOut(tx)
    <3>1. anchorTx' = anchorTx
      BY <2>3 DEF RateMoves, OtherTx, TimedOut, anchorVars
    <3> QED
      BY <3>1, UnmovedMatches
  <2> QED
    BY <1>2, <2>1, <2>2, <2>3 DEF Environment
<1>3. CASE \E i \in Attempt : CallFails(i) \/ RampNext(i)
  <2>1. PICK i \in Attempt : CallFails(i) \/ RampNext(i)
    BY <1>3
  <2>2. CASE CallFails(i) \/ MockStep(i)
    <3>1. anchorTx' = anchorTx
      BY <2>2 DEF CallFails, MockStep, anchorVars
    <3> QED
      BY <3>1, UnmovedMatches
  <2>3. CASE MockDone(i)
    BY <2>3, OthersMatch
  <2>4. CASE mode = "chain" /\ ChainNext(i)
    BY <2>4, ChainMatches
  <2> QED
    BY <2>1, <2>2, <2>3, <2>4 DEF RampNext
<1> QED
  BY <1>1, <1>2, <1>3 DEF DialogNext

\* However a payment got on its way, by whatever attempt, answered or given up, submitted
\* before or after another: the money the anchor takes for a transaction is the first it
\* gets for it, the amount it was opened for, and before it paid out anything.
THEOREM EveryPaymentMatches == DialogSpec => PaymentsMatch
<1>1. RampInv /\ [DialogNext]_dialogVars =>
        [\A i \in Attempt :
           anchorTx'[i].got > anchorTx[i].got
           => /\ anchorTx[i].got = 0 /\ anchorTx[i].gave = 0
              /\ anchorTx'[i].got = anchorTx[i].sell
              /\ anchorTx[i].status \in {"pending_user_transfer_start", "expired"}]_dialogVars
  BY StepMatches DEF Matched
<1> QED
  BY <1>1, RampInvariance, PTL DEF DialogSpec, PaymentsMatch

=============================================================================
