------------------------- MODULE SupervisionProofs -------------------------
(***************************************************************************)
(* Proofs about the task of one actor, for every restart policy, limit,    *)
(* window, mailbox capacity and set of messages.  TaskInv is the inductive *)
(* invariant behind RestartsBounded and NoMessageLost.                     *)
(***************************************************************************)
EXTENDS Supervision, FiniteSetTheorems, SequenceTheorems, TLAPS

\* Until the task ends the list that the loop prunes is the list of the
\* restarts it has granted; without a window the loop's count is at least that.
RestartInv ==
    /\ Windowed /\ ~Ended => timestamps = granted
    /\ ~Windowed => Len(granted) <= restarts
    /\ RestartsBounded

\* A message is in one place, and its sender waits while it is there.
MailInv ==
    /\ ~Ended => handled \o mailbox = accepted
    /\ Ended => mailbox = <<>> /\ current = <<>>
    /\ phase = "handling" <=> current # <<>>
    /\ \A m \in Messages : current = <<m>> => outcome[m] = "queued"
    /\ \A i \in 1..Len(mailbox) : outcome[mailbox[i]] = "queued" /\ current # <<mailbox[i]>>
    /\ \A i, j \in 1..Len(mailbox) : mailbox[i] = mailbox[j] => i = j
    /\ \A m \in Messages : outcome[m] = "queued" =>
          current = <<m>> \/ \E i \in 1..Len(mailbox) : mailbox[i] = m

TaskInv == TypeOK /\ RestartInv /\ MailInv

-----------------------------------------------------------------------------
(* Lists of ages                                                           *)

\* Time makes no list of ages longer.
LEMMA AgesShrink ==
    ASSUME NEW s \in Seq(Nat), window \in Nat
    PROVE  Retained(Aged(s)) \in Seq(Nat) /\ Len(Retained(Aged(s))) <= Len(s)
<1> DEFINE a == Aged(s)
           n == Cardinality({i \in 1..Len(a) : a[i] > window})
<1>1. a \in Seq(Nat) /\ Len(a) = Len(s) /\ Len(s) \in Nat
  BY DEF Aged
<1> HIDE DEF a
<1>2. n \in Nat
  <2>1. IsFiniteSet(1..Len(a)) 
    BY <1>1, FS_Interval
  <2>2. IsFiniteSet({i \in 1..Len(a) : a[i] > window})
    BY <2>1, FS_Subset
  <2>3. QED
    BY <2>2, FS_CardinalityType
<1> HIDE DEF n
<1>3. \A i \in n + 1 .. Len(a) : a[i] \in Nat
  BY <1>1, <1>2
<1>4. /\ SubSeq(a, n + 1, Len(a)) \in Seq(Nat)
      /\ Len(SubSeq(a, n + 1, Len(a))) = IF n + 1 <= Len(a) THEN Len(a) - (n + 1) + 1 ELSE 0
  BY <1>1, <1>2, <1>3, SubSeqProperties
<1>5. Retained(a) = SubSeq(a, n + 1, Len(a))
  BY DEF Retained, n
<1>6. QED
  BY <1>1, <1>2, <1>4, <1>5 DEF a

-----------------------------------------------------------------------------
(* The steps                                                               *)

\* Counting a restart.
LEMMA CountedIs ==
    ASSUME TypeOK
    PROVE  /\ Counted \in 0..(MaxRestarts + AttemptCap + 1) /\ Counted >= restarts
           /\ restarts + 1 <= MaxRestarts => Counted = restarts + 1
  BY SupervisionAssumption DEF TypeOK, Counted

Apart == {"handling", "done", "crashed"}

\* A step that leaves the mail alone and is neither at a message nor the end.
LEMMA MailKept ==
    ASSUME TaskInv, UNCHANGED mail,
           phase' = phase \/ (phase \notin Apart /\ phase' \notin Apart)
    PROVE  MailInv'
<1>1. (Ended' <=> Ended) /\ (phase' = "handling" <=> phase = "handling")
  BY DEF Ended, Apart
<1>2. UNCHANGED <<mailbox, current, outcome, accepted, handled>>
  BY DEF mail
<1>3. QED
  BY <1>1, <1>2 DEF TaskInv, MailInv

\* Steps from one await of the loop to the next, with nothing but the phase.
LEMMA QuietPreserves ==
    ASSUME TaskInv, Cancel \/ CreateOk \/ StartOk \/ StartErr \/ CancelSeen \/ StopHook \/ Wake
    PROVE  TaskInv'
<1>1. /\ UNCHANGED <<window, mail>> /\ UNCHANGED <<restarts, timestamps, granted>>
      /\ phase' = phase \/ (phase \notin Apart /\ phase' \notin Apart)
      /\ phase' \in Phases /\ reason' \in {"none", "Failed", "SystemShutdown"}
      /\ cancelled' \in BOOLEAN /\ stop_hook' \in BOOLEAN
  BY DEF Cancel, CreateOk, StartOk, StartErr, CancelSeen, StopHook, Wake, TaskInv, TypeOK, spec, Phases, Apart
<1>2. MailInv'
  BY <1>1, MailKept
<1>3. TypeOK'
  BY <1>1 DEF TaskInv, TypeOK, mail
<1>4. Ended' <=> Ended
  BY <1>1 DEF Ended, Apart
<1>5. RestartInv'
  BY <1>1, <1>4 DEF TaskInv, RestartInv, RestartsBounded, Windowed
<1>6. QED
  BY <1>2, <1>3, <1>5 DEF TaskInv

\* Time passes for the loop's list and for the history alike.
LEMMA TickPreserves ==
    ASSUME TaskInv, Tick
    PROVE  TaskInv'
<1>1. /\ UNCHANGED <<window, phase, reason, restarts, cancelled, mail, stop_hook>>
      /\ timestamps' = Retained(Aged(timestamps)) /\ ~Ended
      /\ granted' = IF Windowed THEN Retained(Aged(granted)) ELSE granted
  BY DEF Tick
<1>2. /\ window \in Nat /\ timestamps \in Seq(Nat) /\ granted \in Seq(Nat)
      /\ Len(granted) \in Nat /\ restarts \in Nat /\ MaxRestarts \in Nat
  BY SupervisionAssumption DEF TaskInv, TypeOK
<1>3. /\ timestamps' \in Seq(Nat) /\ granted' \in Seq(Nat) /\ Len(granted') <= Len(granted)
      /\ Len(granted') \in Nat
  <2>1. Retained(Aged(timestamps)) \in Seq(Nat)
    BY <1>2, AgesShrink
  <2>2. Retained(Aged(granted)) \in Seq(Nat) /\ Len(Retained(Aged(granted))) <= Len(granted)
    BY <1>2, AgesShrink
  <2>3. granted' \in Seq(Nat) /\ Len(granted') <= Len(granted)
    BY <1>1, <1>2, <2>2
  <2>4. QED
    BY <1>1, <2>1, <2>3
<1>4. TypeOK'
  BY <1>1, <1>3 DEF TaskInv, TypeOK, mail
<1>5. MailInv'
  BY <1>1, MailKept
<1>6. RestartInv'
  <2>1. Windowed /\ ~Ended => timestamps' = granted'
    BY <1>1 DEF TaskInv, RestartInv
  <2>2. ~Windowed => granted' = granted
    BY <1>1
  <2>3. Len(granted') <= MaxRestarts
    BY <1>2, <1>3 DEF TaskInv, RestartInv, RestartsBounded
  <2>4. Windowed' = Windowed /\ Ended' = Ended /\ restarts' = restarts
    BY <1>1 DEF Windowed, Ended
  <2>5. QED
    BY <2>1, <2>2, <2>3, <2>4 DEF TaskInv, RestartInv, RestartsBounded
<1>7. QED
  BY <1>4, <1>5, <1>6 DEF TaskInv

\* A restart that is granted was counted with the ones in the window.
LEMMA RestartPreserves ==
    ASSUME TaskInv, Restart
    PROVE  TaskInv'
<1>1. /\ phase = "deciding" /\ phase' = "backoff" /\ ~LimitExceeded /\ restarts' = Counted
      /\ timestamps' = IF Windowed THEN Append(timestamps, 0) ELSE timestamps
      /\ granted' = Append(granted, 0)
      /\ UNCHANGED <<window, reason, cancelled, mail, stop_hook>>
  BY DEF Restart
<1>2. /\ timestamps \in Seq(Nat) /\ granted \in Seq(Nat) /\ Len(granted) \in Nat
      /\ Len(timestamps) \in Nat /\ restarts \in Nat /\ MaxRestarts \in Nat
  BY SupervisionAssumption DEF TaskInv, TypeOK
<1>3. /\ granted' \in Seq(Nat) /\ Len(granted') = Len(granted) + 1
      /\ timestamps' \in Seq(Nat)
  BY <1>1, <1>2
<1>4. /\ restarts' \in 0..(MaxRestarts + AttemptCap + 1)
      /\ restarts + 1 <= MaxRestarts => restarts' = restarts + 1
  BY <1>1, CountedIs DEF TaskInv
<1>5. TypeOK'
  <2>1. phase' \in Phases
    BY <1>1 DEF Phases
  <2>2. UNCHANGED <<window, reason, cancelled, stop_hook, mailbox, current, outcome, accepted, handled>>
    BY <1>1 DEF mail
  <2>3. restarts' \in 0..(MaxRestarts + AttemptCap + 1)
    BY <1>4
  <2>4. QED
    BY <1>3, <2>1, <2>2, <2>3, Zenon DEF TaskInv, TypeOK
<1>6. MailInv'
  <2>1. phase \notin Apart /\ phase' \notin Apart
    BY <1>1 DEF Apart
  <2>2. QED
    BY <1>1, <2>1, MailKept
<1>7. RestartInv'
  <2>1. ~Ended /\ ~Ended' /\ Windowed' = Windowed
    BY <1>1 DEF Ended, Windowed
  <2>2. CASE Windowed
    <3>1. timestamps = granted /\ Len(timestamps) + 1 <= MaxRestarts
      BY <1>1, <1>2, <2>1, <2>2 DEF TaskInv, RestartInv, LimitExceeded
    <3>2. QED
      BY <1>1, <1>2, <1>3, <2>1, <2>2, <3>1 DEF RestartInv, RestartsBounded
  <2>3. CASE ~Windowed
    <3>1. Len(granted) <= restarts /\ restarts + 1 <= MaxRestarts
      BY <1>1, <1>2, <2>3 DEF TaskInv, RestartInv, LimitExceeded
    <3>2. restarts' = restarts + 1
      BY <1>4, <3>1
    <3>3. QED
      BY <1>2, <1>3, <2>1, <2>3, <3>1, <3>2 DEF RestartInv, RestartsBounded
  <2>4. QED
    BY <2>2, <2>3
<1>8. QED
  BY <1>5, <1>6, <1>7 DEF TaskInv

\* The end of the task: every sender that waits loses its responder.
LEMMA EndPreserves ==
    ASSUME TaskInv, CreateErr \/ GiveUp \/ Panic
    PROVE  TaskInv'
<1>1. /\ phase' \in {"done", "crashed"} /\ mailbox' = <<>> /\ current' = <<>>
      /\ outcome' = [m \in Messages |-> IF outcome[m] = "queued" THEN "dropped" ELSE outcome[m]]
      /\ reason' \in {"none", "Failed", "SystemShutdown"}
      /\ UNCHANGED <<window, granted, cancelled, accepted, handled, stop_hook>>
  BY DEF CreateErr, GiveUp, Panic, End, TaskInv, TypeOK, spec
<1>2. /\ restarts' = restarts \/ restarts' = Counted
      /\ timestamps' = timestamps \/ timestamps' = Append(timestamps, 0)
  BY DEF CreateErr, GiveUp, Panic, spec
<1>3. /\ timestamps \in Seq(Nat) /\ granted \in Seq(Nat) /\ Len(granted) \in Nat
      /\ restarts \in 0..(MaxRestarts + AttemptCap + 1) /\ MaxRestarts \in Nat /\ AttemptCap \in Nat
      /\ outcome \in [Messages -> {"unsent", "queued", "ok", "err", "dropped"}]
      /\ Capacity \in Nat
  BY SupervisionAssumption DEF TaskInv, TypeOK
<1>4. restarts' \in 0..(MaxRestarts + AttemptCap + 1) /\ restarts' >= restarts
  BY <1>2, <1>3, CountedIs DEF TaskInv
<1>5. timestamps' \in Seq(Nat)
  <2>1. Append(timestamps, 0) \in Seq(Nat)
    BY <1>3
  <2>2. QED
    BY <1>2, <1>3, <2>1
<1>6. /\ mailbox' \in Seq(Messages) /\ Len(mailbox') = 0
      /\ outcome' \in [Messages -> {"unsent", "queued", "ok", "err", "dropped"}]
      /\ \A m \in Messages : outcome'[m] # "queued"
  <2>1. <<>> \in Seq(Messages) /\ Len(<<>>) = 0
    OBVIOUS
  <2>2. QED
    BY <1>1, <1>3, <2>1
<1>7. TypeOK'
  BY <1>1, <1>3, <1>4, <1>5, <1>6 DEF TaskInv, TypeOK, Phases
<1>8. RestartInv'
  BY <1>1, <1>3, <1>4 DEF TaskInv, RestartInv, RestartsBounded, Ended, Windowed
<1>9. MailInv'
  BY <1>1, <1>6 DEF MailInv, Ended
<1>10. QED
  BY <1>7, <1>8, <1>9 DEF TaskInv

\* A message comes to the mailbox.
LEMMA SendPreserves ==
    ASSUME TaskInv, NEW m \in Messages, Send(m)
    PROVE  TaskInv'
<1>1. /\ ~Ended /\ outcome[m] = "unsent" /\ Len(mailbox) < Capacity
      /\ mailbox' = Append(mailbox, m) /\ accepted' = Append(accepted, m)
      /\ outcome' = [outcome EXCEPT ![m] = "queued"]
      /\ UNCHANGED <<window, phase, reason, cancelled, current, handled, stop_hook>>
      /\ UNCHANGED <<restarts, timestamps, granted>>
  BY DEF Send, spec
<1>2. /\ mailbox \in Seq(Messages) /\ accepted \in Seq(Messages) /\ handled \in Seq(Messages)
      /\ outcome \in [Messages -> {"unsent", "queued", "ok", "err", "dropped"}]
      /\ Len(mailbox) \in Nat /\ Capacity \in Nat
      /\ current \in {<<>>} \cup {<<x>> : x \in Messages}
  BY SupervisionAssumption DEF TaskInv, TypeOK
<1>3. /\ mailbox' \in Seq(Messages) /\ Len(mailbox') = Len(mailbox) + 1
      /\ \A i \in 1..Len(mailbox) : mailbox'[i] = mailbox[i] /\ mailbox[i] \in Messages
      /\ mailbox'[Len(mailbox) + 1] = m
  BY <1>1, <1>2
<1>4. /\ outcome' \in [Messages -> {"unsent", "queued", "ok", "err", "dropped"}]
      /\ outcome'[m] = "queued" /\ \A x \in Messages : x # m => outcome'[x] = outcome[x]
  BY <1>1, <1>2
<1>5. accepted' \in Seq(Messages)
  BY <1>1, <1>2
<1>6. TypeOK'
  BY <1>1, <1>2, <1>3, <1>4, <1>5 DEF TaskInv, TypeOK
<1>7. RestartInv'
  BY <1>1 DEF TaskInv, RestartInv, RestartsBounded, Windowed, Ended
<1>8. MailInv'
  <2>1. handled' \o mailbox' = accepted'
    <3>1. handled \o mailbox = accepted
      BY <1>1 DEF TaskInv, MailInv
    <3>2. handled \o Append(mailbox, m) = Append(handled \o mailbox, m)
      BY <1>2
    <3>3. QED
      BY <1>1, <3>1, <3>2
  <2>2. \A i \in 1..Len(mailbox) : mailbox[i] # m
    BY <1>1, <1>3 DEF TaskInv, MailInv
  <2>3. current # <<m>>
    <3>1. SUFFICES ASSUME current = <<m>> PROVE FALSE
      OBVIOUS
    <3>2. QED
      BY <1>1, <3>1 DEF TaskInv, MailInv
  <2>4. QED
    BY <1>1, <1>3, <1>4, <2>1, <2>2, <2>3 DEF TaskInv, MailInv, Ended
<1>9. QED
  BY <1>6, <1>7, <1>8 DEF TaskInv

\* A message goes from the mailbox to the handler.
LEMMA ReceivePreserves ==
    ASSUME TaskInv, Receive
    PROVE  TaskInv'
<1> DEFINE m == Head(mailbox)
<1>1. /\ phase = "running" /\ phase' = "handling" /\ mailbox # <<>> /\ current' = <<m>>
      /\ mailbox' = Tail(mailbox) /\ handled' = Append(handled, m)
      /\ UNCHANGED <<window, reason, cancelled, outcome, accepted, stop_hook>>
      /\ UNCHANGED <<restarts, timestamps, granted>>
  BY DEF Receive, spec
<1>2. /\ mailbox \in Seq(Messages) /\ accepted \in Seq(Messages) /\ handled \in Seq(Messages)
      /\ outcome \in [Messages -> {"unsent", "queued", "ok", "err", "dropped"}]
      /\ Len(mailbox) \in Nat /\ Capacity \in Nat /\ Len(mailbox) <= Capacity
  BY SupervisionAssumption DEF TaskInv, TypeOK
<1>3. /\ m \in Messages /\ m = mailbox[1] /\ Len(mailbox) > 0 /\ mailbox' \in Seq(Messages)
      /\ Len(mailbox') = Len(mailbox) - 1
      /\ \A i \in 1..Len(mailbox') : mailbox'[i] = mailbox[i + 1]
  BY <1>1, <1>2, HeadTailProperties
<1> HIDE DEF m
<1>4. handled' \in Seq(Messages)
  BY <1>1, <1>2, <1>3
<1>5. TypeOK'
  BY <1>1, <1>2, <1>3, <1>4 DEF TaskInv, TypeOK, Phases
<1>6. RestartInv'
  BY <1>1 DEF TaskInv, RestartInv, RestartsBounded, Windowed, Ended
<1>7. MailInv'
  <2>1. ~Ended /\ ~Ended' /\ current = <<>>
    BY <1>1 DEF Ended, TaskInv, MailInv
  <2>2. handled' \o mailbox' = accepted'
    <3>1. handled \o mailbox = accepted
      BY <2>1 DEF TaskInv, MailInv
    <3>2. Append(handled, m) \o Tail(mailbox) = handled \o mailbox
      <4>1. <<m>> \in Seq(Messages) /\ Tail(mailbox) \in Seq(Messages)
        BY <1>1, <1>3
      <4>2. Append(handled, m) = handled \o <<m>>
        BY <1>2, <1>3, AppendIsConcat
      <4>3. (handled \o <<m>>) \o Tail(mailbox) = handled \o (<<m>> \o Tail(mailbox))
        BY <1>2, <4>1, ConcatAssociative
      <4>4. <<m>> \o Tail(mailbox) = mailbox
        <5> DEFINE t == Tail(mailbox)
                   s == <<m>> \o t
        <5>1. /\ t \in Seq(Messages) /\ Len(t) = Len(mailbox) - 1
              /\ \A i \in 1..Len(t) : t[i] = mailbox[i + 1]
          BY <1>1, <1>3
        <5> HIDE DEF t
        <5>2. Len(<<m>>) = 1 /\ <<m>>[1] = m
          OBVIOUS
        <5>3. /\ s \in Seq(Messages) /\ Len(s) = 1 + Len(t)
              /\ \A i \in 1 .. 1 + Len(t) : s[i] = IF i <= 1 THEN <<m>>[i] ELSE t[i - 1]
          BY <4>1, <5>1, <5>2, ConcatProperties
        <5> HIDE DEF s
        <5>4. Len(s) = Len(mailbox)
          BY <1>2, <5>1, <5>3
        <5>5. ASSUME NEW i \in 1..Len(s) PROVE s[i] = mailbox[i]
          <6>1. CASE i = 1
            BY <1>2, <1>3, <5>1, <5>2, <5>3, <5>4, <6>1
          <6>2. CASE i # 1
            <7>1. i - 1 \in 1..Len(t) /\ i \in 1 .. 1 + Len(t) /\ ~(i <= 1) /\ (i - 1) + 1 = i
              BY <1>2, <5>1, <5>3, <5>4, <6>2
            <7>2. s[i] = t[i - 1] /\ t[i - 1] = mailbox[(i - 1) + 1]
              BY <5>1, <5>3, <7>1
            <7>3. QED
              BY <7>1, <7>2
          <6>3. QED
            BY <6>1, <6>2
        <5>6. s = mailbox
          BY <1>2, <5>3, <5>4, <5>5, SeqEqual
        <5>7. QED
          BY <5>6 DEF s, t
      <4>5. QED
        BY <4>2, <4>3, <4>4
    <3>3. QED
      BY <1>1, <3>1, <3>2
  <2>3. \A i \in 1..Len(mailbox') : outcome[mailbox'[i]] = "queued" /\ mailbox'[i] # m
    <3>1. ASSUME NEW i \in 1..Len(mailbox')
          PROVE  outcome[mailbox'[i]] = "queued" /\ mailbox'[i] # m
      <4>1. /\ i + 1 \in 1..Len(mailbox) /\ 1 \in 1..Len(mailbox) /\ i + 1 # 1
            /\ mailbox'[i] = mailbox[i + 1] /\ m = mailbox[1]
        BY <1>2, <1>3, <3>1
      <4>2. outcome[mailbox[i + 1]] = "queued"
        BY <4>1 DEF TaskInv, MailInv
      <4>3. mailbox[i + 1] # mailbox[1]
        BY <4>1 DEF TaskInv, MailInv
      <4>4. QED
        BY <4>1, <4>2, <4>3
    <3>2. QED
      BY <3>1
  <2>4. \A i, j \in 1..Len(mailbox') : mailbox'[i] = mailbox'[j] => i = j
    <3>1. ASSUME NEW i \in 1..Len(mailbox'), NEW j \in 1..Len(mailbox'), mailbox'[i] = mailbox'[j]
          PROVE  i = j
      <4>1. i + 1 \in 1..Len(mailbox) /\ j + 1 \in 1..Len(mailbox) /\ mailbox[i + 1] = mailbox[j + 1]
        BY <1>2, <1>3, <3>1
      <4>2. i + 1 = j + 1
        BY <4>1 DEF TaskInv, MailInv
      <4>3. QED
        BY <4>2
    <3>2. QED
      BY <3>1
  <2>5. ASSUME NEW x \in Messages, outcome[x] = "queued"
        PROVE  x = m \/ \E i \in 1..Len(mailbox') : mailbox'[i] = x
    <3>1. PICK i \in 1..Len(mailbox) : mailbox[i] = x
      BY <2>1, <2>5 DEF TaskInv, MailInv
    <3>2. CASE i = 1
      BY <1>3, <3>1, <3>2
    <3>3. CASE i # 1
      <4>1. i - 1 \in 1..Len(mailbox') /\ mailbox'[i - 1] = x
        BY <1>2, <1>3, <3>1, <3>3
      <4>2. QED
        BY <4>1
    <3>4. QED
      BY <3>2, <3>3
  <2>6. outcome[m] = "queued"
    BY <1>2, <1>3 DEF TaskInv, MailInv
  <2>7. /\ \A x \in Messages : current' = <<x>> => x = m
        /\ \A i \in 1..Len(mailbox') : current' # <<mailbox'[i]>>
        /\ current' # <<>>
    BY <1>1, <2>3
  <2>8. QED
    BY <1>1, <2>1, <2>2, <2>3, <2>4, <2>5, <2>6, <2>7 DEF MailInv
<1>8. QED
  BY <1>5, <1>6, <1>7 DEF TaskInv

\* The handler's result goes to the sender.
LEMMA AnswerPreserves ==
    ASSUME TaskInv, NEW result \in {"ok", "err"}, Answer(result)
    PROVE  TaskInv'
<1>1. /\ phase = "handling" /\ phase' = "running" /\ current' = <<>>
      /\ outcome' = [outcome EXCEPT ![current[1]] = result]
      /\ UNCHANGED <<window, reason, cancelled, mailbox, accepted, handled, stop_hook>>
      /\ UNCHANGED <<restarts, timestamps, granted>>
  BY DEF Answer, spec
<1>2. /\ mailbox \in Seq(Messages) /\ Len(mailbox) \in Nat
      /\ outcome \in [Messages -> {"unsent", "queued", "ok", "err", "dropped"}]
  BY DEF TaskInv, TypeOK
<1>3. PICK m \in Messages : current = <<m>>
  BY <1>1 DEF TaskInv, TypeOK, MailInv
<1>4. /\ outcome' \in [Messages -> {"unsent", "queued", "ok", "err", "dropped"}]
      /\ outcome'[m] = result /\ \A x \in Messages : x # m => outcome'[x] = outcome[x]
  BY <1>1, <1>2, <1>3
<1>5. TypeOK'
  BY <1>1, <1>4 DEF TaskInv, TypeOK, Phases
<1>6. RestartInv'
  BY <1>1 DEF TaskInv, RestartInv, RestartsBounded, Windowed, Ended
<1>7. \A i \in 1..Len(mailbox) : mailbox[i] \in Messages /\ mailbox[i] # m
  BY <1>2, <1>3 DEF TaskInv, MailInv
<1>8. MailInv'
  <2>1. ~Ended /\ ~Ended'
    BY <1>1 DEF Ended
  <2>2. \A x \in Messages : outcome'[x] = "queued" => \E i \in 1..Len(mailbox) : mailbox[i] = x
    <3>1. ASSUME NEW x \in Messages, outcome'[x] = "queued"
          PROVE  \E i \in 1..Len(mailbox) : mailbox[i] = x
      <4>1. x # m /\ outcome[x] = "queued"
        BY <1>4, <3>1
      <4>2. current # <<x>>
        BY <1>3, <4>1
      <4>3. QED
        BY <4>1, <4>2 DEF TaskInv, MailInv
    <3>2. QED
      BY <3>1
  <2>3. \A i \in 1..Len(mailbox) : outcome'[mailbox[i]] = "queued"
    BY <1>4, <1>7 DEF TaskInv, MailInv
  <2>4. QED
    BY <1>1, <2>1, <2>2, <2>3 DEF TaskInv, MailInv
<1>9. QED
  BY <1>5, <1>6, <1>8 DEF TaskInv

-----------------------------------------------------------------------------
(* The theorems                                                            *)

LEMMA InitHolds == Init => TaskInv
<1> SUFFICES ASSUME Init PROVE TaskInv
  OBVIOUS
<1>1. <<>> \in Seq(Messages) /\ <<>> \in Seq(Nat) /\ Len(<<>>) = 0
  OBVIOUS
<1>2. TypeOK
  <2>1. restarts \in 0..(MaxRestarts + AttemptCap + 1)
    BY SupervisionAssumption DEF Init
  <2>2. mailbox \in Seq(Messages) /\ Len(mailbox) <= Capacity
    <3>1. 0 <= Capacity
      BY SupervisionAssumption
    <3>2. QED
      BY <1>1, <3>1 DEF Init
  <2>3. outcome \in [Messages -> {"unsent", "queued", "ok", "err", "dropped"}]
    BY DEF Init
  <2>4. QED
    BY <1>1, <2>1, <2>2, <2>3 DEF Init, TypeOK, Phases
<1>3. RestartInv
  BY <1>1, SupervisionAssumption DEF Init, RestartInv, RestartsBounded
<1>4. MailInv
  <2>1. <<>> \o <<>> = <<>>
    BY <1>1, ConcatEmptySeq
  <2>2. QED
    BY <1>1, <2>1 DEF Init, MailInv, Ended
<1>5. QED
  BY <1>2, <1>3, <1>4 DEF TaskInv

LEMMA NextHolds == TaskInv /\ [Next]_vars => TaskInv'
<1> SUFFICES ASSUME TaskInv, [Next]_vars PROVE TaskInv'
  OBVIOUS
<1>1. CASE \E m \in Messages : Send(m)
  BY <1>1, SendPreserves
<1>2. CASE Tick
  BY <1>2, TickPreserves
<1>3. CASE Cancel \/ Task
  BY <1>3, QuietPreserves, EndPreserves, ReceivePreserves, AnswerPreserves, RestartPreserves
  DEF Task
<1>4. CASE UNCHANGED vars
  <2>1. UNCHANGED mail /\ phase' = phase
    BY <1>4 DEF vars, mail
  <2>2. MailInv'
    BY <2>1, MailKept
  <2>3. TypeOK' /\ RestartInv'
    BY <1>4 DEF vars, TaskInv, TypeOK, RestartInv, RestartsBounded, Windowed, Ended
  <2>4. QED
    BY <2>2, <2>3 DEF TaskInv
<1>5. QED
  BY <1>1, <1>2, <1>3, <1>4 DEF Next

\* The inductive invariant of an actor's task (runtime.rs).
THEOREM TaskCorrect == Spec => []TaskInv
  BY InitHolds, NextHolds, PTL DEF Spec

\* The parts of the task keep their types, and the mailbox its capacity.
THEOREM TaskTypes == Spec => []TypeOK
<1>1. TaskInv => TypeOK
  BY DEF TaskInv
<1>2. QED
  BY <1>1, TaskCorrect, PTL

\* No more than max_restarts restarts are granted in any window, or ever
\* (run_supervision_loop).
THEOREM RestartsAreBounded == Spec => []RestartsBounded
<1>1. TaskInv => RestartsBounded
  BY DEF TaskInv, RestartInv
<1>2. QED
  BY <1>1, TaskCorrect, PTL

\* No message is lost or reordered by restarts, and nobody waits for one that is
\* neither queued nor in hand (the mailbox outlives the instances).
THEOREM NoMessageIsLost == Spec => []NoMessageLost
<1>1. TaskInv => NoMessageLost
  BY DEF TaskInv, MailInv, NoMessageLost
<1>2. QED
  BY <1>1, TaskCorrect, PTL
=============================================================================
