--------------------------- MODULE ReplayRunProofs ---------------------------
(***************************************************************************)
(* One batch at a time, and nothing sent that must not be: the guards of   *)
(* prepareReplayBatch, the flags of the runtime and the ends of            *)
(* runReplayBatch, for any number of batches, steps and stops, and whatever*)
(* the agent answers.  Then what the table and the report say of a step,   *)
(* and that no replay is recorded, from what the two channels can hold     *)
(* while one call runs.                                                    *)
(***************************************************************************)
EXTENDS ReplayRun, FiniteSetTheorems, SequenceTheorems, TLAPS

\* What a checkpoint removes, and the call that has removed it or failed to.
Cleared(b, gone) ==
    table' = [s \in Steps |-> IF s \in gone THEN [is |-> "gone", by |-> b, true |-> TRUE] ELSE table[s]]
Left(q, gone) == [q EXCEPT !.skipped = @ \cup gone]
Broken(q, gone) == Ends([Left(q, gone) EXCEPT !.failed = Steps, !.passed = 0], "error")

LEMMA ScanIs ==
    ASSUME NEW b \in Batches, Scan(b)
    PROVE  /\ batch[b].pc = "scan"
           /\ \/ /\ Set(b, Forth(Misses(batch[b]))) /\ Marks(b, batch[b].i, "rejected")
                 /\ UNCHANGED <<flags, toAgent>>
              \/ /\ batch[b].res = "same" /\ Set(b, Passes(batch[b])) /\ Marks(b, batch[b].i, "confirmed")
                 /\ UNCHANGED <<flags, toAgent>>
              \/ /\ batch[b].res = "added" /\ Set(b, AskLog(batch[b], "heal"))
                 /\ Ask("log", Menu, NoBatch) /\ UNCHANGED <<flags, table>>
              \/ \E gone \in SUBSET Fills :
                    /\ Cleared(b, gone)
                    /\ \/ /\ batch[b].res = "missing" /\ Set(b, [Left(batch[b], gone) EXCEPT !.pc = "filled"])
                          /\ UNCHANGED <<flags, toAgent>>
                       \/ /\ batch[b].res = "both" /\ Set(b, AskLog(Left(batch[b], gone), "heal"))
                          /\ Ask("log", Menu, NoBatch) /\ UNCHANGED flags
                       \/ /\ "db" \in hap /\ Set(b, Broken(batch[b], gone))
                          /\ flags' = Free /\ UNCHANGED toAgent
  BY DEF Scan, Cleared, Left, Broken

\* Where a call waits for something it has sent to the agent.
Sent == {"wait", "retryWait", "healWait"}

\* What the induction needs of a call: the fields that are compared, and a
\* continuation that neither begins nor ends a batch nor sends.
Call(r) ==
    /\ {"pc", "then", "stopped", "skipped"} \subseteq DOMAIN r
    /\ r.then \notin {"idle", "over"} \cup Sent
    /\ r.stopped \in BOOLEAN

\* What is true of the flags and the calls where batches do not overlap.
RunsApart ==
    /\ flags \in [abort : BOOLEAN, suppress : BOOLEAN, busy : BOOLEAN]
    /\ DOMAIN batch = Batches /\ \A b \in Batches : Call(batch[b])
    /\ \A b, c \in Batches : Running(b) /\ Running(c) => b = c
    /\ flags.suppress = TRUE <=> \E b \in Batches : Running(b)
    /\ flags.busy = TRUE => \E b \in Batches : Running(b)
    /\ \A b \in Batches : Running(b) => flags.busy = TRUE \/ "recordStop" \in hap
    /\ "again" \notin hap => \A b \in Batches : b > 1 => batch[b].pc = "idle"

\* A batch that was stopped runs under the abort flag until it is over.
StopsHeld ==
    \A b \in Batches : batch[b].stopped = TRUE =>
        batch[b].pc # "idle" /\ (Running(b) => flags.abort = TRUE)

\* A batch skips the steps it has removed.
GoneSkipped ==
    /\ DOMAIN table = Steps
    /\ \A b \in Batches, s \in Steps :
          table[s].is = "gone" /\ table[s].by = b => s \in batch[b].skipped

RunsInv == RunsApart /\ StopsHeld /\ GoneSkipped
RunInv == Apart => RunsInv

\* The beginning: no call, no flag, nothing removed.
LEMMA InitRuns == Init => RunInv
  <1> SUFFICES ASSUME Init PROVE RunsInv
    BY DEF RunInv
  <1>1. flags = Free /\ batch = [b \in Batches |-> Fresh]
    BY DEF Init
  <1>2. \A b \in Batches : Call(batch[b]) /\ ~Running(b) /\ batch[b].pc = "idle" /\ batch[b].stopped = FALSE
    BY <1>1 DEF Call, Sent, Fresh, Running, None
  <1>3. RunsApart
    BY <1>1, <1>2 DEF RunsApart, Free
  <1>4. table = [s \in Steps |-> [is |-> "untouched", by |-> NoBatch, true |-> TRUE]]
    BY DEF Init
  <1>5. DOMAIN table = Steps /\ \A s \in Steps : table[s].is # "gone"
    BY <1>4
  <1> QED
    BY <1>2, <1>3, <1>5 DEF RunsInv, StopsHeld, GoneSkipped

-----------------------------------------------------------------------------

\* r is q further on.
Follows(q, r) == Call(r) /\ r.stopped = q.stopped /\ r.skipped = q.skipped

\* The ways a call goes on.
LEMMA Continuations ==
    ASSUME NEW q, NEW r, Follows(q, r)
    PROVE  /\ \A pc : Follows(q, [r EXCEPT !.pc = pc]) /\ [r EXCEPT !.pc = pc].pc = pc
           /\ Follows(q, Forth(r)) /\ Forth(r).pc = "loop"
           /\ \A end : Follows(q, Ends(r, end)) /\ Ends(r, end).pc = "over"
           /\ \A then : then \notin {"idle", "over"} \cup Sent =>
                 Follows(q, AskLog(r, then)) /\ AskLog(r, then).pc = "logWait"
           /\ Follows(q, Passes(r)) /\ Passes(r).pc = "loop"
           /\ Follows(q, Misses(r)) /\ Misses(r).pc = r.pc
           /\ \A some : Follows(q, [r EXCEPT !.failed = some])
  BY DEF Follows, Call, Forth, Ends, AskLog, Passes, Misses, None, Sent

\* A step of one batch: it goes on or ends, sends nothing under the abort flag,
\* and no step it skips.
Moves(b, r) ==
    /\ Running(b)
    /\ batch' = [batch EXCEPT ![b] = r]
    /\ Call(r) /\ r.pc # "idle" /\ r.stopped = batch[b].stopped
    /\ batch[b].skipped \subseteq r.skipped
    /\ r.pc \in Sent => flags.abort # TRUE
    /\ r.pc = "wait" => batch[b].i \in Steps /\ batch[b].i \notin batch[b].skipped
    /\ \/ r.pc # "over" /\ UNCHANGED flags
       \/ r.pc = "over" /\ flags' = Free

\* A call that sends nothing.
LEMMA GoesOn ==
    ASSUME UNCHANGED flags, NEW b \in Batches, Running(b), NEW r, Follows(batch[b], r),
           r.pc \notin {"idle", "over"} \cup Sent, Set(b, r)
    PROVE  Moves(b, r)
  BY DEF Moves, Set, Follows, Sent

LEMMA Turns ==
    ASSUME UNCHANGED flags, NEW b \in Batches, Running(b), Call(batch[b]), NEW pc,
           pc \notin {"idle", "over"},
           pc \in Sent => flags.abort # TRUE,
           pc = "wait" => batch[b].i \in Steps /\ batch[b].i \notin batch[b].skipped,
           Goes(b, pc)
    PROVE  \E r : Moves(b, r)
  <1> DEFINE r == [batch[b] EXCEPT !.pc = pc]
  <1>1. Follows(batch[b], batch[b])
    BY DEF Follows
  <1>2. Follows(batch[b], r) /\ r.pc = pc
    BY <1>1, Continuations
  <1> HIDE DEF r
  <1>3. Moves(b, r)
    BY <1>2 DEF Moves, Goes, Set, Follows, r
  <1> QED
    BY <1>3

\* A call that is over: the finally of runReplayBatch.
LEMMA IsDone ==
    ASSUME NEW b \in Batches, Running(b), NEW q, Follows(batch[b], q), NEW end,
           Set(b, Ends(q, end)), flags' = Free
    PROVE  \E r : Moves(b, r)
  <1>1. Follows(batch[b], Ends(q, end)) /\ Ends(q, end).pc = "over"
    BY Continuations
  <1>2. Moves(b, Ends(q, end))
    BY <1>1 DEF Moves, Set, Follows, Sent
  <1> QED
    BY <1>2

LEMMA HasEnded ==
    ASSUME NEW b \in Batches, Running(b), Call(batch[b]), NEW end, NEW s,
           Over(b, end) \/ FailsWith(b, s)
    PROVE  \E r : Moves(b, r)
  <1> DEFINE q == [batch[b] EXCEPT !.failed = @ \cup {s}]
  <1>1. Follows(batch[b], batch[b])
    BY DEF Follows
  <1>2. Follows(batch[b], q)
    BY <1>1, Continuations
  <1>3. \/ Set(b, Ends(batch[b], end)) /\ flags' = Free
        \/ Set(b, Ends(q, "error")) /\ flags' = Free
    BY DEF Over, FailsWith
  <1> QED
    BY <1>1, <1>2, <1>3, IsDone

-----------------------------------------------------------------------------
\* Each step of a running batch is such a move.

\* The loop, the retries and the heals: replay-batch-runner.js and
\* replay-heal-shared.js.
LEMMA LoopStep ==
    ASSUME NEW b \in Batches, Call(batch[b]),
           Navigate(b) \/ Ended(b) \/ Skip(b) \/ Replay(b) \/ Retry(b) \/ Heal(b)
    PROVE  \E r : Moves(b, r)
  <1>1. Follows(batch[b], batch[b])
    BY DEF Follows
  <1>2. CASE Navigate(b)
    BY <1>2, Turns DEF Navigate, Running, Sent
  <1>3. CASE Ended(b)
    BY <1>3, HasEnded DEF Ended, Running
  <1>4. CASE Skip(b)
    <2>1. Follows(batch[b], Forth(batch[b])) /\ Forth(batch[b]).pc = "loop"
      BY <1>1, Continuations
    <2> QED
      BY <1>4, <2>1, GoesOn DEF Skip, Running, Sent
  <1>5. CASE Replay(b)
    BY <1>5, Turns DEF Replay, Running
  <1>6. CASE Retry(b)
    <2> DEFINE r == [batch[b] EXCEPT !.pc = "retryWait", !.tries = @ + 1]
    <2>1. Follows(batch[b], r) /\ r.pc = "retryWait"
      BY <1>1 DEF Follows, Call
    <2>2. Running(b) /\ UNCHANGED flags /\ (Goes(b, "heal") \/ (flags.abort # TRUE /\ Set(b, r)))
      BY <1>6 DEF Retry, Running
    <2>3. CASE Goes(b, "heal")
      BY <2>2, <2>3, Turns DEF Sent
    <2>4. CASE flags.abort # TRUE /\ Set(b, r)
      BY <2>1, <2>2, <2>4 DEF Moves, Set, Follows
    <2> QED
      BY <2>2, <2>3, <2>4
  <1>7. CASE Heal(b)
    BY <1>7, Turns, HasEnded DEF Heal, Running
  <1> QED
    BY <1>2, <1>3, <1>4, <1>5, <1>6, <1>7

LEMMA JudgeStep ==
    ASSUME NEW b \in Batches, Call(batch[b]), Judge(b)
    PROVE  \E r : Moves(b, r)
  <1> DEFINE q == batch[b]
  <1>1. Follows(q, q) /\ Running(b)
    BY DEF Follows, Judge, Running
  <1>2. Follows(q, Misses(q)) /\ Follows(q, Passes(q)) /\ Passes(q).pc = "loop"
    BY <1>1, Continuations
  <1>3. CASE Over(b, "aborted") \/ FailsWith(b, q.i)
    BY <1>1, <1>3, HasEnded
  <1>4. CASE Set(b, Passes(q)) /\ UNCHANGED flags
    BY <1>1, <1>2, <1>4, GoesOn DEF Sent
  <1>5. CASE Set(b, Forth(Misses(q))) /\ UNCHANGED flags
    <2>1. Follows(q, Forth(Misses(q))) /\ Forth(Misses(q)).pc = "loop"
      BY <1>2, Continuations
    <2> QED
      BY <1>1, <1>5, <2>1, GoesOn DEF Sent
  <1>6. ASSUME NEW pc \in {"retry", "heal"}, Set(b, [Misses(q) EXCEPT !.pc = pc]), UNCHANGED flags
        PROVE  \E r : Moves(b, r)
    <2> DEFINE m == Misses(q)
               r == [m EXCEPT !.pc = pc]
    <2> HIDE DEF q, m
    <2>1. Follows(q, r) /\ r.pc = pc
      BY <1>2 DEF Follows, Call, m
    <2>2. pc \notin {"idle", "over"} \cup Sent
      BY DEF Sent
    <2> HIDE DEF r
    <2> QED
      BY <1>1, <1>6, <2>1, <2>2, GoesOn DEF m, q, r
  <1> QED
    BY <1>3, <1>4, <1>5, <1>6 DEF Judge

LEMMA RetryJudgeStep ==
    ASSUME NEW b \in Batches, Call(batch[b]), RetryJudge(b)
    PROVE  \E r : Moves(b, r)
  <1> DEFINE q == [batch[b] EXCEPT !.failed = @ \ {batch[b].i}]
  <1>1. Running(b) /\ UNCHANGED flags /\ (Goes(b, "retry") \/ Set(b, Passes(q)))
    BY DEF RetryJudge, Running
  <1>2. Follows(batch[b], q)
    BY DEF Follows, Call
  <1>3. Follows(batch[b], Passes(q)) /\ Passes(q).pc = "loop"
    BY <1>2, Continuations
  <1> QED
    BY <1>1, <1>3, Turns, GoesOn DEF Sent

LEMMA HealEnd ==
    ASSUME NEW b \in Batches, Call(batch[b]), Healed(b) \/ HealFails(b)
    PROVE  \E r : Moves(b, r)
  <1>1. Follows(batch[b], batch[b]) /\ Running(b)
    BY DEF Follows, Healed, HealFails, Running
  <1>2. Follows(batch[b], Forth(batch[b])) /\ Forth(batch[b]).pc = "loop"
    BY <1>1, Continuations
  <1>3. \/ \E end : Over(b, end)
        \/ FailsWith(b, batch[b].i)
        \/ Set(b, Forth(batch[b])) /\ UNCHANGED flags
    BY DEF Healed, HealFails
  <1> QED
    BY <1>1, <1>2, <1>3, HasEnded, GoesOn DEF Sent

\* The checkpoints: form-structure-heal.js.
LEMMA CheckpointStep ==
    ASSUME NEW b \in Batches, Call(batch[b]), Scan(b) \/ Insert(b) \/ Filled(b)
    PROVE  \E r : Moves(b, r)
  <1> DEFINE q == batch[b]
  <1>1. Follows(q, q)
    BY DEF Follows
  <1>2. Running(b)
    BY DEF Scan, Insert, Filled, Running
  <1>3. CASE Scan(b)
    <2>1. Follows(q, Misses(q)) /\ Follows(q, Passes(q)) /\ Passes(q).pc = "loop"
      BY <1>1, Continuations
    <2>2. Follows(q, Forth(Misses(q))) /\ Forth(Misses(q)).pc = "loop"
      BY <2>1, Continuations
    <2>3. Follows(q, AskLog(q, "heal")) /\ AskLog(q, "heal").pc = "logWait"
      BY <1>1, Continuations DEF Sent
    <2>4. CASE UNCHANGED flags /\ Set(b, Forth(Misses(q)))
      BY <1>2, <2>2, <2>4, GoesOn DEF Sent
    <2>5. CASE UNCHANGED flags /\ Set(b, Passes(q))
      BY <1>2, <2>1, <2>5, GoesOn DEF Sent
    <2>6. CASE UNCHANGED flags /\ Set(b, AskLog(q, "heal"))
      BY <1>2, <2>3, <2>6, GoesOn DEF Sent
    <2>7. ASSUME NEW gone \in SUBSET Fills,
                 \/ Set(b, [Left(q, gone) EXCEPT !.pc = "filled"]) /\ UNCHANGED flags
                 \/ Set(b, AskLog(Left(q, gone), "heal")) /\ UNCHANGED flags
                 \/ Set(b, Broken(q, gone)) /\ flags' = Free
          PROVE  \E r : Moves(b, r)
      <3> DEFINE l == Left(q, gone)
                 p == [l EXCEPT !.pc = "filled"]
      <3>1. Call(l) /\ l.stopped = q.stopped /\ q.skipped \subseteq l.skipped
        BY DEF Call, Left
      <3> HIDE DEF l
      <3>2. Follows(l, p) /\ p.pc = "filled"
        BY <3>1 DEF Follows, Call
      <3>3. Follows(l, AskLog(l, "heal")) /\ AskLog(l, "heal").pc = "logWait"
        BY <3>1 DEF Follows, Call, AskLog, Sent
      <3>4. Follows(l, Broken(q, gone)) /\ Broken(q, gone).pc = "over"
        <4> DEFINE w == [l EXCEPT !.failed = Steps, !.passed = 0]
        <4>1. Follows(l, w)
          BY <3>1 DEF Follows, Call
        <4> HIDE DEF w
        <4>2. Broken(q, gone) = Ends(w, "error")
          BY DEF Broken, w, l
        <4> QED
          BY <4>1, <4>2, Continuations
      <3> HIDE DEF p
      <3>5. ASSUME NEW r, Follows(l, r), Set(b, r),
                   \/ r.pc \in {"filled", "logWait"} /\ UNCHANGED flags
                   \/ r.pc = "over" /\ flags' = Free
            PROVE  Moves(b, r)
        BY <1>2, <3>1, <3>5 DEF Moves, Set, Follows, Sent
      <3>6. CASE Set(b, p) /\ UNCHANGED flags
        BY <3>2, <3>5, <3>6
      <3>7. CASE Set(b, AskLog(l, "heal")) /\ UNCHANGED flags
        BY <3>3, <3>5, <3>7
      <3>8. CASE Set(b, Broken(q, gone)) /\ flags' = Free
        BY <3>4, <3>5, <3>8
      <3> QED
        BY <2>7, <3>6, <3>7, <3>8 DEF p, l
    <2> QED
      BY <1>3, <2>4, <2>5, <2>6, <2>7, ScanIs
  <1>4. CASE Insert(b)
    <2>1. Follows(q, AskLog(q, "filled")) /\ AskLog(q, "filled").pc = "logWait"
      BY <1>1 DEF Follows, Call, AskLog, Sent
    <2>2. \/ Set(b, AskLog(q, "filled")) /\ UNCHANGED flags
          \/ Over(b, "aborted") \/ FailsWith(b, q.i)
      BY <1>4 DEF Insert
    <2> QED
      BY <1>2, <2>1, <2>2, GoesOn, HasEnded DEF Sent
  <1>5. CASE Filled(b)
    <2>1. Follows(q, Passes(q)) /\ Passes(q).pc = "loop"
      BY <1>1, Continuations
    <2> QED
      BY <1>2, <1>5, <2>1, GoesOn, HasEnded DEF Filled, Sent
  <1> QED
    BY <1>3, <1>4, <1>5

\* A timer fires: waitForSessionEvent gives up.
LEMMA TimeoutStep ==
    ASSUME NEW b \in Batches, Call(batch[b]), Timeout(b)
    PROVE  \E r : Moves(b, r)
  <1> DEFINE q == batch[b]
             failed == [q EXCEPT !.pc = "retryJudge", !.res = "fail"]
  <1>1. Running(b)
    BY DEF Timeout, Waits, Running
  <1>2. CASE FailsWith(b, q.i) \/ Over(b, "aborted")
    BY <1>1, <1>2, HasEnded
  <1>3. CASE UNCHANGED flags /\ Set(b, failed)
    <2>1. Follows(q, failed) /\ failed.pc = "retryJudge"
      BY DEF Follows, Call
    <2> QED
      BY <1>1, <1>3, <2>1, GoesOn DEF Sent
  <1>4. CASE UNCHANGED flags /\ q.pc = "logWait" /\ Set(b, Logged(q, {}))
    <2>1. Follows(q, Logged(q, {})) /\ Logged(q, {}).pc \notin {"idle", "over"} \cup Sent
      BY DEF Follows, Call, Logged, Sent
    <2> QED
      BY <1>1, <1>4, <2>1, GoesOn
  <1>5. CASE UNCHANGED flags /\ (Goes(b, "loop") \/ Goes(b, "healError"))
    BY <1>1, <1>5, Turns DEF Sent
  <1> QED
    BY <1>2, <1>3, <1>4, <1>5 DEF Timeout

\* What an event makes of a call that waits.
LEMMA AnsweredCall ==
    ASSUME NEW r, Call(r), NEW e, r.pc \in Waits
    PROVE  Follows(r, Answered(r, e)) /\ Answered(r, e).pc \notin {"idle"} \cup Sent
  <1>1. CASE r.pc = "navWait"
    BY <1>1 DEF Answered, Follows, Call, Sent
  <1>2. CASE r.pc = "wait"
    BY <1>2 DEF Answered, Follows, Call, AskLog, Sent
  <1>3. CASE r.pc = "retryWait"
    BY <1>3 DEF Answered, Follows, Call, AskLog, Sent
  <1>4. CASE r.pc = "logWait"
    BY <1>4 DEF Answered, Follows, Call, Logged, Sent
  <1>5. CASE r.pc = "healWait"
    <2>1. CASE flags.abort \/ e.ev = "stopped"
      <3>1. Answered(r, e) = Ends(r, "aborted")
        BY <1>5, <2>1 DEF Answered
      <3> QED
        BY <3>1 DEF Follows, Call, Ends, None, Sent
    <2>2. CASE ~(flags.abort \/ e.ev = "stopped") /\ e.ev = "healError"
      BY <1>5, <2>2 DEF Answered, Follows, Call, Sent
    <2>3. CASE ~(flags.abort \/ e.ev = "stopped") /\ e.ev # "healError"
      BY <1>5, <2>3 DEF Answered, Follows, Call, AskLog, Sent
    <2> QED
      BY <1>5, <2>1, <2>2, <2>3
  <1> QED
    BY <1>1, <1>2, <1>3, <1>4, <1>5 DEF Waits

\* No call moves.
Still ==
    UNCHANGED flags /\ DOMAIN batch' = DOMAIN batch /\ \A b \in Batches : batch'[b] = batch[b]

\* An event is delivered: it moves the one batch that runs, or none.
LEMMA DeliverStep ==
    ASSUME RunsApart, Deliver
    PROVE  \/ \E b \in Batches : \E r : Moves(b, r)
           \/ Still
  <1> DEFINE e == Head(fromAgent)
             for == {b \in Batches : e.ev # "sync" /\ Awaits(b, e.ev)}
  <1>1. /\ batch' = [b \in Batches |-> IF b \in for THEN Answered(batch[b], e) ELSE batch[b]]
        /\ flags' = IF \E b \in for : batch'[b].pc = "over" THEN Free ELSE flags
    BY DEF Deliver
  <1>2. \A b \in for : b \in Batches /\ batch[b].pc \in Waits
    BY DEF Awaits, Waits
  <1>3. \A b \in for : Running(b)
    BY <1>2 DEF Waits, Running
  <1> HIDE DEF e, for
  <1>4. CASE for = {}
    BY <1>1, <1>4 DEF RunsApart, Still
  <1>5. ASSUME NEW b \in for PROVE \E r : Moves(b, r)
    <2>1. b \in Batches /\ Running(b) /\ Call(batch[b])
      BY <1>2, <1>3, <1>5 DEF RunsApart
    <2>2. for = {b}
      BY <1>2, <1>3, <1>5 DEF RunsApart
    <2> DEFINE r == Answered(batch[b], e)
    <2>3. Follows(batch[b], r) /\ r.pc \notin {"idle"} \cup Sent
      BY <1>2, <1>5, <2>1, AnsweredCall
    <2> HIDE DEF r
    <2>4. batch' = [b2 \in Batches |-> IF b2 = b THEN r ELSE batch[b2]]
      BY <1>1, <2>2 DEF r
    <2>5. batch' = [batch EXCEPT ![b] = r]
      BY <2>1, <2>4 DEF RunsApart
    <2>6. batch'[b] = r
      BY <2>1, <2>4
    <2>7. \/ r.pc # "over" /\ UNCHANGED flags
          \/ r.pc = "over" /\ flags' = Free
      BY <1>1, <2>2, <2>6
    <2>8. Moves(b, r)
      BY <2>1, <2>3, <2>5, <2>7 DEF Moves, Follows, Sent
    <2> QED
      BY <2>8
  <1> QED
    BY <1>2, <1>4, <1>5

-----------------------------------------------------------------------------
\* What every step does, seen from the invariant.

\* A step of the table: what a batch removes it skips from then on.
Removes ==
    /\ DOMAIN table' = Steps
    /\ \A b \in Batches, s \in Steps :
          table'[s].is = "gone" /\ table'[s].by = b =>
              \/ table[s].is = "gone" /\ table[s].by = b
              \/ s \in batch'[b].skipped

LEMMA MarksRemoveNone ==
    ASSUME DOMAIN table = Steps, NEW b, NEW s, NEW is \in {"confirmed", "rejected"},
           Marks(b, s, is) \/ UNCHANGED table
    PROVE  Removes
  BY DEF Marks, Removes

LEMMA StepRemoves ==
    ASSUME RunsInv, Next
    PROVE  Removes
  <1>1. DOMAIN table = Steps
    BY DEF RunsInv, GoneSkipped
  <1>2. ASSUME NEW b \in Batches, NEW gone \in SUBSET Fills, Cleared(b, gone), gone \subseteq batch'[b].skipped
        PROVE  Removes
    BY <1>1, <1>2 DEF Removes, Cleared
  <1>3. ASSUME NEW b \in Batches, Scan(b) PROVE Removes
    <2> DEFINE q == batch[b]
    <2>1. DOMAIN batch = Batches /\ Call(q)
      BY DEF RunsInv, RunsApart
    <2>2. \/ Marks(b, q.i, "rejected") \/ Marks(b, q.i, "confirmed") \/ UNCHANGED table
          \/ \E gone \in SUBSET Fills :
                /\ Cleared(b, gone)
                /\ \/ Set(b, [Left(q, gone) EXCEPT !.pc = "filled"])
                   \/ Set(b, AskLog(Left(q, gone), "heal"))
                   \/ Set(b, Broken(q, gone))
      BY <1>3, ScanIs
    <2>3. ASSUME NEW gone \in SUBSET Fills,
                 \/ Set(b, [Left(q, gone) EXCEPT !.pc = "filled"])
                 \/ Set(b, AskLog(Left(q, gone), "heal"))
                 \/ Set(b, Broken(q, gone))
          PROVE  gone \subseteq batch'[b].skipped
      <3> DEFINE l == Left(q, gone)
                 w == [l EXCEPT !.failed = Steps, !.passed = 0]
      <3>1. {"pc", "then", "skipped"} \subseteq DOMAIN l /\ gone \subseteq l.skipped
        BY <2>1 DEF Call, Left
      <3> HIDE DEF l
      <3>2. CASE Set(b, [l EXCEPT !.pc = "filled"])
        BY <2>1, <3>1, <3>2 DEF Set
      <3>3. CASE Set(b, AskLog(l, "heal"))
        BY <2>1, <3>1, <3>3 DEF Set, AskLog
      <3>4. CASE Set(b, Broken(q, gone))
        <4>1. w.skipped = l.skipped /\ "skipped" \in DOMAIN w
          BY <3>1
        <4>2. Broken(q, gone) = Ends(w, "error")
          BY DEF Broken, l
        <4> HIDE DEF w
        <4>3. Ends(w, "error").skipped = l.skipped
          BY <4>1 DEF Ends
        <4> QED
          BY <2>1, <3>1, <3>4, <4>2, <4>3 DEF Set
      <3> QED
        BY <2>3, <3>2, <3>3, <3>4 DEF l
    <2> QED
      BY <1>1, <1>2, <2>2, <2>3, MarksRemoveNone
  <1>4. ASSUME NEW b \in Batches, BatchStep(b) \/ Timeout(b), ~Scan(b) PROVE Removes
    <2>1. CASE Navigate(b) \/ Ended(b) \/ Skip(b) \/ Replay(b) \/ Retry(b) \/ Heal(b) \/ Healed(b)
      BY <1>1, <2>1 DEF Navigate, Ended, Skip, Replay, Retry, Heal, Healed, steps, Removes
    <2>2. ASSUME NEW s, Marks(b, s, "rejected") \/ Marks(b, s, "confirmed") \/ UNCHANGED table
          PROVE  Removes
      BY <1>1, <2>2, MarksRemoveNone
    <2>3. CASE Judge(b)
      BY <2>2, <2>3 DEF Judge, FailsWith
    <2>4. CASE RetryJudge(b)
      BY <2>2, <2>4 DEF RetryJudge
    <2>5. CASE HealFails(b)
      BY <2>2, <2>5 DEF HealFails, FailsWith
    <2>6. CASE Filled(b)
      BY <2>2, <2>6 DEF Filled, FailsWith
    <2>7. CASE Timeout(b)
      BY <2>2, <2>7 DEF Timeout, FailsWith
    <2>8. CASE Insert(b)
      BY <2>2, <2>8 DEF Insert, FailsWith
    <2> QED
      BY <1>4, <2>1, <2>3, <2>4, <2>5, <2>6, <2>7, <2>8 DEF BatchStep
  <1>5. CASE UNCHANGED table
    BY <1>1, <1>5 DEF Removes
  <1> QED
    BY <1>3, <1>4, <1>5 DEF Next, Accept, Stop, RecordStop, Deliver, Cancelled, MainLoop, DoReplay,
       GetLog, StartHeal, HealStep, HealActs, HealEnds, Dies, BatchStep, steps

\* A batch that moves keeps the invariant.
LEMMA MovesKeep ==
    ASSUME RunsInv, Removes, UNCHANGED hap, NEW b \in Batches, NEW r, Moves(b, r)
    PROVE  RunsInv'
  <1>1. /\ DOMAIN batch' = Batches
        /\ batch'[b] = r
        /\ \A c \in Batches \ {b} : batch'[c] = batch[c]
    BY DEF RunsInv, RunsApart, Moves
  <1>2. \A c \in Batches \ {b} : ~Running(c) /\ ~(Running(c))'
    BY <1>1 DEF RunsInv, RunsApart, Running, Moves
  <1>3. \A c \in Batches : Call(batch'[c])
    BY <1>1 DEF RunsInv, RunsApart, Moves
  <1>4. "again" \notin hap => \A c \in Batches : c > 1 => batch'[c].pc = "idle"
    <2>1. SUFFICES ASSUME "again" \notin hap, NEW c \in Batches, c > 1
                   PROVE  batch'[c].pc = "idle"
      OBVIOUS
    <2>2. batch[c].pc = "idle"
      BY <2>1 DEF RunsInv, RunsApart
    <2>3. c # b
      BY <2>2 DEF Running, Moves
    <2> QED
      BY <1>1, <2>2, <2>3
  <1>5. (Running(b))' <=> r.pc # "over"
    BY <1>1 DEF Running, Moves
  <1>6. RunsApart'
    <2>1. CASE r.pc # "over" /\ UNCHANGED flags
      <3>1. (Running(b))' /\ Running(b)
        BY <1>5, <2>1 DEF Moves
      <3> QED
        BY <1>1, <1>2, <1>3, <1>4, <2>1, <3>1 DEF RunsInv, RunsApart
    <2>2. CASE r.pc = "over" /\ flags' = Free
      <3>1. ~(Running(b))'
        BY <1>5, <2>2
      <3> QED
        BY <1>1, <1>2, <1>3, <1>4, <2>2, <3>1 DEF RunsInv, RunsApart, Free
    <2> QED
      BY <2>1, <2>2 DEF Moves
  <1>7. StopsHeld'
    <2>1. SUFFICES ASSUME NEW c \in Batches, batch'[c].stopped = TRUE
                   PROVE  batch'[c].pc # "idle" /\ ((Running(c))' => flags'.abort = TRUE)
      BY DEF StopsHeld
    <2>2. CASE c # b
      BY <1>1, <1>2, <2>1, <2>2 DEF RunsInv, StopsHeld
    <2>3. CASE c = b
      <3>1. batch[b].stopped = TRUE /\ Running(b) /\ r.pc # "idle"
        BY <1>1, <2>1, <2>3 DEF Moves
      <3>2. flags.abort = TRUE
        BY <3>1 DEF RunsInv, StopsHeld
      <3> QED
        BY <1>1, <1>5, <2>3, <3>1, <3>2 DEF Moves
    <2> QED
      BY <2>2, <2>3
  <1>8. GoneSkipped'
    <2>1. \A c \in Batches : batch[c].skipped \subseteq batch'[c].skipped
      BY <1>1 DEF Moves
    <2> QED
      BY <2>1 DEF RunsInv, GoneSkipped, Removes
  <1> QED
    BY <1>6, <1>7, <1>8 DEF RunsInv

\* A step that changes neither flags nor calls keeps the invariant.
LEMMA NoneMoves ==
    ASSUME RunsInv, Removes \/ UNCHANGED table, UNCHANGED hap, Still
    PROVE  RunsInv'
  <1>1. Removes
    BY DEF Removes, RunsInv, GoneSkipped
  <1>2. RunsApart'
    BY DEF RunsInv, RunsApart, Running, Still
  <1>3. StopsHeld'
    BY DEF RunsInv, StopsHeld, Running, Still
  <1>4. GoneSkipped'
    BY <1>1 DEF RunsInv, GoneSkipped, Removes, Still
  <1> QED
    BY <1>2, <1>3, <1>4 DEF RunsInv

\* prepareReplayBatch: nothing runs when a batch is accepted.
LEMMA AcceptStep ==
    ASSUME RunsInv, Removes, Apart, UNCHANGED hap, NEW b \in Batches, Accept(b)
    PROVE  RunsInv'
  <1>1. \A c \in Batches : ~Running(c)
    <2>1. CASE "recordStop" \notin hap
      BY <2>1 DEF RunsInv, RunsApart, Accept
    <2>2. CASE "again" \notin hap
      <3>1. b = 1
        BY <2>2 DEF Accept, Batches
      <3>2. \A c \in Batches : batch[c].pc = "idle"
        BY <2>2, <3>1 DEF RunsInv, RunsApart, Accept, Batches
      <3> QED
        BY <3>2 DEF Running
    <2> QED
      BY <2>1, <2>2 DEF Apart
  <1>2. /\ DOMAIN batch' = Batches
        /\ batch'[b] = [batch[b] EXCEPT !.pc = "nav"]
        /\ \A c \in Batches \ {b} : batch'[c] = batch[c]
    BY DEF RunsInv, RunsApart, Accept, Goes, Set
  <1>3. Follows(batch[b], batch'[b]) /\ batch'[b].pc = "nav"
    <2>1. Call(batch[b])
      BY DEF RunsInv, RunsApart
    <2> QED
      BY <1>2, <2>1 DEF Follows, Call
  <1>4. (Running(b))' /\ \A c \in Batches \ {b} : ~(Running(c))'
    BY <1>1, <1>2, <1>3 DEF Running
  <1>5. \A c \in Batches : Call(batch'[c])
    BY <1>2, <1>3 DEF RunsInv, RunsApart, Follows
  <1>6. "again" \notin hap => b = 1
    BY DEF Accept, Batches
  <1>7. "again" \notin hap => \A c \in Batches : c > 1 => batch'[c].pc = "idle"
    BY <1>2, <1>6 DEF RunsInv, RunsApart
  <1>8. flags' = [abort |-> FALSE, suppress |-> TRUE, busy |-> TRUE]
    BY DEF Accept
  <1>9. RunsApart'
    BY <1>2, <1>4, <1>5, <1>7, <1>8 DEF RunsInv, RunsApart
  <1>10. StopsHeld'
    <2>1. batch[b].stopped # TRUE
      BY DEF RunsInv, StopsHeld, Accept
    <2> QED
      BY <1>2, <1>3, <1>4, <2>1 DEF RunsInv, StopsHeld, Follows
  <1>11. GoneSkipped'
    <2>1. \A c \in Batches : batch'[c].skipped = batch[c].skipped
      BY <1>2, <1>3 DEF Follows
    <2> QED
      BY <2>1 DEF RunsInv, GoneSkipped, Removes
  <1> QED
    BY <1>9, <1>10, <1>11 DEF RunsInv

\* steps/replay/stop sets the abort flag and asks the agent to stop.
LEMMA StopStep ==
    ASSUME RunsInv, Removes, UNCHANGED hap, Stop
    PROVE  RunsInv'
  <1>1. batch' = [b \in Batches |-> [batch[b] EXCEPT !.stopped = @ \/ Running(b)]]
    BY DEF Stop
  <1>2. ASSUME NEW c \in Batches
        PROVE  /\ Call(batch'[c]) /\ batch'[c].pc = batch[c].pc /\ batch'[c].skipped = batch[c].skipped
               /\ batch'[c].stopped = (batch[c].stopped \/ Running(c))
    <2>1. Call(batch[c])
      BY DEF RunsInv, RunsApart
    <2> QED
      BY <1>1, <2>1 DEF Call
  <1>3. DOMAIN batch' = Batches
    BY <1>1
  <1>4. \A c \in Batches : (Running(c))' <=> Running(c)
    BY <1>2 DEF Running
  <1>5. /\ flags' \in [abort : BOOLEAN, suppress : BOOLEAN, busy : BOOLEAN]
        /\ flags'.suppress = flags.suppress /\ flags'.busy = flags.busy /\ flags'.abort = TRUE
    BY DEF RunsInv, RunsApart, Stop
  <1>6. RunsApart'
    BY <1>2, <1>3, <1>4, <1>5 DEF RunsInv, RunsApart
  <1>7. StopsHeld'
    <2>1. \A c \in Batches : batch[c].stopped \in BOOLEAN
      BY DEF RunsInv, RunsApart, Call
    <2> QED
      BY <1>2, <1>4, <1>5, <2>1 DEF RunsInv, StopsHeld, Running
  <1>8. GoneSkipped'
    BY <1>2 DEF RunsInv, GoneSkipped, Removes
  <1> QED
    BY <1>6, <1>7, <1>8 DEF RunsInv

\* record/stop clears busy beside a batch.
LEMMA RecordStopStep ==
    ASSUME RunsInv, Removes, UNCHANGED hap, RecordStop
    PROVE  RunsInv'
  <1>1. "recordStop" \in hap /\ UNCHANGED batch
    BY DEF RecordStop
  <1>2. /\ flags' \in [abort : BOOLEAN, suppress : BOOLEAN, busy : BOOLEAN]
        /\ flags'.suppress = flags.suppress /\ flags'.busy = FALSE /\ flags'.abort = flags.abort
    BY DEF RunsInv, RunsApart, RecordStop
  <1>3. RunsApart'
    BY <1>1, <1>2 DEF RunsInv, RunsApart, Running
  <1>4. StopsHeld'
    BY <1>1, <1>2 DEF RunsInv, StopsHeld, Running
  <1>5. GoneSkipped'
    BY <1>1 DEF RunsInv, GoneSkipped, Removes
  <1> QED
    BY <1>3, <1>4, <1>5 DEF RunsInv

-----------------------------------------------------------------------------

\* Every step is a move of one batch, or what begins, stops or leaves them.
LEMMA EveryStep ==
    ASSUME RunsInv, Next
    PROVE  \/ \E b \in Batches : Accept(b)
           \/ \E b \in Batches : \E r : Moves(b, r)
           \/ Stop \/ RecordStop
           \/ Still
  <1>1. \A b \in Batches : Call(batch[b])
    BY DEF RunsInv, RunsApart
  <1>2. ASSUME NEW b \in Batches, BatchStep(b) PROVE \E r : Moves(b, r)
    BY <1>1, <1>2, LoopStep, JudgeStep, RetryJudgeStep, HealEnd, CheckpointStep DEF BatchStep
  <1>3. ASSUME NEW b \in Batches, Timeout(b) PROVE \E r : Moves(b, r)
    BY <1>1, <1>3, TimeoutStep
  <1>4. CASE Deliver
    BY <1>4, DeliverStep DEF RunsInv
  <1>5. CASE Cancelled \/ MainLoop \/ Dies
    BY <1>5 DEF Cancelled, MainLoop, DoReplay, GetLog, StartHeal, HealStep, HealActs, HealEnds, Dies, Still
  <1> QED
    BY <1>2, <1>3, <1>4, <1>5 DEF Next

LEMMA RunsStep == RunInv /\ [Next /\ UNCHANGED hap]_<<vars, hap>> => RunInv'
  <1> SUFFICES ASSUME RunsInv, Apart, [Next /\ UNCHANGED hap]_<<vars, hap>>
               PROVE  RunsInv'
    BY DEF RunInv, Apart
  <1>1. UNCHANGED hap
    OBVIOUS
  <1>2. CASE Next
    <2>1. Removes
      BY <1>2, StepRemoves
    <2> QED
      BY <1>1, <1>2, <2>1, EveryStep, MovesKeep, NoneMoves, AcceptStep, StopStep, RecordStopStep
  <1>3. CASE UNCHANGED <<vars, hap>>
    BY <1>3, NoneMoves DEF vars, steps, Still
  <1> QED
    BY <1>2, <1>3

(***************************************************************************)
(* prepareReplayBatch and runReplayBatch: one batch runs at a time, and the*)
(* runtime suppresses the persisting of steps exactly while it does, for   *)
(* any number of batches, steps and stops, unless record/stop lets a second*)
(* batch in beside the first.                                              *)
(***************************************************************************)
THEOREM ReplayFlagsHeld == Spec => []FlagsHeld
  <1>1. RunInv => FlagsHeld
    <2> SUFFICES ASSUME RunsApart, Apart PROVE FlagsHeld
      BY DEF RunInv, RunsInv, FlagsHeld
    <2> DEFINE now == {b \in Batches : Running(b)}
    <2>1. now = {} \/ \E b \in Batches : now = {b}
      BY DEF RunsApart
    <2>2. Cardinality(now) <= 1
      <3>1. CASE now = {}
        BY <3>1, FS_EmptySet
      <3>2. ASSUME NEW b \in Batches, now = {b} PROVE Cardinality(now) = 1
        BY <3>2, FS_Singleton
      <3> QED
        BY <2>1, <3>1, <3>2
    <2>3. flags.suppress \in BOOLEAN /\ flags.busy \in BOOLEAN
      BY DEF RunsApart
    <2>4. flags.suppress = (now # {})
      BY <2>3 DEF RunsApart
    <2>5. flags.busy => now # {}
      BY <2>3 DEF RunsApart
    <2>6. now # {} => flags.busy \/ "recordStop" \in hap
      BY <2>3 DEF RunsApart
    <2> QED
      BY <2>2, <2>4, <2>5, <2>6 DEF FlagsHeld
  <1> QED
    BY InitRuns, RunsStep, <1>1, PTL DEF Spec

\* After a stop, and of what a checkpoint has removed, nothing is sent.
LEMMA MovesSendNothing ==
    ASSUME RunsInv, NEW b \in Batches, NEW r, Moves(b, r), NEW c \in Batches, batch'[c].pc # batch[c].pc
    PROVE  /\ batch[c].stopped = TRUE => batch'[c].pc \notin Sent
           /\ batch'[c].pc = "wait" => batch[c].i \in Steps /\ batch[c].i \notin batch[c].skipped
  <1>1. DOMAIN batch = Batches
    BY DEF RunsInv, RunsApart
  <1>2. c = b /\ batch'[c] = r
    BY <1>1 DEF Moves
  <1>3. batch[b].stopped = TRUE => flags.abort = TRUE
    BY DEF RunsInv, StopsHeld, Moves
  <1> QED
    BY <1>2, <1>3 DEF Moves

LEMMA SendsStep ==
    ASSUME RunsInv, [Next /\ UNCHANGED hap]_<<vars, hap>>, NEW c \in Batches, batch'[c].pc # batch[c].pc
    PROVE  /\ batch[c].stopped = TRUE => batch'[c].pc \notin Sent
           /\ batch'[c].pc = "wait" => batch[c].i \in Steps /\ batch[c].i \notin batch[c].skipped
  <1>1. Next
    BY DEF vars
  <1>2. CASE \E b \in Batches : \E r : Moves(b, r)
    BY <1>2, MovesSendNothing
  <1>3. ASSUME NEW b \in Batches, Accept(b)
        PROVE  batch'[c].pc \notin Sent
    <2>1. DOMAIN batch = Batches /\ Call(batch[c])
      BY DEF RunsInv, RunsApart
    <2>2. c = b /\ batch'[c] = [batch[c] EXCEPT !.pc = "nav"]
      BY <1>3, <2>1 DEF Accept, Goes, Set
    <2> QED
      BY <2>1, <2>2 DEF Call, Sent
  <1>4. CASE Stop
    <2>1. batch'[c] = [batch[c] EXCEPT !.stopped = @ \/ Running(c)]
      BY <1>4 DEF Stop
    <2>2. batch'[c].pc = batch[c].pc
      BY <2>1
    <2> QED
      BY <2>2
  <1>5. CASE RecordStop \/ Still
    BY <1>5 DEF RecordStop, Still
  <1> QED
    BY <1>1, <1>2, <1>3, <1>4, <1>5, EveryStep DEF Sent

(***************************************************************************)
(* runReplayBatch, its retries, heals and checkpoints: once a stop has     *)
(* found the batch running it sends no further step and no heal, and a step*)
(* a checkpoint has removed is never sent, for any number of batches, steps*)
(* and stops, whatever the agent answers and whichever timer fires.        *)
(***************************************************************************)
THEOREM ReplaySendsNothing == Spec => SendsNothingMore
  <1>1. RunInv /\ [Next /\ UNCHANGED hap]_<<vars, hap>> =>
            [Apart =>
               \A b \in Batches : batch[b].stopped /\ batch'[b].pc # batch[b].pc =>
                   batch'[b].pc \notin {"wait", "retryWait", "healWait"}]_<<vars, hap>>
    <2> SUFFICES ASSUME RunsInv, [Next /\ UNCHANGED hap]_<<vars, hap>>,
                        NEW b \in Batches, batch[b].stopped, batch'[b].pc # batch[b].pc
                 PROVE  batch'[b].pc \notin Sent
      BY DEF RunInv, Sent
    <2>1. batch[b].stopped = TRUE
      BY DEF RunsInv, RunsApart, Call
    <2> QED
      BY <2>1, SendsStep
  <1>2. RunInv /\ [Next /\ UNCHANGED hap]_<<vars, hap>> =>
            [Apart =>
               \A b \in Batches : batch'[b].pc = "wait" /\ batch[b].pc # "wait" =>
                   ~(table[batch[b].i].is = "gone" /\ table[batch[b].i].by = b)]_<<vars, hap>>
    <2> SUFFICES ASSUME RunsInv, [Next /\ UNCHANGED hap]_<<vars, hap>>,
                        NEW b \in Batches, batch'[b].pc = "wait", batch[b].pc # "wait"
                 PROVE  ~(table[batch[b].i].is = "gone" /\ table[batch[b].i].by = b)
      BY DEF RunInv
    <2>1. batch[b].i \in Steps /\ batch[b].i \notin batch[b].skipped
      BY SendsStep
    <2> QED
      BY <2>1 DEF RunsInv, GoneSkipped
  <1> QED
    BY InitRuns, RunsStep, <1>1, <1>2, PTL DEF Spec, SendsNothingMore, StopEndsIt, GoneIsNotSent

-----------------------------------------------------------------------------
(***************************************************************************)
(* What a call, the wire, the agent and the table are, whatever happens:   *)
(* the types, what a batch has counted when it ends, and that the table    *)
(* agrees with what a batch reports as failed.                             *)
(***************************************************************************)
\* Where a call stands: what it waits for the log for, or its pc.
Stage(r) == IF r.pc = "logWait" THEN r.then ELSE r.pc
Thens == {"judge", "scan", "retryJudge", "heal", "fetched", "healed", "filled"}
Results == {None, "ok", "fail", "empty", "same", "unsafe", "missing", "added", "both"}

\* Stages of a step that is no checkpoint, of a checkpoint, and of either; of these,
\* the ones in which a step that is no checkpoint is among the failed.
OfFill == {"judge", "retry", "retryWait", "retryJudge", "healed"}
OfCheckpoint == {"scan", "fetched", "filled"}
OfStep == {"wait", "heal", "healWait", "healError"}
Mending == {"retry", "retryWait", "retryJudge", "heal", "healWait", "healError", "healed"}

CallType ==
    [pc : Pcs, i : 1..NumSteps + 1, tries : 0..Retries, skipped : SUBSET Fills, failed : SUBSET Steps,
     passed : 0..NumSteps, res : Results, of : (Batches \cup {NoBatch}) \X (Steps \cup {Menu}),
     got : SUBSET Nat, before : SUBSET Nat, then : Thens \cup {None}, stopped : BOOLEAN,
     end : {None, "finished", "aborted", "error"}]

\* The steps behind the call have passed, failed or were removed.
Counted(r) ==
    r.passed + Cardinality(r.failed \ {r.i})
        \in (r.i - 1) - Cardinality(r.skipped \cap 1..r.i - 1)..r.i - 1

\* The stage fits the step, and the step is among the failed while it is mended.
Staged(r) ==
    /\ r.pc = "logWait" => r.then \in Thens
    /\ Stage(r) \in OfFill => r.i \in Fills
    /\ Stage(r) \in OfCheckpoint => r.i \in Checkpoints
    /\ Stage(r) \in OfStep => r.i \in Steps
    /\ r.pc # "over" => (r.i \in r.failed <=> r.i \in Fills /\ Stage(r) \in Mending)

Sound(r) ==
    /\ r \in CallType
    /\ Staged(r)
    /\ r.pc # "over" => r.failed \subseteq 1..r.i /\ Counted(r) /\ r.end = None
    /\ r.pc = "over" => r.end # None
    /\ r.end = "finished" =>
          r.passed + Cardinality(r.failed) \in NumSteps - Cardinality(r.skipped)..NumSteps

LEMMA Numbers == NumSteps \in Nat \ {0} /\ Checkpoints \subseteq Steps /\ Retries \in Nat /\ MaxLog \in Nat
                 /\ MaxStops \in Nat /\ MaxBatches \in Nat
  BY ReplayAssumption

-----------------------------------------------------------------------------
\* What becomes of the fields of a call.
Alike(q, r) ==
    /\ r.skipped = q.skipped /\ r.failed = q.failed /\ r.passed = q.passed
    /\ r.stopped = q.stopped /\ r.end = q.end
Heard(q, r) == r.res = q.res /\ r.of = q.of /\ r.got = q.got /\ r.before = q.before

LEMMA PcFields ==
    ASSUME NEW q \in CallType, NEW pc \in Pcs
    PROVE  LET r == [q EXCEPT !.pc = pc] IN
           r \in CallType /\ Alike(q, r) /\ Heard(q, r) /\ r.i = q.i /\ r.tries = q.tries /\ r.then = q.then /\ r.pc = pc
  BY DEF CallType, Alike, Heard

LEMMA AskLogFields ==
    ASSUME NEW q \in CallType, NEW then \in Thens
    PROVE  LET r == AskLog(q, then) IN
           r \in CallType /\ Alike(q, r) /\ Heard(q, r) /\ r.i = q.i /\ r.tries = q.tries /\ r.then = then /\ r.pc = "logWait"
  BY DEF CallType, Alike, Heard, AskLog, Pcs

LEMMA ForthFields ==
    ASSUME NEW q \in CallType, q.i \in Steps
    PROVE  LET r == Forth(q) IN
           /\ r \in CallType /\ Alike(q, r) /\ r.i = q.i + 1 /\ r.tries = 0 /\ r.then = None /\ r.pc = "loop"
           /\ r.res = None /\ r.of = NoStep /\ r.got = {} /\ r.before = {}
  <1> DEFINE r == Forth(q)
  <1>1. q.i + 1 \in 1..NumSteps + 1 /\ 0 \in 0..Retries /\ None \in Results /\ "loop" \in Pcs
    BY Numbers DEF CallType, Steps, Results, Pcs
  <1>2. NoStep \in (Batches \cup {NoBatch}) \X (Steps \cup {Menu})
    BY DEF NoStep
  <1>3. /\ r.i = q.i + 1 /\ r.tries = 0 /\ r.then = None /\ r.pc = "loop" /\ r.res = None /\ r.of = NoStep
        /\ r.got = {} /\ r.before = {} /\ Alike(q, r)
    BY DEF CallType, Forth, Alike
  <1>4. r \in CallType
    BY <1>1, <1>2 DEF CallType, Forth
  <1> QED
    BY <1>3, <1>4

LEMMA EndsFields ==
    ASSUME NEW q \in CallType, NEW end \in {"finished", "aborted", "error"}
    PROVE  LET r == Ends(q, end) IN
           /\ r \in CallType /\ r.skipped = q.skipped /\ r.failed = q.failed /\ r.passed = q.passed
           /\ r.stopped = q.stopped /\ r.i = q.i /\ r.end = end /\ r.pc = "over" /\ r.then = None
  <1> DEFINE r == Ends(q, end)
  <1>1. 0 \in 0..Retries /\ None \in Results /\ "over" \in Pcs
    BY Numbers DEF Results, Pcs
  <1>2. NoStep \in (Batches \cup {NoBatch}) \X (Steps \cup {Menu})
    BY DEF NoStep
  <1>3. /\ r.skipped = q.skipped /\ r.failed = q.failed /\ r.passed = q.passed
        /\ r.stopped = q.stopped /\ r.i = q.i /\ r.end = end /\ r.pc = "over" /\ r.then = None
    BY DEF CallType, Ends
  <1>4. r \in CallType
    BY <1>1, <1>2 DEF CallType, Ends
  <1> QED
    BY <1>3, <1>4

\* The step of the call is added to the failed, or taken from them; or others are skipped.
FailedIs(q, r, F) ==
    /\ r \in CallType /\ Heard(q, r) /\ r.pc = q.pc /\ r.then = q.then /\ r.i = q.i /\ r.tries = q.tries
    /\ r.failed = F /\ r.skipped = q.skipped /\ r.passed = q.passed /\ r.stopped = q.stopped /\ r.end = q.end

LEMMA FailedFields ==
    ASSUME NEW q \in CallType, NEW s \in Steps
    PROVE  /\ FailedIs(q, [q EXCEPT !.failed = @ \cup {s}], q.failed \cup {s})
           /\ FailedIs(q, [q EXCEPT !.failed = @ \ {s}], q.failed \ {s})
           /\ q.i = s => FailedIs(q, Misses(q), q.failed \cup {s})
  BY DEF CallType, Heard, FailedIs, Misses

LEMMA LeftFields ==
    ASSUME NEW q \in CallType, NEW gone \in SUBSET Fills
    PROVE  LET r == Left(q, gone) IN
           /\ r \in CallType /\ Heard(q, r) /\ r.pc = q.pc /\ r.then = q.then /\ r.i = q.i /\ r.tries = q.tries
           /\ r.skipped = q.skipped \cup gone /\ r.failed = q.failed /\ r.passed = q.passed
           /\ r.stopped = q.stopped /\ r.end = q.end
  BY DEF CallType, Heard, Left

LEMMA BrokenFields ==
    ASSUME NEW q \in CallType, NEW gone \in SUBSET Fills
    PROVE  LET r == Broken(q, gone) IN
           /\ r \in CallType /\ r.pc = "over" /\ r.end = "error" /\ r.got = {} /\ r.before = {}
           /\ r.skipped = q.skipped \cup gone /\ r.stopped = q.stopped
  <1> DEFINE l == Left(q, gone)
             w == [l EXCEPT !.failed = Steps, !.passed = 0]
             r == Ends(w, "error")
  <1>1. l \in CallType /\ l.skipped = q.skipped \cup gone /\ l.stopped = q.stopped
    BY LeftFields
  <1> HIDE DEF l
  <1>2. 0 \in 0..NumSteps
    BY Numbers
  <1>3. w \in CallType /\ w.skipped = l.skipped /\ w.stopped = l.stopped
    BY <1>1, <1>2 DEF CallType
  <1> HIDE DEF w
  <1>4. /\ r \in CallType /\ r.pc = "over" /\ r.end = "error" /\ r.skipped = w.skipped /\ r.stopped = w.stopped
    BY <1>3, EndsFields
  <1>5. r.got = {} /\ r.before = {}
    BY <1>3 DEF Ends, CallType
  <1> QED
    BY <1>1, <1>3, <1>4, <1>5 DEF Broken, w, l

LEMMA PassesFields ==
    ASSUME NEW q \in CallType, q.i \in Steps, q.passed < NumSteps
    PROVE  LET r == Passes(q) IN
           /\ r \in CallType /\ r.i = q.i + 1 /\ r.tries = 0 /\ r.then = None /\ r.pc = "loop"
           /\ r.res = None /\ r.of = NoStep /\ r.got = {} /\ r.before = {}
           /\ r.passed = q.passed + 1 /\ r.failed = q.failed /\ r.skipped = q.skipped
           /\ r.stopped = q.stopped /\ r.end = q.end
  <1> DEFINE p == [q EXCEPT !.passed = @ + 1]
  <1>1. /\ p \in CallType /\ p.passed = q.passed + 1 /\ p.i = q.i /\ p.failed = q.failed /\ p.skipped = q.skipped
        /\ p.stopped = q.stopped /\ p.end = q.end
    BY Numbers DEF CallType
  <1> HIDE DEF p
  <1>2. Passes(q) = Forth(p)
    BY DEF Passes, p
  <1> QED
    BY <1>1, <1>2, ForthFields DEF Alike

-----------------------------------------------------------------------------
\* The sets that are counted.
LEMMA Finite ==
    ASSUME NEW r \in CallType
    PROVE  /\ IsFiniteSet(Steps) /\ Cardinality(Steps) = NumSteps
           /\ IsFiniteSet(r.failed) /\ IsFiniteSet(r.skipped)
           /\ \A S : S \subseteq Steps => IsFiniteSet(S) /\ Cardinality(S) \in Nat
  <1>1. IsFiniteSet(Steps) /\ Cardinality(Steps) = NumSteps
    BY Numbers, FS_Interval DEF Steps
  <1>2. \A S : S \subseteq Steps => IsFiniteSet(S) /\ Cardinality(S) \in Nat
    BY <1>1, FS_Subset, FS_CardinalityType
  <1>3. r.failed \subseteq Steps /\ r.skipped \subseteq Steps
    BY DEF CallType, Fills
  <1> QED
    BY <1>1, <1>2, <1>3

LEMMA PassedBelow ==
    ASSUME NEW q, Sound(q), q.pc # "over", q.i \in Steps
    PROVE  q.passed < NumSteps
  <1>1. q \in CallType /\ Counted(q) /\ q.passed \in Nat
    BY DEF Sound, CallType
  <1>2. Cardinality(q.failed \ {q.i}) \in Nat
    BY <1>1, Finite DEF CallType
  <1>3. Cardinality(q.skipped \cap 1..q.i - 1) \in Nat
    BY <1>1, Finite DEF CallType, Fills
  <1> QED
    BY <1>1, <1>2, <1>3, Numbers DEF Counted, Steps

\* The call goes to the next step: its step has passed, has failed, or was removed.
LEMMA OnwardSound ==
    ASSUME NEW q, Sound(q), q.pc # "over", q.i \in Steps, NEW r \in CallType,
           r.pc = "loop", r.i = q.i + 1, r.skipped = q.skipped, r.end = q.end,
           \/ r.passed = q.passed + 1 /\ r.failed = q.failed \ {q.i}
           \/ r.passed = q.passed /\ r.failed = q.failed \cup {q.i}
           \/ r.passed = q.passed /\ r.failed = q.failed /\ q.i \in q.skipped \ q.failed
    PROVE  Sound(r)
  <1> DEFINE i == q.i
             F == q.failed \ {i}
             below == q.skipped \cap 1..i - 1
             upto == q.skipped \cap 1..(i + 1) - 1
  <1>1. /\ q \in CallType /\ Counted(q) /\ q.passed \in Nat /\ i \in Nat \ {0}
        /\ q.failed \subseteq 1..i /\ q.end = None /\ r.end = None
    BY Numbers DEF Sound, CallType, Steps
  <1>2. IsFiniteSet(F) /\ Cardinality(F) \in Nat
    BY <1>1, Finite DEF CallType
  <1>3. IsFiniteSet(below) /\ Cardinality(below) \in Nat /\ IsFiniteSet(upto) /\ Cardinality(upto) \in Nat
    BY <1>1, Finite DEF CallType, Fills
  <1>4. (i + 1) - 1 = i /\ upto = IF i \in q.skipped THEN below \cup {i} ELSE below
    BY <1>1
  <1>5. i \notin below /\ i \notin F
    BY <1>1
  <1>6. Cardinality(upto) = IF i \in q.skipped THEN Cardinality(below) + 1 ELSE Cardinality(below)
    BY <1>3, <1>4, <1>5, FS_AddElement
  <1>7. Cardinality(q.failed \cup {i}) = Cardinality(F) + 1
    <2>1. q.failed \cup {i} = F \cup {i}
      OBVIOUS
    <2>2. Cardinality(F \cup {i}) = Cardinality(F) + 1
      BY <1>2, <1>5, FS_AddElement
    <2> QED
      BY <2>1, <2>2
  <1>8. r.failed \subseteq 1..r.i /\ r.i \notin r.failed /\ r.failed \ {r.i} = r.failed
    BY <1>1
  <1>9. q.passed + Cardinality(F) \in (i - 1) - Cardinality(below)..i - 1
    BY <1>1 DEF Counted
  <1>10. r.passed + Cardinality(r.failed) \in i - Cardinality(upto)..i
    <2>1. CASE r.passed = q.passed + 1 /\ r.failed = F
      BY <1>1, <1>2, <1>3, <1>6, <1>9, <2>1
    <2>2. CASE r.passed = q.passed /\ r.failed = q.failed \cup {i}
      BY <1>1, <1>2, <1>3, <1>6, <1>7, <1>9, <2>2
    <2>3. CASE r.passed = q.passed /\ r.failed = q.failed /\ i \in q.skipped \ q.failed
      <3>1. r.failed = F /\ i \in q.skipped
        BY <2>3
      <3>2. Cardinality(upto) = Cardinality(below) + 1
        BY <1>6, <3>1
      <3>3. r.passed + Cardinality(r.failed) \in (i - 1) - Cardinality(below)..i - 1
        BY <1>9, <2>3, <3>1
      <3> HIDE DEF F, below, upto
      <3> QED
        BY <1>1, <1>2, <1>3, <3>1, <3>2, <3>3
    <2> QED
      BY <2>1, <2>2, <2>3
  <1>11. Counted(r)
    <2>1. r.i - 1 = i /\ r.skipped \cap 1..r.i - 1 = upto
      BY <1>1, <1>4
    <2> QED
      BY <1>8, <1>10, <2>1 DEF Counted
  <1>12. Staged(r)
    BY <1>8 DEF Staged, Stage, OfFill, OfCheckpoint, OfStep, Mending
  <1> QED
    BY <1>1, <1>8, <1>11, <1>12 DEF Sound, None

\* The call stays with its step: what it has counted stays.
LEMMA StaysSound ==
    ASSUME NEW q, Sound(q), q.pc # "over", NEW r \in CallType, r.pc # "over",
           r.i = q.i, r.passed = q.passed, r.failed \ {q.i} = q.failed \ {q.i}, r.end = q.end,
           q.skipped \subseteq r.skipped, Staged(r)
    PROVE  Sound(r)
  <1> DEFINE i == q.i
             below(x) == x.skipped \cap 1..i - 1
  <1>1. q \in CallType /\ Counted(q) /\ q.passed \in Nat /\ i \in Nat \ {0} /\ q.failed \subseteq 1..i /\ r.end = None
    BY Numbers DEF Sound, CallType, Steps
  <1>2. r.failed \subseteq 1..r.i
    BY <1>1
  <1>3. /\ IsFiniteSet(below(q)) /\ Cardinality(below(q)) \in Nat
        /\ IsFiniteSet(below(r)) /\ Cardinality(below(r)) \in Nat
    BY <1>1, Finite DEF CallType, Fills
  <1>4. Cardinality(below(q)) <= Cardinality(below(r))
    BY <1>3, FS_Subset
  <1>5. Cardinality(q.failed \ {i}) \in Nat
    BY <1>1, Finite DEF CallType
  <1>6. q.passed + Cardinality(q.failed \ {i}) \in (i - 1) - Cardinality(below(q))..i - 1
    BY <1>1 DEF Counted
  <1>7. q.passed + Cardinality(q.failed \ {i}) \in (i - 1) - Cardinality(below(r))..i - 1
    BY <1>1, <1>3, <1>4, <1>5, <1>6
  <1>8. Counted(r)
    BY <1>7 DEF Counted
  <1> QED
    BY <1>1, <1>2, <1>8 DEF Sound, None

\* The call is over; a finished one is behind its last step.
LEMMA OverSound ==
    ASSUME NEW q, Sound(q), q.pc # "over", NEW r \in CallType, r.pc = "over",
           r.end # None, r.end = "finished" =>
               /\ q.pc = "loop" /\ q.i > NumSteps
               /\ r.passed = q.passed /\ r.failed = q.failed /\ r.skipped = q.skipped
    PROVE  Sound(r)
  <1>1. Staged(r)
    BY DEF Staged, Stage, OfFill, OfCheckpoint, OfStep
  <1>2. ASSUME r.end = "finished"
        PROVE  r.passed + Cardinality(r.failed) \in NumSteps - Cardinality(r.skipped)..NumSteps
    <2>1. q \in CallType /\ Counted(q) /\ q.i - 1 = NumSteps /\ q.failed \subseteq Steps /\ q.skipped \subseteq Steps
      BY <1>2, Numbers DEF Sound, CallType, Fills
    <2>2. q.failed \ {q.i} = q.failed /\ q.skipped \cap 1..q.i - 1 = q.skipped
      BY <2>1, Numbers DEF Steps
    <2> QED
      BY <1>2, <2>1, <2>2 DEF Counted
  <1> QED
    BY <1>1, <1>2 DEF Sound

-----------------------------------------------------------------------------
\* The calls: sound, and with entries of the log that are there.
CallOK(r) == Sound(r) /\ r.got \cup r.before \subseteq Entries(Len(log))
CallsInv == batch \in [Batches -> CallType] /\ \A b \in Batches : CallOK(batch[b])

\* What a call writes to the table is what it reports of its step.
Writes(b, r) ==
    \/ UNCHANGED table /\ r.failed = batch[b].failed
    \/ /\ batch[b].i \in Steps
       /\ \/ Marks(b, batch[b].i, "confirmed") /\ r.failed = batch[b].failed \ {batch[b].i}
          \/ Marks(b, batch[b].i, "rejected") /\ r.failed = batch[b].failed \cup {batch[b].i}
    \/ \E gone \in SUBSET Fills : Cleared(b, gone) /\ ("db" \in hap \/ r.failed = batch[b].failed)

Advances(b) == \E r : CallOK(r) /\ Set(b, r) /\ Writes(b, r)

\* The ways a call advances.
LEMMA TurnsTo ==
    ASSUME CallsInv, NEW b \in Batches, NEW pc \in Pcs \ {"over", "logWait"}, Running(b), UNCHANGED table,
           Staged([batch[b] EXCEPT !.pc = pc]), Goes(b, pc)
    PROVE  Advances(b)
  <1> DEFINE q == batch[b]
             r == [q EXCEPT !.pc = pc]
  <1>1. q \in CallType /\ CallOK(q)
    BY DEF CallsInv
  <1>2. /\ r \in CallType /\ Alike(q, r) /\ Heard(q, r) /\ r.i = q.i /\ r.pc = pc
    BY <1>1, PcFields
  <1> HIDE DEF r
  <1>3. Sound(r)
    BY <1>1, <1>2, StaysSound DEF CallOK, Alike, Running, r
  <1> QED
    BY <1>1, <1>2, <1>3 DEF Advances, CallOK, Heard, Alike, Writes, Goes, r

LEMMA AsksLog ==
    ASSUME CallsInv, NEW b \in Batches, NEW then \in Thens, Running(b), UNCHANGED table,
           Staged(AskLog(batch[b], then)), Set(b, AskLog(batch[b], then))
    PROVE  Advances(b)
  <1> DEFINE q == batch[b]
             r == AskLog(q, then)
  <1>1. q \in CallType /\ CallOK(q)
    BY DEF CallsInv
  <1>2. /\ r \in CallType /\ Alike(q, r) /\ Heard(q, r) /\ r.i = q.i /\ r.pc = "logWait"
    BY <1>1, AskLogFields
  <1> HIDE DEF r
  <1>3. Sound(r)
    BY <1>1, <1>2, StaysSound DEF CallOK, Alike, Running, r
  <1> QED
    BY <1>1, <1>2, <1>3 DEF Advances, CallOK, Heard, Alike, Writes, r

LEMMA Confirms ==
    ASSUME CallsInv, NEW b \in Batches, Running(b), batch[b].i \in Steps,
           Marks(b, batch[b].i, "confirmed"),
           \/ batch[b].i \notin batch[b].failed /\ Set(b, Passes(batch[b]))
           \/ Set(b, Passes([batch[b] EXCEPT !.failed = @ \ {batch[b].i}]))
    PROVE  Advances(b)
  <1> DEFINE q == batch[b]
             p == [q EXCEPT !.failed = @ \ {q.i}]
  <1>1. q \in CallType /\ CallOK(q) /\ q.pc # "over"
    BY DEF CallsInv, Running
  <1>2. FailedIs(q, p, q.failed \ {q.i}) /\ p \in CallType
    BY <1>1, FailedFields DEF FailedIs
  <1>3. q.passed < NumSteps
    BY <1>1, PassedBelow DEF CallOK
  <1> HIDE DEF p
  <1>4. ASSUME NEW x \in {q, p}, x = q => q.i \notin q.failed, Set(b, Passes(x))
        PROVE  Advances(b)
    <2> DEFINE r == Passes(x)
    <2>1. /\ x \in CallType /\ x.i = q.i /\ x.passed = q.passed /\ x.failed = q.failed \ {q.i} /\ x.skipped = q.skipped
          /\ x.end = q.end
      BY <1>1, <1>2, <1>4 DEF FailedIs
    <2>2. /\ r \in CallType /\ r.i = q.i + 1 /\ r.pc = "loop" /\ r.got = {} /\ r.before = {}
          /\ r.passed = q.passed + 1 /\ r.failed = q.failed \ {q.i} /\ r.skipped = q.skipped /\ r.end = q.end
      BY <1>3, <2>1, PassesFields
    <2> HIDE DEF r
    <2>3. Sound(r)
      BY <1>1, <2>2, OnwardSound DEF CallOK
    <2> QED
      BY <1>4, <2>2, <2>3 DEF Advances, CallOK, Writes, r
  <1>5. CASE q.i \notin q.failed /\ Set(b, Passes(q))
    BY <1>4, <1>5
  <1>6. CASE Set(b, Passes(p))
    <2>1. p = q => q.i \notin q.failed
      BY <1>2 DEF FailedIs
    <2> QED
      BY <1>4, <1>6, <2>1
  <1> QED
    BY <1>5, <1>6 DEF p

LEMMA Rejects ==
    ASSUME CallsInv, NEW b \in Batches, Running(b), batch[b].i \in Steps,
           Marks(b, batch[b].i, "rejected"),
           \/ Set(b, Forth(Misses(batch[b])))
           \/ Set(b, Ends([batch[b] EXCEPT !.failed = @ \cup {batch[b].i}], "error"))
           \/ /\ batch[b].i \in Fills
              /\ \E pc \in {"retry", "heal"} : Set(b, [Misses(batch[b]) EXCEPT !.pc = pc])
    PROVE  Advances(b)
  <1> DEFINE q == batch[b]
             F == q.failed \cup {q.i}
             m == Misses(q)
             e == [q EXCEPT !.failed = @ \cup {q.i}]
  <1>1. q \in CallType /\ CallOK(q) /\ q.pc # "over" /\ Sound(q)
    BY DEF CallsInv, Running, CallOK
  <1>2. FailedIs(q, m, F) /\ FailedIs(q, e, F)
    BY <1>1, FailedFields
  <1> HIDE DEF m, e
  <1>3. CASE Set(b, Forth(m))
    <2> DEFINE r == Forth(m)
    <2>1. /\ r \in CallType /\ Alike(m, r) /\ r.i = q.i + 1 /\ r.pc = "loop" /\ r.got = {} /\ r.before = {}
      BY <1>2, ForthFields DEF FailedIs
    <2> HIDE DEF r
    <2>2. Sound(r)
      BY <1>1, <1>2, <2>1, OnwardSound DEF Alike, FailedIs
    <2> QED
      BY <1>2, <1>3, <2>1, <2>2 DEF Advances, CallOK, Writes, Alike, FailedIs, r
  <1>4. CASE Set(b, Ends(e, "error"))
    <2> DEFINE r == Ends(e, "error")
    <2>1. /\ r \in CallType /\ r.failed = F /\ r.end = "error" /\ r.pc = "over"
      BY <1>2, EndsFields DEF FailedIs
    <2>2. r.got = {} /\ r.before = {}
      BY <1>2 DEF FailedIs, Ends, CallType
    <2> HIDE DEF r
    <2>3. Sound(r)
      BY <1>1, <2>1, OverSound DEF None
    <2> QED
      BY <1>4, <2>1, <2>2, <2>3 DEF Advances, CallOK, Writes, r
  <1>5. ASSUME NEW pc \in {"retry", "heal"}, q.i \in Fills, Set(b, [m EXCEPT !.pc = pc])
        PROVE  Advances(b)
    <2> DEFINE r == [m EXCEPT !.pc = pc]
    <2>1. pc \in Pcs
      BY DEF Pcs
    <2>2. r \in CallType /\ Alike(m, r) /\ Heard(m, r) /\ r.i = q.i /\ r.pc = pc
      BY <1>2, <2>1, PcFields DEF FailedIs
    <2> HIDE DEF r
    <2>3. Staged(r)
      BY <1>2, <1>5, <2>2 DEF Staged, Stage, OfFill, OfCheckpoint, OfStep, Mending, Alike, FailedIs, Fills
    <2>4. Sound(r)
      BY <1>1, <1>2, <2>2, <2>3, StaysSound DEF Alike, FailedIs
    <2> QED
      BY <1>1, <1>2, <1>5, <2>2, <2>4 DEF Advances, CallOK, Writes, Alike, Heard, FailedIs, r
  <1> QED
    BY <1>3, <1>4, <1>5 DEF m, e

LEMMA ReachesEnd ==
    ASSUME CallsInv, NEW b \in Batches, Running(b), UNCHANGED table, NEW end \in {"finished", "aborted", "error"},
           end = "finished" => batch[b].pc = "loop" /\ batch[b].i > NumSteps,
           Set(b, Ends(batch[b], end))
    PROVE  Advances(b)
  <1> DEFINE q == batch[b]
             r == Ends(q, end)
  <1>1. q \in CallType /\ CallOK(q) /\ q.pc # "over" /\ Sound(q)
    BY DEF CallsInv, Running, CallOK
  <1>2. /\ r \in CallType /\ r.failed = q.failed /\ r.passed = q.passed /\ r.skipped = q.skipped
        /\ r.end = end /\ r.pc = "over"
    BY <1>1, EndsFields
  <1>3. r.got = {} /\ r.before = {}
    BY <1>1 DEF Ends, CallType
  <1> HIDE DEF r
  <1>4. Sound(r)
    BY <1>1, <1>2, OverSound DEF None
  <1> QED
    BY <1>2, <1>3, <1>4 DEF Advances, CallOK, Writes, r

LEMMA GoesForth ==
    ASSUME CallsInv, NEW b \in Batches, Running(b), UNCHANGED table, batch[b].i \in Steps,
           batch[b].i \in batch[b].failed \/ batch[b].i \in batch[b].skipped,
           Set(b, Forth(batch[b]))
    PROVE  Advances(b)
  <1> DEFINE q == batch[b]
             r == Forth(q)
  <1>1. q \in CallType /\ q.pc # "over" /\ Sound(q)
    BY DEF CallsInv, Running, CallOK
  <1>2. r \in CallType /\ Alike(q, r) /\ r.i = q.i + 1 /\ r.pc = "loop" /\ r.got = {} /\ r.before = {}
    BY <1>1, ForthFields
  <1> HIDE DEF r
  <1>3. Sound(r)
    <2>1. \/ r.failed = q.failed \cup {q.i}
          \/ r.failed = q.failed /\ q.i \in q.skipped \ q.failed
      BY <1>2 DEF Alike
    <2> QED
      BY <1>1, <1>2, <2>1, OnwardSound DEF Alike
  <1> QED
    BY <1>2, <1>3 DEF Advances, CallOK, Writes, Alike, r

\* A stage that fits the step.
LEMMA StageFits ==
    ASSUME NEW q, Sound(q), q.pc \notin {"over", "logWait"}, NEW r \in CallType, r.pc # "over", r.i = q.i,
           r.failed = q.failed, r.pc = "logWait" => r.then \in Thens,
           \/ Stage(r) \in {"navWait", "loop"} /\ (q.i \in Fills => q.pc \notin Mending)
           \/ Stage(r) = "wait" /\ q.i \in Steps /\ q.pc \notin Mending
           \/ Stage(r) = "scan" /\ q.i \in Checkpoints
           \/ Stage(r) = "judge" /\ q.i \in Fills /\ q.pc \notin Mending
           \/ Stage(r) \in {"retry", "retryWait", "retryJudge", "healed"} /\ q.i \in Fills /\ q.pc \in Mending
           \/ Stage(r) \in {"heal", "healWait", "healError"} /\ q.i \in Steps /\ (q.i \in Fills => q.pc \in Mending)
           \/ Stage(r) \in {"fetched", "filled"} /\ q.i \in Checkpoints
    PROVE  Staged(r)
  <1>1. q.i \in q.failed <=> q.i \in Fills /\ q.pc \in Mending
    BY DEF Sound, Staged, Stage
  <1> QED
    BY <1>1, Numbers DEF Staged, Stage, OfFill, OfCheckpoint, OfStep, Mending, Fills

LEMMA TurnsStage ==
    ASSUME CallsInv, NEW b \in Batches, NEW pc \in Pcs \ {"over", "logWait"}, Running(b), UNCHANGED table,
           batch[b].pc # "logWait", Goes(b, pc),
           \/ pc \in {"navWait", "loop"} /\ (batch[b].i \in Fills => batch[b].pc \notin Mending)
           \/ pc = "wait" /\ batch[b].i \in Steps /\ batch[b].pc \notin Mending
           \/ pc \in {"retry", "retryWait", "retryJudge", "healed"} /\ batch[b].i \in Fills /\ batch[b].pc \in Mending
           \/ /\ pc \in {"heal", "healWait", "healError"} /\ batch[b].i \in Steps
              /\ batch[b].i \in Fills => batch[b].pc \in Mending
    PROVE  Advances(b)
  <1> DEFINE q == batch[b]
             r == [q EXCEPT !.pc = pc]
  <1>1. q \in CallType /\ Sound(q)
    BY DEF CallsInv, CallOK
  <1>2. r \in CallType /\ Alike(q, r) /\ r.i = q.i /\ r.pc = pc /\ Stage(r) = pc
    BY <1>1, PcFields DEF Stage
  <1> HIDE DEF r
  <1>3. Staged(r)
    BY <1>1, <1>2, StageFits DEF Running, Alike
  <1> QED
    BY <1>3, TurnsTo DEF r

\* What a call is about at its pc.
LEMMA Where ==
    ASSUME CallsInv, NEW b \in Batches
    PROVE  /\ batch[b] \in CallType /\ Sound(batch[b]) /\ CallOK(batch[b])
           /\ batch[b].pc \in OfFill => batch[b].i \in Fills
           /\ batch[b].pc \in OfCheckpoint => batch[b].i \in Checkpoints
           /\ batch[b].pc \in OfFill \cup OfCheckpoint \cup OfStep => batch[b].i \in Steps
           /\ batch[b].pc \notin {"over", "logWait"} =>
                 (batch[b].i \in batch[b].failed <=> batch[b].i \in Fills /\ batch[b].pc \in Mending)
           /\ batch[b].pc = "logWait" => batch[b].then \in Thens
           /\ Fills = Steps \ Checkpoints /\ Fills \subseteq Steps /\ Checkpoints \subseteq Steps
  BY Numbers DEF CallsInv, CallOK, Sound, Staged, Stage, OfFill, OfCheckpoint, OfStep, Fills

-----------------------------------------------------------------------------
\* The loop, the retries and the heals.
LEMMA LoopAdvances ==
    ASSUME CallsInv, NEW b \in Batches, Navigate(b) \/ Ended(b) \/ Skip(b) \/ Replay(b)
    PROVE  Advances(b)
  <1>1. Running(b)
    BY DEF Navigate, Ended, Skip, Replay, Running
  <1>2. CASE Navigate(b)
    <2>1. "navWait" \in Pcs /\ "loop" \in Pcs /\ batch[b].pc \notin Mending
      BY <1>2 DEF Navigate, Pcs, Mending
    <2> QED
      BY <1>1, <1>2, <2>1, TurnsStage DEF Navigate, steps
  <1>3. CASE Ended(b)
    BY <1>1, <1>3, ReachesEnd DEF Ended, Over, steps
  <1>4. CASE Skip(b)
    <2>1. batch[b].i \in Steps
      BY <1>4, Where DEF Skip, CallType
    <2> QED
      BY <1>1, <1>4, <2>1, GoesForth DEF Skip, steps
  <1>5. CASE Replay(b)
    <2>1. "wait" \in Pcs /\ batch[b].pc \notin Mending
      BY <1>5 DEF Replay, Pcs, Mending
    <2> QED
      BY <1>1, <1>5, <2>1, TurnsStage DEF Replay, steps
  <1> QED
    BY <1>2, <1>3, <1>4, <1>5

LEMMA JudgeAdvances ==
    ASSUME CallsInv, NEW b \in Batches, Judge(b)
    PROVE  Advances(b)
  <1> DEFINE q == batch[b]
  <1>1. Running(b) /\ q.i \in Fills /\ q.i \in Steps /\ q.i \notin q.failed
    BY Where DEF Judge, Running, OfFill, Mending
  <1>2. CASE Over(b, "aborted") /\ UNCHANGED table
    BY <1>1, <1>2, ReachesEnd DEF Over
  <1>3. CASE Set(b, Passes(q)) /\ Marks(b, q.i, "confirmed")
    BY <1>1, <1>3, Confirms
  <1>4. CASE Set(b, Forth(Misses(q))) /\ Marks(b, q.i, "rejected")
    BY <1>1, <1>4, Rejects
  <1>5. CASE FailsWith(b, q.i)
    BY <1>1, <1>5, Rejects DEF FailsWith
  <1>6. CASE (\E pc \in {"retry", "heal"} : Set(b, [Misses(q) EXCEPT !.pc = pc])) /\ Marks(b, q.i, "rejected")
    BY <1>1, <1>6, Rejects
  <1> QED
    BY <1>2, <1>3, <1>4, <1>5, <1>6 DEF Judge

LEMMA RetryAdvances ==
    ASSUME CallsInv, NEW b \in Batches, Retry(b)
    PROVE  Advances(b)
  <1> DEFINE q == batch[b]
             p == [q EXCEPT !.tries = @ + 1]
             r == [q EXCEPT !.pc = "retryWait", !.tries = @ + 1]
  <1>1. Running(b) /\ q.i \in Fills /\ q.i \in Steps /\ q.pc \in Mending /\ q.pc # "logWait" /\ UNCHANGED table
    BY Where DEF Retry, Running, OfFill, Mending, steps
  <1>2. CASE Goes(b, "heal")
    BY <1>1, <1>2, TurnsStage DEF Pcs
  <1>3. CASE q.tries < Retries /\ Set(b, r)
    <2>1. q \in CallType /\ Sound(q) /\ CallOK(q) /\ q.pc # "over"
      BY <1>1, Where DEF Running
    <2>2. q.tries + 1 \in 0..Retries
      BY <1>3, <2>1, Numbers DEF CallType
    <2>3. /\ r.i = q.i /\ r.pc = "retryWait" /\ r.tries = q.tries + 1
          /\ Alike(q, r) /\ Heard(q, r) /\ r.then = q.then
      BY <2>1 DEF CallType, Alike, Heard
    <2>4. r \in CallType
      BY <2>1, <2>2 DEF CallType, Pcs
    <2> HIDE DEF r
    <2>5. Staged(r)
      <3>1. Stage(r) = "retryWait"
        BY <2>3 DEF Stage
      <3> QED
        BY <1>1, <2>1, <2>3, <2>4, <3>1, StageFits DEF Alike
    <2>6. Sound(r)
      BY <2>1, <2>3, <2>4, <2>5, StaysSound DEF Alike
    <2> QED
      BY <1>1, <1>3, <2>1, <2>3, <2>6 DEF Advances, CallOK, Alike, Heard, Writes
  <1>4. q.tries >= Retries \/ q.tries < Retries
    BY Where, Numbers DEF CallType
  <1> QED
    BY <1>2, <1>3, <1>4 DEF Retry

LEMMA RetryJudgeAdvances ==
    ASSUME CallsInv, NEW b \in Batches, RetryJudge(b)
    PROVE  Advances(b)
  <1> DEFINE q == batch[b]
  <1>1. Running(b) /\ q.i \in Fills /\ q.i \in Steps /\ q.pc \in Mending /\ q.pc # "logWait"
    BY Where DEF RetryJudge, Running, OfFill, Mending
  <1>2. CASE Goes(b, "retry") /\ UNCHANGED table
    BY <1>1, <1>2, TurnsStage DEF Pcs
  <1>3. CASE Marks(b, q.i, "confirmed") /\ Set(b, Passes([q EXCEPT !.failed = @ \ {q.i}]))
    BY <1>1, <1>3, Confirms
  <1> QED
    BY <1>2, <1>3 DEF RetryJudge

LEMMA HealAdvances ==
    ASSUME CallsInv, NEW b \in Batches, Heal(b) \/ Healed(b) \/ HealFails(b)
    PROVE  Advances(b)
  <1> DEFINE q == batch[b]
  <1>1. Running(b) /\ q.i \in Steps /\ q.pc # "logWait" /\ (q.pc \in Mending)
    BY Where DEF Heal, Healed, HealFails, Running, OfFill, OfStep, Mending
  <1>2. CASE Heal(b)
    <2>1. UNCHANGED table /\ (Over(b, "aborted") \/ Goes(b, "healWait"))
      BY <1>2 DEF Heal, steps
    <2> QED
      BY <1>1, <2>1, TurnsStage, ReachesEnd DEF Over, Pcs
  <1>3. CASE Healed(b)
    <2>1. UNCHANGED table /\ (Over(b, "aborted") \/ Set(b, Forth(q)))
      BY <1>3 DEF Healed, steps
    <2>2. q.i \in q.failed
      BY <1>3, Where DEF Healed, OfFill, Mending
    <2> QED
      BY <1>1, <2>1, <2>2, GoesForth, ReachesEnd DEF Over
  <1>4. CASE HealFails(b)
    BY <1>1, <1>4, Rejects, ReachesEnd DEF HealFails, FailsWith, Over
  <1> QED
    BY <1>2, <1>3, <1>4

\* A step that a checkpoint removes is skipped from then on.
LEMMA RemovesSome ==
    ASSUME CallsInv, NEW b \in Batches, batch[b].pc = "scan", NEW gone \in SUBSET Fills, Cleared(b, gone),
           \/ Set(b, [Left(batch[b], gone) EXCEPT !.pc = "filled"])
           \/ Set(b, AskLog(Left(batch[b], gone), "heal"))
           \/ "db" \in hap /\ Set(b, Broken(batch[b], gone))
    PROVE  Advances(b)
  <1> DEFINE q == batch[b]
             l == Left(q, gone)
  <1>1. q \in CallType /\ Sound(q) /\ CallOK(q) /\ q.pc \notin {"over", "logWait"} /\ q.i \in Checkpoints /\ q.i \in Steps
        /\ q.i \notin Fills
    BY Where DEF OfCheckpoint
  <1>2. /\ l \in CallType /\ Heard(q, l) /\ l.i = q.i /\ l.failed = q.failed /\ l.passed = q.passed /\ l.end = q.end
        /\ l.skipped = q.skipped \cup gone
    BY <1>1, LeftFields
  <1> HIDE DEF l
  <1>3. ASSUME NEW r \in CallType, Alike(l, r), Heard(l, r), r.i = q.i, r.pc # "over", Set(b, r),
               r.pc = "filled" \/ (r.pc = "logWait" /\ r.then = "heal")
        PROVE  Advances(b)
    <2>1. Staged(r)
      <3>1. Stage(r) \in {"filled", "heal"} /\ (r.pc = "logWait" => r.then \in Thens)
        BY <1>3 DEF Stage, Thens
      <3> QED
        BY <1>1, <1>2, <1>3, <3>1, StageFits DEF Alike
    <2>2. Sound(r)
      BY <1>1, <1>2, <1>3, <2>1, StaysSound DEF Alike
    <2> QED
      BY <1>1, <1>2, <1>3, <2>2 DEF Advances, CallOK, Alike, Heard, Writes
  <1>4. CASE Set(b, [l EXCEPT !.pc = "filled"])
    <2> DEFINE r == [l EXCEPT !.pc = "filled"]
    <2>1. r \in CallType /\ Alike(l, r) /\ Heard(l, r) /\ r.i = q.i /\ r.pc = "filled"
      BY <1>2, PcFields DEF Pcs
    <2> HIDE DEF r
    <2> QED
      BY <1>3, <1>4, <2>1 DEF r
  <1>5. CASE Set(b, AskLog(l, "heal"))
    <2> DEFINE r == AskLog(l, "heal")
    <2>1. r \in CallType /\ Alike(l, r) /\ Heard(l, r) /\ r.i = q.i /\ r.pc = "logWait" /\ r.then = "heal"
      BY <1>2, AskLogFields DEF Thens
    <2> HIDE DEF r
    <2> QED
      BY <1>3, <1>5, <2>1 DEF r
  <1>6. CASE "db" \in hap /\ Set(b, Broken(q, gone))
    <2> DEFINE r == Broken(q, gone)
    <2>1. r \in CallType /\ r.pc = "over" /\ r.end = "error" /\ r.got = {} /\ r.before = {}
      BY <1>1, BrokenFields
    <2> HIDE DEF r
    <2>2. Sound(r)
      BY <1>1, <2>1, OverSound DEF None
    <2> QED
      BY <1>6, <2>1, <2>2 DEF Advances, CallOK, Writes, r
  <1> QED
    BY <1>4, <1>5, <1>6 DEF l

LEMMA AsksStage ==
    ASSUME CallsInv, NEW b \in Batches, NEW then \in Thens, Running(b), UNCHANGED table,
           batch[b].pc # "logWait", Set(b, AskLog(batch[b], then)),
           \/ then = "judge" /\ batch[b].i \in Fills /\ batch[b].pc \notin Mending
           \/ then \in {"retryJudge", "healed"} /\ batch[b].i \in Fills /\ batch[b].pc \in Mending
           \/ then \in {"scan", "fetched", "filled", "heal"} /\ batch[b].i \in Checkpoints
    PROVE  Advances(b)
  <1> DEFINE q == batch[b]
             r == AskLog(q, then)
  <1>1. q \in CallType /\ Sound(q) /\ (q.i \in Checkpoints => q.i \in Steps /\ q.i \notin Fills)
    BY Where
  <1>2. r \in CallType /\ Alike(q, r) /\ r.i = q.i /\ r.pc = "logWait" /\ r.then = then /\ Stage(r) = then
    BY <1>1, AskLogFields DEF Stage
  <1> HIDE DEF r
  <1>3. Staged(r)
    BY <1>1, <1>2, StageFits DEF Running, Alike
  <1> QED
    BY <1>3, AsksLog DEF r

LEMMA CheckpointAdvances ==
    ASSUME CallsInv, NEW b \in Batches, Scan(b) \/ Filled(b)
    PROVE  Advances(b)
  <1> DEFINE q == batch[b]
  <1>1. Running(b) /\ q.i \in Checkpoints /\ q.i \in Steps /\ q.i \notin q.failed /\ q.pc # "logWait"
    BY Where DEF Scan, Filled, Running, OfCheckpoint, Mending
  <1>2. CASE Scan(b)
    <2>1. \/ Set(b, Forth(Misses(q))) /\ Marks(b, q.i, "rejected")
          \/ Set(b, Passes(q)) /\ Marks(b, q.i, "confirmed")
          \/ Set(b, AskLog(q, "heal")) /\ UNCHANGED table
          \/ \E gone \in SUBSET Fills :
                /\ Cleared(b, gone)
                /\ \/ Set(b, [Left(q, gone) EXCEPT !.pc = "filled"])
                   \/ Set(b, AskLog(Left(q, gone), "heal"))
                   \/ "db" \in hap /\ Set(b, Broken(q, gone))
      BY <1>2, ScanIs
    <2>2. CASE Set(b, Forth(Misses(q))) /\ Marks(b, q.i, "rejected")
      BY <1>1, <2>2, Rejects
    <2>3. CASE Set(b, Passes(q)) /\ Marks(b, q.i, "confirmed")
      BY <1>1, <2>3, Confirms
    <2>4. CASE Set(b, AskLog(q, "heal")) /\ UNCHANGED table
      BY <1>1, <2>4, AsksStage DEF Thens
    <2>5. q.pc = "scan"
      BY <1>2 DEF Scan
    <2> QED
      BY <2>1, <2>2, <2>3, <2>4, <2>5, RemovesSome
  <1>3. CASE Filled(b)
    <2>1. \/ Set(b, Passes(q)) /\ Marks(b, q.i, "confirmed")
          \/ FailsWith(b, q.i)
      BY <1>3 DEF Filled
    <2> QED
      BY <1>1, <2>1, Confirms, Rejects DEF FailsWith
  <1> QED
    BY <1>2, <1>3

LEMMA InsertAdvances ==
    ASSUME CallsInv, NEW b \in Batches, Insert(b)
    PROVE  Advances(b)
  <1>1. Running(b) /\ batch[b].i \in Checkpoints /\ batch[b].pc # "logWait"
    BY Where DEF Insert, Running, OfCheckpoint
  <1>2. CASE Set(b, AskLog(batch[b], "filled")) /\ UNCHANGED table
    BY <1>1, <1>2, AsksStage DEF Thens
  <1>3. CASE Over(b, "aborted") /\ UNCHANGED table
    BY <1>1, <1>3, ReachesEnd DEF Over
  <1>4. CASE FailsWith(b, batch[b].i)
    BY <1>1, <1>4, Rejects, Where DEF FailsWith
  <1> QED
    BY <1>2, <1>3, <1>4 DEF Insert

\* The log is there, or given up.
LEMMA LoggedSound ==
    ASSUME NEW q \in CallType, CallOK(q), q.pc = "logWait", NEW S \in SUBSET Entries(Len(log)), Len(log) \in Nat
    PROVE  /\ CallOK(Logged(q, S)) /\ Logged(q, S).failed = q.failed /\ Logged(q, S).pc = q.then
           /\ Logged(q, S).of = q.of /\ Logged(q, S).res = q.res /\ Logged(q, S).i = q.i
           /\ Logged(q, S).end = q.end
           /\ Logged(q, S).before = IF q.then = "heal" THEN S ELSE q.before
           /\ Logged(q, S).got = IF q.then = "fetched" THEN S ELSE q.got
  <1> DEFINE r == Logged(q, S)
  <1>1. q.then \in Thens /\ Sound(q) /\ S \subseteq Nat
    BY DEF CallOK, Sound, Staged, Entries
  <1>2. /\ r \in CallType /\ r.pc = q.then /\ Alike(q, r) /\ r.i = q.i
        /\ r.of = q.of /\ r.res = q.res
        /\ r.before = IF q.then = "heal" THEN S ELSE q.before
        /\ r.got = IF q.then = "fetched" THEN S ELSE q.got
    <2>1. CASE q.then = "heal"
      <3>1. r = [q EXCEPT !.pc = "heal", !.before = S]
        BY <2>1 DEF Logged
      <3>2. r \in CallType
        BY <1>1, <3>1 DEF CallType, Pcs
      <3>3. /\ r.pc = "heal" /\ r.before = S /\ r.got = q.got /\ r.i = q.i
            /\ r.of = q.of /\ r.res = q.res
        BY <3>1 DEF CallType
      <3>4. Alike(q, r)
        BY <3>1 DEF CallType, Alike
      <3> QED
        BY <2>1, <3>2, <3>3, <3>4
    <2>2. CASE q.then = "fetched"
      <3>1. r = [q EXCEPT !.pc = "fetched", !.got = S]
        BY <2>2 DEF Logged
      <3>2. r \in CallType
        BY <1>1, <3>1 DEF CallType, Pcs
      <3>3. /\ r.pc = "fetched" /\ r.got = S /\ r.before = q.before /\ r.i = q.i
            /\ r.of = q.of /\ r.res = q.res
        BY <3>1 DEF CallType
      <3>4. Alike(q, r)
        BY <3>1 DEF CallType, Alike
      <3> QED
        BY <2>2, <3>2, <3>3, <3>4
    <2>3. CASE q.then \notin {"heal", "fetched"}
      <3>1. r = [q EXCEPT !.pc = q.then] /\ q.then \in Pcs
        BY <1>1, <2>3 DEF Logged, Thens, Pcs
      <3> QED
        BY <2>3, <3>1, PcFields DEF Alike, Heard
    <2> QED
      BY <2>1, <2>2, <2>3
  <1> HIDE DEF r
  <1>3. r.pc \notin {"over", "logWait"} /\ Stage(r) = Stage(q)
    BY <1>1, <1>2 DEF Thens, Stage
  <1>4. Staged(r)
    BY <1>1, <1>2, <1>3 DEF Sound, Staged, Alike
  <1>5. Sound(r)
    BY <1>1, <1>2, <1>3, <1>4, StaysSound DEF Alike
  <1> QED
    BY <1>2, <1>5 DEF CallOK, Alike, r

LEMMA TimeoutAdvances ==
    ASSUME CallsInv, Len(log) \in Nat, NEW b \in Batches, Timeout(b)
    PROVE  Advances(b)
  <1> DEFINE q == batch[b]
             f == [q EXCEPT !.pc = "retryJudge", !.res = "fail"]
  <1>1. Running(b) /\ q \in CallType /\ CallOK(q) /\ Sound(q) /\ q.pc # "over"
    BY Where DEF Timeout, Waits, Running
  <1>2. CASE q.pc = "navWait" /\ Goes(b, "loop") /\ UNCHANGED table
    BY <1>1, <1>2, TurnsStage DEF Pcs, Mending
  <1>3. CASE q.pc = "wait" /\ FailsWith(b, q.i)
    <2>1. q.i \in Steps
      BY <1>3, Where DEF OfStep
    <2> QED
      BY <1>1, <1>3, <2>1, Rejects DEF FailsWith
  <1>4. CASE q.pc = "retryWait" /\ Set(b, f) /\ UNCHANGED table
    <2>1. q.i \in Fills
      BY <1>4, Where DEF OfFill
    <2>2. f \in CallType /\ Alike(q, f) /\ f.i = q.i /\ f.pc = "retryJudge" /\ f.got = q.got /\ f.before = q.before
      BY <1>1 DEF CallType, Alike, Pcs, Results
    <2> HIDE DEF f
    <2>3. Staged(f)
      <3>1. Stage(f) = "retryJudge" /\ q.pc \in Mending
        BY <1>4, <2>2 DEF Stage, Mending
      <3> QED
        BY <1>1, <1>4, <2>1, <2>2, <3>1, StageFits DEF Alike
    <2>4. Sound(f)
      BY <1>1, <2>2, <2>3, StaysSound DEF Alike
    <2> QED
      BY <1>1, <1>4, <2>2, <2>4 DEF Advances, CallOK, Alike, Writes
  <1>5. CASE q.pc = "logWait" /\ Set(b, Logged(q, {})) /\ UNCHANGED table
    BY <1>1, <1>5, LoggedSound DEF Advances, Writes
  <1>6. CASE q.pc = "healWait" /\ Over(b, "aborted") /\ UNCHANGED table
    BY <1>1, <1>6, ReachesEnd DEF Over
  <1>7. CASE q.pc = "healWait" /\ Goes(b, "healError") /\ UNCHANGED table
    BY <1>1, <1>7, Where, TurnsStage DEF Pcs, Mending, OfStep
  <1> QED
    BY <1>2, <1>3, <1>4, <1>5, <1>6, <1>7 DEF Timeout

-----------------------------------------------------------------------------
\* Requests, events, entries of the log and the agent.
Requests ==
    {m \in [op : {"replay", "log", "heal", "cancel"}, step : Steps \cup {Menu}, by : Batches \cup {NoBatch}] :
        m.op \in {"replay", "heal"} => m.by \in Batches}
Events ==
    [ev : {"done", "log", "sync", "stopped", "healed", "healError"}, seen : Nat, res : Results,
     of : (Batches \cup {NoBatch}) \X (Steps \cup {Menu})]
LogEntries == [how : {"replay", "heal"}, by : Batches]

WireInv ==
    /\ toAgent \in Seq(Requests) /\ fromAgent \in Seq(Events)
    /\ \A k \in 1..Len(fromAgent) : fromAgent[k].seen <= Len(log)

AgentInv ==
    /\ agent \in [work : {"idle", "boundary", "acting"}, by : Batches \cup {NoBatch}, stop : BOOLEAN]
    /\ agent.work # "idle" => agent.by \in Batches
    /\ agent.work = "acting" => Len(log) < MaxLog
    /\ log \in Seq(LogEntries) /\ Len(log) <= MaxLog /\ alive \in BOOLEAN

RestInv ==
    /\ flags \in [abort : BOOLEAN, suppress : BOOLEAN, busy : BOOLEAN]
    /\ table \in [Steps -> [is : {"untouched", "confirmed", "rejected", "gone"}, by : Batches \cup {NoBatch}, true : BOOLEAN]]
    /\ appended \cup inserted \cup consumed \subseteq Entries(Len(log))
    /\ stops \in 0..MaxStops /\ hap \in Settings

\* What a batch has left unconfirmed in the table is what it reports as failed.
TableInv ==
    "db" \notin hap =>
        \A b \in Batches, s \in Steps : table[s].by = b /\ table[s].is # "gone" =>
            (s \in batch[b].failed <=> table[s].is = "rejected")

SystemInv == CallsInv /\ WireInv /\ AgentInv /\ RestInv /\ TableInv

\* What an event makes of a call that waits for it.
LEMMA AnsweredSound ==
    ASSUME NEW q \in CallType, CallOK(q), q.pc \in Waits, Len(log) \in Nat, NEW e \in Events, e.seen <= Len(log)
    PROVE  CallOK(Answered(q, e)) /\ Answered(q, e).failed = q.failed
  <1>1. Sound(q) /\ q.pc # "over"
    BY DEF CallOK, Waits
  <1> DEFINE p == [q EXCEPT !.res = e.res, !.of = e.of]
  <1>2. /\ p \in CallType /\ Alike(q, p) /\ p.pc = q.pc /\ p.then = q.then /\ p.i = q.i
        /\ p.got = q.got /\ p.before = q.before
    <2>1. e.res \in Results /\ e.of \in (Batches \cup {NoBatch}) \X (Steps \cup {Menu})
      BY DEF Events
    <2> QED
      BY <2>1 DEF CallType, Alike
  <1> HIDE DEF p
  <1>3. ASSUME NEW x \in {q, p}, NEW then \in Thens, q.pc # "logWait", Answered(q, e) = AskLog(x, then),
               \/ then = "judge" /\ q.i \in Fills /\ q.pc \notin Mending
               \/ then \in {"retryJudge", "healed"} /\ q.i \in Fills /\ q.pc \in Mending
               \/ then \in {"scan", "fetched", "filled", "heal"} /\ q.i \in Checkpoints
        PROVE  CallOK(Answered(q, e)) /\ Answered(q, e).failed = q.failed
    <2> DEFINE r == AskLog(x, then)
    <2>1. x \in CallType /\ Alike(q, x) /\ x.i = q.i /\ x.got = q.got /\ x.before = q.before
      BY <1>2, <1>3 DEF Alike
    <2>2. r \in CallType /\ Alike(x, r) /\ Heard(x, r) /\ r.i = q.i /\ r.pc = "logWait" /\ r.then = then /\ Stage(r) = then
      BY <2>1, <1>3, AskLogFields DEF Stage
    <2> HIDE DEF r
    <2>3. q.i \in Checkpoints => q.i \notin Fills /\ q.i \in Steps
      BY Numbers DEF Fills
    <2>4. Staged(r)
      BY <1>1, <1>3, <2>1, <2>2, <2>3, StageFits DEF Alike
    <2>5. Sound(r)
      BY <1>1, <2>1, <2>2, <2>4, StaysSound DEF Alike
    <2> QED
      BY <1>3, <2>1, <2>2, <2>5 DEF CallOK, Alike, Heard, r
  <1>4. ASSUME NEW pc \in {"loop", "healError"}, Answered(q, e) = [q EXCEPT !.pc = pc],
               pc = "loop" => q.pc = "navWait", pc = "healError" => q.pc = "healWait"
        PROVE  CallOK(Answered(q, e)) /\ Answered(q, e).failed = q.failed
    <2> DEFINE r == [q EXCEPT !.pc = pc]
    <2>1. r \in CallType /\ Alike(q, r) /\ Heard(q, r) /\ r.i = q.i /\ r.pc = pc /\ Stage(r) = pc
      <3>1. pc \in Pcs /\ pc # "logWait"
        BY <1>4 DEF Pcs
      <3> QED
        BY <3>1, PcFields DEF Stage
    <2> HIDE DEF r
    <2>2. Staged(r)
      <3>1. q.pc = "healWait" => q.i \in Steps /\ q.pc \in Mending
        BY <1>1 DEF Sound, Staged, Stage, OfStep, Mending
      <3>2. q.pc = "navWait" => q.pc \notin Mending
        BY DEF Mending
      <3> QED
        BY <1>1, <1>4, <2>1, <3>1, <3>2, StageFits DEF Alike
    <2>3. Sound(r)
      BY <1>1, <2>1, <2>2, StaysSound DEF Alike
    <2> QED
      BY <1>4, <2>1, <2>3 DEF CallOK, Alike, Heard, r
  <1>5. CASE q.pc = "navWait"
    BY <1>4, <1>5 DEF Answered
  <1>6. CASE q.pc = "wait"
    <2>1. q.i \in Steps /\ q.pc \notin Mending /\ (q.i \notin Checkpoints => q.i \in Fills)
      BY <1>1, <1>6 DEF Sound, Staged, Stage, OfStep, Mending, Fills
    <2>2. Answered(q, e) = AskLog(p, IF q.i \in Checkpoints THEN "scan" ELSE "judge")
      BY <1>2, <1>6 DEF Answered, p
    <2>3. CASE q.i \in Checkpoints
      BY <1>3, <1>6, <2>2, <2>3 DEF Thens
    <2>4. CASE q.i \notin Checkpoints
      BY <1>3, <1>6, <2>1, <2>2, <2>4 DEF Thens
    <2> QED
      BY <2>3, <2>4
  <1>7. CASE q.pc = "retryWait"
    <2>1. q.i \in Fills /\ q.pc \in Mending
      BY <1>1, <1>7 DEF Sound, Staged, Stage, OfFill, Mending
    <2>2. Answered(q, e) = AskLog(p, "retryJudge")
      BY <1>7 DEF Answered, p
    <2> QED
      BY <1>3, <1>7, <2>1, <2>2 DEF Thens
  <1>8. CASE q.pc = "logWait"
    <2>1. Answered(q, e) = Logged(q, Entries(e.seen))
      BY <1>8 DEF Answered
    <2>2. Entries(e.seen) \in SUBSET Entries(Len(log))
      BY DEF Entries, Events
    <2> QED
      BY <1>8, <2>1, <2>2, LoggedSound
  <1>9. CASE q.pc = "healWait"
    <2>1. q.i \in Steps /\ q.pc \in Mending /\ (q.i \notin Checkpoints => q.i \in Fills)
      BY <1>1, <1>9 DEF Sound, Staged, Stage, OfStep, Mending, Fills
    <2>2. CASE flags.abort \/ e.ev = "stopped"
      <3> DEFINE r == Ends(q, "aborted")
      <3>1. Answered(q, e) = r
        BY <1>9, <2>2 DEF Answered
      <3>2. r \in CallType /\ r.failed = q.failed /\ r.end = "aborted" /\ r.pc = "over"
        BY EndsFields
      <3>3. r.got = {} /\ r.before = {}
        BY DEF Ends, CallType
      <3> HIDE DEF r
      <3>4. Sound(r)
        BY <1>1, <3>2, OverSound DEF None
      <3> QED
        BY <3>1, <3>2, <3>3, <3>4 DEF CallOK
    <2>3. CASE ~(flags.abort \/ e.ev = "stopped") /\ e.ev = "healError"
      <3>1. Answered(q, e) = [q EXCEPT !.pc = "healError"]
        BY <1>9, <2>3 DEF Answered
      <3> QED
        BY <1>4, <1>9, <3>1
    <2>4. CASE ~(flags.abort \/ e.ev = "stopped") /\ e.ev # "healError"
      <3>1. Answered(q, e) = AskLog(q, IF q.i \in Checkpoints THEN "fetched" ELSE "healed")
        BY <1>9, <2>4 DEF Answered
      <3>2. CASE q.i \in Checkpoints
        BY <1>3, <1>9, <3>1, <3>2 DEF Thens
      <3>3. CASE q.i \notin Checkpoints
        BY <1>3, <1>9, <2>1, <3>1, <3>3 DEF Thens
      <3> QED
        BY <3>2, <3>3
    <2> QED
      BY <2>2, <2>3, <2>4
  <1> QED
    BY <1>5, <1>6, <1>7, <1>8, <1>9 DEF Waits

-----------------------------------------------------------------------------
LEMMA SystemInit == Init => SystemInv
  <1> SUFFICES ASSUME Init PROVE SystemInv
    OBVIOUS
  <1>1. log = <<>> /\ Len(log) = 0
    BY DEF Init
  <1>2. Fresh \in CallType
    <2>1. /\ "idle" \in Pcs /\ 1 \in 1..NumSteps + 1 /\ 0 \in 0..Retries /\ 0 \in 0..NumSteps /\ None \in Results
          /\ NoStep \in (Batches \cup {NoBatch}) \X (Steps \cup {Menu})
      BY Numbers DEF Pcs, Results, NoStep
    <2> QED
      BY <2>1 DEF Fresh, CallType
  <1>3. /\ Fresh.pc = "idle" /\ Fresh.i = 1 /\ Fresh.failed = {} /\ Fresh.skipped = {} /\ Fresh.passed = 0
        /\ Fresh.end = None /\ Fresh.got = {} /\ Fresh.before = {}
    BY DEF Fresh
  <1>4. Sound(Fresh)
    <2>1. Staged(Fresh)
      BY <1>3 DEF Staged, Stage, OfFill, OfCheckpoint, OfStep, Mending
    <2>2. Counted(Fresh)
      <3>1. Fresh.failed \ {Fresh.i} = {} /\ Fresh.skipped \cap 1..Fresh.i - 1 = {} /\ Cardinality({}) = 0
        BY <1>3, FS_EmptySet
      <3> QED
        BY <1>3, <3>1 DEF Counted
    <2> QED
      BY <1>2, <1>3, <2>1, <2>2 DEF Sound, None
  <1>5. CallsInv
    BY <1>2, <1>3, <1>4 DEF Init, CallsInv, CallOK
  <1>6. WireInv
    BY <1>1 DEF Init, WireInv
  <1>7. AgentInv
    BY <1>1, Numbers DEF Init, AgentInv
  <1>8. table = [s \in Steps |-> [is |-> "untouched", by |-> NoBatch, true |-> TRUE]]
    BY DEF Init
  <1>9. RestInv
    BY <1>8, Numbers DEF Init, RestInv, Free
  <1>10. TableInv
    <2>1. \A s \in Steps : table[s].by = NoBatch
      BY <1>8
    <2>2. NoBatch \notin Batches
      BY DEF NoBatch, Batches
    <2> QED
      BY <2>1, <2>2 DEF TableInv
  <1> QED
    BY <1>5, <1>6, <1>7, <1>9, <1>10 DEF SystemInv

\* A batch that advances keeps what is true of the calls and of the table.
LEMMA AdvanceKeeps ==
    ASSUME CallsInv, RestInv, TableInv, NEW b \in Batches, Advances(b), UNCHANGED <<log, hap>>
    PROVE  /\ CallsInv' /\ TableInv'
           /\ table' \in [Steps -> [is : {"untouched", "confirmed", "rejected", "gone"}, by : Batches \cup {NoBatch}, true : BOOLEAN]]
  <1>1. PICK r : CallOK(r) /\ Set(b, r) /\ Writes(b, r)
    BY DEF Advances
  <1>2. r \in CallType
    BY <1>1 DEF CallOK, Sound
  <1>3. batch' \in [Batches -> CallType] /\ batch'[b] = r /\ \A c \in Batches \ {b} : batch'[c] = batch[c]
    BY <1>1, <1>2 DEF CallsInv, Set
  <1>4. \A q : CallOK(q) => CallOK(q)'
    BY DEF CallOK
  <1>5. CallsInv'
    <2>1. \A c \in Batches : CallOK(batch'[c])
      BY <1>1, <1>3 DEF CallsInv
    <2>2. ASSUME NEW c \in Batches PROVE (CallOK(batch[c]))'
      BY <2>1 DEF CallOK
    <2> QED
      BY <1>3, <2>2 DEF CallsInv
  <1> DEFINE R == [is : {"untouched", "confirmed", "rejected", "gone"}, by : Batches \cup {NoBatch}, true : BOOLEAN]
  <1>6. table \in [Steps -> R]
    BY DEF RestInv
  <1>8. ASSUME NEW is \in {"confirmed", "rejected"}, batch[b].i \in Steps, Marks(b, batch[b].i, is)
        PROVE  /\ table' \in [Steps -> R]
               /\ "db" \notin hap =>
                     /\ \A s \in Steps \ {batch[b].i} : table'[s] = table[s]
                     /\ \/ table[batch[b].i].is = "gone" /\ table'[batch[b].i] = table[batch[b].i]
                        \/ table'[batch[b].i].is = is /\ table'[batch[b].i].by = b
    <2> DEFINE i == batch[b].i
               w == [is |-> is, by |-> b, true |-> Proven(b, i, is)]
    <2>1. w \in R /\ w.is = is /\ w.by = b
      BY DEF Proven
    <2>2. CASE table' = [table EXCEPT ![i] = IF @.is = "gone" THEN @ ELSE w]
      <3> HIDE DEF w
      <3>1. table' \in [Steps -> R]
        BY <1>6, <1>8, <2>1, <2>2
      <3>2. \A s \in Steps \ {i} : table'[s] = table[s]
        BY <1>6, <1>8, <2>2
      <3>3. table'[i] = IF table[i].is = "gone" THEN table[i] ELSE w
        BY <1>6, <1>8, <2>2
      <3> QED
        BY <2>1, <3>1, <3>2, <3>3
    <2>3. CASE "db" \in hap /\ UNCHANGED table
      BY <1>6, <2>3
    <2> QED
      BY <1>8, <2>2, <2>3 DEF Marks
  <1>9. ASSUME NEW gone \in SUBSET Fills, Cleared(b, gone)
        PROVE  /\ table' \in [Steps -> R]
               /\ \A x \in Steps : table'[x].is = "gone" \/ table'[x] = table[x]
    BY <1>6, <1>9 DEF Cleared
  <1>10. table' \in [Steps -> R]
    BY <1>1, <1>6, <1>8, <1>9 DEF Writes
  <1>11. TableInv'
    <2> SUFFICES ASSUME "db" \notin hap, NEW c \in Batches, NEW s \in Steps, table'[s].by = c, table'[s].is # "gone"
                 PROVE  s \in batch'[c].failed <=> table'[s].is = "rejected"
      BY DEF TableInv
    <2> DEFINE i == batch[b].i
    <2>0. table[s].by = c /\ table[s].is # "gone" => (s \in batch[c].failed <=> table[s].is = "rejected")
      BY DEF TableInv
    <2>1. CASE UNCHANGED table /\ r.failed = batch[b].failed
      BY <1>3, <2>0, <2>1
    <2>2. ASSUME i \in Steps,
                 \/ Marks(b, i, "confirmed") /\ r.failed = batch[b].failed \ {i}
                 \/ Marks(b, i, "rejected") /\ r.failed = batch[b].failed \cup {i}
          PROVE  s \in batch'[c].failed <=> table'[s].is = "rejected"
      <3>1. CASE s = i
        <4>1. \/ Marks(b, i, "confirmed") /\ table'[i].is = "confirmed" /\ table'[i].by = b /\ r.failed = batch[b].failed \ {i}
              \/ Marks(b, i, "rejected") /\ table'[i].is = "rejected" /\ table'[i].by = b /\ r.failed = batch[b].failed \cup {i}
          BY <1>8, <2>2, <3>1
        <4> QED
          BY <1>3, <3>1, <4>1
      <3>2. CASE s # i
        <4>1. table'[s] = table[s]
          BY <1>8, <2>2, <3>2
        <4>2. s \in batch'[c].failed <=> s \in batch[c].failed
          BY <1>3, <2>2, <3>2
        <4> QED
          BY <2>0, <4>1, <4>2
      <3> QED
        BY <3>1, <3>2
    <2>3. ASSUME NEW gone \in SUBSET Fills, Cleared(b, gone), r.failed = batch[b].failed
          PROVE  s \in batch'[c].failed <=> table'[s].is = "rejected"
      <3>1. table'[s] = table[s]
        BY <1>9, <2>3
      <3> QED
        BY <1>3, <2>0, <2>3, <3>1
    <2> QED
      BY <1>1, <2>1, <2>2, <2>3 DEF Writes
  <1> QED
    BY <1>5, <1>10, <1>11

\* A step of a batch or a timer.
LEMMA BatchAdvances ==
    ASSUME CallsInv, Len(log) \in Nat, NEW b \in Batches, BatchStep(b) \/ Timeout(b)
    PROVE  Advances(b)
  BY LoopAdvances, JudgeAdvances, RetryAdvances, RetryJudgeAdvances, HealAdvances, CheckpointAdvances,
     InsertAdvances, TimeoutAdvances DEF BatchStep

\* Calls that are only accepted or stopped.
LEMMA CallsKept ==
    ASSUME CallsInv, TableInv, UNCHANGED <<table, hap>>, Len(log) \in Nat, Len(log') \in Nat, Len(log) <= Len(log'),
           DOMAIN batch' = Batches,
           batch' = [b \in Batches |-> batch'[b]],
           \A b \in Batches : CallOK(batch'[b]) /\ batch'[b].failed = batch[b].failed
    PROVE  CallsInv' /\ TableInv'
  <1>1. \A b \in Batches : batch'[b] \in CallType
    BY DEF CallOK, Sound
  <1>2. batch' \in [Batches -> CallType]
    BY <1>1
  <1>3. Entries(Len(log)) \subseteq Entries(Len(log'))
    BY DEF Entries
  <1>4. ASSUME NEW b \in Batches PROVE (CallOK(batch[b]))'
    BY <1>3 DEF CallOK
  <1> QED
    BY <1>2, <1>4 DEF CallsInv, TableInv

LEMMA AcceptKeeps ==
    ASSUME SystemInv, UNCHANGED hap, (\E b \in Batches : Accept(b)) \/ Stop
    PROVE  CallsInv' /\ TableInv'
  <1>1. CallsInv /\ TableInv /\ Len(log) \in Nat /\ UNCHANGED <<log, table>>
    BY DEF SystemInv, AgentInv, Accept, Stop, steps, executor
  <1>2. CASE Stop
    <2>1. batch' = [b \in Batches |-> [batch[b] EXCEPT !.stopped = @ \/ Running(b)]]
      BY <1>2 DEF Stop
    <2>2. ASSUME NEW b \in Batches
          PROVE  CallOK(batch'[b]) /\ batch'[b].failed = batch[b].failed
      <3> DEFINE q == batch[b]
                 r == [q EXCEPT !.stopped = @ \/ Running(b)]
      <3>1. q \in CallType /\ CallOK(q) /\ Sound(q) /\ Staged(q)
        BY <1>1, Where DEF Sound
      <3>2. /\ r \in CallType /\ r.pc = q.pc /\ r.then = q.then /\ r.i = q.i /\ r.failed = q.failed
            /\ r.skipped = q.skipped /\ r.passed = q.passed /\ r.end = q.end /\ r.got = q.got /\ r.before = q.before
        BY <3>1 DEF CallType, Running
      <3>3. batch'[b] = r
        BY <2>1
      <3> HIDE DEF r
      <3>4. Staged(r) /\ Counted(r) = Counted(q)
        BY <3>1, <3>2 DEF Staged, Stage, Counted
      <3> QED
        BY <3>1, <3>2, <3>3, <3>4 DEF CallOK, Sound
    <2> QED
      BY <1>1, <2>1, <2>2, CallsKept
  <1>3. ASSUME NEW b \in Batches, Accept(b)
        PROVE  CallsInv' /\ TableInv'
    <2> DEFINE q == batch[b]
               r == [q EXCEPT !.pc = "nav"]
    <2>1. q \in CallType /\ CallOK(q) /\ Sound(q) /\ q.pc = "idle" /\ Staged(q)
      BY <1>1, <1>3, Where DEF Sound, Accept
    <2>2. r \in CallType /\ Alike(q, r) /\ Heard(q, r) /\ r.i = q.i /\ r.pc = "nav"
      <3>1. "nav" \in Pcs
        BY DEF Pcs
      <3> QED
        BY <2>1, <3>1, PcFields
    <2>3. batch' = [batch EXCEPT ![b] = r]
      BY <1>3 DEF Accept, Goes, Set
    <2> HIDE DEF r
    <2>4. Staged(r)
      BY <2>1, <2>2 DEF Staged, Stage, OfFill, OfCheckpoint, OfStep, Mending, Alike
    <2>5. CallOK(r)
      BY <2>1, <2>2, <2>4, StaysSound DEF CallOK, Alike, Heard
    <2>6. batch \in [Batches -> CallType] /\ \A c \in Batches : CallOK(batch[c])
      BY <1>1 DEF CallsInv
    <2>7. /\ DOMAIN batch' = Batches /\ batch' = [c \in Batches |-> batch'[c]]
          /\ \A c \in Batches : CallOK(batch'[c]) /\ batch'[c].failed = batch[c].failed
      BY <2>2, <2>3, <2>5, <2>6 DEF Alike
    <2> QED
      BY <1>1, <2>7, CallsKept
  <1> QED
    BY <1>2, <1>3

LEMMA DeliverKeeps ==
    ASSUME SystemInv, UNCHANGED hap, Deliver
    PROVE  CallsInv' /\ TableInv'
  <1> DEFINE e == Head(fromAgent)
             for == {b \in Batches : e.ev # "sync" /\ Awaits(b, e.ev)}
  <1>1. CallsInv /\ TableInv /\ Len(log) \in Nat /\ UNCHANGED <<log, table>>
    BY DEF SystemInv, AgentInv, Deliver, executor
  <1>2. e \in Events /\ e.seen <= Len(log)
    <2>1. fromAgent \in Seq(Events) /\ fromAgent # <<>> /\ \A k \in 1..Len(fromAgent) : fromAgent[k].seen <= Len(log)
      BY DEF SystemInv, WireInv, Deliver
    <2>2. e = fromAgent[1] /\ 1 \in 1..Len(fromAgent)
      BY <2>1
    <2> QED
      BY <2>1, <2>2
  <1>3. batch' = [b \in Batches |-> IF b \in for THEN Answered(batch[b], e) ELSE batch[b]]
    BY DEF Deliver
  <1>4. ASSUME NEW b \in Batches
        PROVE  CallOK(batch'[b]) /\ batch'[b].failed = batch[b].failed
    <2>1. batch[b] \in CallType /\ CallOK(batch[b])
      BY <1>1, Where
    <2>2. CASE b \in for
      <3>1. batch[b].pc \in Waits
        BY <2>2 DEF Awaits, Waits
      <3>2. batch'[b] = Answered(batch[b], e)
        BY <1>3, <2>2
      <3> HIDE DEF e, for
      <3> QED
        BY <1>1, <1>2, <2>1, <3>1, <3>2, AnsweredSound
    <2>3. CASE b \notin for
      BY <1>3, <2>1, <2>3
    <2> QED
      BY <2>2, <2>3
  <1>5. DOMAIN batch' = Batches /\ batch' = [b \in Batches |-> batch'[b]]
    BY <1>3
  <1> QED
    BY <1>1, <1>4, <1>5, CallsKept

\* What the agent does leaves the calls alone.
LEMMA AgentKeeps ==
    ASSUME SystemInv, UNCHANGED hap, Cancelled \/ MainLoop \/ Dies \/ RecordStop \/ UNCHANGED <<vars, hap>>
    PROVE  CallsInv' /\ TableInv'
  <1>1. CallsInv /\ TableInv /\ Len(log) \in Nat /\ log \in Seq(LogEntries)
    BY DEF SystemInv, AgentInv
  <1>2. UNCHANGED <<batch, table>>
    BY DEF Cancelled, MainLoop, DoReplay, GetLog, StartHeal, HealStep, HealActs, HealEnds, Dies, RecordStop, vars, steps
  <1>3. UNCHANGED log \/ \E x : log' = Append(log, x)
    BY DEF Cancelled, MainLoop, DoReplay, GetLog, StartHeal, HealStep, HealActs, HealEnds, Dies, RecordStop, vars, executor
  <1>4. Len(log') \in Nat /\ Len(log) <= Len(log')
    <2>1. ASSUME NEW x, log' = Append(log, x) PROVE Len(log') = Len(log) + 1
      BY <1>1, <2>1
    <2> QED
      BY <1>1, <1>3, <2>1
  <1>5. DOMAIN batch' = Batches /\ batch' = [b \in Batches |-> batch'[b]]
    BY <1>1, <1>2 DEF CallsInv
  <1>6. \A b \in Batches : CallOK(batch'[b]) /\ batch'[b].failed = batch[b].failed
    BY <1>1, <1>2 DEF CallsInv
  <1> QED
    BY <1>1, <1>2, <1>4, <1>5, <1>6, CallsKept

-----------------------------------------------------------------------------
-----------------------------------------------------------------------------
\* What is on the wire, and what the agent keeps.
LEMMA AskFits ==
    ASSUME toAgent \in Seq(Requests), NEW op, NEW s, NEW b, [op |-> op, step |-> s, by |-> b] \in Requests, Ask(op, s, b)
    PROVE  toAgent' \in Seq(Requests)
  BY DEF Ask

\* A call asks in its own name.
LEMMA CallAsks ==
    ASSUME toAgent \in Seq(Requests), CallsInv, NEW b \in Batches
    PROVE  /\ Ask("log", Menu, NoBatch) => toAgent' \in Seq(Requests)
           /\ Ask("cancel", Menu, NoBatch) => toAgent' \in Seq(Requests)
           /\ Ask("replay", Menu, b) => toAgent' \in Seq(Requests)
           /\ batch[b].i \in Steps /\ (Ask("replay", batch[b].i, b) \/ Ask("heal", batch[b].i, b))
                  => toAgent' \in Seq(Requests)
  <1>1. /\ [op |-> "log", step |-> Menu, by |-> NoBatch] \in Requests
        /\ [op |-> "cancel", step |-> Menu, by |-> NoBatch] \in Requests
        /\ [op |-> "replay", step |-> Menu, by |-> b] \in Requests
        /\ batch[b].i \in Steps => /\ [op |-> "replay", step |-> batch[b].i, by |-> b] \in Requests
                                   /\ [op |-> "heal", step |-> batch[b].i, by |-> b] \in Requests
    BY DEF Requests
  <1> QED
    BY <1>1, AskFits

LEMMA BatchKeepsWire ==
    ASSUME SystemInv, NEW b \in Batches, BatchStep(b) \/ Timeout(b)
    PROVE  toAgent' \in Seq(Requests) /\ UNCHANGED <<fromAgent, agent, log, alive, stops>>
  <1>1. toAgent \in Seq(Requests) /\ CallsInv
    BY DEF SystemInv, WireInv
  <1>2. batch[b].pc \in {"retry", "heal"} => batch[b].i \in Steps
    BY <1>1, Where DEF OfFill, OfStep
  <1>3. UNCHANGED <<fromAgent, agent, log, alive, stops>>
    BY DEF BatchStep, Timeout, Navigate, Ended, Skip, Replay, Judge, Retry, RetryJudge, Heal, Healed, HealFails,
       Scan, Insert, Filled, wire, executor
  <1>4. \/ UNCHANGED toAgent
        \/ Ask("log", Menu, NoBatch)
        \/ Ask("replay", Menu, b)
        \/ batch[b].i \in Steps /\ (Ask("replay", batch[b].i, b) \/ Ask("heal", batch[b].i, b))
    BY <1>2 DEF BatchStep, Timeout, Navigate, Ended, Skip, Replay, Judge, Retry, RetryJudge, Heal, Healed, HealFails,
       Scan, Insert, Filled, wire
  <1> QED
    BY <1>1, <1>3, <1>4, CallAsks

\* What a batch does beside the log.
LEMMA BatchKeepsRest ==
    ASSUME SystemInv, UNCHANGED hap, NEW b \in Batches, BatchStep(b) \/ Timeout(b)
    PROVE  /\ flags' \in [abort : BOOLEAN, suppress : BOOLEAN, busy : BOOLEAN]
           /\ UNCHANGED <<appended, consumed>> /\ inserted' \subseteq inserted \cup Entries(Len(log))
  <1>1. UNCHANGED flags \/ flags' = Free
    BY DEF BatchStep, Timeout, Navigate, Ended, Skip, Replay, Judge, Retry, RetryJudge, Heal, Healed, HealFails,
       Scan, Insert, Filled, Over, FailsWith
  <1>2. flags' \in [abort : BOOLEAN, suppress : BOOLEAN, busy : BOOLEAN]
    <2>1. flags \in [abort : BOOLEAN, suppress : BOOLEAN, busy : BOOLEAN]
      BY DEF SystemInv, RestInv
    <2>2. Free \in [abort : BOOLEAN, suppress : BOOLEAN, busy : BOOLEAN]
      BY DEF Free
    <2> QED
      BY <1>1, <2>1, <2>2
  <1>3. UNCHANGED <<appended, consumed>>
    BY DEF BatchStep, Timeout, Navigate, Ended, Skip, Replay, Judge, Retry, RetryJudge, Heal, Healed, HealFails,
       Scan, Insert, Filled, steps
  <1>4. UNCHANGED inserted \/ \E filled \in SUBSET (batch[b].got \ batch[b].before) : inserted' = inserted \cup filled
    BY DEF BatchStep, Timeout, Navigate, Ended, Skip, Replay, Judge, Retry, RetryJudge, Heal, Healed, HealFails,
       Scan, Insert, Filled, steps
  <1>5. batch[b].got \subseteq Entries(Len(log))
    BY Where DEF SystemInv, CallOK
  <1> QED
    BY <1>2, <1>3, <1>4, <1>5

LEMMA BatchKeepsSystem ==
    ASSUME SystemInv, UNCHANGED hap, NEW b \in Batches, BatchStep(b) \/ Timeout(b)
    PROVE  SystemInv'
  <1>1. Len(log) \in Nat
    BY DEF SystemInv, AgentInv
  <1>2. Advances(b)
    BY <1>1, BatchAdvances DEF SystemInv
  <1>3. toAgent' \in Seq(Requests) /\ UNCHANGED <<fromAgent, agent, log, alive, stops>>
    BY BatchKeepsWire
  <1>4. /\ CallsInv' /\ TableInv'
        /\ table' \in [Steps -> [is : {"untouched", "confirmed", "rejected", "gone"}, by : Batches \cup {NoBatch}, true : BOOLEAN]]
    BY <1>2, <1>3, AdvanceKeeps DEF SystemInv
  <1>5. WireInv' /\ AgentInv'
    BY <1>3 DEF SystemInv, WireInv, AgentInv
  <1>6. RestInv'
    BY <1>3, <1>4, BatchKeepsRest DEF SystemInv, RestInv
  <1> QED
    BY <1>4, <1>5, <1>6 DEF SystemInv

LEMMA CallKeepsSystem ==
    ASSUME SystemInv, UNCHANGED hap, (\E b \in Batches : Accept(b)) \/ Stop \/ RecordStop
    PROVE  SystemInv'
  <1>1. CallsInv' /\ TableInv'
    BY AcceptKeeps, AgentKeeps
  <1>2. /\ UNCHANGED <<table, appended, inserted, consumed, fromAgent, agent, log, alive>>
        /\ UNCHANGED toAgent \/ Ask("cancel", Menu, NoBatch)
    BY DEF Accept, Stop, RecordStop, steps, wire, executor
  <1>3. toAgent' \in Seq(Requests)
    <2>1. [op |-> "cancel", step |-> Menu, by |-> NoBatch] \in Requests
      BY DEF Requests
    <2> QED
      BY <1>2, <2>1, AskFits DEF SystemInv, WireInv
  <1>4. flags' \in [abort : BOOLEAN, suppress : BOOLEAN, busy : BOOLEAN]
    <2>1. flags \in [abort : BOOLEAN, suppress : BOOLEAN, busy : BOOLEAN]
      BY DEF SystemInv, RestInv
    <2>2. \/ flags' = [abort |-> FALSE, suppress |-> TRUE, busy |-> TRUE]
          \/ flags' = [flags EXCEPT !.abort = TRUE]
          \/ flags' = [flags EXCEPT !.busy = FALSE]
      BY DEF Accept, Stop, RecordStop
    <2>3. [flags EXCEPT !.abort = TRUE] \in [abort : BOOLEAN, suppress : BOOLEAN, busy : BOOLEAN]
      BY <2>1
    <2>4. [flags EXCEPT !.busy = FALSE] \in [abort : BOOLEAN, suppress : BOOLEAN, busy : BOOLEAN]
      BY <2>1
    <2>5. [abort |-> FALSE, suppress |-> TRUE, busy |-> TRUE] \in [abort : BOOLEAN, suppress : BOOLEAN, busy : BOOLEAN]
      OBVIOUS
    <2> QED
      BY <2>2, <2>3, <2>4, <2>5, Zenon
  <1>5. stops' \in 0..MaxStops
    BY Numbers DEF SystemInv, RestInv, Accept, Stop, RecordStop
  <1>6. WireInv' /\ AgentInv' /\ RestInv'
    BY <1>2, <1>3, <1>4, <1>5 DEF SystemInv, WireInv, AgentInv, RestInv
  <1> QED
    BY <1>1, <1>6 DEF SystemInv

\* The first event is taken from the channel.
LEMMA TailFits ==
    ASSUME WireInv, fromAgent # <<>>, fromAgent' = Tail(fromAgent), UNCHANGED log
    PROVE  /\ Head(fromAgent) \in Events /\ Head(fromAgent) = fromAgent[1] /\ Head(fromAgent).seen <= Len(log)
           /\ fromAgent' \in Seq(Events) /\ Len(fromAgent') = Len(fromAgent) - 1
           /\ \A k \in 1..Len(fromAgent') : k + 1 \in 1..Len(fromAgent) /\ fromAgent'[k] = fromAgent[k + 1]
           /\ \A k \in 1..Len(fromAgent') : fromAgent'[k].seen <= Len(log')
  <1>1. fromAgent \in Seq(Events) /\ \A k \in 1..Len(fromAgent) : fromAgent[k].seen <= Len(log)
    BY DEF WireInv
  <1>2. /\ Head(fromAgent) \in Events /\ Head(fromAgent) = fromAgent[1] /\ 1 \in 1..Len(fromAgent)
        /\ fromAgent' \in Seq(Events) /\ Len(fromAgent') = Len(fromAgent) - 1
    BY <1>1
  <1>3. \A k \in 1..Len(fromAgent') : k + 1 \in 1..Len(fromAgent) /\ fromAgent'[k] = fromAgent[k + 1]
    BY <1>1, <1>2
  <1> QED
    BY <1>1, <1>2, <1>3

LEMMA DeliverKeepsSystem ==
    ASSUME SystemInv, UNCHANGED hap, Deliver
    PROVE  SystemInv'
  <1> DEFINE e == Head(fromAgent)
             for == {b \in Batches : e.ev # "sync" /\ Awaits(b, e.ev)}
             ask == {b \in for : Answered(batch[b], e).pc = "logWait"}
             known == consumed \cup IF e.ev = "log" /\ \E b \in for : Consumes(b) THEN Entries(e.seen) ELSE {}
             new == IF e.ev \in {"sync", "log"} /\ ~flags.suppress THEN Entries(e.seen) \ known ELSE {}
  <1>1. CallsInv' /\ TableInv'
    BY DeliverKeeps
  <1>2. UNCHANGED <<log, agent, alive, table, inserted, stops>>
    BY DEF Deliver, executor
  <1>3. /\ e \in Events /\ e.seen <= Len(log) /\ fromAgent' \in Seq(Events)
        /\ \A k \in 1..Len(fromAgent') : fromAgent'[k].seen <= Len(log')
    BY <1>2, TailFits DEF SystemInv, Deliver
  <1>4. /\ flags' = IF \E b \in for : batch'[b].pc = "over" THEN Free ELSE flags
        /\ toAgent' = IF ask = {} \/ ~alive THEN toAgent
                      ELSE toAgent \o [k \in 1..Cardinality(ask) |-> [op |-> "log", step |-> Menu, by |-> NoBatch]]
        /\ appended' = appended \cup new
        /\ consumed' = known \cup new
    BY DEF Deliver
  <1>5. Cardinality(ask) \in Nat
    <2>1. IsFiniteSet(Batches)
      BY Numbers, FS_Interval DEF Batches
    <2>2. ask \subseteq Batches
      OBVIOUS
    <2> QED
      BY <2>1, <2>2, FS_Subset, FS_CardinalityType
  <1>6. toAgent' \in Seq(Requests)
    <2> DEFINE logs == [k \in 1..Cardinality(ask) |-> [op |-> "log", step |-> Menu, by |-> NoBatch]]
    <2>1. [op |-> "log", step |-> Menu, by |-> NoBatch] \in Requests
      BY DEF Requests
    <2>2. logs \in Seq(Requests)
      <3> HIDE DEF ask
      <3> QED
        BY <1>5, <2>1, IsASeq
    <2>3. toAgent \in Seq(Requests)
      BY DEF SystemInv, WireInv
    <2> HIDE DEF logs, ask
    <2>4. toAgent \o logs \in Seq(Requests)
      BY <2>2, <2>3
    <2> QED
      BY <1>4, <2>3, <2>4 DEF logs
  <1>7. flags' \in [abort : BOOLEAN, suppress : BOOLEAN, busy : BOOLEAN]
    BY <1>4 DEF Free, SystemInv, RestInv
  <1>8. appended' \cup inserted' \cup consumed' \subseteq Entries(Len(log'))
    <2>1. Entries(e.seen) \subseteq Entries(Len(log))
      BY <1>3 DEF Entries, SystemInv, AgentInv, Events
    <2>2. appended \cup inserted \cup consumed \subseteq Entries(Len(log))
      BY DEF SystemInv, RestInv
    <2> QED
      BY <1>2, <1>4, <2>1, <2>2
  <1>9. WireInv' /\ AgentInv'
    BY <1>2, <1>3, <1>6 DEF SystemInv, WireInv, AgentInv
  <1>10. RestInv'
    BY <1>2, <1>7, <1>8 DEF SystemInv, RestInv
  <1> QED
    BY <1>1, <1>9, <1>10 DEF SystemInv

\* What the agent sends.
LEMMA EventFits ==
    ASSUME NEW seen \in Nat, NEW ev \in {"done", "log", "sync", "stopped", "healed", "healError"}
    PROVE  Event(ev, seen) \in Events /\ Event(ev, seen).seen = seen /\ Event(ev, seen).ev = ev
  <1>1. NoStep \in (Batches \cup {NoBatch}) \X (Steps \cup {Menu}) /\ None \in Results
    BY DEF NoStep, Results
  <1> QED
    BY <1>1 DEF Events, Event

LEMMA SendsOne ==
    ASSUME NEW f \in Seq(Events), NEW n \in Nat, \A k \in 1..Len(f) : f[k].seen <= n,
           NEW e \in Events, e.seen <= n
    PROVE  Append(f, e) \in Seq(Events) /\ \A k \in 1..Len(Append(f, e)) : Append(f, e)[k].seen <= n
  <1>1. Append(f, e) \in Seq(Events) /\ Len(Append(f, e)) = Len(f) + 1
    OBVIOUS
  <1>2. Append(f, e)[Len(f) + 1] = e /\ \A k \in 1..Len(f) : Append(f, e)[k] = f[k]
    OBVIOUS
  <1> QED
    BY <1>1, <1>2

\* The log only grows.
LEMMA SentBefore ==
    ASSUME WireInv, AgentInv, NEW n \in Nat, Len(log) <= n
    PROVE  fromAgent \in Seq(Events) /\ \A k \in 1..Len(fromAgent) : fromAgent[k].seen <= n
  <1>1. fromAgent \in Seq(Events) /\ (\A k \in 1..Len(fromAgent) : fromAgent[k].seen <= Len(log)) /\ Len(log) \in Nat
    BY DEF WireInv, AgentInv
  <1>2. ASSUME NEW k \in 1..Len(fromAgent) PROVE fromAgent[k].seen \in Nat
    <2>1. fromAgent[k] \in Events
      BY <1>1
    <2> QED
      BY <2>1 DEF Events
  <1> QED
    BY <1>1, <1>2

LEMMA CancelledKeepsWire ==
    ASSUME SystemInv, Cancelled
    PROVE  WireInv' /\ AgentInv'
  <1>1. toAgent \in Seq(Requests) /\ Len(log) \in Nat /\ WireInv /\ AgentInv
    BY DEF SystemInv, WireInv, AgentInv
  <1>2. PICK k \in 1..Len(toAgent) :
            /\ toAgent' = SubSeq(toAgent, 1, k - 1) \o SubSeq(toAgent, k + 1, Len(toAgent))
            /\ fromAgent' = Append(fromAgent, Event("stopped", 0))
            /\ agent' = [agent EXCEPT !.stop = TRUE]
            /\ UNCHANGED <<log, alive>>
    BY DEF Cancelled
  <1>3. toAgent' \in Seq(Requests)
    BY <1>1, <1>2
  <1>4. fromAgent' \in Seq(Events) /\ \A j \in 1..Len(fromAgent') : fromAgent'[j].seen <= Len(log')
    <2>1. Event("stopped", 0) \in Events /\ Event("stopped", 0).seen = 0
      BY EventFits
    <2>2. 0 <= Len(log) /\ Len(log) <= Len(log)
      BY <1>1
    <2>3. fromAgent \in Seq(Events) /\ \A j \in 1..Len(fromAgent) : fromAgent[j].seen <= Len(log)
      BY <1>1, <2>2, SentBefore
    <2> QED
      BY <1>1, <1>2, <2>1, <2>2, <2>3, SendsOne
  <1>5. AgentInv'
    BY <1>1, <1>2 DEF AgentInv
  <1> QED
    BY <1>3, <1>4, <1>5 DEF WireInv

LEMMA TakesFits ==
    ASSUME SystemInv, NEW op, Takes(op)
    PROVE  /\ toAgent' \in Seq(Requests) /\ Head(toAgent) \in Requests /\ Head(toAgent).op = op
           /\ Head(toAgent) = toAgent[1] /\ Len(toAgent') = Len(toAgent) - 1 /\ 1 \in 1..Len(toAgent)
           /\ \A k \in 1..Len(toAgent') : k + 1 \in 1..Len(toAgent) /\ toAgent'[k] = toAgent[k + 1]
           /\ agent.work = "idle" /\ Len(log) \in Nat /\ WireInv /\ AgentInv
  <1>1. toAgent \in Seq(Requests) /\ toAgent # <<>> /\ toAgent' = Tail(toAgent) /\ Len(log) \in Nat
    BY DEF SystemInv, WireInv, AgentInv, Takes
  <1> QED
    BY <1>1 DEF Takes, SystemInv

LEMMA DoReplayKeepsWire ==
    ASSUME SystemInv, DoReplay
    PROVE  WireInv' /\ AgentInv'
  <1> DEFINE m == Head(toAgent)
  <1>1. /\ toAgent' \in Seq(Requests) /\ m \in Requests /\ m.op = "replay" /\ agent.work = "idle" /\ Len(log) \in Nat
        /\ WireInv /\ AgentInv
    BY TakesFits DEF DoReplay
  <1>2. PICK res \in IF m.step = Menu THEN {"ok", "fail"} ELSE Outcomes(m.step) :
            LET answer == [Event("done", 0) EXCEPT !.res = res, !.of = <<m.by, m.step>>]
            IN \/ fromAgent' = Append(fromAgent, answer) /\ UNCHANGED log
               \/ "late" \in hap /\ UNCHANGED <<fromAgent, log>>
               \/ /\ m.step \in Fills /\ Len(log) < MaxLog
                  /\ log' = Append(log, [how |-> "replay", by |-> m.by])
                  /\ fromAgent' = fromAgent \o <<Sync(log'), answer>>
    BY DEF DoReplay
  <1> DEFINE answer == [Event("done", 0) EXCEPT !.res = res, !.of = <<m.by, m.step>>]
  <1>3. answer \in Events /\ answer.seen = 0
    <2>1. Event("done", 0) \in Events /\ Event("done", 0).seen = 0
      BY EventFits
    <2>2. res \in Results
      BY <1>2 DEF Outcomes, Results
    <2>3. <<m.by, m.step>> \in (Batches \cup {NoBatch}) \X (Steps \cup {Menu})
      BY <1>1 DEF Requests
    <2> QED
      BY <2>1, <2>2, <2>3 DEF Events
  <1> HIDE DEF answer
  <1>4. UNCHANGED <<agent, alive>>
    BY DEF DoReplay
  <1>5. CASE fromAgent' = Append(fromAgent, answer) /\ UNCHANGED log
    <2>1. fromAgent' \in Seq(Events) /\ \A k \in 1..Len(fromAgent') : fromAgent'[k].seen <= Len(log')
      BY <1>1, <1>3, <1>5, SentBefore, SendsOne
    <2> QED
      BY <1>1, <1>4, <1>5, <2>1 DEF WireInv, AgentInv
  <1>6. CASE UNCHANGED <<fromAgent, log>>
    BY <1>1, <1>4, <1>6 DEF WireInv, AgentInv
  <1>7. CASE /\ Len(log) < MaxLog /\ log' = Append(log, [how |-> "replay", by |-> m.by])
             /\ fromAgent' = fromAgent \o <<Sync(log'), answer>>
    <2>1. log \in Seq(LogEntries) /\ [how |-> "replay", by |-> m.by] \in LogEntries
      BY <1>1 DEF AgentInv, LogEntries, Requests
    <2>2. log' \in Seq(LogEntries) /\ Len(log') = Len(log) + 1
      BY <1>7, <2>1
    <2>3. Len(log') \in Nat /\ Len(log) <= Len(log')
      BY <1>1, <2>2
    <2>4. Sync(log') \in Events /\ Sync(log').seen = Len(log')
      BY <2>3, EventFits DEF Sync
    <2> DEFINE f == Append(fromAgent, Sync(log'))
    <2>5. f \in Seq(Events) /\ \A k \in 1..Len(f) : f[k].seen <= Len(log')
      BY <1>1, <2>3, <2>4, SentBefore, SendsOne
    <2>6. fromAgent' = Append(f, answer)
      <3>1. fromAgent \in Seq(Events)
        BY <1>1 DEF WireInv
      <3> QED
        BY <1>3, <1>7, <2>4, <3>1
    <2> HIDE DEF f
    <2>7. fromAgent' \in Seq(Events) /\ \A k \in 1..Len(fromAgent') : fromAgent'[k].seen <= Len(log')
      BY <1>3, <2>3, <2>5, <2>6, SendsOne
    <2>9. Len(log') <= MaxLog /\ agent'.work = "idle"
      BY <1>1, <1>4, <1>7, <2>2, Numbers
    <2> QED
      BY <1>1, <1>4, <2>2, <2>7, <2>9 DEF WireInv, AgentInv
  <1> QED
    BY <1>2, <1>5, <1>6, <1>7 DEF answer

LEMMA HealKeepsWire ==
    ASSUME SystemInv, StartHeal \/ HealStep \/ HealActs \/ HealEnds \/ GetLog \/ Dies
    PROVE  WireInv' /\ AgentInv'
  <1>1. Len(log) \in Nat /\ WireInv /\ AgentInv /\ log \in Seq(LogEntries) /\ Len(log) <= MaxLog
    BY DEF SystemInv, AgentInv
  <1>2. CASE GetLog
    <2>1. toAgent' \in Seq(Requests)
      BY <1>2, TakesFits DEF GetLog
    <2>2. Event("log", Len(log)) \in Events /\ Event("log", Len(log)).seen = Len(log)
      BY <1>1, EventFits
    <2>3. fromAgent' = Append(fromAgent, Event("log", Len(log))) /\ UNCHANGED <<agent, log, alive>>
      BY <1>2 DEF GetLog, executor
    <2>4. fromAgent' \in Seq(Events) /\ \A k \in 1..Len(fromAgent') : fromAgent'[k].seen <= Len(log')
      BY <1>1, <2>2, <2>3, SentBefore, SendsOne
    <2> QED
      BY <1>1, <2>1, <2>3, <2>4 DEF WireInv, AgentInv
  <1>3. CASE StartHeal
    <2>1. toAgent' \in Seq(Requests) /\ Head(toAgent) \in Requests /\ Head(toAgent).op = "heal"
      BY <1>3, TakesFits DEF StartHeal
    <2>2. Head(toAgent).by \in Batches
      BY <2>1 DEF Requests
    <2> QED
      BY <1>1, <1>3, <2>1, <2>2 DEF StartHeal, WireInv, AgentInv
  <1>4. CASE HealStep
    <2>1. agent \in [work : {"idle", "boundary", "acting"}, by : Batches \cup {NoBatch}, stop : BOOLEAN] /\ agent.by \in Batches
      BY <1>1, <1>4 DEF HealStep, AgentInv
    <2> QED
      BY <1>1, <1>4, <2>1 DEF HealStep, WireInv, AgentInv, wire
  <1>5. CASE HealActs
    <2>1. agent \in [work : {"idle", "boundary", "acting"}, by : Batches \cup {NoBatch}, stop : BOOLEAN] /\ agent.by \in Batches
          /\ Len(log) < MaxLog
      BY <1>1, <1>5 DEF HealActs, AgentInv
    <2>2. /\ log' = Append(log, [how |-> "heal", by |-> agent.by])
          /\ fromAgent' = Append(fromAgent, Sync(log'))
          /\ agent' = [agent EXCEPT !.work = "boundary"]
          /\ UNCHANGED <<toAgent, alive>>
      BY <1>5 DEF HealActs
    <2>3. [how |-> "heal", by |-> agent.by] \in LogEntries
      BY <2>1 DEF LogEntries
    <2>4. log' \in Seq(LogEntries) /\ Len(log') = Len(log) + 1 /\ Len(log') \in Nat /\ Len(log) <= Len(log') /\ Len(log') <= MaxLog
      BY <1>1, <2>1, <2>2, <2>3, Numbers
    <2>5. Sync(log') \in Events /\ Sync(log').seen = Len(log')
      BY <2>4, EventFits DEF Sync
    <2>6. fromAgent' \in Seq(Events) /\ \A k \in 1..Len(fromAgent') : fromAgent'[k].seen <= Len(log')
      BY <1>1, <2>2, <2>4, <2>5, SentBefore, SendsOne
    <2>7. agent' \in [work : {"idle", "boundary", "acting"}, by : Batches \cup {NoBatch}, stop : BOOLEAN]
          /\ agent'.by \in Batches /\ agent'.work = "boundary"
      BY <2>1, <2>2
    <2> QED
      BY <1>1, <2>2, <2>4, <2>6, <2>7 DEF WireInv, AgentInv
  <1>6. CASE HealEnds
    <2>1. agent \in [work : {"idle", "boundary", "acting"}, by : Batches \cup {NoBatch}, stop : BOOLEAN]
      BY <1>1 DEF AgentInv
    <2>2. /\ agent' = [agent EXCEPT !.work = "idle"]
          /\ \/ fromAgent' = Append(fromAgent, Event("healed", 0))
             \/ fromAgent' = fromAgent \o <<Event("healError", 0), Event("healed", 0)>>
             \/ UNCHANGED fromAgent
          /\ UNCHANGED <<toAgent, alive, log>>
      BY <1>6 DEF HealEnds
    <2>3. /\ Event("healed", 0) \in Events /\ Event("healed", 0).seen = 0
          /\ Event("healError", 0) \in Events /\ Event("healError", 0).seen = 0
      BY EventFits
    <2> DEFINE f == Append(fromAgent, Event("healError", 0))
    <2>4. f \in Seq(Events) /\ \A k \in 1..Len(f) : f[k].seen <= Len(log)
      BY <1>1, <2>3, SentBefore, SendsOne
    <2>5. fromAgent \o <<Event("healError", 0), Event("healed", 0)>> = Append(f, Event("healed", 0))
      <3>1. fromAgent \in Seq(Events)
        BY <1>1 DEF WireInv
      <3> QED
        BY <2>3, <3>1
    <2> HIDE DEF f
    <2>6. fromAgent' \in Seq(Events) /\ \A k \in 1..Len(fromAgent') : fromAgent'[k].seen <= Len(log)
      <3>1. 0 <= Len(log) /\ Len(log) <= Len(log)
        BY <1>1
      <3>2. fromAgent \in Seq(Events) /\ \A k \in 1..Len(fromAgent) : fromAgent[k].seen <= Len(log)
        BY <1>1, <3>1, SentBefore
      <3>3. CASE fromAgent' = Append(fromAgent, Event("healed", 0))
        BY <1>1, <2>3, <3>1, <3>2, <3>3, SendsOne
      <3>4. CASE fromAgent' = Append(f, Event("healed", 0))
        BY <1>1, <2>3, <2>4, <3>1, <3>4, SendsOne
      <3> QED
        BY <2>2, <2>5, <3>2, <3>3, <3>4
    <2>7. agent' \in [work : {"idle", "boundary", "acting"}, by : Batches \cup {NoBatch}, stop : BOOLEAN] /\ agent'.work = "idle"
      BY <2>1, <2>2
    <2> QED
      BY <1>1, <2>2, <2>6, <2>7 DEF WireInv, AgentInv
  <1>7. CASE Dies
    <2>1. agent \in [work : {"idle", "boundary", "acting"}, by : Batches \cup {NoBatch}, stop : BOOLEAN]
      BY <1>1 DEF AgentInv
    <2>2. /\ agent' = [agent EXCEPT !.work = "idle"] /\ toAgent' = <<>> /\ alive' = FALSE
          /\ UNCHANGED <<fromAgent, log>>
      BY <1>7 DEF Dies
    <2>3. agent' \in [work : {"idle", "boundary", "acting"}, by : Batches \cup {NoBatch}, stop : BOOLEAN] /\ agent'.work = "idle"
      BY <2>1, <2>2
    <2>4. toAgent' \in Seq(Requests)
      BY <2>2
    <2> QED
      BY <1>1, <2>2, <2>3, <2>4 DEF WireInv, AgentInv
  <1> QED
    BY <1>2, <1>3, <1>4, <1>5, <1>6, <1>7

LEMMA AgentKeepsSystem ==
    ASSUME SystemInv, UNCHANGED hap, Cancelled \/ MainLoop \/ Dies
    PROVE  SystemInv'
  <1>1. CallsInv' /\ TableInv'
    BY AgentKeeps
  <1>2. WireInv' /\ AgentInv'
    BY CancelledKeepsWire, DoReplayKeepsWire, HealKeepsWire DEF MainLoop
  <1>3. UNCHANGED <<flags, table, appended, inserted, consumed, stops>>
    BY DEF Cancelled, MainLoop, DoReplay, GetLog, StartHeal, HealStep, HealActs, HealEnds, Dies, steps
  <1>4. Len(log) \in Nat /\ Len(log') \in Nat /\ Len(log) <= Len(log')
    <2>1. Len(log) \in Nat /\ log \in Seq(LogEntries) /\ Len(log') \in Nat
      BY <1>2 DEF SystemInv, AgentInv
    <2>2. UNCHANGED log \/ \E x : log' = Append(log, x)
      BY DEF Cancelled, MainLoop, DoReplay, GetLog, StartHeal, HealStep, HealActs, HealEnds, Dies, executor
    <2>3. ASSUME NEW x, log' = Append(log, x) PROVE Len(log') = Len(log) + 1
      BY <2>1, <2>3
    <2> QED
      BY <2>1, <2>2, <2>3
  <1>5. RestInv'
    <2>1. Entries(Len(log)) \subseteq Entries(Len(log'))
      BY <1>4 DEF Entries
    <2> QED
      BY <1>3, <2>1 DEF SystemInv, RestInv
  <1> QED
    BY <1>1, <1>2, <1>5 DEF SystemInv

LEMMA SystemStep == SystemInv /\ [Next /\ UNCHANGED hap]_<<vars, hap>> => SystemInv'
  <1> SUFFICES ASSUME SystemInv, [Next /\ UNCHANGED hap]_<<vars, hap>>
               PROVE  SystemInv'
    OBVIOUS
  <1>1. CASE Next /\ UNCHANGED hap
    BY <1>1, BatchKeepsSystem, CallKeepsSystem, DeliverKeepsSystem, AgentKeepsSystem DEF Next
  <1>2. CASE UNCHANGED <<vars, hap>>
    <2>1. CallsInv' /\ TableInv'
      BY <1>2, AgentKeeps
    <2>2. UNCHANGED <<flags, table, appended, inserted, consumed, toAgent, fromAgent, agent, log, alive, stops, hap>>
      BY <1>2 DEF vars, steps, wire, executor
    <2> QED
      BY <2>1, <2>2 DEF SystemInv, WireInv, AgentInv, RestInv
  <1> QED
    BY <1>1, <1>2

LEMMA SystemTypes == SystemInv => TypeOK
  <1> SUFFICES ASSUME SystemInv PROVE TypeOK
    OBVIOUS
  <1>1. \A b \in Batches : batch[b] \in CallType
    BY DEF SystemInv, CallsInv
  <1> QED
    BY <1>1 DEF TypeOK, SystemInv, RestInv, AgentInv, CallType

LEMMA SystemReports == SystemInv => ReportAgrees
  <1> SUFFICES ASSUME SystemInv, Without({"db"}), NEW b \in Batches, IsOver(b)
               PROVE  /\ \A s \in Steps : table[s].by = b /\ table[s].is # "gone" =>
                            (s \in batch[b].failed <=> table[s].is = "rejected")
                      /\ batch[b].end = "finished" =>
                            batch[b].passed + Cardinality(batch[b].failed)
                                \in NumSteps - Cardinality(batch[b].skipped)..NumSteps
    BY DEF ReportAgrees
  <1>1. Sound(batch[b])
    BY Where DEF SystemInv
  <1> QED
    BY <1>1 DEF SystemInv, TableInv, Without, Sound

-----------------------------------------------------------------------------
(***************************************************************************)
(* Where batches do not overlap and no answer is late, the two channels    *)
(* hold at most what the one call that runs has asked for: a request that  *)
(* is Due, then an answer that Fits.  That makes every answer of the right *)
(* step (Told), and everything the agent has recorded either consumed or   *)
(* the work of a heal that a stop has interrupted (Safe, Echo).            *)
(*                                                                         *)
(* Exchange is given up when the session has ended and nothing is under    *)
(* way (Lost): from then on nobody is heard.                               *)
(***************************************************************************)
Calm == Apart /\ Without({"late"})
Lost == ~alive /\ fromAgent = <<>>
HushInv == ~alive => toAgent = <<>> /\ agent.work = "idle"

Unseen == Entries(Len(log)) \ consumed
Spared(b) == batch[b].end = "aborted" \/ batch[b].pc = "healWait"
Safe(n) == \A m \in 1..n \ consumed : log[m].how = "heal" /\ Spared(log[m].by)

WaitsDone(b) == batch[b].pc \in {"navWait", "wait", "retryWait"}
Target(b) == IF batch[b].pc = "navWait" THEN Menu ELSE batch[b].i
OnlyCancels == \A k \in 1..Len(toAgent) : toAgent[k].op = "cancel"
AgentRests == agent.work = "idle" /\ OnlyCancels
Heals == \E b \in Batches : batch[b].pc = "healWait"

Own(m) == m.op \in {"replay", "log"} \/ (m.op = "heal" /\ batch[m.by].pc = "healWait")
Due(m) ==
    /\ m.op = "replay" => WaitsDone(m.by) /\ m.step = Target(m.by)
    /\ m.op = "log" => \E b \in Batches : batch[b].pc = "logWait"
    /\ m.op = "heal" => /\ Spared(m.by) /\ Safe(Len(log))
                        /\ \A b \in Batches : batch[b].pc = "healWait" => m.by = b
Asked ==
    /\ \A j \in 1..Len(toAgent) : Due(toAgent[j])
    /\ \A j, k \in 1..Len(toAgent) : j < k /\ Own(toAgent[j]) => toAgent[k].op = "cancel"
Working ==
    agent.work # "idle" =>
        /\ Spared(agent.by) /\ Safe(Len(log))
        /\ \A b \in Batches : batch[b].pc = "healWait" => agent.by = b /\ OnlyCancels

Fits(e) ==
    /\ e.ev = "done" =>
          \E b \in Batches : /\ WaitsDone(b) /\ e.of = <<b, Target(b)>>
                             /\ Target(b) # Menu => e.res \in Outcomes(Target(b))
    /\ e.ev = "log" => (\E b \in Batches : batch[b].pc = "logWait") /\ e.seen = Len(log)
    /\ e.ev \in {"done", "log"} => AgentRests
    /\ e.ev \in {"healed", "healError"} /\ Heals => AgentRests
Follow(e, f) ==
    /\ e.ev \in {"done", "log"} => f.ev = "stopped"
    /\ e.ev \in {"healed", "healError"} /\ Heals =>
          f.ev = "stopped" \/ (e.ev = "healError" /\ f.ev = "healed")
Answers ==
    /\ \A j \in 1..Len(fromAgent) : Fits(fromAgent[j])
    /\ \A j, k \in 1..Len(fromAgent) : j < k => Follow(fromAgent[j], fromAgent[k])
Revealed ==
    \A j \in 1..Len(fromAgent) : fromAgent[j].ev = "sync" =>
        \/ Safe(fromAgent[j].seen)
        \/ \E k \in j..Len(fromAgent) : fromAgent[k].ev \in {"done", "log"}

Considers == {"judge", "scan", "retry", "retryJudge", "heal"}
Silent == Considers \cup {"healed", "healError", "fetched", "filled"}
Quiet(r) ==
    /\ r.pc \in Silent => AgentRests
    /\ r.pc = "logWait" => agent.work = "idle" /\ \A k \in 1..Len(toAgent) : toAgent[k].op \in {"cancel", "log"}
    /\ r.pc \in (Silent \ {"healError"}) \cup {"logWait"} =>
          \A k \in 1..Len(fromAgent) : fromAgent[k].ev \notin {"healed", "healError"}
    /\ r.pc \in Considers \/ (r.pc = "logWait" /\ r.then = "heal") => Unseen = {}
    /\ r.i \in Checkpoints /\ Stage(r) \in {"heal", "healWait", "fetched"} /\ ~(r.pc = "logWait" /\ r.then = "heal") =>
          appended \subseteq r.before
Taken ==
    \/ "db" \in hap \/ inserted \subseteq consumed
    \/ \E b \in Batches : batch[b].pc = "logWait" /\ batch[b].then = "filled"

Exchange == Asked /\ Working /\ Answers /\ Revealed /\ (\A b \in Batches : Quiet(batch[b])) /\ Taken

\* The answer a call has is of the step it is at.
Of(b, r) ==
    /\ Stage(r) \in OfFill \cup OfCheckpoint \cup {"heal", "healWait", "healError"} =>
          r.of = <<b, r.i>> /\ r.res \in Outcomes(r.i)
    /\ Stage(r) \in {"heal", "healWait", "fetched", "filled"} /\ r.i \in Checkpoints =>
          r.res \in {"missing", "added", "both"}
Known ==
    /\ \A b \in Batches : Of(b, batch[b])
    /\ \A b \in Batches : batch[b].pc = "fetched" => appended \cap (batch[b].got \ batch[b].before) = {}
Echo ==
    /\ "db" \in hap \/ appended \cap inserted = {}
    /\ \A n \in appended : log[n].how = "heal" /\ batch[log[n].by].end = "aborted"
Told == \A s \in Steps : table[s].true
CalmInv == Calm => (Lost \/ Exchange) /\ Known /\ Echo /\ Told

-----------------------------------------------------------------------------
\* What a step of a batch makes of its call.
Same(q, r) == r.i = q.i /\ Heard(q, r)
Rests(q, r) ==
    \/ r.pc \in {"loop", "over"}
    \/ r.pc \in {"retry", "heal"} /\ q.pc \in {"judge", "retry", "retryJudge"} /\ Same(q, r)
    \/ r.pc = "filled" /\ q.pc = "scan" /\ q.res = "missing" /\ Same(q, r)
Replays(q, r) ==
    \/ q.pc = "nav" /\ r.pc = "navWait"
    \/ q.pc = "loop" /\ r.pc = "wait"
    \/ q.pc = "retry" /\ r.pc = "retryWait" /\ Same(q, r)
Reads(q, r) ==
    /\ r.pc = "logWait" /\ Same(q, r)
    /\ \/ q.pc = "scan" /\ r.then = "heal" /\ q.res \in {"added", "both"}
       \/ q.pc = "fetched" /\ r.then = "filled"
TurnRests(b, r) == Rests(batch[b], r) /\ UNCHANGED toAgent /\ ("db" \in hap \/ UNCHANGED inserted)
TurnReplays(b, r) ==
    /\ Replays(batch[b], r) /\ UNCHANGED inserted
    /\ r.pc = "navWait" => Ask("replay", Menu, b)
    /\ r.pc # "navWait" => Ask("replay", r.i, b)
TurnHeals(b, r) ==
    batch[b].pc = "heal" /\ r.pc = "healWait" /\ Same(batch[b], r) /\ Ask("heal", r.i, b) /\ UNCHANGED inserted
Inserts(q) == q.pc = "fetched" /\ \E filled \in SUBSET (q.got \ q.before) : inserted' = inserted \cup filled
TurnReads(b, r) ==
    Reads(batch[b], r) /\ Ask("log", Menu, NoBatch) /\ (UNCHANGED inserted \/ Inserts(batch[b]))
Turn(b, r) == TurnRests(b, r) \/ TurnReplays(b, r) \/ TurnHeals(b, r) \/ TurnReads(b, r)

LEMMA SetIs ==
    ASSUME CallsInv, NEW b \in Batches, NEW r, Set(b, r)
    PROVE  batch'[b] = r /\ DOMAIN batch' = Batches /\ \A c \in Batches \ {b} : batch'[c] = batch[c]
  BY DEF CallsInv, Set

LEMMA GoesIs ==
    ASSUME CallsInv, NEW b \in Batches, NEW pc \in Pcs, Goes(b, pc)
    PROVE  Same(batch[b], batch'[b]) /\ batch'[b].pc = pc
  <1>1. batch[b] \in CallType
    BY DEF CallsInv
  <1> DEFINE r == [batch[b] EXCEPT !.pc = pc]
  <1>2. Heard(batch[b], r) /\ r.i = batch[b].i /\ r.pc = pc
    BY <1>1, PcFields
  <1>3. batch'[b] = r
    BY SetIs DEF Goes
  <1> QED
    BY <1>2, <1>3 DEF Same

LEMMA ForthIs ==
    ASSUME NEW r \in CallType
    PROVE  /\ Forth(r).pc = "loop" /\ Passes(r).pc = "loop" /\ Forth(Misses(r)).pc = "loop"
           /\ \A end : Ends(r, end).pc = "over"
           /\ \A s : Passes([r EXCEPT !.failed = @ \ {s}]).pc = "loop"
           /\ \A s, end : Ends([r EXCEPT !.failed = @ \cup {s}], end).pc = "over"
           /\ \A pc : Same(r, [Misses(r) EXCEPT !.pc = pc]) /\ [Misses(r) EXCEPT !.pc = pc].pc = pc
  BY DEF CallType, Forth, Passes, Misses, Ends, Same, Heard

LEMMA BatchTurns ==
    ASSUME CallsInv, NEW b \in Batches, BatchStep(b)
    PROVE  Running(b) /\ batch[b].pc \notin Waits /\ Turn(b, batch'[b])
  <1> DEFINE q == batch[b]
             r == batch'[b]
  <1>1. q \in CallType
    BY DEF CallsInv
  <1>2. Running(b) /\ q.pc \notin Waits
    BY DEF BatchStep, Navigate, Ended, Skip, Replay, Judge, Retry, RetryJudge, Heal, Healed, HealFails,
       Scan, Insert, Filled, Running, Waits
  <1> SUFFICES Turn(b, r)
    BY <1>2
  <1>3. CASE Navigate(b)
    <2>1. UNCHANGED inserted /\ q.pc = "nav" /\ ((Goes(b, "loop") /\ UNCHANGED toAgent) \/ (Goes(b, "navWait") /\ Ask("replay", Menu, b)))
      BY <1>3 DEF Navigate, steps
    <2> QED
      BY <2>1, GoesIs DEF Turn, TurnRests, TurnReplays, Rests, Replays, Pcs
  <1>4. CASE Ended(b) \/ Skip(b) \/ Healed(b) \/ HealFails(b)
    <2>1. /\ UNCHANGED <<toAgent, inserted>>
          /\ \/ Set(b, Forth(q)) \/ \E end : Set(b, Ends(q, end))
             \/ Set(b, Ends([q EXCEPT !.failed = @ \cup {q.i}], "error"))
      BY <1>4 DEF Ended, Skip, Healed, HealFails, Over, FailsWith, steps, wire
    <2>2. r.pc \in {"loop", "over"}
      <3>1. \/ r = Forth(q) \/ \E end : r = Ends(q, end)
            \/ r = Ends([q EXCEPT !.failed = @ \cup {q.i}], "error")
        BY <2>1, SetIs
      <3>2. Ends([q EXCEPT !.failed = @ \cup {q.i}], "error").pc = "over"
        BY <1>1 DEF CallType, Ends
      <3> HIDE DEF q
      <3> QED
        BY <1>1, <3>1, <3>2, ForthIs
    <2> QED
      BY <2>1, <2>2 DEF Turn, TurnRests, Rests
  <1>5. CASE Replay(b)
    <2>1. UNCHANGED inserted /\ q.pc = "loop" /\ Goes(b, "wait") /\ Ask("replay", q.i, b)
      BY <1>5 DEF Replay, steps
    <2> QED
      BY <2>1, GoesIs DEF Turn, TurnReplays, Replays, Pcs, Same
  <1>6. CASE Judge(b) \/ RetryJudge(b) \/ Filled(b)
    <2>1. /\ UNCHANGED <<toAgent, inserted>>
          /\ \/ Set(b, Passes(q)) \/ Set(b, Forth(Misses(q)))
             \/ Set(b, Passes([q EXCEPT !.failed = @ \ {q.i}]))
             \/ \E end : Set(b, Ends(q, end))
             \/ Set(b, Ends([q EXCEPT !.failed = @ \cup {q.i}], "error"))
             \/ q.pc = "judge" /\ \E pc \in {"retry", "heal"} : Set(b, [Misses(q) EXCEPT !.pc = pc])
             \/ q.pc = "retryJudge" /\ Goes(b, "retry")
      BY <1>6 DEF Judge, RetryJudge, Filled, Over, FailsWith, wire
    <2>2. CASE q.pc = "retryJudge" /\ Goes(b, "retry")
      BY <2>1, <2>2, GoesIs DEF Turn, TurnRests, Rests, Pcs
    <2>3. CASE q.pc = "judge" /\ \E pc \in {"retry", "heal"} : Set(b, [Misses(q) EXCEPT !.pc = pc])
      <3>1. PICK pc \in {"retry", "heal"} : r = [Misses(q) EXCEPT !.pc = pc]
        BY <2>3, SetIs
      <3>2. Same(q, r) /\ r.pc = pc
        BY <1>1, <3>1, ForthIs
      <3> QED
        BY <2>1, <2>3, <3>2 DEF Turn, TurnRests, Rests
    <2>4. r.pc \in {"loop", "over"} => Turn(b, r)
      BY <2>1 DEF Turn, TurnRests, Rests
    <2>5. CASE \/ Set(b, Passes(q)) \/ Set(b, Forth(Misses(q)))
               \/ Set(b, Passes([q EXCEPT !.failed = @ \ {q.i}]))
               \/ \E end : Set(b, Ends(q, end))
               \/ Set(b, Ends([q EXCEPT !.failed = @ \cup {q.i}], "error"))
      <3>1. \/ r = Passes(q) \/ r = Forth(Misses(q)) \/ \E end : r = Ends(q, end)
            \/ r = Passes([q EXCEPT !.failed = @ \ {q.i}])
            \/ r = Ends([q EXCEPT !.failed = @ \cup {q.i}], "error")
        BY <2>5, SetIs
      <3>2. Ends([q EXCEPT !.failed = @ \cup {q.i}], "error").pc = "over"
        BY <1>1 DEF CallType, Ends
      <3>3. Passes([q EXCEPT !.failed = @ \ {q.i}]).pc = "loop"
        BY <1>1 DEF CallType, Passes, Forth
      <3> HIDE DEF q
      <3> QED
        BY <1>1, <2>4, <3>1, <3>2, <3>3, ForthIs
    <2> QED
      BY <2>1, <2>2, <2>3, <2>5
  <1>7. CASE Retry(b)
    <2> DEFINE w == [q EXCEPT !.pc = "retryWait", !.tries = @ + 1]
    <2>1. /\ UNCHANGED inserted /\ q.pc = "retry"
          /\ (Goes(b, "heal") /\ UNCHANGED toAgent) \/ (Set(b, w) /\ Ask("replay", q.i, b))
      BY <1>7 DEF Retry, steps
    <2>2. w.pc = "retryWait" /\ Same(q, w)
      BY <1>1 DEF CallType, Same, Heard
    <2> HIDE DEF w
    <2>3. CASE Set(b, w) /\ Ask("replay", q.i, b)
      <3>1. r = w
        BY <2>3, SetIs
      <3> QED
        BY <2>1, <2>2, <2>3, <3>1 DEF Turn, TurnReplays, Replays, Same
    <2>4. CASE Goes(b, "heal") /\ UNCHANGED toAgent
      BY <2>1, <2>4, GoesIs DEF Turn, TurnRests, Rests, Pcs
    <2> QED
      BY <2>1, <2>3, <2>4
  <1>8. CASE Heal(b)
    <2>1. /\ UNCHANGED inserted /\ q.pc = "heal"
          /\ \/ Goes(b, "healWait") /\ Ask("heal", q.i, b)
             \/ Set(b, Ends(q, "aborted")) /\ UNCHANGED toAgent
      BY <1>8 DEF Heal, Over, steps
    <2>2. CASE Goes(b, "healWait") /\ Ask("heal", q.i, b)
      BY <2>1, <2>2, GoesIs DEF Turn, TurnHeals, Pcs, Same
    <2>3. CASE Set(b, Ends(q, "aborted")) /\ UNCHANGED toAgent
      BY <1>1, <2>1, <2>3, SetIs, ForthIs DEF Turn, TurnRests, Rests
    <2> QED
      BY <2>1, <2>2, <2>3
  <1>9. CASE Scan(b)
    <2>1. /\ UNCHANGED inserted /\ q.pc = "scan"
          /\ \/ (Set(b, Forth(Misses(q))) \/ Set(b, Passes(q))) /\ UNCHANGED toAgent
             \/ q.res = "added" /\ Set(b, AskLog(q, "heal")) /\ Ask("log", Menu, NoBatch)
             \/ \E gone \in SUBSET Fills :
                   \/ q.res = "missing" /\ Set(b, [Left(q, gone) EXCEPT !.pc = "filled"]) /\ UNCHANGED toAgent
                   \/ q.res = "both" /\ Set(b, AskLog(Left(q, gone), "heal")) /\ Ask("log", Menu, NoBatch)
                   \/ Set(b, Broken(q, gone)) /\ UNCHANGED toAgent
      <3>1. UNCHANGED inserted
        BY <1>9 DEF Scan
      <3> QED
        BY <1>9, <3>1, ScanIs
    <2>2. CASE (Set(b, Forth(Misses(q))) \/ Set(b, Passes(q))) /\ UNCHANGED toAgent
      BY <1>1, <2>1, <2>2, SetIs, ForthIs DEF Turn, TurnRests, Rests
    <2>3. AskLog(q, "heal").pc = "logWait" /\ AskLog(q, "heal").then = "heal" /\ Same(q, AskLog(q, "heal"))
      BY <1>1 DEF CallType, AskLog, Same, Heard
    <2>4. CASE q.res = "added" /\ Set(b, AskLog(q, "heal")) /\ Ask("log", Menu, NoBatch)
      <3>1. r = AskLog(q, "heal")
        BY <2>4, SetIs
      <3> QED
        BY <2>1, <2>3, <2>4, <3>1 DEF Turn, TurnReads, Reads
    <2>5. ASSUME NEW gone \in SUBSET Fills
          PROVE  /\ LET f == [Left(q, gone) EXCEPT !.pc = "filled"] IN f.pc = "filled" /\ Same(q, f)
                 /\ LET f == AskLog(Left(q, gone), "heal") IN f.pc = "logWait" /\ f.then = "heal" /\ Same(q, f)
      BY <1>1 DEF CallType, AskLog, Same, Heard, Left
    <2>6. ASSUME NEW gone \in SUBSET Fills, q.res = "missing",
                 Set(b, [Left(q, gone) EXCEPT !.pc = "filled"]), UNCHANGED toAgent
          PROVE  Turn(b, r)
      <3>1. r = [Left(q, gone) EXCEPT !.pc = "filled"]
        BY <2>6, SetIs
      <3> QED
        BY <2>1, <2>5, <2>6, <3>1 DEF Turn, TurnRests, Rests
    <2>7. ASSUME NEW gone \in SUBSET Fills, q.res = "both",
                 Set(b, AskLog(Left(q, gone), "heal")), Ask("log", Menu, NoBatch)
          PROVE  Turn(b, r)
      <3>1. r = AskLog(Left(q, gone), "heal")
        BY <2>7, SetIs
      <3> QED
        BY <2>1, <2>5, <2>7, <3>1 DEF Turn, TurnReads, Reads
    <2>8. ASSUME NEW gone \in SUBSET Fills, Set(b, Broken(q, gone)), UNCHANGED toAgent
          PROVE  Turn(b, r)
      <3>1. r = Broken(q, gone)
        BY <2>8, SetIs
      <3>2. Broken(q, gone).pc = "over"
        BY <1>1, BrokenFields
      <3> QED
        BY <2>1, <2>8, <3>1, <3>2 DEF Turn, TurnRests, Rests
    <2> QED
      BY <2>1, <2>2, <2>4, <2>6, <2>7, <2>8
  <1>10. CASE Insert(b)
    <2>1. /\ q.pc = "fetched" /\ Inserts(q)
          /\ \/ Set(b, AskLog(q, "filled")) /\ Ask("log", Menu, NoBatch)
             \/ /\ "db" \in hap /\ UNCHANGED toAgent
                /\ \/ Set(b, Ends(q, "aborted"))
                   \/ Set(b, Ends([q EXCEPT !.failed = @ \cup {q.i}], "error"))
      BY <1>10 DEF Insert, Inserts, Over, FailsWith
    <2>2. AskLog(q, "filled").pc = "logWait" /\ AskLog(q, "filled").then = "filled" /\ Same(q, AskLog(q, "filled"))
      BY <1>1 DEF CallType, AskLog, Same, Heard
    <2>3. CASE Set(b, AskLog(q, "filled")) /\ Ask("log", Menu, NoBatch)
      <3>1. r = AskLog(q, "filled")
        BY <2>3, SetIs
      <3> QED
        BY <2>1, <2>2, <2>3, <3>1 DEF Turn, TurnReads, Reads
    <2>4. CASE /\ "db" \in hap /\ UNCHANGED toAgent
               /\ \/ Set(b, Ends(q, "aborted"))
                  \/ Set(b, Ends([q EXCEPT !.failed = @ \cup {q.i}], "error"))
      <3>1. r.pc = "over"
        <4>1. r = Ends(q, "aborted") \/ r = Ends([q EXCEPT !.failed = @ \cup {q.i}], "error")
          BY <2>4, SetIs
        <4>2. Ends(q, "aborted").pc = "over" /\ Ends([q EXCEPT !.failed = @ \cup {q.i}], "error").pc = "over"
          BY <1>1 DEF CallType, Ends
        <4> HIDE DEF q
        <4> QED
          BY <4>1, <4>2
      <3> QED
        BY <2>4, <3>1 DEF Turn, TurnRests, Rests
    <2> QED
      BY <2>1, <2>3, <2>4
  <1> QED
    BY <1>2, <1>3, <1>4, <1>5, <1>6, <1>7, <1>8, <1>9, <1>10 DEF BatchStep

-----------------------------------------------------------------------------
\* g is f with some elements taken out.
Thins(f, g) ==
    \E p \in [1..Len(g) -> 1..Len(f)] : \A j \in 1..Len(g) :
        g[j] = f[p[j]] /\ \A k \in 1..Len(g) : j < k => p[j] < p[k]

LEMMA ThinsMore ==
    ASSUME NEW S, NEW f \in Seq(S)
    PROVE  /\ Thins(f, f) /\ Thins(f, <<>>)
           /\ f # <<>> => Thins(f, Tail(f))
           /\ \A k \in 1..Len(f) : Thins(f, SubSeq(f, 1, k - 1) \o SubSeq(f, k + 1, Len(f)))
  <1>1. Thins(f, f)
    <2> DEFINE p == [j \in 1..Len(f) |-> j]
    <2>1. p \in [1..Len(f) -> 1..Len(f)] /\ \A j \in 1..Len(f) : f[j] = f[p[j]] /\ \A k \in 1..Len(f) : j < k => p[j] < p[k]
      OBVIOUS
    <2> QED
      BY <2>1 DEF Thins
  <1>2. Thins(f, <<>>)
    <2> DEFINE p == [j \in 1..0 |-> j]
    <2>1. p \in [1..Len(<<>>) -> 1..Len(f)] /\ 1..Len(<<>>) = {}
      OBVIOUS
    <2> QED
      BY <2>1 DEF Thins
  <1>3. ASSUME f # <<>> PROVE Thins(f, Tail(f))
    <2> DEFINE g == Tail(f)
               p == [j \in 1..Len(g) |-> j + 1]
    <2>1. Len(g) = Len(f) - 1 /\ \A j \in 1..Len(g) : g[j] = f[j + 1] /\ j + 1 \in 1..Len(f)
      BY <1>3
    <2> HIDE DEF g
    <2>2. Len(f) \in Nat
      OBVIOUS
    <2>3. p \in [1..Len(g) -> 1..Len(f)] /\ \A j \in 1..Len(g) : g[j] = f[p[j]] /\ \A k \in 1..Len(g) : j < k => p[j] < p[k]
      BY <2>1, <2>2
    <2> QED
      BY <2>3 DEF Thins, g
  <1>4. ASSUME NEW k \in 1..Len(f) PROVE Thins(f, SubSeq(f, 1, k - 1) \o SubSeq(f, k + 1, Len(f)))
    <2> DEFINE a == SubSeq(f, 1, k - 1)
               c == SubSeq(f, k + 1, Len(f))
               g == a \o c
               p == [j \in 1..Len(g) |-> IF j < k THEN j ELSE j + 1]
    <2>1. Len(f) \in Nat /\ k \in Nat /\ k >= 1 /\ k <= Len(f)
      OBVIOUS
    <2>2. a \in Seq(S) /\ Len(a) = k - 1 /\ \A j \in 1..k - 1 : a[j] = f[j]
      BY <2>1
    <2>3. c \in Seq(S) /\ Len(c) = Len(f) - k /\ \A j \in 1..Len(f) - k : c[j] = f[j + k]
      BY <2>1
    <2> HIDE DEF a, c
    <2>4. Len(g) = Len(f) - 1 /\ \A j \in 1..Len(g) : g[j] = IF j < k THEN a[j] ELSE c[j - (k - 1)]
      <3>1. Len(g) = Len(a) + Len(c) /\ \A j \in 1..Len(a) + Len(c) : g[j] = IF j <= Len(a) THEN a[j] ELSE c[j - Len(a)]
        BY <2>2, <2>3, ConcatProperties
      <3> HIDE DEF g
      <3>2. Len(g) = Len(f) - 1
        BY <2>1, <2>2, <2>3, <3>1
      <3>3. ASSUME NEW j \in 1..Len(g) PROVE g[j] = IF j < k THEN a[j] ELSE c[j - (k - 1)]
        <4>1. j <= Len(a) <=> j < k
          BY <2>1, <2>2
        <4> QED
          BY <2>1, <2>2, <2>3, <3>1, <3>2, <4>1
      <3> QED
        BY <3>2, <3>3
    <2>5. ASSUME NEW j \in 1..Len(g) PROVE g[j] = f[p[j]] /\ p[j] \in 1..Len(f)
      <3>1. CASE j < k
        BY <2>1, <2>2, <2>4, <3>1
      <3>2. CASE ~(j < k)
        <4>1. j - (k - 1) \in 1..Len(f) - k /\ (j - (k - 1)) + k = j + 1
          BY <2>1, <2>4, <3>2
        <4>2. g[j] = c[j - (k - 1)] /\ p[j] = j + 1
          BY <2>4, <3>2
        <4> QED
          BY <2>1, <2>3, <2>4, <4>1, <4>2
      <3> QED
        BY <3>1, <3>2
    <2>6. \A j, l \in 1..Len(g) : j < l => p[j] < p[l]
      BY <2>1, <2>4
    <2> HIDE DEF g
    <2>7. p \in [1..Len(g) -> 1..Len(f)]
      BY <2>5
    <2> QED
      BY <2>5, <2>6, <2>7 DEF Thins, g, a, c
  <1> QED
    BY <1>1, <1>2, <1>3, <1>4

\* The requests: what was due stays due.
LEMMA AskedThins ==
    ASSUME toAgent \in Seq(Requests), Asked, Thins(toAgent, toAgent'),
           \A m \in Requests : Due(m) => (Due(m))' /\ ((Own(m))' => Own(m))
    PROVE  Asked'
  <1>1. PICK p \in [1..Len(toAgent') -> 1..Len(toAgent)] : \A j \in 1..Len(toAgent') :
            toAgent'[j] = toAgent[p[j]] /\ \A k \in 1..Len(toAgent') : j < k => p[j] < p[k]
    BY DEF Thins
  <1>2. ASSUME NEW j \in 1..Len(toAgent')
        PROVE  /\ toAgent[p[j]] \in Requests /\ Due(toAgent[p[j]]) /\ p[j] \in 1..Len(toAgent)
    BY <1>1 DEF Asked
  <1>3. ASSUME NEW j \in 1..Len(toAgent'), NEW m, m = toAgent[p[j]]
        PROVE  (Due(m))' /\ ((Own(m))' => Own(m)) /\ toAgent'[j] = m
    BY <1>1, <1>2, <1>3
  <1>4. ASSUME NEW j \in 1..Len(toAgent') PROVE (Due(toAgent[j]))'
    <2>1. PICK m : m = toAgent'[j]
      OBVIOUS
    <2>2. m = toAgent[p[j]]
      BY <1>1, <2>1
    <2>3. (Due(m))'
      BY <1>3, <2>2
    <2> QED
      BY <2>1, <2>3
  <1>5. ASSUME NEW j \in 1..Len(toAgent'), NEW k \in 1..Len(toAgent'), j < k, (Own(toAgent[j]))'
        PROVE  toAgent'[k].op = "cancel"
    <2>1. PICK m : m = toAgent'[j]
      OBVIOUS
    <2>2. m = toAgent[p[j]] /\ (Own(m))'
      BY <1>1, <1>5, <2>1
    <2>3. Own(toAgent[p[j]])
      BY <1>3, <2>2
    <2>4. toAgent[p[k]].op = "cancel"
      BY <1>1, <1>2, <1>5, <2>3 DEF Asked
    <2> QED
      BY <1>1, <2>4
  <1> QED
    BY <1>4, <1>5 DEF Asked

LEMMA AskedAppends ==
    ASSUME toAgent \in Seq(Requests), Asked, NEW x \in Requests, toAgent' = Append(toAgent, x), (Due(x))',
           \A m \in Requests : Due(m) => (Due(m))' /\ ((Own(m))' => Own(m)),
           x.op = "cancel" \/ \A m \in Requests : Due(m) => ~(Own(m))'
    PROVE  Asked'
  <1> DEFINE n == Len(toAgent)
  <1>1. n \in Nat /\ Len(toAgent') = n + 1 /\ toAgent'[n + 1] = x /\ \A j \in 1..n : toAgent'[j] = toAgent[j] /\ toAgent[j] \in Requests
    OBVIOUS
  <1>2. ASSUME NEW j \in 1..n PROVE Due(toAgent[j])
    BY <1>2 DEF Asked
  <1>3. ASSUME NEW m \in Requests, NEW j \in 1..n, m = toAgent[j]
        PROVE  (Due(m))' /\ ((Own(m))' => Own(m)) /\ (x.op = "cancel" \/ ~(Own(m))')
    BY <1>2, <1>3
  <1>4. ASSUME NEW j \in 1..n + 1 PROVE (Due(toAgent[j]))'
    <2>1. PICK m : m = toAgent'[j]
      OBVIOUS
    <2>2. m = x \/ (j \in 1..n /\ m = toAgent[j] /\ m \in Requests)
      BY <1>1, <2>1
    <2>3. (Due(m))'
      BY <1>3, <2>2
    <2> QED
      BY <2>1, <2>3
  <1>5. ASSUME NEW j \in 1..n + 1, NEW k \in 1..n + 1, j < k, (Own(toAgent[j]))'
        PROVE  toAgent'[k].op = "cancel"
    <2>0. j \in 1..n
      BY <1>1, <1>5
    <2>1. PICK m : m = toAgent'[j]
      OBVIOUS
    <2>2. m = toAgent[j] /\ m \in Requests /\ (Own(m))'
      BY <1>1, <1>5, <2>0, <2>1
    <2>3. Own(m) /\ (x.op = "cancel")
      BY <1>3, <2>0, <2>2
    <2>4. CASE k \in 1..n
      <3>1. toAgent[k].op = "cancel"
        BY <1>5, <2>0, <2>2, <2>3, <2>4 DEF Asked
      <3> QED
        BY <1>1, <2>4, <3>1
    <2>5. CASE k = n + 1
      BY <1>1, <2>3, <2>5
    <2> QED
      BY <1>1, <2>4, <2>5
  <1> QED
    BY <1>1, <1>4, <1>5 DEF Asked

\* The events: what fitted still fits.
LEMMA AnswersThins ==
    ASSUME fromAgent \in Seq(Events), Answers, Thins(fromAgent, fromAgent'),
           \A e \in Events : Fits(e) => (Fits(e))',
           \A e, f \in Events : Fits(e) /\ Follow(e, f) => (Follow(e, f))'
    PROVE  Answers'
  <1>1. PICK p \in [1..Len(fromAgent') -> 1..Len(fromAgent)] : \A j \in 1..Len(fromAgent') :
            fromAgent'[j] = fromAgent[p[j]] /\ \A k \in 1..Len(fromAgent') : j < k => p[j] < p[k]
    BY DEF Thins
  <1>2. ASSUME NEW j \in 1..Len(fromAgent')
        PROVE  /\ fromAgent[p[j]] \in Events /\ Fits(fromAgent[p[j]]) /\ p[j] \in 1..Len(fromAgent)
    BY <1>1 DEF Answers
  <1>3. ASSUME NEW j \in 1..Len(fromAgent') PROVE (Fits(fromAgent[j]))'
    <2>1. PICK e : e = fromAgent'[j]
      OBVIOUS
    <2>2. e \in Events /\ Fits(e)
      BY <1>1, <1>2, <2>1
    <2> QED
      BY <2>1, <2>2
  <1>4. ASSUME NEW j \in 1..Len(fromAgent'), NEW k \in 1..Len(fromAgent'), j < k
        PROVE  (Follow(fromAgent[j], fromAgent[k]))'
    <2>1. PICK e : e = fromAgent'[j]
      OBVIOUS
    <2>2. PICK f : f = fromAgent'[k]
      OBVIOUS
    <2>3. e = fromAgent[p[j]] /\ f = fromAgent[p[k]] /\ p[j] < p[k]
      BY <1>1, <1>4, <2>1, <2>2
    <2>4. e \in Events /\ f \in Events /\ Fits(e) /\ Follow(e, f)
      BY <1>2, <2>3 DEF Answers
    <2>5. (Follow(e, f))'
      BY <2>4
    <2> QED
      BY <2>1, <2>2, <2>5
  <1> QED
    BY <1>3, <1>4 DEF Answers

LEMMA AnswersJoins ==
    ASSUME fromAgent \in Seq(Events), Answers, NEW g \in Seq(Events), fromAgent' = fromAgent \o g,
           \A k \in 1..Len(g) : (Fits(g[k]))' /\ \A e \in Events : Fits(e) => (Follow(e, g[k]))',
           \A j, k \in 1..Len(g) : j < k => (Follow(g[j], g[k]))',
           \A e \in Events : Fits(e) => (Fits(e))',
           \A e, f \in Events : Fits(e) /\ Follow(e, f) => (Follow(e, f))'
    PROVE  Answers'
  <1>0. PICK n : n = Len(fromAgent)
    OBVIOUS
  <1>1. n \in Nat /\ Len(g) \in Nat /\ Len(fromAgent') = n + Len(g)
        /\ \A j \in 1..n : fromAgent'[j] = fromAgent[j] /\ fromAgent[j] \in Events /\ Fits(fromAgent[j])
    BY <1>0, ConcatProperties DEF Answers
  <1>2. \A j \in 1..n + Len(g) : j \notin 1..n => j - n \in 1..Len(g) /\ fromAgent'[j] = g[j - n]
    BY <1>0, <1>1, ConcatProperties
  <1>3. ASSUME NEW j \in 1..n + Len(g) PROVE (Fits(fromAgent[j]))'
    <2>1. PICK e : e = fromAgent'[j]
      OBVIOUS
    <2>2. (e \in Events /\ Fits(e)) \/ \E k \in 1..Len(g) : e = g[k]
      BY <1>1, <1>2, <2>1
    <2>3. (Fits(e))'
      BY <2>2
    <2> QED
      BY <2>1, <2>3
  <1>4. ASSUME NEW j \in 1..n + Len(g), NEW k \in 1..n + Len(g), j < k
        PROVE  (Follow(fromAgent[j], fromAgent[k]))'
    <2>1. PICK e : e = fromAgent'[j]
      OBVIOUS
    <2>2. PICK f : f = fromAgent'[k]
      OBVIOUS
    <2>3. (Follow(e, f))'
      <3>1. CASE j \in 1..n /\ k \in 1..n
        <4>1. e = fromAgent[j] /\ f = fromAgent[k] /\ e \in Events /\ f \in Events /\ Fits(e) /\ Follow(e, f)
          BY <1>0, <1>1, <1>4, <2>1, <2>2, <3>1 DEF Answers
        <4> QED
          BY <4>1
      <3>2. CASE j \in 1..n /\ k \notin 1..n
        <4>1. e \in Events /\ Fits(e) /\ f = g[k - n] /\ k - n \in 1..Len(g)
          BY <1>1, <1>2, <2>1, <2>2, <3>2
        <4> QED
          BY <4>1
      <3>3. CASE j \notin 1..n
        <4>1. k \notin 1..n
          BY <1>1, <1>4, <3>3
        <4>2. e = g[j - n] /\ f = g[k - n] /\ j - n \in 1..Len(g) /\ k - n \in 1..Len(g) /\ j - n < k - n
          BY <1>1, <1>2, <1>4, <2>1, <2>2, <3>3, <4>1
        <4> QED
          BY <4>2
      <3> QED
        BY <3>1, <3>2, <3>3
    <2> QED
      BY <2>1, <2>2, <2>3
  <1> QED
    BY <1>1, <1>3, <1>4 DEF Answers

\* What a log has revealed to the control plane.
LEMMA RevealedSame ==
    ASSUME fromAgent \in Seq(Events), Revealed, UNCHANGED fromAgent, NEW N \in Nat,
           \A k \in 1..Len(fromAgent) : fromAgent[k].seen <= N,
           \A n \in 0..N : Safe(n) => (Safe(n))'
    PROVE  Revealed'
  <1>1. SUFFICES ASSUME NEW j \in 1..Len(fromAgent), fromAgent[j].ev = "sync"
                 PROVE  (Safe(fromAgent[j].seen))' \/ \E k \in j..Len(fromAgent) : fromAgent[k].ev \in {"done", "log"}
    BY DEF Revealed
  <1>2. fromAgent[j].seen \in 0..N
    <2>1. fromAgent[j] \in Events
      BY <1>1
    <2> QED
      BY <1>1, <2>1 DEF Events
  <1>3. PICK n : n = fromAgent'[j].seen
    OBVIOUS
  <1>4. n = fromAgent[j].seen
    BY <1>3
  <1>5. Safe(n) => (Safe(n))'
    BY <1>2, <1>4
  <1>6. Safe(n) \/ \E k \in j..Len(fromAgent) : fromAgent[k].ev \in {"done", "log"}
    BY <1>1, <1>4 DEF Revealed
  <1> QED
    BY <1>3, <1>5, <1>6

LEMMA RevealedJoins ==
    ASSUME fromAgent \in Seq(Events), Revealed, NEW N \in Nat, NEW g \in Seq(Events), fromAgent' = fromAgent \o g,
           \A k \in 1..Len(g) : g[k].ev = "sync" => (Safe(g[k].seen))',
           \A k \in 1..Len(fromAgent) : fromAgent[k].seen <= N,
           \A n \in 0..N : Safe(n) => (Safe(n))'
    PROVE  Revealed'
  <1>0. PICK l : l = Len(fromAgent)
    OBVIOUS
  <1>1. l \in Nat /\ Len(g) \in Nat /\ Len(fromAgent') = l + Len(g)
        /\ \A j \in 1..l : fromAgent'[j] = fromAgent[j] /\ fromAgent[j] \in Events
    BY <1>0, ConcatProperties
  <1>2. \A j \in 1..l + Len(g) : j \notin 1..l => j - l \in 1..Len(g) /\ fromAgent'[j] = g[j - l]
    BY <1>0, <1>1, ConcatProperties
  <1>3. SUFFICES ASSUME NEW j \in 1..l + Len(g), fromAgent'[j].ev = "sync"
                 PROVE  (Safe(fromAgent[j].seen))' \/ \E k \in j..l + Len(g) : fromAgent'[k].ev \in {"done", "log"}
    BY <1>1 DEF Revealed
  <1>4. PICK n : n = fromAgent'[j].seen
    OBVIOUS
  <1>5. CASE j \notin 1..l
    <2>1. \E k \in 1..Len(g) : n = g[k].seen /\ g[k].ev = "sync"
      BY <1>2, <1>3, <1>4, <1>5
    <2>2. (Safe(n))'
      BY <2>1
    <2> QED
      BY <1>4, <2>2
  <1>6. CASE j \in 1..l
    <2>1. n = fromAgent[j].seen /\ n \in 0..N /\ fromAgent[j].ev = "sync"
      BY <1>0, <1>1, <1>3, <1>4, <1>6 DEF Events
    <2>2. Safe(n) => (Safe(n))'
      BY <2>1
    <2>3. Safe(n) \/ \E k \in j..l : fromAgent[k].ev \in {"done", "log"}
      BY <1>0, <1>6, <2>1 DEF Revealed
    <2>4. CASE Safe(n)
      BY <1>4, <2>2, <2>4
    <2>5. ASSUME NEW k \in j..l, fromAgent[k].ev \in {"done", "log"}
          PROVE  \E i \in j..l + Len(g) : fromAgent'[i].ev \in {"done", "log"}
      BY <1>1, <1>6, <2>5
    <2> QED
      BY <2>3, <2>4, <2>5
  <1> QED
    BY <1>5, <1>6

\* An answer reveals what is before it.
LEMMA RevealedLast ==
    ASSUME fromAgent' \in Seq(Events), fromAgent' # <<>>, fromAgent'[Len(fromAgent')].ev \in {"done", "log"}
    PROVE  Revealed'
  <1>1. Len(fromAgent') \in Nat /\ \A j \in 1..Len(fromAgent') : Len(fromAgent') \in j..Len(fromAgent')
    OBVIOUS
  <1> QED
    BY <1>1 DEF Revealed

LEMMA RevealedTail ==
    ASSUME fromAgent \in Seq(Events), Revealed, fromAgent # <<>>, fromAgent' = Tail(fromAgent), NEW N \in Nat,
           Head(fromAgent).ev \notin {"done", "log"},
           \A k \in 1..Len(fromAgent) : fromAgent[k].seen <= N,
           \A n \in 0..N : Safe(n) => (Safe(n))'
    PROVE  Revealed'
  <1> DEFINE l == Len(fromAgent)
  <1>0. l \in Nat /\ Len(fromAgent') = l - 1 /\ Head(fromAgent) = fromAgent[1]
        /\ \A j \in 1..l - 1 : fromAgent'[j] = fromAgent[j + 1] /\ fromAgent[j + 1] \in Events /\ j + 1 \in 1..l
    OBVIOUS
  <1>1. SUFFICES ASSUME NEW j \in 1..l - 1, fromAgent'[j].ev = "sync"
                 PROVE  (Safe(fromAgent[j].seen))' \/ \E k \in j..l - 1 : fromAgent'[k].ev \in {"done", "log"}
    BY <1>0 DEF Revealed
  <1>3. PICK n : n = fromAgent'[j].seen
    OBVIOUS
  <1>4. n = fromAgent[j + 1].seen /\ n \in 0..N /\ fromAgent[j + 1].ev = "sync" /\ j + 1 \in 1..l
    BY <1>0, <1>1, <1>3 DEF Events
  <1>5. Safe(n) => (Safe(n))'
    BY <1>4
  <1>6. Safe(n) \/ \E k \in j + 1..l : fromAgent[k].ev \in {"done", "log"}
    BY <1>4 DEF Revealed
  <1>7. ASSUME NEW k \in j + 1..l, fromAgent[k].ev \in {"done", "log"}
        PROVE  \E i \in j..l - 1 : fromAgent'[i].ev \in {"done", "log"}
    <2>1. k - 1 \in j..l - 1 /\ k - 1 \in 1..l - 1 /\ (k - 1) + 1 = k
      BY <1>0, <1>7
    <2>2. fromAgent'[k - 1] = fromAgent[k]
      BY <1>0, <2>1
    <2> QED
      BY <1>7, <2>1, <2>2
  <1> QED
    BY <1>3, <1>5, <1>6, <1>7

-----------------------------------------------------------------------------
LEMMA World ==
    ASSUME SystemInv
    PROVE  /\ batch \in [Batches -> CallType] /\ toAgent \in Seq(Requests) /\ fromAgent \in Seq(Events)
           /\ log \in Seq(LogEntries) /\ Len(log) \in Nat /\ CallsInv
           /\ \A k \in 1..Len(fromAgent) : fromAgent[k].seen <= Len(log)
           /\ \A m \in 1..Len(log) : log[m].by \in Batches
           /\ appended \cup inserted \cup consumed \subseteq 1..Len(log)
           /\ agent.work \in {"idle", "boundary", "acting"} /\ (agent.work # "idle" => agent.by \in Batches)
           /\ \A m \in Requests : m.op = "heal" => m.by \in Batches
  <1>1. /\ batch \in [Batches -> CallType] /\ toAgent \in Seq(Requests) /\ fromAgent \in Seq(Events)
        /\ log \in Seq(LogEntries) /\ Len(log) \in Nat /\ CallsInv
        /\ \A k \in 1..Len(fromAgent) : fromAgent[k].seen <= Len(log)
        /\ agent.work \in {"idle", "boundary", "acting"} /\ (agent.work # "idle" => agent.by \in Batches)
        /\ appended \cup inserted \cup consumed \subseteq 1..Len(log)
    BY DEF SystemInv, CallsInv, WireInv, AgentInv, RestInv, Entries
  <1>2. ASSUME NEW m \in 1..Len(log) PROVE log[m].by \in Batches
    <2>1. log[m] \in LogEntries
      BY <1>1
    <2> QED
      BY <2>1 DEF LogEntries
  <1>3. \A m \in Requests : m.op = "heal" => m.by \in Batches
    BY DEF Requests
  <1> QED
    BY <1>1, <1>2, <1>3

\* One call runs, and it has not ended.
LEMMA Alone ==
    ASSUME SystemInv, RunsApart, NEW b \in Batches, Running(b)
    PROVE  /\ \A c \in Batches \ {b} : batch[c].pc \in {"idle", "over"}
           /\ batch[b].end = None /\ batch[b].pc \in Pcs /\ batch[b].pc \notin {"idle", "over"}
  <1>1. \A c \in Batches \ {b} : ~Running(c)
    BY DEF RunsApart
  <1>2. batch[b] \in CallType /\ Sound(batch[b])
    BY Where DEF SystemInv
  <1> QED
    BY <1>1, <1>2 DEF Running, Sound, CallType

LEMMA SafeKept ==
    ASSUME SystemInv, \A m \in 1..Len(log) : log'[m] = log[m], consumed \subseteq consumed',
           \A c \in Batches : Spared(c) => (Spared(c))'
    PROVE  \A n \in 0..Len(log) : Safe(n) => (Safe(n))'
  <1> SUFFICES ASSUME NEW n \in 0..Len(log), Safe(n) PROVE (Safe(n))'
    OBVIOUS
  <1>1. SUFFICES ASSUME NEW m \in 1..n \ consumed' PROVE log'[m].how = "heal" /\ (Spared(log[m].by))'
    BY DEF Safe
  <1>2. m \in 1..Len(log) /\ m \in 1..n \ consumed
    BY World, <1>1
  <1>3. PICK c : c = log'[m].by
    OBVIOUS
  <1>4. c = log[m].by /\ c \in Batches /\ log'[m].how = "heal" /\ Spared(c)
    <2>1. log'[m] = log[m]
      BY <1>2
    <2>2. c = log[m].by /\ c \in Batches
      BY <1>2, <1>3, <2>1, World
    <2> QED
      BY <1>2, <2>1, <2>2 DEF Safe
  <1> QED
    BY <1>3, <1>4

-----------------------------------------------------------------------------
\* A batch that neither waits nor asks.
LEMMA RestsKeeps ==
    ASSUME SystemInv, RunsApart, Exchange, NEW b \in Batches, Running(b), batch[b].pc \notin Waits,
           CallsInv', Rests(batch[b], batch'[b]), \A c \in Batches \ {b} : batch'[c] = batch[c],
           UNCHANGED <<toAgent, fromAgent, agent, log, appended, consumed, hap>>, "db" \in hap \/ UNCHANGED inserted
    PROVE  Exchange'
  <1> DEFINE q == batch[b]
             r == batch'[b]
  <1>1. /\ \A c \in Batches : batch[c].pc \notin Waits
        /\ \A c \in Batches \ {b} : batch[c].pc \in {"idle", "over"}
        /\ q.end = None /\ q.pc \in Pcs
    BY Alone DEF Waits
  <1>2. \A c \in Batches : batch'[c].pc \notin Waits
    BY <1>1 DEF Rests, Waits
  <1>3. /\ \A c \in Batches : ~WaitsDone(c) /\ batch[c].pc # "logWait" /\ batch[c].pc # "healWait" /\ ~(WaitsDone(c))'
                              /\ batch'[c].pc # "logWait" /\ batch'[c].pc # "healWait"
        /\ ~Heals /\ ~Heals'
    BY <1>1, <1>2 DEF WaitsDone, Waits, Heals
  <1>4. ASSUME NEW c \in Batches, Spared(c) PROVE (Spared(c))'
    BY <1>1, <1>3, <1>4 DEF Spared, None
  <1>5. \A n \in 0..Len(log) : Safe(n) => (Safe(n))'
    BY <1>4, SafeKept
  <1>6. Safe(Len(log)) => (Safe(Len(log)))'
    BY <1>5, World
  <1>7. ASSUME NEW m \in Requests, Due(m) PROVE (Due(m))' /\ ((Own(m))' => Own(m))
    <2>1. m.op = "log" \/ m.op = "replay" => FALSE
      <3>1. m.op = "replay" => m.by \in Batches
        BY DEF Requests
      <3> QED
        BY <1>3, <1>7, <3>1 DEF Due
    <2>2. m.op = "heal" => m.by \in Batches /\ (Spared(m.by))' /\ (Safe(Len(log)))'
      BY <1>4, <1>6, <1>7, World DEF Due
    <2> QED
      BY <1>3, <2>1, <2>2 DEF Due, Own
  <1>8. toAgent \in Seq(Requests) /\ fromAgent \in Seq(Events) /\ Len(log) \in Nat
    BY World
  <1>9. Thins(toAgent, toAgent') /\ Thins(fromAgent, fromAgent')
    BY <1>8, ThinsMore
  <1>10. Asked'
    BY <1>7, <1>8, <1>9, AskedThins DEF Exchange
  <1>11. ASSUME agent.work # "idle" PROVE (Spared(agent.by))' /\ (Safe(Len(log)))'
    <2>1. Spared(agent.by) /\ Safe(Len(log)) /\ agent.by \in Batches
      BY <1>11, World DEF Exchange, Working
    <2> QED
      BY <1>4, <1>6, <2>1
  <1>12. Working'
    BY <1>3, <1>11 DEF Working
  <1>13. ASSUME NEW e \in Events, Fits(e) PROVE (Fits(e))'
    BY <1>3, <1>13 DEF Fits
  <1>14. ASSUME NEW e \in Events, NEW f \in Events, Follow(e, f) PROVE (Follow(e, f))'
    BY <1>3, <1>14 DEF Follow
  <1>15. Answers'
    BY <1>8, <1>9, <1>13, <1>14, AnswersThins DEF Exchange
  <1>16. Revealed'
    BY <1>5, <1>8, RevealedSame, World DEF Exchange
  <1>17. ASSUME NEW c \in Batches PROVE (Quiet(batch[c]))'
    <2>1. Quiet(batch[c]) /\ (c # b => batch'[c] = batch[c])
      BY <1>17 DEF Exchange
    <2>2. CASE c # b
      BY <2>1, <2>2 DEF Quiet, AgentRests, OnlyCancels, Unseen
    <2>3. CASE c = b
      <3>1. CASE r.pc \in {"loop", "over"}
        BY <2>3, <3>1 DEF Quiet, Silent, Considers, Stage
      <3>2. CASE r.pc \in {"retry", "heal"} /\ q.pc \in {"judge", "retry", "retryJudge"} /\ Same(q, r)
        <4>1. q.i \in Fills
          BY <3>2, <1>8, Where DEF SystemInv, OfFill
        <4>2. r.i \notin Checkpoints
          BY <3>2, <4>1 DEF Same, Fills
        <4> QED
          BY <2>1, <2>3, <3>2, <4>2 DEF Quiet, Silent, Considers, Stage, AgentRests, OnlyCancels, Unseen
      <3>3. CASE r.pc = "filled" /\ q.pc = "scan"
        BY <2>1, <2>3, <3>3 DEF Quiet, Silent, Considers, Stage, AgentRests, OnlyCancels, Unseen
      <3> QED
        BY <3>1, <3>2, <3>3 DEF Rests
    <2> QED
      BY <2>2, <2>3
  <1>18. Taken'
    BY <1>3 DEF Exchange, Taken
  <1> QED
    BY <1>10, <1>12, <1>15, <1>16, <1>17, <1>18 DEF Exchange

\* A request beside cancels.
LEMMA AskedFresh ==
    ASSUME toAgent \in Seq(Requests), OnlyCancels, NEW x \in Requests, (Due(x))',
           toAgent' = Append(toAgent, x) \/ UNCHANGED toAgent
    PROVE  Asked'
  <1> DEFINE n == Len(toAgent)
  <1>1. ASSUME NEW m, m.op = "cancel" PROVE (Due(m))' /\ ~(Own(m))'
    BY <1>1 DEF Due, Own
  <1>2. CASE UNCHANGED toAgent
    <2>1. ASSUME NEW j \in 1..n PROVE (Due(toAgent[j]))' /\ ~(Own(toAgent[j]))'
      <3>1. PICK m : m = toAgent'[j]
        OBVIOUS
      <3>2. m.op = "cancel"
        BY <1>2, <3>1 DEF OnlyCancels
      <3>3. (Due(m))' /\ ~(Own(m))'
        BY <1>1, <3>2
      <3> QED
        BY <3>1, <3>3
    <2> QED
      BY <1>2, <2>1 DEF Asked
  <1>3. CASE toAgent' = Append(toAgent, x)
    <2>1. n \in Nat /\ Len(toAgent') = n + 1 /\ toAgent'[n + 1] = x /\ \A j \in 1..n : toAgent'[j] = toAgent[j]
      BY <1>3
    <2>2. ASSUME NEW j \in 1..n PROVE (Due(toAgent[j]))' /\ ~(Own(toAgent[j]))'
      <3>1. PICK m : m = toAgent'[j]
        OBVIOUS
      <3>2. m.op = "cancel"
        BY <2>1, <3>1 DEF OnlyCancels
      <3>3. (Due(m))' /\ ~(Own(m))'
        BY <1>1, <3>2
      <3> QED
        BY <3>1, <3>3
    <2>4. ASSUME NEW j \in 1..n + 1 PROVE (Due(toAgent[j]))'
      <3>1. PICK m : m = toAgent'[j]
        OBVIOUS
      <3>2. m = x \/ m.op = "cancel"
        BY <2>1, <3>1 DEF OnlyCancels
      <3>3. (Due(m))'
        BY <1>1, <3>2
      <3> QED
        BY <3>1, <3>3
    <2>5. \A j, k \in 1..n + 1 : j < k => ~(Own(toAgent[j]))'
      <3>1. \A j, k \in 1..n + 1 : j < k => j \in 1..n
        BY <2>1
      <3> QED
        BY <2>2, <3>1
    <2> QED
      BY <2>1, <2>4, <2>5 DEF Asked
  <1> QED
    BY <1>2, <1>3

\* No answer is under way.
LEMMA AnswersNone ==
    ASSUME UNCHANGED fromAgent, \A j \in 1..Len(fromAgent) : fromAgent[j].ev \notin {"done", "log"},
           Heals' => \A j \in 1..Len(fromAgent) : fromAgent[j].ev \notin {"healed", "healError"}
    PROVE  Answers'
  <1>1. ASSUME NEW e, e.ev \notin {"done", "log"}, Heals' => e.ev \notin {"healed", "healError"}
        PROVE  (Fits(e))' /\ \A f : (Follow(e, f))'
    BY <1>1 DEF Fits, Follow
  <1>2. ASSUME NEW j \in 1..Len(fromAgent) PROVE (Fits(fromAgent[j]))' /\ \A f : (Follow(fromAgent[j], f))'
    <2>1. PICK e : e = fromAgent'[j]
      OBVIOUS
    <2>2. (Fits(e))' /\ \A f : (Follow(e, f))'
      BY <1>1, <2>1
    <2> QED
      BY <2>1, <2>2
  <1> QED
    BY <1>2 DEF Answers

\* Nobody waits.
LEMMA NobodyWaits ==
    ASSUME SystemInv, RunsApart, Exchange, NEW b \in Batches, Running(b), batch[b].pc \notin Waits
    PROVE  /\ \A c \in Batches : batch[c].pc \notin Waits /\ ~WaitsDone(c) /\ batch[c].pc # "logWait" /\ batch[c].pc # "healWait"
           /\ \A c \in Batches \ {b} : batch[c].pc \in {"idle", "over"}
           /\ \A m \in Requests : Due(m) => m.op \in {"cancel", "heal"}
           /\ \A j \in 1..Len(fromAgent) : fromAgent[j].ev \notin {"done", "log"}
           /\ "db" \in hap \/ inserted \subseteq consumed
           /\ batch[b].end = None /\ ~Heals
  <1>1. /\ \A c \in Batches : batch[c].pc \notin Waits
        /\ \A c \in Batches \ {b} : batch[c].pc \in {"idle", "over"}
        /\ batch[b].end = None
    BY Alone DEF Waits
  <1>2. \A c \in Batches : ~WaitsDone(c) /\ batch[c].pc # "logWait" /\ batch[c].pc # "healWait"
    BY <1>1 DEF WaitsDone, Waits
  <1>3. \A m \in Requests : Due(m) => m.op \in {"cancel", "heal"}
    BY <1>2 DEF Due, Requests
  <1>4. ASSUME NEW j \in 1..Len(fromAgent) PROVE fromAgent[j].ev \notin {"done", "log"}
    <2>1. Fits(fromAgent[j])
      BY DEF Exchange, Answers
    <2> QED
      BY <1>2, <2>1 DEF Fits
  <1> QED
    BY <1>1, <1>2, <1>3, <1>4 DEF Exchange, Taken, Heals

\* A batch that asks for a step, for a heal, or for the log.
LEMMA AsksKeeps ==
    ASSUME SystemInv, RunsApart, HushInv, Exchange, NEW b \in Batches, Running(b), batch[b].pc \notin Waits,
           SystemInv', Turn(b, batch'[b]), batch'[b].pc \in Waits, \A c \in Batches \ {b} : batch'[c] = batch[c],
           UNCHANGED <<fromAgent, agent, log, alive, appended, consumed>>, UNCHANGED hap
    PROVE  Exchange'
  <1> DEFINE q == batch[b]
             r == batch'[b]
             x == IF r.pc = "healWait" THEN [op |-> "heal", step |-> r.i, by |-> b]
                  ELSE IF r.pc = "logWait" THEN [op |-> "log", step |-> Menu, by |-> NoBatch]
                  ELSE [op |-> "replay", step |-> IF r.pc = "navWait" THEN Menu ELSE r.i, by |-> b]
  <1>1. /\ \A c \in Batches : batch[c].pc \notin Waits /\ ~WaitsDone(c) /\ batch[c].pc # "logWait" /\ batch[c].pc # "healWait"
        /\ \A c \in Batches \ {b} : batch[c].pc \in {"idle", "over"}
        /\ \A m \in Requests : Due(m) => m.op \in {"cancel", "heal"}
        /\ \A j \in 1..Len(fromAgent) : fromAgent[j].ev \notin {"done", "log"}
        /\ ("db" \in hap \/ inserted \subseteq consumed) /\ q.end = None
    BY NobodyWaits
  <1>2. \A c \in Batches \ {b} : batch'[c].pc \in {"idle", "over"}
    BY <1>1
  <1>3. \/ TurnReplays(b, r) /\ r.pc \in {"navWait", "wait", "retryWait"}
        \/ TurnHeals(b, r) /\ r.pc = "healWait"
        \/ TurnReads(b, r) /\ r.pc = "logWait"
    BY DEF Turn, TurnRests, Rests, TurnReplays, Replays, TurnHeals, TurnReads, Reads, Waits
  <1>0. PICK y : y = x
    OBVIOUS
  <1>4. toAgent' = Append(toAgent, y) \/ (UNCHANGED toAgent /\ toAgent = <<>>)
    <2>1. CASE TurnReplays(b, r) /\ r.pc \in {"navWait", "wait", "retryWait"}
      BY <1>0, <2>1 DEF TurnReplays, Ask, HushInv
    <2>2. CASE TurnHeals(b, r) /\ r.pc = "healWait"
      BY <1>0, <2>2 DEF TurnHeals, Ask, HushInv
    <2>3. CASE TurnReads(b, r) /\ r.pc = "logWait"
      BY <1>0, <2>3 DEF TurnReads, Ask, HushInv
    <2> QED
      BY <1>3, <2>1, <2>2, <2>3
  <1>5. toAgent \in Seq(Requests) /\ fromAgent \in Seq(Events) /\ Len(log) \in Nat /\ toAgent' \in Seq(Requests)
    BY World DEF SystemInv, WireInv
  <1>6. y \in Requests
    <2>1. r \in CallType /\ (r.pc \in {"wait", "retryWait", "healWait"} => r.i \in Steps)
      <3>1. CallsInv'
        BY DEF SystemInv
      <3>2. r \in CallType /\ Sound(r)
        BY <3>1 DEF CallsInv, CallOK
      <3> QED
        BY <3>2, Numbers DEF Sound, Staged, Stage, OfStep, OfFill, Fills
    <2> QED
      BY <1>0, <1>3, <2>1 DEF Requests, Waits
  <1>7. ASSUME NEW c \in Batches, Spared(c) PROVE (Spared(c))'
    BY <1>1, <1>7 DEF Spared, None
  <1>8. \A n \in 0..Len(log) : Safe(n) => (Safe(n))'
    BY <1>7, SafeKept
  <1>9. Revealed'
    BY <1>5, <1>8, RevealedSame, World DEF Exchange
  <1>10. Quiet(q)
    BY DEF Exchange
  <1>11. CASE r.pc \in {"navWait", "wait", "retryWait"}
    <2>1. ~Heals' /\ \A c \in Batches : batch'[c].pc # "healWait"
      BY <1>2, <1>11 DEF Heals
    <2>2. Answers'
      BY <1>1, <2>1, AnswersNone
    <2>3. ASSUME agent.work # "idle" PROVE (Spared(agent.by))' /\ (Safe(Len(log)))'
      <3>1. Spared(agent.by) /\ Safe(Len(log)) /\ agent.by \in Batches
        BY <2>3, World DEF Exchange, Working
      <3>2. (Spared(agent.by))'
        BY <1>5, <1>7, <1>8, <3>1
      <3>3. (Safe(Len(log)))'
        BY <1>5, <1>7, <1>8, <3>1
      <3> QED
        BY <3>2, <3>3
    <2>4. Working'
      BY <2>1, <2>3 DEF Working
    <2>5. ASSUME NEW m \in Requests, Due(m) PROVE (Due(m))' /\ ~(Own(m))'
      <3>1. m.op = "heal" => m.by \in Batches /\ (Spared(m.by))' /\ (Safe(Len(log)))'
        BY <1>5, <1>7, <1>8, <2>5, World DEF Due
      <3>2. m.op \in {"cancel", "heal"}
        BY <1>1, <2>5
      <3> QED
        BY <2>1, <3>1, <3>2 DEF Due, Own
    <2>6. y.op = "replay" /\ y.by = b /\ y.step = IF r.pc = "navWait" THEN Menu ELSE r.i
      BY <1>0, <1>11
    <2>7. (Due(y))'
      BY <1>11, <2>6 DEF Due, WaitsDone, Target
    <2>8. Asked'
      <3>1. CASE toAgent' = Append(toAgent, y)
        BY <1>5, <1>6, <2>5, <2>7, <3>1, AskedAppends DEF Exchange
      <3>2. CASE UNCHANGED toAgent /\ toAgent = <<>>
        BY <3>2 DEF Asked
      <3> QED
        BY <1>4, <3>1, <3>2
    <2>9. ASSUME NEW c \in Batches PROVE (Quiet(batch[c]))'
      <3>1. batch'[c].pc \in {"idle", "over", "navWait", "wait", "retryWait"}
        BY <1>2, <1>11
      <3> QED
        BY <3>1 DEF Quiet, Silent, Considers, Stage
    <2>10. Taken'
      BY <1>1, <1>3, <1>11 DEF TurnReplays, TurnHeals, TurnReads, Taken
    <2> QED
      BY <1>9, <2>2, <2>4, <2>8, <2>9, <2>10 DEF Exchange
  <1>12. CASE r.pc \in {"healWait", "logWait"}
    <2>1. q.pc \in {"heal", "scan", "fetched"} /\ Same(q, r)
      BY <1>3, <1>12 DEF TurnHeals, TurnReads, Reads
    <2>2. /\ agent.work = "idle" /\ OnlyCancels
          /\ \A k \in 1..Len(fromAgent) : fromAgent[k].ev \notin {"healed", "healError"}
      BY <1>10, <2>1 DEF Quiet, Silent, Considers, AgentRests
    <2>3. Answers'
      BY <1>1, <2>2, AnswersNone
    <2>4. Working'
      BY <2>2 DEF Working
    <2>5. (Due(y))'
      <3>1. CASE r.pc = "logWait"
        <4>1. y.op = "log"
          BY <1>0, <3>1
        <4> QED
          BY <3>1, <4>1 DEF Due
      <3>2. CASE r.pc = "healWait"
        <4>1. y.op = "heal" /\ y.by = b
          BY <1>0, <3>2
        <4>2. Unseen = {}
          BY <1>3, <1>10, <3>2 DEF TurnHeals, Quiet, Considers
        <4>3. (Safe(Len(log)))'
          BY <4>2 DEF Safe, Unseen, Entries
        <4>4. (Spared(b))'
          BY <3>2 DEF Spared
        <4>5. \A c \in Batches : batch'[c].pc = "healWait" => c = b
          BY <1>2
        <4> QED
          BY <4>1, <4>3, <4>4, <4>5 DEF Due
      <3> QED
        BY <1>12, <3>1, <3>2
    <2>6. y.op \in {"heal", "log"} /\ (r.pc = "logWait" => y.op = "log")
      BY <1>0, <1>12
    <2>7. Asked'
      BY <1>4, <1>5, <1>6, <2>2, <2>5, AskedFresh
    <2>8. r.pc = "logWait" => \A k \in 1..Len(toAgent') : toAgent'[k].op \in {"cancel", "log"}
      <3> SUFFICES ASSUME r.pc = "logWait", NEW k \in 1..Len(toAgent')
                   PROVE  toAgent'[k].op \in {"cancel", "log"}
        OBVIOUS
      <3>1. CASE toAgent' = Append(toAgent, y)
        BY <1>5, <2>2, <2>6, <3>1 DEF OnlyCancels
      <3>2. CASE UNCHANGED toAgent
        BY <2>2, <3>2 DEF OnlyCancels
      <3> QED
        BY <1>4, <3>1, <3>2
    <2>9. ASSUME NEW c \in Batches PROVE (Quiet(batch[c]))'
      <3>1. CASE c # b
        BY <1>2, <3>1 DEF Quiet, Silent, Considers, Stage
      <3>2. CASE c = b /\ r.pc = "logWait"
        <4>1. (r.then = "heal" /\ q.pc = "scan") \/ r.then = "filled"
          BY <1>3, <3>2 DEF TurnReads, Reads
        <4>2. r.then = "heal" => Unseen = {}
          BY <1>10, <4>1 DEF Quiet, Considers
        <4> QED
          BY <2>2, <2>8, <3>2, <4>1, <4>2 DEF Quiet, Silent, Considers, Stage, Unseen
      <3>3. CASE c = b /\ r.pc = "healWait"
        <4>1. q.pc = "heal" /\ r.i = q.i /\ r.before = q.before
          BY <1>3, <2>1, <3>3 DEF TurnHeals, Same, Heard
        <4>2. r.i \in Checkpoints => appended \subseteq r.before
          BY <1>10, <4>1 DEF Quiet, Stage
        <4> QED
          BY <3>3, <4>2 DEF Quiet, Silent, Considers, Stage
      <3> QED
        BY <1>12, <3>1, <3>2, <3>3
    <2>10. Taken'
      <3>1. CASE UNCHANGED inserted
        BY <1>1, <3>1 DEF Taken
      <3>2. CASE r.pc = "logWait" /\ r.then = "filled"
        BY <3>2 DEF Taken
      <3> QED
        BY <1>3, <1>12, <3>1, <3>2 DEF TurnHeals, TurnReads, Reads, Inserts
    <2> QED
      BY <1>9, <2>3, <2>4, <2>7, <2>9, <2>10 DEF Exchange
  <1> QED
    BY <1>11, <1>12 DEF Waits

-----------------------------------------------------------------------------
\* What a step of neither a batch nor the answers leaves of the calls.
SameCalls ==
    \A c \in Batches :
        /\ batch'[c].end = batch[c].end /\ batch'[c].i = batch[c].i /\ batch'[c].then = batch[c].then
        /\ Heard(batch[c], batch'[c])
        /\ batch'[c].pc = batch[c].pc \/ (batch[c].pc = "idle" /\ batch'[c].pc = "nav")
ReadsOnly == agent.work = "idle" /\ \A k \in 1..Len(toAgent) : toAgent[k].op \in {"cancel", "log"}
HealEvent(e) == e.ev \in {"healed", "healError"}
Calms ==
    /\ AgentRests => AgentRests'
    /\ ReadsOnly => ReadsOnly' /\ Unseen' \subseteq Unseen
    /\ ReadsOnly => \A k \in 1..Len(fromAgent') : HealEvent(fromAgent'[k]) =>
                        \E j \in 1..Len(fromAgent) : HealEvent(fromAgent[j])

LEMMA CallsSame ==
    ASSUME SystemInv, SameCalls
    PROVE  /\ \A c \in Batches : /\ (Spared(c))' <=> Spared(c)
                                 /\ (WaitsDone(c))' <=> WaitsDone(c)
                                 /\ WaitsDone(c) => (Target(c))' = Target(c)
                                 /\ batch'[c].pc = "logWait" <=> batch[c].pc = "logWait"
                                 /\ batch'[c].pc = "healWait" <=> batch[c].pc = "healWait"
           /\ Heals' <=> Heals
           /\ (\E c \in Batches : batch'[c].pc = "logWait") <=> \E c \in Batches : batch[c].pc = "logWait"
  <1>1. ASSUME NEW c \in Batches
        PROVE  /\ (Spared(c))' <=> Spared(c)
               /\ (WaitsDone(c))' <=> WaitsDone(c)
               /\ WaitsDone(c) => (Target(c))' = Target(c)
               /\ batch'[c].pc = "logWait" <=> batch[c].pc = "logWait"
               /\ batch'[c].pc = "healWait" <=> batch[c].pc = "healWait"
    BY DEF SameCalls, Spared, WaitsDone, Target
  <1> QED
    BY <1>1 DEF Heals

LEMMA DueSame ==
    ASSUME SystemInv, SameCalls, (Safe(Len(log)))' \/ ~Safe(Len(log))
    PROVE  \A m \in Requests : Due(m) => (Due(m))' /\ ((Own(m))' => Own(m))
  <1> SUFFICES ASSUME NEW m \in Requests, Due(m) PROVE (Due(m))' /\ ((Own(m))' => Own(m))
    OBVIOUS
  <1>1. m.op \in {"replay", "heal"} => m.by \in Batches
    BY DEF Requests
  <1>2. CASE m.op = "replay"
    BY <1>1, <1>2, CallsSame DEF Due, Own
  <1>3. CASE m.op = "log"
    BY <1>3, CallsSame DEF Due, Own
  <1>4. CASE m.op = "heal"
    <2>1. (Spared(m.by))' /\ (Safe(Len(log)))' /\ \A c \in Batches : batch'[c].pc = "healWait" => m.by = c
      BY <1>1, <1>4, CallsSame DEF Due
    <2>2. (Own(m))' => Own(m)
      BY <1>1, <1>4, CallsSame DEF Own
    <2> QED
      BY <1>4, <2>1, <2>2 DEF Due
  <1> QED
    BY <1>2, <1>3, <1>4 DEF Due, Own

LEMMA FitsSame ==
    ASSUME SystemInv, SameCalls, AgentRests => AgentRests' /\ UNCHANGED log
    PROVE  /\ \A e \in Events : Fits(e) => (Fits(e))'
           /\ \A e, f \in Events : Fits(e) /\ Follow(e, f) => (Follow(e, f))'
  <1>1. ASSUME NEW e \in Events, Fits(e) PROVE (Fits(e))'
    <2>1. e.ev = "done" => \E c \in Batches : /\ (WaitsDone(c))' /\ e.of = <<c, (Target(c))'>>
                                              /\ (Target(c))' # Menu => e.res \in (Outcomes(Target(c)))'
      <3>1. CASE e.ev = "done"
        <4>1. PICK c \in Batches : /\ WaitsDone(c) /\ e.of = <<c, Target(c)>>
                                   /\ Target(c) # Menu => e.res \in Outcomes(Target(c))
          BY <1>1, <3>1 DEF Fits
        <4>2. (WaitsDone(c))' /\ (Target(c))' = Target(c)
          BY <4>1, CallsSame
        <4> QED
          BY <4>1, <4>2 DEF Outcomes
      <3> QED
        BY <3>1
    <2>2. e.ev = "log" => (\E c \in Batches : batch'[c].pc = "logWait") /\ e.seen = Len(log')
      BY <1>1, CallsSame DEF Fits
    <2>3. e.ev \in {"done", "log"} \/ (HealEvent(e) /\ Heals') => AgentRests'
      BY <1>1, CallsSame DEF Fits, HealEvent
    <2> QED
      BY <2>1, <2>2, <2>3 DEF Fits, HealEvent
  <1>2. ASSUME NEW e \in Events, NEW f \in Events, Follow(e, f) PROVE (Follow(e, f))'
    BY <1>2, CallsSame DEF Follow
  <1> QED
    BY <1>1, <1>2

\* What is left to show of such a step.
LEMMA CalmKeeps ==
    ASSUME SystemInv, Exchange, SameCalls, Calms, Asked', Working', Answers', Revealed',
           UNCHANGED <<appended, inserted, consumed, hap>>
    PROVE  Exchange'
  <1>1. ASSUME NEW c \in Batches PROVE (Quiet(batch[c]))'
    <2> DEFINE q == batch[c]
               r == batch'[c]
    <2>1. Quiet(q)
      BY DEF Exchange
    <2>2. r.i = q.i /\ r.then = q.then /\ r.before = q.before
      BY DEF SameCalls, Heard
    <2>3. CASE r.pc = "nav"
      BY <2>3 DEF Quiet, Silent, Considers, Stage
    <2>4. CASE r.pc = q.pc
      <3>1. AgentRests => ReadsOnly
        BY DEF AgentRests, OnlyCancels, ReadsOnly
      <3>2. r.pc \in Silent => AgentRests /\ AgentRests'
        BY <2>1, <2>4 DEF Quiet, Calms
      <3>3. r.pc = "logWait" => ReadsOnly /\ ReadsOnly'
        BY <2>1, <2>4 DEF Quiet, Calms, ReadsOnly
      <3>4. r.pc \in (Silent \ {"healError"}) \cup {"logWait"} =>
                \A k \in 1..Len(fromAgent') : ~HealEvent(fromAgent'[k])
        BY <2>1, <2>4, <3>1, <3>2, <3>3 DEF Quiet, Calms, HealEvent
      <3>5. r.pc \in Considers \/ (r.pc = "logWait" /\ r.then = "heal") => Unseen' = {}
        BY <2>1, <2>2, <2>4, <3>1, <3>2, <3>3 DEF Quiet, Calms, Silent
      <3>6. r.i \in Checkpoints /\ Stage(r) \in {"heal", "healWait", "fetched"} /\ ~(r.pc = "logWait" /\ r.then = "heal") =>
                appended' \subseteq r.before
        BY <2>1, <2>2, <2>4 DEF Quiet, Stage
      <3>7. (Quiet(r) <=> /\ r.pc \in Silent => AgentRests
                          /\ r.pc = "logWait" => ReadsOnly
                          /\ r.pc \in (Silent \ {"healError"}) \cup {"logWait"} =>
                                \A k \in 1..Len(fromAgent) : ~HealEvent(fromAgent[k])
                          /\ r.pc \in Considers \/ (r.pc = "logWait" /\ r.then = "heal") => Unseen = {}
                          /\ r.i \in Checkpoints /\ Stage(r) \in {"heal", "healWait", "fetched"} /\ ~(r.pc = "logWait" /\ r.then = "heal") =>
                                appended \subseteq r.before)
        BY DEF Quiet, HealEvent, ReadsOnly
      <3> QED
        BY <3>2, <3>3, <3>4, <3>5, <3>6 DEF Quiet, HealEvent, ReadsOnly
    <2> QED
      BY <2>3, <2>4 DEF SameCalls
  <1>2. Taken'
    <2>1. CASE "db" \in hap \/ inserted \subseteq consumed
      BY <2>1 DEF Taken
    <2>2. ASSUME NEW c \in Batches, batch[c].pc = "logWait", batch[c].then = "filled" PROVE Taken'
      BY <2>2 DEF Taken, SameCalls
    <2> QED
      BY <2>1, <2>2 DEF Exchange, Taken
  <1> QED
    BY <1>1, <1>2 DEF Exchange

-----------------------------------------------------------------------------
\* While the agent has something to do, no answer is under way.
LEMMA BusyAnswersNone ==
    ASSUME Exchange, ~AgentRests
    PROVE  /\ \A e : Fits(e) => e.ev \notin {"done", "log"} /\ (Heals => ~HealEvent(e))
           /\ \A j \in 1..Len(fromAgent) : Fits(fromAgent[j])
  BY DEF Exchange, Answers, Fits, HealEvent

\* The main loop takes a request: what follows an own one are cancels.
LEMMA TakesOwn ==
    ASSUME SystemInv, Exchange, NEW op \in {"replay", "log", "heal"}, Takes(op)
    PROVE  /\ Head(toAgent) \in Requests /\ Due(Head(toAgent)) /\ ~AgentRests
           /\ Own(Head(toAgent)) => OnlyCancels'
           /\ toAgent \in Seq(Requests) /\ Thins(toAgent, toAgent')
  <1>1. /\ Head(toAgent) \in Requests /\ Head(toAgent).op = op /\ Head(toAgent) = toAgent[1]
        /\ Len(toAgent') = Len(toAgent) - 1 /\ 1 \in 1..Len(toAgent) /\ toAgent \in Seq(Requests)
        /\ \A k \in 1..Len(toAgent') : k + 1 \in 1..Len(toAgent) /\ toAgent'[k] = toAgent[k + 1]
    BY TakesFits, World
  <1>2. Due(Head(toAgent))
    BY <1>1 DEF Exchange, Asked
  <1>3. ~AgentRests
    BY <1>1 DEF AgentRests, OnlyCancels
  <1>4. ASSUME Own(Head(toAgent)), NEW k \in 1..Len(toAgent') PROVE toAgent'[k].op = "cancel"
    <2>1. k + 1 \in 1..Len(toAgent) /\ toAgent'[k] = toAgent[k + 1] /\ 1 < k + 1 /\ Own(toAgent[1])
      BY <1>1, <1>4
    <2> QED
      BY <1>1, <2>1 DEF Exchange, Asked
  <1>5. Thins(toAgent, toAgent')
    <2>1. toAgent # <<>> /\ toAgent' = Tail(toAgent)
      BY DEF Takes
    <2> QED
      BY <1>1, <2>1, ThinsMore
  <1> QED
    BY <1>1, <1>2, <1>3, <1>4, <1>5 DEF OnlyCancels

LEMMA CancelsAsk ==
    ASSUME OnlyCancels'
    PROVE  Asked'
  <1>1. ASSUME NEW m, m.op = "cancel" PROVE (Due(m))' /\ ~(Own(m))'
    BY <1>1 DEF Due, Own
  <1>2. ASSUME NEW j \in 1..Len(toAgent') PROVE (Due(toAgent[j]))' /\ ~(Own(toAgent[j]))'
    <2>1. PICK m : m = toAgent'[j]
      OBVIOUS
    <2>2. m.op = "cancel"
      BY <2>1 DEF OnlyCancels
    <2>3. (Due(m))' /\ ~(Own(m))'
      BY <1>1, <2>2
    <2> QED
      BY <2>1, <2>3
  <1> QED
    BY <1>2 DEF Asked

\* The calls and the log stay.
LEMMA LogSame ==
    ASSUME SystemInv, SameCalls, UNCHANGED <<log, consumed>>
    PROVE  /\ \A c \in Batches : Spared(c) => (Spared(c))'
           /\ \A n \in 0..Len(log) : Safe(n) => (Safe(n))'
           /\ Safe(Len(log)) => (Safe(Len(log)))'
           /\ \A m \in Requests : Due(m) => (Due(m))' /\ ((Own(m))' => Own(m))
           /\ Unseen' = Unseen
  <1>1. \A c \in Batches : Spared(c) => (Spared(c))'
    BY CallsSame
  <1>2. \A n \in 0..Len(log) : Safe(n) => (Safe(n))'
    BY <1>1, SafeKept
  <1>3. Safe(Len(log)) => (Safe(Len(log)))'
    BY <1>2, World
  <1>4. \A m \in Requests : Due(m) => (Due(m))' /\ ((Own(m))' => Own(m))
    BY <1>3, DueSame
  <1> QED
    BY <1>1, <1>2, <1>3, <1>4 DEF Unseen

LEMMA WorkingSame ==
    ASSUME SystemInv, SameCalls, UNCHANGED <<log, consumed>>, Working, OnlyCancels => OnlyCancels',
           agent'.work # "idle" => agent.work # "idle" /\ agent'.by = agent.by
    PROVE  Working'
  <1> SUFFICES ASSUME agent'.work # "idle"
               PROVE  /\ (Spared(agent.by))' /\ (Safe(Len(log)))'
                      /\ \A c \in Batches : batch'[c].pc = "healWait" => agent'.by = c /\ OnlyCancels'
    BY DEF Working
  <1>1. PICK a : a = agent.by
    OBVIOUS
  <1>2. a \in Batches /\ Spared(a) /\ Safe(Len(log)) /\ agent'.by = a
    BY <1>1, World DEF Working
  <1>3. (Spared(a))' /\ (Safe(Len(log)))'
    BY <1>2, LogSame
  <1>4. \A c \in Batches : batch'[c].pc = "healWait" => agent'.by = c /\ OnlyCancels'
    BY CallsSame DEF Working
  <1> QED
    BY <1>2, <1>3, <1>4

\* A batch is accepted or stopped.
LEMMA CallsAreSame ==
    ASSUME SystemInv, (\E b \in Batches : Accept(b)) \/ Stop \/ RecordStop \/ UNCHANGED vars
    PROVE  SameCalls
  <1>0. batch \in [Batches -> CallType]
    BY World
  <1>1. ASSUME NEW b \in Batches, Accept(b) PROVE SameCalls
    <2>1. CallsInv /\ Goes(b, "nav") /\ "nav" \in Pcs /\ batch[b].pc = "idle"
      BY <1>1, World DEF Accept, Pcs
    <2> DEFINE r == [batch[b] EXCEPT !.pc = "nav"]
    <2>2. r.end = batch[b].end /\ r.i = batch[b].i /\ r.then = batch[b].then /\ Heard(batch[b], r) /\ r.pc = "nav"
      BY <1>0 DEF CallType, Heard
    <2>3. batch'[b] = r
      BY <2>1, SetIs DEF Goes
    <2>4. \A c \in Batches \ {b} : batch'[c] = batch[c]
      BY <2>1, SetIs DEF Goes
    <2> HIDE DEF r
    <2> QED
      BY <2>1, <2>2, <2>3, <2>4 DEF SameCalls, Heard
  <1>2. CASE Stop
    <2>1. ASSUME NEW c \in Batches
          PROVE  /\ batch'[c].end = batch[c].end /\ batch'[c].i = batch[c].i /\ batch'[c].then = batch[c].then
                 /\ Heard(batch[c], batch'[c]) /\ batch'[c].pc = batch[c].pc
      <3>1. batch[c] \in CallType
        BY <1>0
      <3>2. batch'[c] = [batch[c] EXCEPT !.stopped = @ \/ Running(c)]
        BY <1>2 DEF Stop
      <3> QED
        BY <3>1, <3>2 DEF CallType, Heard
    <2> QED
      BY <2>1 DEF SameCalls
  <1>3. CASE RecordStop \/ UNCHANGED vars
    BY <1>3 DEF RecordStop, vars, SameCalls, Heard
  <1> QED
    BY <1>1, <1>2, <1>3

LEMMA CallsKeep ==
    ASSUME SystemInv, Exchange, (\E b \in Batches : Accept(b)) \/ Stop \/ RecordStop \/ UNCHANGED vars, UNCHANGED hap
    PROVE  Exchange'
  <1>1. /\ UNCHANGED <<fromAgent, agent, log, appended, inserted, consumed>>
        /\ UNCHANGED toAgent \/ toAgent' = Append(toAgent, [op |-> "cancel", step |-> Menu, by |-> NoBatch])
    BY DEF Accept, Stop, RecordStop, Ask, vars, wire, steps, executor
  <1>2. SameCalls
    BY CallsAreSame
  <1>3. PICK x : x = [op |-> "cancel", step |-> Menu, by |-> NoBatch]
    OBVIOUS
  <1>4. x \in Requests /\ x.op = "cancel"
    BY <1>3 DEF Requests
  <1>5. toAgent \in Seq(Requests) /\ fromAgent \in Seq(Events) /\ Len(log) \in Nat
    BY World
  <1>6. /\ OnlyCancels => OnlyCancels'
        /\ ReadsOnly => ReadsOnly'
    <2>1. CASE UNCHANGED toAgent
      BY <1>1, <2>1 DEF OnlyCancels, ReadsOnly
    <2>2. CASE toAgent' = Append(toAgent, x)
      <3>1. Len(toAgent') = Len(toAgent) + 1 /\ toAgent'[Len(toAgent) + 1] = x /\ \A k \in 1..Len(toAgent) : toAgent'[k] = toAgent[k]
        BY <1>5, <2>2
      <3>2. \A k \in 1..Len(toAgent') : k \in 1..Len(toAgent) \/ k = Len(toAgent) + 1
        BY <1>5, <3>1
      <3>3. \A k \in 1..Len(toAgent') : toAgent'[k].op = "cancel" \/ \E j \in 1..Len(toAgent) : toAgent'[k] = toAgent[j]
        BY <1>4, <3>1, <3>2
      <3> QED
        BY <1>1, <3>3 DEF OnlyCancels, ReadsOnly
    <2> QED
      BY <1>1, <1>3, <2>1, <2>2
  <1>7. AgentRests => AgentRests'
    BY <1>1, <1>6 DEF AgentRests
  <1>8. (Due(x))'
    BY <1>4 DEF Due
  <1>9. Asked'
    <2>1. CASE UNCHANGED toAgent
      <3>1. Thins(toAgent, toAgent')
        BY <1>5, <2>1, ThinsMore
      <3> QED
        BY <1>1, <1>2, <1>5, <3>1, LogSame, AskedThins DEF Exchange
    <2>2. CASE toAgent' = Append(toAgent, x)
      BY <1>1, <1>2, <1>4, <1>5, <1>8, <2>2, LogSame, AskedAppends DEF Exchange
    <2> QED
      BY <1>1, <1>3, <2>1, <2>2
  <1>10. Working'
    BY <1>1, <1>2, <1>6, WorkingSame DEF Exchange
  <1>11. Answers'
    <2>1. Thins(fromAgent, fromAgent')
      BY <1>1, <1>5, ThinsMore
    <2> QED
      BY <1>1, <1>2, <1>5, <1>7, <2>1, FitsSame, AnswersThins DEF Exchange
  <1>12. Revealed'
    BY <1>1, <1>2, <1>5, LogSame, RevealedSame, World DEF Exchange
  <1>13. Calms
    BY <1>1, <1>2, <1>6, <1>7, LogSame DEF Calms
  <1> QED
    BY <1>1, <1>2, <1>9, <1>10, <1>11, <1>12, <1>13, CalmKeeps

\* The reader takes a cancel, the main loop the log.
LEMMA OneEvent ==
    ASSUME NEW ev \in {"done", "log", "sync", "stopped", "healed", "healError"}, NEW seen \in Nat
    PROVE  LET g == <<Event(ev, seen)>> IN g \in Seq(Events) /\ Len(g) = 1 /\ g[1].ev = ev /\ g[1].seen = seen
  BY EventFits

LEMMA CancelledKeeps ==
    ASSUME SystemInv, Exchange, Cancelled, UNCHANGED hap
    PROVE  Exchange'
  <1>1. /\ UNCHANGED <<batch, log, appended, inserted, consumed>> /\ agent'.work = agent.work /\ agent'.by = agent.by
        /\ fromAgent' = Append(fromAgent, Event("stopped", 0))
    <2>1. agent \in [work : {"idle", "boundary", "acting"}, by : Batches \cup {NoBatch}, stop : BOOLEAN]
      BY DEF SystemInv, AgentInv
    <2>2. UNCHANGED <<batch, log, appended, inserted, consumed>> /\ agent' = [agent EXCEPT !.stop = TRUE]
          /\ fromAgent' = Append(fromAgent, Event("stopped", 0))
      BY DEF Cancelled, steps
    <2> QED
      BY <2>1, <2>2
  <1>2. PICK k \in 1..Len(toAgent) : toAgent' = SubSeq(toAgent, 1, k - 1) \o SubSeq(toAgent, k + 1, Len(toAgent))
    BY DEF Cancelled
  <1>3. toAgent \in Seq(Requests) /\ fromAgent \in Seq(Events) /\ Len(log) \in Nat
    BY World
  <1>4. Thins(toAgent, toAgent')
    BY <1>2, <1>3, ThinsMore
  <1>5. \A i \in 1..Len(toAgent') : \E j \in 1..Len(toAgent) : toAgent'[i] = toAgent[j]
    BY <1>4 DEF Thins
  <1>6. SameCalls
    BY <1>1 DEF SameCalls, Heard
  <1>7. (OnlyCancels => OnlyCancels') /\ (ReadsOnly => ReadsOnly') /\ (AgentRests => AgentRests')
    BY <1>1, <1>5 DEF OnlyCancels, ReadsOnly, AgentRests
  <1>8. PICK g : g = <<Event("stopped", 0)>>
    OBVIOUS
  <1>9. g \in Seq(Events) /\ Len(g) = 1 /\ g[1].ev = "stopped"
    BY <1>8, OneEvent
  <1>10. fromAgent' = fromAgent \o g
    BY <1>1, <1>3, <1>8, EventFits
  <1>11. Asked'
    BY <1>1, <1>3, <1>4, <1>6, LogSame, AskedThins DEF Exchange
  <1>12. Working'
    BY <1>1, <1>6, <1>7, WorkingSame DEF Exchange
  <1>13. Answers'
    <2>1. \A i \in 1..Len(g) : (Fits(g[i]))' /\ \A e \in Events : Fits(e) => (Follow(e, g[i]))'
      <3>1. ASSUME NEW f, f.ev = "stopped" PROVE (Fits(f))' /\ \A e \in Events : (Follow(e, f))'
        BY <3>1 DEF Fits, Follow
      <3> QED
        BY <1>9, <3>1
    <2>2. \A i, j \in 1..Len(g) : i < j => (Follow(g[i], g[j]))'
      BY <1>9
    <2> QED
      BY <1>1, <1>3, <1>6, <1>7, <1>9, <1>10, <2>1, <2>2, FitsSame, AnswersJoins DEF Exchange
  <1>14. Revealed'
    <2>1. \A i \in 1..Len(g) : g[i].ev # "sync"
      BY <1>9
    <2> QED
      BY <1>1, <1>3, <1>6, <1>9, <1>10, <2>1, LogSame, RevealedJoins, World DEF Exchange
  <1>15. \A j \in 1..Len(fromAgent') : HealEvent(fromAgent'[j]) => \E i \in 1..Len(fromAgent) : HealEvent(fromAgent[i])
    <2>1. Len(fromAgent') = Len(fromAgent) + 1 /\ fromAgent'[Len(fromAgent) + 1] = Event("stopped", 0)
          /\ \A j \in 1..Len(fromAgent) : fromAgent'[j] = fromAgent[j]
      BY <1>1, <1>3
    <2>2. ~HealEvent(Event("stopped", 0))
      BY DEF Event, HealEvent
    <2>3. \A j \in 1..Len(fromAgent') : j \in 1..Len(fromAgent) \/ j = Len(fromAgent) + 1
      BY <1>3, <2>1
    <2> QED
      BY <2>1, <2>2, <2>3
  <1>16. Calms
    BY <1>1, <1>6, <1>7, <1>15, LogSame DEF Calms
  <1> QED
    BY <1>1, <1>6, <1>11, <1>12, <1>13, <1>14, <1>16, CalmKeeps

LEMMA GetLogKeeps ==
    ASSUME SystemInv, Exchange, GetLog, UNCHANGED hap
    PROVE  Exchange'
  <1>1. /\ UNCHANGED <<batch, agent, log, appended, inserted, consumed>> /\ Takes("log")
        /\ fromAgent' = Append(fromAgent, Event("log", Len(log)))
    BY DEF GetLog, steps, executor
  <1>2. /\ Head(toAgent) \in Requests /\ Due(Head(toAgent)) /\ ~AgentRests /\ Own(Head(toAgent)) => OnlyCancels'
        /\ toAgent \in Seq(Requests) /\ Thins(toAgent, toAgent')
    BY <1>1, TakesOwn
  <1>3. toAgent \in Seq(Requests) /\ Thins(toAgent, toAgent') /\ Head(toAgent).op = "log" /\ agent.work = "idle" /\ ~AgentRests
    BY <1>1, <1>2, TakesFits, TakesOwn DEF Takes
  <1>4. OnlyCancels' /\ \E b \in Batches : batch[b].pc = "logWait"
    BY <1>1, <1>3, TakesOwn DEF Own, Due
  <1>5. fromAgent \in Seq(Events) /\ Len(log) \in Nat
    BY World
  <1>6. SameCalls
    BY <1>1 DEF SameCalls, Heard
  <1>7. AgentRests' /\ ReadsOnly'
    BY <1>1, <1>3, <1>4 DEF OnlyCancels, ReadsOnly, AgentRests
  <1>8. PICK g : g = <<Event("log", Len(log))>>
    OBVIOUS
  <1>9. g \in Seq(Events) /\ Len(g) = 1 /\ g[1].ev = "log" /\ g[1].seen = Len(log)
    BY <1>5, <1>8, OneEvent
  <1>10. fromAgent' = fromAgent \o g
    BY <1>1, <1>5, <1>8, EventFits
  <1>11. Asked'
    BY <1>4, CancelsAsk
  <1>12. Working'
    BY <1>1, <1>3 DEF Working
  <1>13. Answers'
    <2>1. \A i \in 1..Len(g) : (Fits(g[i]))' /\ \A e \in Events : Fits(e) => (Follow(e, g[i]))'
      <3>1. ASSUME NEW f, f.ev = "log", f.seen = Len(log) PROVE (Fits(f))'
        BY <1>1, <1>4, <1>7, <3>1 DEF Fits
      <3>2. ASSUME NEW f, NEW e \in Events, Fits(e) PROVE (Follow(e, f))'
        <4>1. e.ev \notin {"done", "log"} /\ (Heals => ~HealEvent(e))
          BY <1>3, <3>2, BusyAnswersNone
        <4>2. Heals' => Heals
          BY <1>6, CallsSame
        <4> QED
          BY <4>1, <4>2 DEF Follow, HealEvent
      <3> QED
        BY <1>9, <3>1, <3>2
    <2>2. \A i, j \in 1..Len(g) : i < j => (Follow(g[i], g[j]))'
      BY <1>9
    <2> QED
      BY <1>1, <1>5, <1>6, <1>7, <1>9, <1>10, <2>1, <2>2, FitsSame, AnswersJoins DEF Exchange
  <1>14. Revealed'
    <2>1. \A i \in 1..Len(g) : g[i].ev # "sync"
      BY <1>9
    <2> QED
      BY <1>1, <1>5, <1>6, <1>9, <1>10, <2>1, LogSame, RevealedJoins, World DEF Exchange
  <1>15. \A j \in 1..Len(fromAgent') : HealEvent(fromAgent'[j]) => \E i \in 1..Len(fromAgent) : HealEvent(fromAgent[i])
    <2>1. Len(fromAgent') = Len(fromAgent) + 1 /\ fromAgent'[Len(fromAgent) + 1] = Event("log", Len(log))
          /\ \A j \in 1..Len(fromAgent) : fromAgent'[j] = fromAgent[j]
      BY <1>1, <1>5
    <2>2. ~HealEvent(Event("log", Len(log)))
      BY DEF Event, HealEvent
    <2>3. \A j \in 1..Len(fromAgent') : j \in 1..Len(fromAgent) \/ j = Len(fromAgent) + 1
      BY <1>5, <2>1
    <2> QED
      BY <2>1, <2>2, <2>3
  <1>16. Calms
    BY <1>1, <1>6, <1>7, <1>15, LogSame DEF Calms
  <1> QED
    BY <1>1, <1>6, <1>11, <1>12, <1>13, <1>14, <1>16, CalmKeeps

-----------------------------------------------------------------------------
\* While the agent has something to do, a step of it leaves little to show.
LEMMA BusyKeeps ==
    ASSUME SystemInv, Exchange, ~AgentRests, ~ReadsOnly, UNCHANGED <<batch, appended, inserted, consumed>>,
           Asked', Working', Answers', Revealed', UNCHANGED hap
    PROVE  Exchange'
  <1>1. SameCalls
    BY DEF SameCalls, Heard
  <1>2. Calms
    BY DEF Calms
  <1> QED
    BY <1>1, <1>2, CalmKeeps

LEMMA Joins ==
    ASSUME NEW S, NEW f \in Seq(S), NEW e \in S
    PROVE  Append(f, e) = f \o <<e>>
  OBVIOUS

LEMMA OneOrTwo ==
    ASSUME NEW S, NEW x \in S, NEW y \in S
    PROVE  /\ <<x>> \in Seq(S) /\ Len(<<x>>) = 1 /\ <<x>>[1] = x
           /\ <<y, x>> \in Seq(S) /\ Len(<<y, x>>) = 2 /\ <<y, x>>[1] = y /\ <<y, x>>[2] = x
  OBVIOUS

LEMMA BusyAnswers ==
    ASSUME SystemInv, Exchange, ~AgentRests, UNCHANGED batch, NEW g \in Seq(Events), fromAgent' = fromAgent \o g,
           \A i \in 1..Len(g) : (Fits(g[i]))', \A i, j \in 1..Len(g) : i < j => (Follow(g[i], g[j]))'
    PROVE  Answers'
  <1>1. SameCalls
    BY DEF SameCalls, Heard
  <1>2. ASSUME NEW f, NEW e \in Events, Fits(e) PROVE (Follow(e, f))'
    <2>1. e.ev \notin {"done", "log"} /\ (Heals => ~HealEvent(e))
      BY <1>2, BusyAnswersNone
    <2>2. Heals' => Heals
      BY <1>1, CallsSame
    <2> QED
      BY <2>1, <2>2 DEF Follow, HealEvent
  <1>3. fromAgent \in Seq(Events)
    BY World
  <1> QED
    BY <1>1, <1>2, <1>3, FitsSame, AnswersJoins DEF Exchange

LEMMA BusyAnswersSame ==
    ASSUME SystemInv, Exchange, ~AgentRests, UNCHANGED <<batch, fromAgent>>
    PROVE  Answers'
  <1>1. SameCalls
    BY DEF SameCalls, Heard
  <1>2. fromAgent \in Seq(Events)
    BY World
  <1>3. Thins(fromAgent, fromAgent')
    BY <1>2, ThinsMore
  <1> QED
    BY <1>1, <1>2, <1>3, FitsSame, AnswersThins DEF Exchange

\* The agent begins a heal, and goes from step to step in it.
LEMMA StartHealKeeps ==
    ASSUME SystemInv, Exchange, StartHeal, UNCHANGED hap
    PROVE  Exchange'
  <1>1. /\ UNCHANGED <<batch, log, fromAgent, appended, inserted, consumed>> /\ Takes("heal")
        /\ agent' = [work |-> "boundary", by |-> Head(toAgent).by, stop |-> FALSE]
    BY DEF StartHeal, steps
  <1>2. SameCalls
    BY <1>1 DEF SameCalls, Heard
  <1>3. PICK m : m = Head(toAgent)
    OBVIOUS
  <1>4. /\ m \in Requests /\ Due(m) /\ m.op = "heal" /\ ~AgentRests
        /\ Own(m) => OnlyCancels'
        /\ toAgent \in Seq(Requests) /\ Thins(toAgent, toAgent')
    BY <1>1, <1>3, TakesOwn DEF Takes
  <1>5. ~ReadsOnly
    BY <1>1, TakesFits DEF ReadsOnly
  <1>6. Asked'
    BY <1>1, <1>2, <1>4, LogSame, AskedThins DEF Exchange
  <1>7. Working'
    <2>1. m.by \in Batches /\ Spared(m.by) /\ Safe(Len(log)) /\ \A c \in Batches : batch[c].pc = "healWait" => m.by = c
      BY <1>4, World DEF Due
    <2>2. PICK a : a = m.by
      OBVIOUS
    <2>3. (Spared(a))' /\ (Safe(Len(log)))' /\ agent'.by = a
      BY <1>1, <1>2, <1>3, <2>1, <2>2, LogSame
    <2>4. ASSUME NEW c \in Batches, batch'[c].pc = "healWait" PROVE agent'.by = c /\ OnlyCancels'
      <3>1. batch[c].pc = "healWait"
        BY <1>1, <2>4
      <3>2. m.by = c
        BY <2>1, <3>1
      <3> QED
        BY <1>1, <1>3, <1>4, <3>1, <3>2 DEF Own
    <2> QED
      BY <2>3, <2>4 DEF Working
  <1>8. Answers'
    BY <1>1, <1>4, BusyAnswersSame
  <1>9. fromAgent \in Seq(Events) /\ Len(log) \in Nat
    BY World
  <1>10. Revealed'
    BY <1>1, <1>2, <1>9, LogSame, RevealedSame, World DEF Exchange
  <1> QED
    BY <1>1, <1>4, <1>5, <1>6, <1>7, <1>8, <1>10, BusyKeeps

LEMMA HealStepKeeps ==
    ASSUME SystemInv, Exchange, HealStep, UNCHANGED hap
    PROVE  Exchange'
  <1>1. UNCHANGED <<batch, log, toAgent, fromAgent, appended, inserted, consumed>> /\ agent.work = "boundary" /\ agent'.by = agent.by
    <2>1. agent \in [work : {"idle", "boundary", "acting"}, by : Batches \cup {NoBatch}, stop : BOOLEAN]
      BY DEF SystemInv, AgentInv
    <2>2. agent' = [agent EXCEPT !.work = "acting"] /\ UNCHANGED <<batch, log, toAgent, fromAgent, appended, inserted, consumed>>
          /\ agent.work = "boundary"
      BY DEF HealStep, steps, wire
    <2> QED
      BY <2>1, <2>2
  <1>2. SameCalls
    BY <1>1 DEF SameCalls, Heard
  <1>3. ~AgentRests /\ ~ReadsOnly
    BY <1>1 DEF AgentRests, ReadsOnly
  <1>4. toAgent \in Seq(Requests) /\ fromAgent \in Seq(Events) /\ Len(log) \in Nat
    BY World
  <1>5. Thins(toAgent, toAgent')
    BY <1>1, <1>4, ThinsMore
  <1>6. Asked'
    BY <1>1, <1>2, <1>4, <1>5, LogSame, AskedThins DEF Exchange
  <1>7. Working'
    <2>1. OnlyCancels => OnlyCancels'
      BY <1>1 DEF OnlyCancels
    <2> QED
      BY <1>1, <1>2, <2>1, WorkingSame DEF Exchange
  <1>8. Answers'
    BY <1>1, <1>3, BusyAnswersSame
  <1>9. Revealed'
    BY <1>1, <1>2, <1>4, LogSame, RevealedSame, World DEF Exchange
  <1> QED
    BY <1>1, <1>3, <1>6, <1>7, <1>8, <1>9, BusyKeeps

LEMMA HealEndsKeeps ==
    ASSUME SystemInv, Exchange, "late" \notin hap, HealEnds, UNCHANGED hap
    PROVE  Exchange'
  <1>1. UNCHANGED <<batch, log, toAgent, appended, inserted, consumed>> /\ agent.work = "boundary" /\ agent'.work = "idle"
    <2>1. agent \in [work : {"idle", "boundary", "acting"}, by : Batches \cup {NoBatch}, stop : BOOLEAN]
      BY DEF SystemInv, AgentInv
    <2>2. agent' = [agent EXCEPT !.work = "idle"] /\ UNCHANGED <<batch, log, toAgent, appended, inserted, consumed>>
          /\ agent.work = "boundary"
      BY DEF HealEnds, steps
    <2> QED
      BY <2>1, <2>2
  <1>2. SameCalls
    BY <1>1 DEF SameCalls, Heard
  <1>3. ~AgentRests /\ ~ReadsOnly
    BY <1>1 DEF AgentRests, ReadsOnly
  <1>4. toAgent \in Seq(Requests) /\ fromAgent \in Seq(Events) /\ Len(log) \in Nat
    BY World
  <1>5. Thins(toAgent, toAgent')
    BY <1>1, <1>4, ThinsMore
  <1>6. Asked'
    BY <1>1, <1>2, <1>4, <1>5, LogSame, AskedThins DEF Exchange
  <1>7. Working'
    BY <1>1 DEF Working
  <1>8. Heals' => AgentRests'
    <2>1. Heals => OnlyCancels
      BY <1>1 DEF Exchange, Working, Heals
    <2> QED
      BY <1>1, <1>2, <2>1, CallsSame DEF AgentRests, OnlyCancels
  <1>9. PICK g \in {<<Event("healed", 0)>>, <<Event("healError", 0), Event("healed", 0)>>} : fromAgent' = fromAgent \o g
    <2>1. Event("healed", 0) \in Events
      BY EventFits
    <2>2. Append(fromAgent, Event("healed", 0)) = fromAgent \o <<Event("healed", 0)>>
      BY <1>4, <2>1, Joins
    <2> QED
      BY <2>2 DEF HealEnds
  <1>10. /\ g \in Seq(Events) /\ \A i \in 1..Len(g) : HealEvent(g[i])
         /\ \A i, j \in 1..Len(g) : i < j => g[i].ev = "healError" /\ g[j].ev = "healed"
    <2>1. /\ Event("healed", 0) \in Events /\ Event("healed", 0).ev = "healed"
          /\ Event("healError", 0) \in Events /\ Event("healError", 0).ev = "healError"
      BY EventFits
    <2>2. PICK x, y : x = Event("healed", 0) /\ y = Event("healError", 0)
      OBVIOUS
    <2>3. g = <<x>> \/ g = <<y, x>>
      BY <2>2
    <2>4. x \in Events /\ y \in Events /\ x.ev = "healed" /\ y.ev = "healError"
      BY <2>1, <2>2
    <2>5. HealEvent(x) /\ HealEvent(y)
      BY <2>4 DEF HealEvent
    <2>6. CASE g = <<x>>
      <3>1. g \in Seq(Events) /\ Len(g) = 1 /\ g[1] = x
        BY <2>4, <2>6, OneOrTwo
      <3> QED
        BY <2>4, <2>5, <3>1
    <2>7. CASE g = <<y, x>>
      <3>1. g \in Seq(Events) /\ Len(g) = 2 /\ g[1] = y /\ g[2] = x
        BY <2>4, <2>7, OneOrTwo
      <3>2. \A i \in 1..Len(g) : i = 1 \/ i = 2
        BY <3>1
      <3> QED
        BY <2>4, <2>5, <3>1, <3>2
    <2> QED
      BY <2>3, <2>6, <2>7
  <1>11. Answers'
    <2>1. ASSUME NEW f, HealEvent(f) PROVE (Fits(f))'
      BY <1>8, <2>1 DEF Fits, HealEvent
    <2>2. ASSUME NEW e, NEW f, e.ev = "healError", f.ev = "healed" PROVE (Follow(e, f))'
      BY <2>2 DEF Follow
    <2>3. \A i \in 1..Len(g) : (Fits(g[i]))'
      BY <1>10, <2>1
    <2>4. \A i, j \in 1..Len(g) : i < j => (Follow(g[i], g[j]))'
      BY <1>10, <2>2
    <2>5. g \in Seq(Events) /\ UNCHANGED batch
      BY <1>1, <1>10
    <2> QED
      BY <1>3, <1>9, <2>3, <2>4, <2>5, BusyAnswers
  <1>12. Revealed'
    <2>1. \A i \in 1..Len(g) : g[i].ev # "sync"
      BY <1>10 DEF HealEvent
    <2> QED
      BY <1>1, <1>2, <1>4, <1>9, <1>10, <2>1, LogSame, RevealedJoins, World DEF Exchange
  <1> QED
    BY <1>1, <1>3, <1>6, <1>7, <1>11, <1>12, BusyKeeps

\* The log grows.
LEMMA Grown ==
    ASSUME SystemInv, UNCHANGED <<batch, consumed>>, NEW x \in LogEntries, log' = Append(log, x)
    PROVE  /\ Len(log') = Len(log) + 1 /\ log'[Len(log')] = x /\ \A m \in 1..Len(log) : log'[m] = log[m]
           /\ \A n \in 0..Len(log) : Safe(n) => (Safe(n))'
  <1>1. Len(log') = Len(log) + 1 /\ log'[Len(log')] = x /\ \A m \in 1..Len(log) : log'[m] = log[m]
    BY World
  <1>2. \A c \in Batches : Spared(c) => (Spared(c))'
    BY DEF Spared
  <1> QED
    BY <1>1, <1>2, SafeKept

LEMMA HealActsKeeps ==
    ASSUME SystemInv, Exchange, HealActs, UNCHANGED hap
    PROVE  Exchange'
  <1>1. /\ UNCHANGED <<batch, toAgent, appended, inserted, consumed>> /\ agent.work = "acting" /\ agent'.by = agent.by
        /\ log' = Append(log, [how |-> "heal", by |-> agent.by]) /\ fromAgent' = Append(fromAgent, Sync(log'))
    <2>1. agent \in [work : {"idle", "boundary", "acting"}, by : Batches \cup {NoBatch}, stop : BOOLEAN]
      BY DEF SystemInv, AgentInv
    <2>2. /\ agent' = [agent EXCEPT !.work = "boundary"] /\ UNCHANGED <<batch, toAgent, appended, inserted, consumed>>
          /\ log' = Append(log, [how |-> "heal", by |-> agent.by]) /\ fromAgent' = Append(fromAgent, Sync(log'))
          /\ agent.work = "acting"
      BY DEF HealActs, steps
    <2> QED
      BY <2>1, <2>2
  <1>2. SameCalls
    BY <1>1 DEF SameCalls, Heard
  <1>3. ~AgentRests /\ ~ReadsOnly
    BY <1>1 DEF AgentRests, ReadsOnly
  <1>4. toAgent \in Seq(Requests) /\ fromAgent \in Seq(Events) /\ log \in Seq(LogEntries) /\ Len(log) \in Nat
    BY World
  <1>5. PICK a : a = agent.by
    OBVIOUS
  <1>6. a \in Batches /\ Spared(a) /\ Safe(Len(log))
    BY <1>1, <1>5, World DEF Exchange, Working
  <1>7. PICK x : x = [how |-> "heal", by |-> a]
    OBVIOUS
  <1>8. x \in LogEntries /\ x.how = "heal" /\ x.by = a
    BY <1>6, <1>7 DEF LogEntries
  <1>9. /\ Len(log') = Len(log) + 1 /\ log'[Len(log')] = x /\ \A m \in 1..Len(log) : log'[m] = log[m]
        /\ \A n \in 0..Len(log) : Safe(n) => (Safe(n))'
    BY <1>1, <1>5, <1>7, <1>8, Grown
  <1>10. (Safe(Len(log)))'
    <2>1. (Spared(a))'
      BY <1>1, <1>6 DEF Spared
    <2>2. ASSUME NEW m \in 1..Len(log') \ consumed' PROVE log'[m].how = "heal" /\ (Spared(log[m].by))'
      <3>1. CASE m = Len(log')
        <4>1. PICK c : c = log'[m].by
          OBVIOUS
        <4>2. c = a
          BY <1>8, <1>9, <3>1, <4>1
        <4> QED
          BY <1>8, <1>9, <2>1, <3>1, <4>1, <4>2
      <3>2. CASE m # Len(log')
        <4>1. m \in 1..Len(log) \ consumed
          BY <1>1, <1>4, <1>9, <2>2, <3>2
        <4>2. log[m].how = "heal" /\ Spared(log[m].by) /\ log'[m] = log[m] /\ log[m].by \in Batches
          BY <1>6, <1>9, <4>1, World DEF Safe
        <4>3. PICK c : c = log'[m].by
          OBVIOUS
        <4>4. c \in Batches /\ Spared(c)
          BY <4>2, <4>3
        <4>5. (Spared(c))'
          BY <1>2, <4>4, CallsSame
        <4> QED
          BY <4>2, <4>3, <4>5
      <3> QED
        BY <3>1, <3>2
    <2> QED
      BY <2>2 DEF Safe
  <1>11. Asked'
    <2>1. Thins(toAgent, toAgent')
      BY <1>1, <1>4, ThinsMore
    <2> QED
      BY <1>2, <1>4, <1>10, <2>1, DueSame, AskedThins DEF Exchange
  <1>12. Working'
    <2>1. (Spared(a))' /\ agent'.by = a
      BY <1>1, <1>5, <1>6 DEF Spared
    <2>2. \A c \in Batches : batch'[c].pc = "healWait" => agent'.by = c /\ OnlyCancels'
      BY <1>1 DEF Exchange, Working, OnlyCancels
    <2> QED
      BY <1>10, <2>1, <2>2 DEF Working
  <1>13. PICK g : g = <<Event("sync", Len(log'))>>
    OBVIOUS
  <1>14. g \in Seq(Events) /\ Len(g) = 1 /\ g[1].ev = "sync" /\ g[1].seen = Len(log')
    BY <1>4, <1>9, <1>13, OneEvent
  <1>15. fromAgent' = fromAgent \o g
    BY <1>1, <1>4, <1>9, <1>13, EventFits DEF Sync
  <1>16. Answers'
    <2>1. ASSUME NEW f, f.ev = "sync" PROVE (Fits(f))'
      BY <2>1 DEF Fits
    <2>2. \A i, j \in 1..Len(g) : i < j => (Follow(g[i], g[j]))'
      BY <1>14
    <2>3. \A i \in 1..Len(g) : (Fits(g[i]))'
      BY <1>14, <2>1
    <2> QED
      BY <1>1, <1>3, <1>14, <1>15, <2>2, <2>3, BusyAnswers
  <1>17. Revealed'
    <2>1. ASSUME NEW n, n = Len(log') PROVE (Safe(n))'
      BY <1>10, <2>1
    <2>2. \A i \in 1..Len(g) : g[i].ev = "sync" => (Safe(g[i].seen))'
      <3>1. SUFFICES ASSUME NEW i \in 1..Len(g) PROVE (Safe(g[i].seen))'
        OBVIOUS
      <3>2. PICK n : n = g[i].seen
        OBVIOUS
      <3>3. n = Len(log')
        BY <1>14, <3>2
      <3> QED
        BY <2>1, <3>2, <3>3
    <2>3. \A k \in 1..Len(fromAgent) : fromAgent[k].seen <= Len(log)
      BY World
    <2> QED
      BY <1>4, <1>9, <1>14, <1>15, <2>2, <2>3, RevealedJoins DEF Exchange
  <1> QED
    BY <1>1, <1>3, <1>11, <1>12, <1>16, <1>17, BusyKeeps

LEMMA DoReplayKeeps ==
    ASSUME SystemInv, Exchange, "late" \notin hap, DoReplay, UNCHANGED hap
    PROVE  Exchange' /\ SameCalls
  <1>1. UNCHANGED <<batch, agent, appended, inserted, consumed>> /\ Takes("replay")
    BY DEF DoReplay, steps
  <1>2. SameCalls
    BY <1>1 DEF SameCalls, Heard
  <1>3. PICK m : m = Head(toAgent)
    OBVIOUS
  <1>4. m \in Requests /\ Due(m) /\ m.op = "replay" /\ ~AgentRests /\ (Own(m) => OnlyCancels')
    BY <1>1, <1>3, TakesOwn DEF Takes
  <1>5. ~ReadsOnly
    BY <1>1, TakesFits DEF ReadsOnly
  <1>6. OnlyCancels' /\ AgentRests'
    BY <1>1, <1>4 DEF Own, AgentRests, Takes
  <1>7. fromAgent \in Seq(Events) /\ Len(log) \in Nat
    BY World
  <1>8. Working'
    BY <1>1 DEF Working, Takes
  <1>9. Asked'
    BY <1>6, CancelsAsk
  <1>10. m.by \in Batches /\ WaitsDone(m.by) /\ m.step = Target(m.by) /\ m.step \in Steps \cup {Menu}
    BY <1>4 DEF Due, Requests
  <1>11. PICK res \in IF m.step = Menu THEN {"ok", "fail"} ELSE Outcomes(m.step) :
             LET answer == [Event("done", 0) EXCEPT !.res = res, !.of = <<m.by, m.step>>]
             IN \/ fromAgent' = Append(fromAgent, answer)
                \/ fromAgent' = fromAgent \o <<Sync(log'), answer>>
    BY <1>3 DEF DoReplay
  <1>12. PICK a : a = [Event("done", 0) EXCEPT !.res = res, !.of = <<m.by, m.step>>]
    OBVIOUS
  <1>13. a \in Events /\ a.ev = "done" /\ a.of = <<m.by, m.step>> /\ a.res = res
    <2>1. res \in Results
      BY <1>11 DEF Outcomes, Results
    <2>2. a = [ev |-> "done", seen |-> 0, res |-> res, of |-> <<m.by, m.step>>]
      BY <1>12 DEF Event
    <2> QED
      BY <1>10, <2>1, <2>2 DEF Events
  <1>14. Len(log') \in Nat
    <2>1. log' \in Seq(LogEntries)
      BY DoReplayKeepsWire DEF AgentInv
    <2> QED
      BY <2>1
  <1>15. PICK y : y = Event("sync", Len(log'))
    OBVIOUS
  <1>16. y \in Events /\ y.ev = "sync"
    BY <1>14, <1>15, EventFits
  <1>17. PICK g \in {<<a>>, <<y, a>>} : fromAgent' = fromAgent \o g
    <2>1. Append(fromAgent, a) = fromAgent \o <<a>>
      BY <1>7, <1>13, Joins
    <2>2. fromAgent' = Append(fromAgent, a) \/ fromAgent' = fromAgent \o <<y, a>>
      BY <1>11, <1>12, <1>15 DEF Sync
    <2> QED
      BY <2>1, <2>2
  <1>18. /\ g \in Seq(Events) /\ \A i \in 1..Len(g) : g[i] = a \/ g[i] = y
         /\ \A i, j \in 1..Len(g) : i < j => g[i] = y
         /\ Len(g) \in 1..2 /\ g[Len(g)] = a
    <2>1. CASE g = <<a>>
      <3>1. g \in Seq(Events) /\ Len(g) = 1 /\ g[1] = a
        BY <1>13, <2>1, OneOrTwo
      <3> QED
        BY <3>1
    <2>2. CASE g = <<y, a>>
      <3>1. g \in Seq(Events) /\ Len(g) = 2 /\ g[1] = y /\ g[2] = a
        BY <1>13, <1>16, <2>2, OneOrTwo
      <3>2. \A i \in 1..Len(g) : i = 1 \/ i = 2
        BY <3>1
      <3> QED
        BY <3>1, <3>2
    <2> QED
      BY <2>1, <2>2
  <1>19. (Fits(a))' /\ (Fits(y))' /\ \A f : (Follow(y, f))'
    <2>1. (Fits(y))' /\ \A f : (Follow(y, f))'
      <3>1. ASSUME NEW e, e.ev = "sync" PROVE (Fits(e))' /\ \A f : (Follow(e, f))'
        BY <3>1 DEF Fits, Follow
      <3> QED
        BY <1>16, <3>1
    <2>2. (Fits(a))'
      <3>1. PICK c : c = m.by
        OBVIOUS
      <3>2. c \in Batches /\ (WaitsDone(c))' /\ (Target(c))' = m.step
        BY <1>2, <1>10, <3>1, CallsSame
      <3>3. a.of = <<c, (Target(c))'>> /\ ((Target(c))' # Menu => a.res \in (Outcomes(Target(c)))')
        BY <1>11, <1>13, <3>1, <3>2 DEF Outcomes
      <3> QED
        BY <1>6, <1>13, <3>2, <3>3 DEF Fits
    <2> QED
      BY <2>1, <2>2
  <1>20. Answers'
    <2>1. \A i \in 1..Len(g) : (Fits(g[i]))'
      BY <1>18, <1>19
    <2>2. \A i, j \in 1..Len(g) : i < j => (Follow(g[i], g[j]))'
      BY <1>18, <1>19
    <2> QED
      BY <1>1, <1>4, <1>17, <1>18, <2>1, <2>2, BusyAnswers
  <1>21. Revealed'
    <2>1. fromAgent' \in Seq(Events) /\ fromAgent' # <<>> /\ fromAgent'[Len(fromAgent')] = a
      <3>1. fromAgent' \in Seq(Events) /\ Len(fromAgent') = Len(fromAgent) + Len(g)
            /\ \A i \in 1..Len(fromAgent) + Len(g) : fromAgent'[i] = IF i <= Len(fromAgent) THEN fromAgent[i] ELSE g[i - Len(fromAgent)]
        BY <1>7, <1>17, <1>18, ConcatProperties
      <3>2. PICK l : l = Len(fromAgent) /\ l \in Nat
        BY <1>7
      <3>3. Len(g) \in 1..2 /\ g[Len(g)] = a
        BY <1>18
      <3>4. PICK h : h = fromAgent'
        OBVIOUS
      <3>5. h \in Seq(Events) /\ Len(h) = l + Len(g)
            /\ l + Len(g) \in 1..l + Len(g) /\ ~(l + Len(g) <= l) /\ (l + Len(g)) - l = Len(g)
        <4>1. h \in Seq(Events) /\ Len(h) = l + Len(g)
          BY <3>1, <3>2, <3>4
        <4>2. PICK n : n = Len(g)
          OBVIOUS
        <4>3. l + n \in 1..l + n /\ ~(l + n <= l) /\ (l + n) - l = n
          <5>1. l \in Nat /\ n \in 1..2
            BY <3>2, <3>3, <4>2
          <5> QED
            BY <5>1
        <4> QED
          BY <4>1, <4>2, <4>3
      <3>6. h[l + Len(g)] = g[Len(g)]
        BY <3>1, <3>2, <3>4, <3>5
      <3>7. h # <<>>
        BY <3>2, <3>3, <3>5
      <3> QED
        BY <3>3, <3>4, <3>5, <3>6, <3>7
    <2> QED
      BY <1>13, <2>1, RevealedLast
  <1> QED
    BY <1>1, <1>2, <1>4, <1>5, <1>8, <1>9, <1>20, <1>21, BusyKeeps

LEMMA DiesKeeps ==
    ASSUME SystemInv, Exchange, Dies, UNCHANGED hap
    PROVE  Exchange'
  <1>1. /\ UNCHANGED <<batch, log, fromAgent, appended, inserted, consumed>> /\ toAgent' = <<>>
        /\ agent'.work = "idle"
    <2>1. agent \in [work : {"idle", "boundary", "acting"}, by : Batches \cup {NoBatch}, stop : BOOLEAN]
      BY DEF SystemInv, AgentInv
    <2>2. /\ UNCHANGED <<batch, log, fromAgent, appended, inserted, consumed>> /\ toAgent' = <<>>
          /\ agent' = [agent EXCEPT !.work = "idle"]
      BY DEF Dies, steps
    <2> QED
      BY <2>1, <2>2
  <1>2. SameCalls
    BY <1>1 DEF SameCalls, Heard
  <1>3. OnlyCancels' /\ AgentRests' /\ ReadsOnly'
    BY <1>1 DEF OnlyCancels, AgentRests, ReadsOnly
  <1>4. fromAgent \in Seq(Events) /\ Len(log) \in Nat
    BY World
  <1>5. Asked'
    BY <1>3, CancelsAsk
  <1>6. Working'
    BY <1>1 DEF Working
  <1>7. Answers'
    <2>1. Thins(fromAgent, fromAgent')
      BY <1>1, <1>4, ThinsMore
    <2> QED
      BY <1>1, <1>2, <1>3, <1>4, <2>1, FitsSame, AnswersThins DEF Exchange
  <1>8. Revealed'
    BY <1>1, <1>2, <1>4, LogSame, RevealedSame, World DEF Exchange
  <1>9. Calms
    BY <1>1, <1>2, <1>3, LogSame DEF Calms
  <1> QED
    BY <1>1, <1>2, <1>5, <1>6, <1>7, <1>8, <1>9, CalmKeeps

-----------------------------------------------------------------------------
LogRequest == [op |-> "log", step |-> Menu, by |-> NoBatch]
\* An event nobody waits for, and one that the batch waits for.
Passed(e) ==
    /\ \A b \in Batches : e.ev # "sync" => ~Awaits(b, e.ev)
    /\ UNCHANGED <<batch, toAgent>>
    /\ \/ UNCHANGED <<appended, consumed>>
       \/ /\ \A b \in Batches : ~Running(b)
          /\ e.ev \in {"sync", "log"}
          /\ appended' = appended \cup (Entries(e.seen) \ consumed) /\ consumed' = consumed \cup Entries(e.seen)
Heeds(b, e) ==
    /\ e.ev # "sync" /\ Awaits(b, e.ev) /\ batch[b].pc \in Waits
    /\ batch'[b] = Answered(batch[b], e) /\ \A c \in Batches \ {b} : batch'[c] = batch[c]
    /\ UNCHANGED appended
    /\ consumed' = IF e.ev = "log" /\ Consumes(b) THEN consumed \cup Entries(e.seen) ELSE consumed
    /\ IF batch'[b].pc = "logWait" /\ alive THEN toAgent' = Append(toAgent, LogRequest) ELSE UNCHANGED toAgent

LEMMA DeliverIs ==
    ASSUME SystemInv, RunsApart, Deliver
    PROVE  /\ fromAgent \in Seq(Events) /\ fromAgent # <<>> /\ fromAgent' = Tail(fromAgent)
           /\ Head(fromAgent) \in Events /\ Head(fromAgent) = fromAgent[1] /\ 1 \in 1..Len(fromAgent)
           /\ \A k \in 1..Len(fromAgent') : k + 1 \in 1..Len(fromAgent) /\ 1 < k + 1 /\ fromAgent'[k] = fromAgent[k + 1]
           /\ UNCHANGED <<table, inserted, agent, log, alive>>
           /\ Passed(Head(fromAgent)) \/ \E b \in Batches : Heeds(b, Head(fromAgent))
  <1> DEFINE e == Head(fromAgent)
             for == {b \in Batches : e.ev # "sync" /\ Awaits(b, e.ev)}
             ask == {b \in for : Answered(batch[b], e).pc = "logWait"}
             known == consumed \cup IF e.ev = "log" /\ \E b \in for : Consumes(b) THEN Entries(e.seen) ELSE {}
             new == IF e.ev \in {"sync", "log"} /\ ~flags.suppress THEN Entries(e.seen) \ known ELSE {}
  <1>1. UNCHANGED <<table, inserted, agent, log, alive>> /\ fromAgent # <<>> /\ fromAgent' = Tail(fromAgent)
    BY DEF Deliver, executor
  <1>2. /\ batch' = [b \in Batches |-> IF b \in for THEN Answered(batch[b], e) ELSE batch[b]]
        /\ toAgent' = IF ask = {} \/ ~alive THEN toAgent
                      ELSE toAgent \o [k \in 1..Cardinality(ask) |-> LogRequest]
        /\ appended' = appended \cup new
        /\ consumed' = known \cup new
    BY DEF Deliver, LogRequest
  <1>3. /\ e \in Events /\ e = fromAgent[1] /\ fromAgent \in Seq(Events) /\ 1 \in 1..Len(fromAgent)
        /\ \A k \in 1..Len(fromAgent') : k + 1 \in 1..Len(fromAgent) /\ 1 < k + 1 /\ fromAgent'[k] = fromAgent[k + 1]
    <2>1. /\ e \in Events /\ e = fromAgent[1]
          /\ \A k \in 1..Len(fromAgent') : k + 1 \in 1..Len(fromAgent) /\ fromAgent'[k] = fromAgent[k + 1]
      BY <1>1, TailFits DEF SystemInv
    <2>2. fromAgent \in Seq(Events)
      BY World
    <2>3. 1 \in 1..Len(fromAgent)
      BY <1>1, <2>2
    <2>4. \A k \in 1..Len(fromAgent') : 1 < k + 1
      OBVIOUS
    <2> QED
      BY <2>1, <2>2, <2>3, <2>4
  <1>4. \A b \in for : b \in Batches /\ batch[b].pc \in Waits /\ Running(b)
    BY DEF Awaits, Waits, Running
  <1>5. batch \in [Batches -> CallType] /\ toAgent \in Seq(Requests) /\ LogRequest \in Requests
    BY World DEF LogRequest, Requests
  <1>6. CASE for = {}
    <2>1. UNCHANGED batch
      BY <1>2, <1>5, <1>6
    <2>2. UNCHANGED toAgent
      BY <1>2, <1>6
    <2>3. known = consumed
      BY <1>6
    <2>4. new = {} \/ (e.ev \in {"sync", "log"} /\ flags.suppress # TRUE /\ new = Entries(e.seen) \ consumed)
      BY <2>3
    <2>5. flags.suppress # TRUE => \A b \in Batches : ~Running(b)
      BY DEF RunsApart
    <2>6. \A b \in Batches : e.ev # "sync" => ~Awaits(b, e.ev)
      BY <1>6
    <2> HIDE DEF e, for, ask, new, known
    <2>7. Passed(e)
      BY <1>2, <2>1, <2>2, <2>3, <2>4, <2>5, <2>6 DEF Passed
    <2> QED
      BY <1>1, <1>3, <2>7 DEF e
  <1>7. ASSUME NEW b \in for PROVE Heeds(b, e)
    <2>1. for = {b} /\ b \in Batches
      BY <1>4, <1>7 DEF RunsApart
    <2>2. flags.suppress = TRUE
      BY <1>4, <1>7 DEF RunsApart
    <2>3. new = {}
      BY <2>2
    <2>4. known = IF e.ev = "log" /\ Consumes(b) THEN consumed \cup Entries(e.seen) ELSE consumed
      BY <2>1
    <2>5. e.ev # "sync" /\ Awaits(b, e.ev) /\ batch[b].pc \in Waits
      BY <1>4, <1>7
    <2>6. ask = IF Answered(batch[b], e).pc = "logWait" THEN {b} ELSE {}
      BY <2>1
    <2>7. toAgent \o [k \in 1..1 |-> LogRequest] = Append(toAgent, LogRequest)
      BY <1>5
    <2>8. Cardinality({b}) = 1
      BY FS_Singleton
    <2> HIDE DEF e, for, ask, new, known
    <2>9. batch'[b] = Answered(batch[b], e) /\ \A c \in Batches \ {b} : batch'[c] = batch[c]
      BY <1>2, <2>1
    <2>10. IF batch'[b].pc = "logWait" /\ alive THEN toAgent' = Append(toAgent, LogRequest) ELSE UNCHANGED toAgent
      <3>1. CASE Answered(batch[b], e).pc = "logWait"
        BY <1>2, <2>6, <2>7, <2>8, <2>9, <3>1
      <3>2. CASE Answered(batch[b], e).pc # "logWait"
        BY <1>2, <2>6, <2>9, <3>2
      <3> QED
        BY <3>1, <3>2
    <2>11. UNCHANGED appended /\ consumed' = IF e.ev = "log" /\ Consumes(b) THEN consumed \cup Entries(e.seen) ELSE consumed
      BY <1>2, <2>3, <2>4
    <2> QED
      BY <2>5, <2>9, <2>10, <2>11 DEF Heeds
  <1> QED
    BY <1>1, <1>3, <1>4, <1>6, <1>7

\* Only stopped calls, or nobody who waits for the end of a heal, are left to hear.
LEMMA StoppedAnswers ==
    ASSUME \A k \in 1..Len(fromAgent') : fromAgent'[k].ev = "stopped" \/ (fromAgent'[k].ev = "healed" /\ ~Heals')
    PROVE  Answers' /\ Revealed'
  <1>1. ASSUME NEW e, e.ev = "stopped" \/ (e.ev = "healed" /\ ~Heals')
        PROVE  (Fits(e))' /\ \A f : (Follow(e, f))'
    BY <1>1 DEF Fits, Follow
  <1>2. ASSUME NEW k \in 1..Len(fromAgent') PROVE (Fits(fromAgent[k]))' /\ \A f : (Follow(fromAgent[k], f))'
    <2>1. PICK e : e = fromAgent'[k]
      OBVIOUS
    <2>2. (Fits(e))' /\ \A f : (Follow(e, f))'
      BY <1>1, <2>1
    <2> QED
      BY <2>1, <2>2
  <1>3. Answers'
    BY <1>2 DEF Answers
  <1>4. Revealed'
    BY DEF Revealed
  <1> QED
    BY <1>3, <1>4

LEMMA PassedKeeps ==
    ASSUME SystemInv, RunsApart, Exchange, Deliver, Passed(Head(fromAgent)), UNCHANGED hap
    PROVE  Exchange'
  <1>1. PICK e : e = Head(fromAgent)
    OBVIOUS
  <1>2. /\ fromAgent \in Seq(Events) /\ fromAgent # <<>> /\ fromAgent' = Tail(fromAgent)
        /\ e \in Events /\ e = fromAgent[1] /\ 1 \in 1..Len(fromAgent) /\ Passed(e)
        /\ \A k \in 1..Len(fromAgent') : k + 1 \in 1..Len(fromAgent) /\ 1 < k + 1 /\ fromAgent'[k] = fromAgent[k + 1]
        /\ UNCHANGED <<inserted, agent, log>>
    BY <1>1, DeliverIs
  <1>3. UNCHANGED <<batch, toAgent>> /\ consumed \subseteq consumed'
    BY <1>2 DEF Passed
  <1>4. SameCalls
    BY <1>3 DEF SameCalls, Heard
  <1>5. e.ev \notin {"done", "log"}
    <2>1. Fits(e)
      BY <1>2 DEF Exchange, Answers
    <2> QED
      BY <1>2, <2>1 DEF Passed, Fits, Awaits, WaitsDone
  <1>6. toAgent \in Seq(Requests) /\ Len(log) \in Nat
    BY World
  <1>7. \A c \in Batches : Spared(c) => (Spared(c))'
    BY <1>4, CallsSame
  <1>8. \A n \in 0..Len(log) : Safe(n) => (Safe(n))'
    BY <1>2, <1>3, <1>7, SafeKept
  <1>9. Safe(Len(log)) => (Safe(Len(log)))'
    BY <1>2, <1>6, <1>8
  <1>10. (AgentRests => AgentRests') /\ (ReadsOnly => ReadsOnly')
    BY <1>2, <1>3 DEF AgentRests, OnlyCancels, ReadsOnly
  <1>11. Thins(toAgent, toAgent') /\ Thins(fromAgent, fromAgent')
    BY <1>2, <1>3, <1>6, ThinsMore
  <1>12. Asked'
    BY <1>4, <1>6, <1>9, <1>11, DueSame, AskedThins DEF Exchange
  <1>13. Working'
    <2> SUFFICES ASSUME agent.work # "idle"
                 PROVE  /\ (Spared(agent.by))' /\ (Safe(Len(log)))'
                        /\ \A c \in Batches : batch'[c].pc = "healWait" => agent'.by = c /\ OnlyCancels'
      BY <1>2 DEF Working
    <2>1. agent.by \in Batches /\ Spared(agent.by) /\ Safe(Len(log))
      BY World DEF Exchange, Working
    <2>2. (Spared(agent.by))' /\ (Safe(Len(log)))'
      BY <1>2, <1>3, <1>9, <2>1 DEF Spared
    <2>3. \A c \in Batches : batch'[c].pc = "healWait" => agent'.by = c /\ OnlyCancels'
      BY <1>2, <1>3 DEF Exchange, Working, OnlyCancels
    <2> QED
      BY <2>2, <2>3
  <1>14. Answers'
    BY <1>2, <1>4, <1>10, <1>11, FitsSame, AnswersThins DEF Exchange
  <1>15. Revealed'
    <2>1. \A k \in 1..Len(fromAgent) : fromAgent[k].seen <= Len(log)
      BY World
    <2> QED
      BY <1>1, <1>2, <1>5, <1>6, <1>8, <2>1, RevealedTail DEF Exchange
  <1>16. CASE UNCHANGED <<appended, consumed>>
    <2>1. Calms
      BY <1>2, <1>10, <1>16 DEF Calms, Unseen, HealEvent
    <2> QED
      BY <1>2, <1>4, <1>12, <1>13, <1>14, <1>15, <1>16, <2>1, CalmKeeps
  <1>17. CASE \A b \in Batches : ~Running(b)
    <2>1. \A b \in Batches : batch'[b].pc \in {"idle", "over"}
      BY <1>3, <1>17 DEF Running
    <2>2. \A b \in Batches : (Quiet(batch[b]))'
      BY <2>1 DEF Quiet, Silent, Considers, Stage
    <2>3. Taken'
      <3>1. \A b \in Batches : batch[b].pc # "logWait"
        BY <1>17 DEF Running
      <3> QED
        BY <1>2, <1>3, <3>1 DEF Exchange, Taken
    <2> QED
      BY <1>12, <1>13, <1>14, <1>15, <2>2, <2>3 DEF Exchange
  <1> QED
    BY <1>2, <1>16, <1>17 DEF Passed

-----------------------------------------------------------------------------
\* One call waits, the others neither run nor wait.
LEMMA Others ==
    ASSUME SystemInv, RunsApart, NEW b \in Batches, batch[b].pc \in Waits,
           \A c \in Batches \ {b} : batch'[c] = batch[c]
    PROVE  /\ \A c \in Batches \ {b} : batch[c].pc \in {"idle", "over"} /\ batch'[c].pc \in {"idle", "over"}
           /\ \A c \in Batches \ {b} : ~WaitsDone(c) /\ ~(WaitsDone(c))' /\ (Quiet(batch[c]))'
           /\ \A c \in Batches \ {b} : Spared(c) => (Spared(c))'
           /\ batch[b].end = None /\ batch[b] \in CallType
  <1>1. Running(b)
    BY DEF Waits, Running
  <1>2. /\ \A c \in Batches \ {b} : batch[c].pc \in {"idle", "over"} /\ batch'[c].pc \in {"idle", "over"}
        /\ batch[b].end = None
    BY <1>1, Alone
  <1>3. \A c \in Batches \ {b} : (Quiet(batch[c]))'
    BY <1>2 DEF Quiet, Silent, Considers, Stage
  <1> QED
    BY <1>2, <1>3, World DEF WaitsDone, Spared

\* The head of the events is due, and what follows it.
LEMMA HeadFits ==
    ASSUME SystemInv, RunsApart, Exchange, Deliver
    PROVE  /\ Fits(Head(fromAgent))
           /\ \A k \in 1..Len(fromAgent') : Follow(Head(fromAgent), fromAgent'[k])
  <1>1. /\ Head(fromAgent) = fromAgent[1] /\ 1 \in 1..Len(fromAgent)
        /\ \A k \in 1..Len(fromAgent') : k + 1 \in 1..Len(fromAgent) /\ 1 < k + 1 /\ fromAgent'[k] = fromAgent[k + 1]
    BY DeliverIs
  <1> QED
    BY <1>1 DEF Exchange, Answers

\* An answer to a replayed step.
LEMMA DoneKeeps ==
    ASSUME SystemInv, RunsApart, HushInv, Exchange, Deliver, NEW b \in Batches, NEW e, e = Head(fromAgent), Heeds(b, e),
           e.ev = "done", UNCHANGED hap
    PROVE  /\ Exchange'
           /\ WaitsDone(b) /\ e.of = <<b, Target(b)>> /\ (Target(b) # Menu => e.res \in Outcomes(Target(b)))
  <1> DEFINE q == batch[b]
             r == batch'[b]
  <1>1. /\ q.pc \in {"navWait", "wait", "retryWait"} /\ r = Answered(q, e) /\ \A c \in Batches \ {b} : batch'[c] = batch[c]
        /\ UNCHANGED <<appended, consumed>> /\ q.pc \in Waits
        /\ IF r.pc = "logWait" /\ alive THEN toAgent' = Append(toAgent, LogRequest) ELSE UNCHANGED toAgent
    BY DEF Heeds, Awaits
  <1>2. /\ UNCHANGED <<inserted, agent, log, alive>>
        /\ Fits(e) /\ \A k \in 1..Len(fromAgent') : Follow(e, fromAgent'[k])
    BY DeliverIs, HeadFits
  <1>3. /\ \A c \in Batches \ {b} : batch[c].pc \in {"idle", "over"} /\ batch'[c].pc \in {"idle", "over"}
        /\ \A c \in Batches \ {b} : ~WaitsDone(c) /\ (Quiet(batch[c]))'
        /\ q \in CallType
    BY <1>1, Others
  <1>4. WaitsDone(b) /\ e.of = <<b, Target(b)>> /\ (Target(b) # Menu => e.res \in Outcomes(Target(b))) /\ AgentRests
    <2>1. PICK c \in Batches : WaitsDone(c) /\ e.of = <<c, Target(c)>> /\ (Target(c) # Menu => e.res \in Outcomes(Target(c)))
      BY <1>2 DEF Fits
    <2>2. c = b
      BY <1>3, <2>1
    <2> QED
      BY <1>2, <2>1, <2>2 DEF Fits
  <1>5. r.pc = "loop" \/ (r.pc = "logWait" /\ r.then \in {"scan", "judge", "retryJudge"})
    BY <1>1, <1>3 DEF Answered, AskLog, CallType
  <1>6. \A k \in 1..Len(fromAgent') : fromAgent'[k].ev = "stopped"
    BY <1>2 DEF Follow
  <1>7. Answers' /\ Revealed'
    BY <1>6, StoppedAnswers
  <1>8. Working'
    BY <1>2, <1>4 DEF Working, AgentRests
  <1>9. toAgent \in Seq(Requests) /\ LogRequest \in Requests /\ LogRequest.op = "log"
    BY World DEF LogRequest, Requests
  <1>10. Asked'
    <2>1. CASE r.pc = "logWait"
      <3>1. ASSUME NEW m, m.op = "log" PROVE (Due(m))'
        BY <2>1, <3>1 DEF Due
      <3>2. (Due(LogRequest))'
        <4>1. LogRequest' = LogRequest
          BY DEF LogRequest
        <4> QED
          BY <1>9, <3>1, <4>1
      <3>3. PICK x : x = LogRequest
        OBVIOUS
      <3>4. (Due(x))'
        BY <1>9, <3>1, <3>3
      <3> QED
        BY <1>1, <1>4, <1>9, <3>3, <3>4, AskedFresh DEF AgentRests
    <2>2. CASE r.pc = "loop"
      <3>1. OnlyCancels'
        BY <1>1, <1>4, <2>2 DEF OnlyCancels, AgentRests
      <3> QED
        BY <3>1, CancelsAsk
    <2> QED
      BY <1>5, <2>1, <2>2
  <1>11. ASSUME NEW c \in Batches PROVE (Quiet(batch[c]))'
    <2>1. CASE c # b
      BY <1>3, <2>1
    <2>2. CASE c = b /\ r.pc = "loop"
      BY <2>2 DEF Quiet, Silent, Considers, Stage
    <2>3. CASE c = b /\ r.pc = "logWait" /\ r.then \in {"scan", "judge", "retryJudge"}
      <3>1. \A k \in 1..Len(toAgent') : toAgent'[k].op \in {"cancel", "log"}
        <4>1. CASE toAgent' = Append(toAgent, LogRequest)
          BY <1>4, <1>9, <4>1 DEF OnlyCancels, AgentRests
        <4>2. CASE UNCHANGED toAgent
          BY <1>4, <4>2 DEF OnlyCancels, AgentRests
        <4> QED
          BY <1>1, <4>1, <4>2
      <3> QED
        BY <1>2, <1>4, <1>6, <2>3, <3>1 DEF Quiet, Silent, Considers, Stage, AgentRests
    <2> QED
      BY <1>5, <2>1, <2>2, <2>3
  <1>12. Taken'
    <2>1. \A c \in Batches : batch[c].pc # "logWait"
      BY <1>1, <1>3
    <2> QED
      BY <1>1, <1>2, <2>1 DEF Exchange, Taken
  <1> QED
    BY <1>4, <1>7, <1>8, <1>10, <1>11, <1>12 DEF Exchange

\* The log.
LEMMA LogKeeps ==
    ASSUME SystemInv, RunsApart, Exchange, Deliver, NEW b \in Batches, NEW e, e = Head(fromAgent), Heeds(b, e),
           e.ev = "log", UNCHANGED hap
    PROVE  Exchange'
  <1> DEFINE q == batch[b]
             r == batch'[b]
  <1>1. /\ q.pc = "logWait" /\ r = Answered(q, e) /\ \A c \in Batches \ {b} : batch'[c] = batch[c]
        /\ UNCHANGED <<appended>> /\ q.pc \in Waits
        /\ consumed' = IF Consumes(b) THEN consumed \cup Entries(e.seen) ELSE consumed
        /\ IF r.pc = "logWait" /\ alive THEN toAgent' = Append(toAgent, LogRequest) ELSE UNCHANGED toAgent
    BY DEF Heeds, Awaits
  <1>2. /\ UNCHANGED <<inserted, agent, log, alive>>
        /\ Fits(e) /\ \A k \in 1..Len(fromAgent') : Follow(e, fromAgent'[k])
    BY DeliverIs, HeadFits
  <1>3. /\ \A c \in Batches \ {b} : batch[c].pc \in {"idle", "over"} /\ batch'[c].pc \in {"idle", "over"}
        /\ \A c \in Batches \ {b} : (Quiet(batch[c]))'
        /\ q \in CallType
    BY <1>1, Others
  <1>4. AgentRests /\ e.seen = Len(log)
    BY <1>2 DEF Fits
  <1>5. \A k \in 1..Len(fromAgent') : fromAgent'[k].ev = "stopped"
    BY <1>2 DEF Follow
  <1>6. Answers' /\ Revealed'
    BY <1>5, StoppedAnswers
  <1>7. Working'
    BY <1>2, <1>4 DEF Working, AgentRests
  <1>8. /\ r = Logged(q, Entries(Len(log))) /\ q.then \in Thens
    <2>1. CallsInv
      BY World
    <2> QED
      BY <1>1, <1>4, <2>1, Where DEF Answered
  <1>9. /\ r.pc = q.then /\ r.i = q.i
        /\ r.before = IF q.then = "heal" THEN Entries(Len(log)) ELSE q.before
    <2>1. CallsInv /\ Len(log) \in Nat
      BY World
    <2>2. CallOK(q)
      BY <2>1, Where
    <2>3. Entries(Len(log)) \in SUBSET Entries(Len(log))
      OBVIOUS
    <2> HIDE DEF q
    <2> QED
      BY <1>1, <1>3, <1>8, <2>1, <2>2, <2>3, LoggedSound
  <1>10. UNCHANGED toAgent
    BY <1>1, <1>8, <1>9 DEF Thens
  <1>11. OnlyCancels' /\ AgentRests'
    BY <1>2, <1>4, <1>10 DEF AgentRests, OnlyCancels
  <1>12. Asked'
    BY <1>11, CancelsAsk
  <1>13. appended \cup inserted \cup consumed \subseteq Entries(Len(log))
    BY World DEF Entries
  <1>14. Quiet(q)
    BY DEF Exchange
  <1>15. ASSUME NEW c \in Batches PROVE (Quiet(batch[c]))'
    <2>1. CASE c # b
      BY <1>3, <2>1
    <2>2. CASE c = b
      <3>1. r.pc \in Considers => Unseen' = {}
        <4>1. CASE Consumes(b)
          <5>1. Entries(Len(log)) \subseteq consumed'
            BY <1>1, <1>4, <4>1
          <5> QED
            BY <1>2, <5>1 DEF Unseen
        <4>2. CASE ~Consumes(b)
          <5>1. q.then \in {"heal", "fetched"} /\ consumed' = consumed
            BY <1>1, <4>2 DEF Consumes
          <5>2. q.then = "heal" => Unseen = {}
            BY <1>1, <1>14 DEF Quiet
          <5> QED
            BY <1>2, <1>9, <5>1, <5>2 DEF Unseen, Considers
        <4> QED
          BY <4>1, <4>2
      <3>2. r.i \in Checkpoints /\ r.pc \in {"heal", "healWait", "fetched"} => appended' \subseteq r.before
        <4>1. r.pc # "healWait"
          BY <1>8, <1>9 DEF Thens
        <4>2. CASE r.pc = "heal"
          BY <1>1, <1>9, <1>13, <4>2
        <4>3. CASE r.pc = "fetched"
          BY <1>1, <1>9, <1>14, <4>3 DEF Quiet, Stage
        <4> QED
          BY <4>1, <4>2, <4>3
      <3>3. r.pc # "logWait"
        BY <1>8, <1>9 DEF Thens
      <3> QED
        BY <1>5, <1>11, <2>2, <3>1, <3>2, <3>3 DEF Quiet, Stage
    <2> QED
      BY <2>1, <2>2
  <1>16. Taken'
    <2>1. CASE "db" \in hap \/ inserted \subseteq consumed
      BY <1>1, <1>2, <2>1 DEF Taken
    <2>2. ASSUME NEW c \in Batches, batch[c].pc = "logWait", batch[c].then = "filled" PROVE Taken'
      <3>1. c = b
        BY <1>3, <2>2
      <3>2. Consumes(b)
        BY <2>2, <3>1 DEF Consumes
      <3> QED
        BY <1>1, <1>2, <1>4, <1>13, <3>2 DEF Taken
    <2> QED
      BY <2>1, <2>2 DEF Exchange, Taken
  <1> QED
    BY <1>6, <1>7, <1>12, <1>15, <1>16 DEF Exchange

\* The end of a heal, or a stop in it.
LEMMA EndKeeps ==
    ASSUME SystemInv, RunsApart, HushInv, Exchange, Deliver, NEW b \in Batches, NEW e, e = Head(fromAgent), Heeds(b, e),
           e.ev \notin {"done", "log"}, UNCHANGED hap
    PROVE  Exchange'
  <1> DEFINE q == batch[b]
             r == batch'[b]
  <1>1. /\ q.pc = "healWait" /\ r = Answered(q, e) /\ \A c \in Batches \ {b} : batch'[c] = batch[c]
        /\ UNCHANGED <<appended, consumed>> /\ q.pc \in Waits /\ e.ev # "sync"
        /\ IF r.pc = "logWait" /\ alive THEN toAgent' = Append(toAgent, LogRequest) ELSE UNCHANGED toAgent
    BY DEF Heeds, Awaits
  <1>2. /\ UNCHANGED <<inserted, agent, log, alive>> /\ e \in Events
        /\ Fits(e) /\ \A k \in 1..Len(fromAgent') : Follow(e, fromAgent'[k])
        /\ fromAgent \in Seq(Events) /\ fromAgent # <<>> /\ fromAgent' = Tail(fromAgent)
    BY DeliverIs, HeadFits
  <1>3. /\ \A c \in Batches \ {b} : batch[c].pc \in {"idle", "over"} /\ batch'[c].pc \in {"idle", "over"}
        /\ \A c \in Batches \ {b} : ~WaitsDone(c) /\ (Quiet(batch[c]))'
        /\ \A c \in Batches \ {b} : Spared(c) => (Spared(c))'
        /\ q \in CallType
    BY <1>1, Others
  <1>4. Heals
    BY <1>1 DEF Heals
  <1>5. \/ r.pc = "over" /\ r.end = "aborted"
        \/ r.pc = "healError" /\ e.ev = "healError" /\ r.i = q.i
        \/ /\ r.pc = "logWait" /\ e.ev = "healed" /\ r.then \in {"fetched", "healed"} /\ r.i = q.i /\ r.before = q.before
    <2>1. r = IF flags.abort \/ e.ev = "stopped" THEN Ends(q, "aborted")
              ELSE IF e.ev = "healError" THEN [q EXCEPT !.pc = "healError"]
              ELSE AskLog(q, IF q.i \in Checkpoints THEN "fetched" ELSE "healed")
      BY <1>1 DEF Answered
    <2>2. Ends(q, "aborted").pc = "over" /\ Ends(q, "aborted").end = "aborted"
      BY <1>3, EndsFields
    <2>3. [q EXCEPT !.pc = "healError"].pc = "healError" /\ [q EXCEPT !.pc = "healError"].i = q.i
      BY <1>3 DEF CallType
    <2>4. \A then \in Thens : LET a == AskLog(q, then) IN
              a.pc = "logWait" /\ a.then = then /\ a.i = q.i /\ a.before = q.before
      BY <1>3, AskLogFields DEF Heard
    <2>5. e.ev \in {"stopped", "healed", "healError"}
      BY <1>1, <1>2 DEF Events
    <2> HIDE DEF q
    <2>6. CASE flags.abort \/ e.ev = "stopped"
      BY <2>1, <2>2, <2>6
    <2>7. CASE ~(flags.abort \/ e.ev = "stopped") /\ e.ev = "healError"
      BY <2>1, <2>3, <2>7
    <2>8. CASE ~(flags.abort \/ e.ev = "stopped") /\ e.ev = "healed"
      <3>1. \E then \in {"fetched", "healed"} : r = AskLog(q, then)
        BY <2>1, <2>8
      <3>2. {"fetched", "healed"} \subseteq Thens
        BY DEF Thens
      <3> QED
        BY <2>4, <2>8, <3>1, <3>2
    <2> QED
      BY <2>5, <2>6, <2>7, <2>8
  <1>6. Taken'
    <2>1. \A c \in Batches : batch[c].pc # "logWait"
      BY <1>1, <1>3
    <2> QED
      BY <1>1, <1>2, <2>1 DEF Exchange, Taken
  <1>7. toAgent \in Seq(Requests) /\ LogRequest \in Requests /\ LogRequest.op = "log" /\ Len(log) \in Nat
    BY World DEF LogRequest, Requests
  <1>8. CASE r.pc = "over" /\ r.end = "aborted"
    <2>1. UNCHANGED toAgent
      BY <1>1, <1>8
    <2>2. \A c \in Batches : Spared(c) => (Spared(c))'
      BY <1>3, <1>8 DEF Spared
    <2>3. \A c \in Batches : ~WaitsDone(c) /\ batch[c].pc # "logWait" /\ batch'[c].pc # "healWait"
      BY <1>1, <1>3, <1>8 DEF WaitsDone
    <2>4. ~Heals'
      BY <2>3 DEF Heals
    <2>5. \A n \in 0..Len(log) : Safe(n) => (Safe(n))'
      BY <1>1, <1>2, <2>2, SafeKept
    <2>6. Safe(Len(log)) => (Safe(Len(log)))'
      BY <1>2, <1>7, <2>5
    <2>7. ASSUME NEW m \in Requests, Due(m) PROVE (Due(m))' /\ ((Own(m))' => Own(m))
      <3>1. m.op \notin {"replay", "log"}
        <4>1. m.op = "replay" => m.by \in Batches
          BY DEF Requests
        <4> QED
          BY <2>3, <2>7, <4>1 DEF Due
      <3>2. m.op = "heal" => m.by \in Batches /\ (Spared(m.by))' /\ (Safe(Len(log)))'
        BY <2>2, <2>6, <2>7, World DEF Due
      <3>3. m.op = "heal" => batch'[m.by].pc # "healWait"
        BY <2>3, <3>2
      <3> QED
        BY <2>3, <3>1, <3>2, <3>3 DEF Due, Own
    <2>8. Thins(toAgent, toAgent') /\ Thins(fromAgent, fromAgent')
      BY <1>2, <1>7, <2>1, ThinsMore
    <2>9. Asked'
      BY <1>7, <2>7, <2>8, AskedThins DEF Exchange
    <2>10. Working'
      <3>1. ASSUME agent.work # "idle" PROVE (Spared(agent.by))' /\ (Safe(Len(log)))'
        <4>1. agent.by \in Batches /\ Spared(agent.by) /\ Safe(Len(log))
          BY <3>1, World DEF Exchange, Working
        <4>2. PICK a : a = agent.by
          OBVIOUS
        <4>3. (Spared(a))' /\ agent'.by = a
          BY <1>2, <2>2, <4>1, <4>2
        <4> QED
          BY <2>6, <4>1, <4>2, <4>3
      <3> QED
        BY <1>2, <2>3, <3>1 DEF Working
    <2>11. Answers'
      <3>1. ASSUME NEW f \in Events, Fits(f) PROVE (Fits(f))' /\ \A g : (Follow(f, g))'
        <4>1. f.ev \notin {"done", "log"}
          BY <2>3, <3>1 DEF Fits
        <4> QED
          BY <2>4, <4>1 DEF Fits, Follow
      <3> QED
        BY <1>2, <2>8, <3>1, AnswersThins DEF Exchange
    <2>12. Revealed'
      <3>1. \A k \in 1..Len(fromAgent) : fromAgent[k].seen <= Len(log)
        BY World
      <3> QED
        BY <1>2, <1>7, <2>5, <3>1, RevealedTail DEF Exchange
    <2>13. (Quiet(batch[b]))'
      BY <1>8 DEF Quiet, Silent, Considers, Stage
    <2> QED
      BY <1>3, <1>6, <2>9, <2>10, <2>11, <2>12, <2>13 DEF Exchange
  <1>9. CASE e.ev \in {"healed", "healError"} /\ r.pc \in {"healError", "logWait"}
    <2>1. AgentRests
      BY <1>2, <1>4, <1>9 DEF Fits
    <2>2. Working'
      BY <1>2, <2>1 DEF Working, AgentRests
    <2>3. ~Heals'
      BY <1>3, <1>9 DEF Heals
    <2>4. \A k \in 1..Len(fromAgent') : fromAgent'[k].ev = "stopped" \/ (fromAgent'[k].ev = "healed" /\ e.ev = "healError")
      BY <1>2, <1>4, <1>9 DEF Follow
    <2>5. Answers' /\ Revealed'
      BY <2>3, <2>4, StoppedAnswers
    <2>6. CASE r.pc = "healError"
      <3>1. UNCHANGED toAgent
        BY <1>1, <2>6
      <3>2. OnlyCancels' /\ AgentRests'
        BY <1>2, <2>1, <3>1 DEF OnlyCancels, AgentRests
      <3>3. Asked'
        BY <3>2, CancelsAsk
      <3>4. (Quiet(batch[b]))'
        BY <2>6, <3>2 DEF Quiet, Silent, Considers, Stage
      <3> QED
        BY <1>3, <1>6, <2>2, <2>5, <3>3, <3>4 DEF Exchange
    <2>7. CASE r.pc = "logWait"
      <3>1. e.ev = "healed" /\ r.then \in {"fetched", "healed"} /\ r.i = q.i /\ r.before = q.before
        BY <1>5, <2>7
      <3>2. \A k \in 1..Len(fromAgent') : fromAgent'[k].ev = "stopped"
        BY <2>4, <3>1
      <3>3. ASSUME NEW m, m.op = "log" PROVE (Due(m))'
        BY <2>7, <3>3 DEF Due
      <3>4. PICK x : x = LogRequest
        OBVIOUS
      <3>5. (Due(x))'
        BY <1>7, <3>3, <3>4
      <3>6. Asked'
        BY <1>1, <1>7, <2>1, <3>4, <3>5, AskedFresh DEF AgentRests
      <3>7. \A k \in 1..Len(toAgent') : toAgent'[k].op \in {"cancel", "log"}
        <4>1. CASE toAgent' = Append(toAgent, LogRequest)
          BY <1>7, <2>1, <4>1 DEF OnlyCancels, AgentRests
        <4>2. CASE UNCHANGED toAgent
          BY <2>1, <4>2 DEF OnlyCancels, AgentRests
        <4> QED
          BY <1>1, <4>1, <4>2
      <3>8. q.i \in Checkpoints => appended \subseteq q.before
        <4>1. Quiet(q)
          BY DEF Exchange
        <4> QED
          BY <1>1, <4>1 DEF Quiet, Stage
      <3>9. (Quiet(batch[b]))'
        BY <1>1, <1>2, <2>1, <2>7, <3>1, <3>2, <3>7, <3>8 DEF Quiet, Silent, Considers, Stage, AgentRests
      <3> QED
        BY <1>3, <1>6, <2>2, <2>5, <3>6, <3>9 DEF Exchange
    <2> QED
      BY <1>9, <2>6, <2>7
  <1> QED
    BY <1>5, <1>8, <1>9

-----------------------------------------------------------------------------
\* A session that has ended has nobody at work.
LEMMA HushInit == Init => HushInv
  BY DEF Init, HushInv

\* What a step of a batch leaves alone.
LEMMA BatchLeaves ==
    ASSUME SystemInv, UNCHANGED hap, NEW b \in Batches, BatchStep(b) \/ Timeout(b)
    PROVE  /\ \A c \in Batches \ {b} : batch'[c] = batch[c]
           /\ UNCHANGED <<fromAgent, agent, log, alive, appended, consumed>>
           /\ Running(b) /\ batch[b].end = None
           /\ Timeout(b) => UNCHANGED <<toAgent, inserted>> /\ batch[b].pc \in Waits
  <1>1. CallsInv /\ Len(log) \in Nat
    BY World
  <1>2. \E r : Set(b, r)
    BY <1>1, BatchAdvances DEF Advances
  <1>3. \A c \in Batches \ {b} : batch'[c] = batch[c]
    BY <1>1, <1>2, SetIs
  <1>4. UNCHANGED <<fromAgent, agent, log, alive, appended, consumed>>
    BY BatchKeepsWire, BatchKeepsRest
  <1>5. Timeout(b) => UNCHANGED <<toAgent, inserted>> /\ batch[b].pc \in Waits
    BY DEF Timeout, wire
  <1>6. Running(b)
    BY <1>1, <1>5, BatchTurns DEF Waits, Running
  <1>7. batch[b].end = None
    BY <1>1, <1>6, Where DEF Sound, Running
  <1> QED
    BY <1>3, <1>4, <1>5, <1>6, <1>7

\* Once the session has ended nothing is asked, and nobody works.
LEMMA HushedSteps ==
    ASSUME SystemInv, HushInv, ~alive, [Next /\ UNCHANGED hap]_<<vars, hap>>
    PROVE  /\ UNCHANGED <<toAgent, agent, alive, log>>
           /\ (\E b \in Batches : BatchStep(b) \/ Timeout(b)) \/ Deliver \/ UNCHANGED vars
           /\ Deliver \/ UNCHANGED fromAgent
  <1>1. toAgent = <<>> /\ agent.work = "idle"
    BY DEF HushInv
  <1>2. ~Cancelled
    BY <1>1 DEF Cancelled
  <1>3. ~MainLoop
    BY <1>1 DEF MainLoop, DoReplay, GetLog, StartHeal, Takes, HealStep, HealActs, HealEnds
  <1>4. ~Stop /\ ~RecordStop /\ ~Dies /\ \A b \in Batches : ~Accept(b)
    BY DEF Stop, RecordStop, Dies, Accept
  <1>5. (\E b \in Batches : BatchStep(b) \/ Timeout(b)) \/ Deliver \/ UNCHANGED vars
    BY <1>2, <1>3, <1>4 DEF Next
  <1>6. CASE UNCHANGED vars
    BY <1>5, <1>6 DEF vars, wire, executor
  <1>7. CASE Deliver
    <2>1. UNCHANGED <<agent, log, alive>>
      BY <1>7 DEF Deliver, executor
    <2>2. UNCHANGED toAgent
      BY <1>7 DEF Deliver
    <2> QED
      BY <1>5, <1>7, <2>1, <2>2
  <1>8. ASSUME UNCHANGED hap, NEW b \in Batches, BatchStep(b) \/ Timeout(b)
        PROVE  UNCHANGED <<toAgent, fromAgent, agent, alive, log>>
    <2>1. UNCHANGED <<fromAgent, agent, alive, log>> /\ (Timeout(b) => UNCHANGED toAgent)
      BY <1>8, BatchLeaves
    <2>2. BatchStep(b) => UNCHANGED toAgent
      <3>1. CallsInv
        BY World
      <3>2. BatchStep(b) => Turn(b, batch'[b])
        BY <3>1, BatchTurns
      <3> QED
        BY <3>2 DEF Turn, TurnRests, TurnReplays, Replays, TurnHeals, TurnReads, Ask
    <2> QED
      BY <1>8, <2>1, <2>2
  <1> QED
    BY <1>5, <1>6, <1>7, <1>8

LEMMA HushStep == SystemInv /\ HushInv /\ [Next /\ UNCHANGED hap]_<<vars, hap>> => HushInv'
  <1> SUFFICES ASSUME SystemInv, HushInv, [Next /\ UNCHANGED hap]_<<vars, hap>> PROVE HushInv'
    OBVIOUS
  <1>1. CASE ~alive
    BY <1>1, HushedSteps DEF HushInv
  <1>2. CASE alive
    <2>1. CASE Dies
      <3>1. agent \in [work : {"idle", "boundary", "acting"}, by : Batches \cup {NoBatch}, stop : BOOLEAN]
        BY DEF SystemInv, AgentInv
      <3>2. toAgent' = <<>> /\ agent' = [agent EXCEPT !.work = "idle"]
        BY <2>1 DEF Dies
      <3> QED
        BY <3>1, <3>2 DEF HushInv
    <2>2. CASE UNCHANGED vars \/ (\E b \in Batches : Accept(b)) \/ Stop \/ RecordStop \/ Deliver \/ Cancelled \/ MainLoop
      <3>1. UNCHANGED alive
        BY <2>2 DEF vars, executor, Accept, Stop, RecordStop, Deliver, Cancelled, MainLoop, DoReplay, GetLog, StartHeal,
             HealStep, HealActs, HealEnds
      <3> QED
        BY <1>2, <3>1 DEF HushInv
    <2>3. ASSUME UNCHANGED hap, NEW b \in Batches, BatchStep(b) \/ Timeout(b) PROVE HushInv'
      BY <1>2, <2>3, BatchLeaves DEF HushInv
    <2> QED
      BY <2>1, <2>2, <2>3 DEF Next
  <1> QED
    BY <1>1, <1>2

LEMMA LostStays ==
    ASSUME SystemInv, HushInv, Lost, [Next /\ UNCHANGED hap]_<<vars, hap>>
    PROVE  /\ Lost'
           /\ (\E b \in Batches : BatchStep(b) \/ Timeout(b)) \/ UNCHANGED vars
  <1>1. ~alive /\ fromAgent = <<>>
    BY DEF Lost
  <1>2. ~Deliver
    BY <1>1 DEF Deliver
  <1> QED
    BY <1>1, <1>2, HushedSteps DEF Lost

LEMMA ExchangeStep ==
    ASSUME SystemInv, RunsApart, HushInv, Calm, Exchange, ~Lost, [Next /\ UNCHANGED hap]_<<vars, hap>>
    PROVE  Exchange'
  <1>0. UNCHANGED hap
    OBVIOUS
  <1>1. "late" \notin hap /\ CallsInv
    BY World DEF Calm, Without
  <1>2. ~MayTimeOut
    BY <1>1 DEF MayTimeOut, Lost
  <1>3. ASSUME NEW b \in Batches, Timeout(b) PROVE FALSE
    BY <1>2, <1>3 DEF Timeout
  <1>4. CASE (\E b \in Batches : Accept(b)) \/ Stop \/ RecordStop \/ UNCHANGED vars
    BY <1>0, <1>4, CallsKeep
  <1>5. ASSUME UNCHANGED hap, NEW b \in Batches, BatchStep(b) PROVE Exchange'
    <2>1. Running(b) /\ batch[b].pc \notin Waits /\ Turn(b, batch'[b])
      BY <1>1, <1>5, BatchTurns
    <2>2. /\ \A c \in Batches \ {b} : batch'[c] = batch[c]
          /\ UNCHANGED <<fromAgent, agent, log, alive, appended, consumed>>
      BY <1>5, BatchLeaves
    <2>3. SystemInv'
      BY SystemStep
    <2>4. CallsInv'
      BY <2>3 DEF SystemInv
    <2>5. CASE TurnRests(b, batch'[b])
      <3>1. Rests(batch[b], batch'[b]) /\ UNCHANGED toAgent /\ ("db" \in hap \/ UNCHANGED inserted)
        BY <2>5 DEF TurnRests
      <3> QED
        BY <1>0, <2>1, <2>2, <2>4, <3>1, RestsKeeps
    <2>6. CASE TurnReplays(b, batch'[b]) \/ TurnHeals(b, batch'[b]) \/ TurnReads(b, batch'[b])
      <3>1. batch'[b].pc \in Waits
        BY <2>6 DEF TurnReplays, Replays, TurnHeals, TurnReads, Reads, Waits
      <3> QED
        BY <1>0, <2>1, <2>2, <2>3, <3>1, AsksKeeps
    <2> QED
      BY <2>1, <2>5, <2>6 DEF Turn
  <1>6. CASE Deliver
    <2>1. PICK e : e = Head(fromAgent)
      OBVIOUS
    <2>2. Passed(e) \/ \E b \in Batches : Heeds(b, e)
      BY <1>6, <2>1, DeliverIs
    <2>3. CASE Passed(e)
      BY <1>0, <1>6, <2>1, <2>3, PassedKeeps
    <2>4. ASSUME NEW b \in Batches, Heeds(b, e) PROVE Exchange'
      <3>1. CASE e.ev = "done"
        BY <1>0, <1>6, <2>1, <2>4, <3>1, DoneKeeps
      <3>2. CASE e.ev = "log"
        BY <1>0, <1>6, <2>1, <2>4, <3>2, LogKeeps
      <3>3. CASE e.ev \notin {"done", "log"}
        BY <1>0, <1>6, <2>1, <2>4, <3>3, EndKeeps
      <3> QED
        BY <3>1, <3>2, <3>3
    <2> QED
      BY <2>2, <2>3, <2>4
  <1>7. CASE Cancelled \/ MainLoop \/ Dies
    BY <1>0, <1>1, <1>7, CancelledKeeps, GetLogKeeps, StartHealKeeps, HealStepKeeps, HealActsKeeps, HealEndsKeeps, DoReplayKeeps,
       DiesKeeps DEF MainLoop
  <1> QED
    BY <1>3, <1>4, <1>5, <1>6, <1>7 DEF Next

-----------------------------------------------------------------------------
(***************************************************************************)
(* What a call knows, what became steps and what the table says.           *)
(***************************************************************************)
\* The answer a call has stays of the step it is at.
LEMMA OfTurn ==
    ASSUME CallsInv, NEW b \in Batches, Of(b, batch[b]), NEW r, Turn(b, r)
    PROVE  Of(b, r) /\ r.pc # "fetched"
  <1> DEFINE q == batch[b]
  <1>1. q.pc \in {"judge", "retry", "retryJudge"} => q.i \in Fills
    BY Where DEF OfFill
  <1>2. CASE Rests(q, r)
    <2>1. CASE r.pc \in {"loop", "over"}
      BY <2>1 DEF Of, Stage, OfFill, OfCheckpoint
    <2>2. CASE r.pc \in {"retry", "heal"} /\ q.pc \in {"judge", "retry", "retryJudge"} /\ Same(q, r)
      BY <1>1, <2>2 DEF Of, Stage, OfFill, OfCheckpoint, Same, Heard, Fills
    <2>3. CASE r.pc = "filled" /\ q.pc = "scan" /\ q.res = "missing" /\ Same(q, r)
      BY <2>3 DEF Of, Stage, OfFill, OfCheckpoint, Same, Heard
    <2> QED
      BY <1>2, <2>1, <2>2, <2>3 DEF Rests
  <1>3. CASE Replays(q, r)
    <2>1. CASE r.pc \in {"navWait", "wait"}
      BY <2>1 DEF Of, Stage, OfFill, OfCheckpoint
    <2>2. CASE q.pc = "retry" /\ r.pc = "retryWait" /\ Same(q, r)
      BY <2>2 DEF Of, Stage, OfFill, OfCheckpoint, Same, Heard
    <2> QED
      BY <1>3, <2>1, <2>2 DEF Replays
  <1>4. CASE q.pc = "heal" /\ r.pc = "healWait" /\ Same(q, r)
    BY <1>4 DEF Of, Stage, OfFill, OfCheckpoint, Same, Heard
  <1>5. CASE Reads(q, r)
    BY <1>5 DEF Reads, Of, Stage, OfFill, OfCheckpoint, Same, Heard
  <1> QED
    BY <1>2, <1>3, <1>4, <1>5 DEF Turn, TurnRests, TurnReplays, TurnHeals, TurnReads

LEMMA OfTimeout ==
    ASSUME SystemInv, NEW b \in Batches, Of(b, batch[b]), Timeout(b)
    PROVE  Of(b, batch'[b]) /\ (batch'[b].pc = "fetched" => batch'[b].got = {})
  <1> DEFINE q == batch[b]
             r == batch'[b]
             f == [q EXCEPT !.pc = "retryJudge", !.res = "fail"]
  <1>1. CallsInv /\ q \in CallType /\ q.pc \in Waits /\ Len(log) \in Nat /\ CallOK(q)
    BY World, Where DEF Timeout
  <1>2. \/ q.pc = "navWait" /\ Goes(b, "loop")
        \/ q.pc = "wait" /\ Set(b, Ends([q EXCEPT !.failed = @ \cup {q.i}], "error"))
        \/ q.pc = "retryWait" /\ Set(b, f)
        \/ q.pc = "logWait" /\ Set(b, Logged(q, {}))
        \/ q.pc = "healWait" /\ Set(b, Ends(q, "aborted"))
        \/ q.pc = "healWait" /\ Goes(b, "healError")
    BY DEF Timeout, FailsWith, Over
  <1>3. CASE q.pc = "navWait" /\ Goes(b, "loop")
    <2>1. r.pc = "loop"
      BY <1>1, <1>3, GoesIs DEF Pcs
    <2> QED
      BY <2>1 DEF Of, Stage, OfFill, OfCheckpoint
  <1>4. CASE \/ Set(b, Ends([q EXCEPT !.failed = @ \cup {q.i}], "error"))
             \/ Set(b, Ends(q, "aborted"))
    <2>1. r.pc = "over"
      <3>1. r = Ends([q EXCEPT !.failed = @ \cup {q.i}], "error") \/ r = Ends(q, "aborted")
        BY <1>1, <1>4, SetIs
      <3>2. Ends(q, "aborted").pc = "over"
        BY <1>1 DEF CallType, Ends
      <3>3. Ends([q EXCEPT !.failed = @ \cup {q.i}], "error").pc = "over"
        BY <1>1 DEF CallType, Ends
      <3> QED
        BY <3>1, <3>2, <3>3
    <2> QED
      BY <2>1 DEF Of, Stage, OfFill, OfCheckpoint
  <1>5. CASE q.pc = "retryWait" /\ Set(b, f)
    <2>1. f.pc = "retryJudge" /\ f.res = "fail" /\ f.of = q.of /\ f.i = q.i
      BY <1>1 DEF CallType
    <2>2. q.i \in Fills
      BY <1>1, <1>5, Where DEF OfFill
    <2>3. r = f
      BY <1>1, <1>5, SetIs
    <2>4. q.of = <<b, q.i>>
      BY <1>5 DEF Of, Stage, OfFill
    <2>5. "fail" \in Outcomes(q.i)
      BY <2>2 DEF Outcomes, Fills
    <2> HIDE DEF f
    <2> QED
      BY <2>1, <2>3, <2>4, <2>5 DEF Of, Stage
  <1>6. CASE q.pc = "logWait" /\ Set(b, Logged(q, {}))
    <2>1. /\ r.pc = q.then /\ r.of = q.of /\ r.res = q.res /\ r.i = q.i
          /\ r.got = IF q.then = "fetched" THEN {} ELSE q.got
      <3>1. {} \in SUBSET Entries(Len(log))
        OBVIOUS
      <3>2. r = Logged(q, {})
        BY <1>1, <1>6, SetIs
      <3> HIDE DEF q, r
      <3> QED
        BY <1>1, <1>6, <3>1, <3>2, LoggedSound
    <2>2. r.pc # "logWait"
      BY <1>1, <1>6, <2>1, Where DEF Thens
    <2> QED
      BY <1>6, <2>1, <2>2 DEF Of, Stage
  <1>7. CASE q.pc = "healWait" /\ Goes(b, "healError")
    <2>1. r.pc = "healError" /\ Same(q, r)
      BY <1>1, <1>7, GoesIs DEF Pcs
    <2> QED
      BY <1>7, <2>1 DEF Of, Stage, OfFill, OfCheckpoint, Same, Heard
  <1> QED
    BY <1>2, <1>3, <1>4, <1>5, <1>6, <1>7

LEMMA OfHeeds ==
    ASSUME SystemInv, RunsApart, HushInv, Exchange, Deliver, NEW b \in Batches, Of(b, batch[b]), Heeds(b, Head(fromAgent)), UNCHANGED hap
    PROVE  Of(b, batch'[b])
  <1>1. PICK e : e = Head(fromAgent)
    OBVIOUS
  <1> DEFINE q == batch[b]
             r == batch'[b]
  <1>2. Heeds(b, e) /\ e \in Events /\ CallsInv /\ q \in CallType /\ CallOK(q) /\ r = Answered(q, e) /\ Len(log) \in Nat
    BY <1>1, DeliverIs, World, Where DEF Heeds
  <1>3. CASE e.ev = "done"
    <2>1. WaitsDone(b) /\ e.of = <<b, Target(b)>> /\ (Target(b) # Menu => e.res \in Outcomes(Target(b)))
      BY <1>1, <1>2, <1>3, DoneKeeps
    <2>2. CASE q.pc = "navWait"
      <3>1. r.pc = "loop"
        BY <1>2, <2>2 DEF Answered, CallType
      <3> QED
        BY <3>1 DEF Of, Stage, OfFill, OfCheckpoint
    <2>3. CASE q.pc \in {"wait", "retryWait"}
      <3>1. q.i \in Steps /\ (q.pc = "retryWait" => q.i \in Fills)
        BY <1>2, <2>3, Where DEF OfStep, OfFill
      <3>2. e.of = <<b, q.i>> /\ e.res \in Outcomes(q.i)
        <4>1. q.i # Menu
          BY <3>1 DEF Steps, Menu
        <4> QED
          BY <2>1, <2>3, <4>1 DEF Target
      <3>3. r.of = e.of /\ r.res = e.res /\ r.i = q.i /\ r.pc = "logWait" /\ r.then \in {"scan", "judge", "retryJudge"}
        BY <1>2, <2>3 DEF Answered, AskLog, CallType
      <3> QED
        BY <3>2, <3>3 DEF Of, Stage
    <2> QED
      BY <2>1, <2>2, <2>3 DEF WaitsDone
  <1>4. CASE e.ev = "log"
    <2>1. q.pc = "logWait" /\ r = Logged(q, Entries(e.seen)) /\ q.then \in Thens
      BY <1>2, <1>4, Where DEF Heeds, Awaits, Answered
    <2>2. Entries(e.seen) \in SUBSET Entries(Len(log))
      <3>1. e.seen = Len(log)
        BY <1>1, <1>4, HeadFits DEF Fits
      <3> QED
        BY <3>1
    <2>3. r.pc = q.then /\ r.of = q.of /\ r.res = q.res /\ r.i = q.i
      <3> HIDE DEF q, r
      <3> QED
        BY <1>2, <2>1, <2>2, LoggedSound
    <2> QED
      BY <2>1, <2>3 DEF Of, Stage, Thens
  <1>5. CASE e.ev \notin {"done", "log"}
    <2>1. q.pc = "healWait"
      BY <1>2, <1>5 DEF Heeds, Awaits
    <2>2. r = IF flags.abort \/ e.ev = "stopped" THEN Ends(q, "aborted")
              ELSE IF e.ev = "healError" THEN [q EXCEPT !.pc = "healError"]
              ELSE AskLog(q, IF q.i \in Checkpoints THEN "fetched" ELSE "healed")
      BY <1>2, <2>1 DEF Answered
    <2>3. CASE r = Ends(q, "aborted")
      <3>1. r.pc = "over"
        BY <1>2, <2>3, EndsFields
      <3> QED
        BY <3>1 DEF Of, Stage, OfFill, OfCheckpoint
    <2>4. CASE r = [q EXCEPT !.pc = "healError"]
      <3>1. r.pc = "healError" /\ r.i = q.i /\ r.of = q.of /\ r.res = q.res
        BY <1>2, <2>4 DEF CallType
      <3> QED
        BY <2>1, <3>1 DEF Of, Stage
    <2>5. CASE r = AskLog(q, IF q.i \in Checkpoints THEN "fetched" ELSE "healed")
      <3>1. r.pc = "logWait" /\ r.i = q.i /\ r.of = q.of /\ r.res = q.res
            /\ r.then = IF q.i \in Checkpoints THEN "fetched" ELSE "healed"
        BY <1>2, <2>5 DEF CallType, AskLog
      <3> QED
        BY <2>1, <3>1 DEF Of, Stage
    <2> QED
      BY <2>2, <2>3, <2>4, <2>5
  <1> QED
    BY <1>3, <1>4, <1>5

\* What a call without an answer of its own keeps.
LEMMA OfSame ==
    ASSUME SameCalls, NEW b \in Batches, Of(b, batch[b])
    PROVE  Of(b, batch'[b])
  BY DEF SameCalls, Of, Stage, OfFill, OfCheckpoint, Heard

LEMMA AgentLeaves ==
    ASSUME SystemInv, Cancelled \/ MainLoop \/ Dies
    PROVE  /\ UNCHANGED <<batch, table, appended, inserted, consumed>> /\ SameCalls
           /\ \A m \in 1..Len(log) : log'[m] = log[m]
  <1>1. UNCHANGED <<batch, table, appended, inserted, consumed>>
    BY DEF Cancelled, MainLoop, DoReplay, GetLog, StartHeal, HealStep, HealActs, HealEnds, Dies, steps
  <1>2. UNCHANGED log \/ \E x : log' = Append(log, x)
    BY DEF Cancelled, MainLoop, DoReplay, GetLog, StartHeal, HealStep, HealActs, HealEnds, Dies, executor
  <1>3. log \in Seq(LogEntries)
    BY World
  <1>4. \A m \in 1..Len(log) : log'[m] = log[m]
    BY <1>2, <1>3
  <1> QED
    BY <1>1, <1>4 DEF SameCalls, Heard

LEMMA KnownStep ==
    ASSUME SystemInv, RunsApart, HushInv, Calm, Lost \/ Exchange, (Lost \/ Exchange)', Known, [Next /\ UNCHANGED hap]_<<vars, hap>>
    PROVE  Known'
  <1>00. UNCHANGED hap
    OBVIOUS
  <1>0. CallsInv
    BY World
  <1>1. \A c \in Batches : Of(c, batch[c])
    BY DEF Known
  <1>2. ASSUME UNCHANGED hap, NEW b \in Batches, BatchStep(b) \/ Timeout(b)
        PROVE  Known'
    <2>1. \A c \in Batches \ {b} : batch'[c] = batch[c]
      BY <1>2, BatchLeaves
    <2>2. UNCHANGED appended
      BY <1>2, BatchLeaves
    <2>3. Of(b, batch'[b]) /\ (batch'[b].pc = "fetched" => batch'[b].got = {})
      <3>1. CASE BatchStep(b)
        BY <1>0, <1>1, <3>1, BatchTurns, OfTurn
      <3>2. CASE Timeout(b)
        BY <1>1, <3>2, OfTimeout
      <3> QED
        BY <1>2, <3>1, <3>2
    <2>4. \A c \in Batches : (Of(c, batch[c]))'
      <3> SUFFICES ASSUME NEW c \in Batches PROVE (Of(c, batch[c]))'
        OBVIOUS
      <3>1. Of(c, batch'[c])
        BY <1>1, <2>1, <2>3
      <3> QED
        BY <3>1 DEF Of
    <2>5. \A c \in Batches : batch'[c].pc = "fetched" => appended' \cap (batch'[c].got \ batch'[c].before) = {}
      BY <2>1, <2>2, <2>3 DEF Known
    <2> QED
      BY <2>4, <2>5 DEF Known
  <1>3. CASE (\E b \in Batches : Accept(b)) \/ Stop \/ RecordStop \/ Cancelled \/ MainLoop \/ Dies \/ UNCHANGED vars
    <2>1. SameCalls
      BY <1>3, CallsAreSame, AgentLeaves
    <2>2. UNCHANGED appended
      <3>1. CASE Cancelled \/ MainLoop \/ Dies
        BY <3>1, AgentLeaves
      <3>2. CASE (\E b \in Batches : Accept(b)) \/ Stop \/ RecordStop \/ UNCHANGED vars
        BY <3>2 DEF Accept, Stop, RecordStop, vars, steps
      <3> QED
        BY <1>3, <3>1, <3>2
    <2>3. \A c \in Batches : (Of(c, batch[c]))'
      <3> SUFFICES ASSUME NEW c \in Batches PROVE (Of(c, batch[c]))'
        OBVIOUS
      <3>1. Of(c, batch'[c])
        BY <1>1, <2>1, OfSame
      <3> QED
        BY <3>1 DEF Of
    <2>4. \A c \in Batches : batch'[c].pc = "fetched" => appended' \cap (batch'[c].got \ batch'[c].before) = {}
      BY <2>1, <2>2 DEF Known, SameCalls, Heard
    <2> QED
      BY <2>3, <2>4 DEF Known
  <1>4. CASE Deliver
    <2>1. Exchange
      BY <1>4 DEF Lost, Deliver
    <2>2. Passed(Head(fromAgent)) \/ \E b \in Batches : Heeds(b, Head(fromAgent))
      BY <1>4, DeliverIs
    <2>3. Exchange'
      <3>1. CASE ~Lost
        BY <2>1, <3>1, ExchangeStep
      <3>2. CASE Lost
        BY <1>4, <3>2 DEF Lost, Deliver
      <3> QED
        BY <3>1, <3>2
    <2>4. ASSUME NEW c \in Batches PROVE Of(c, batch'[c])
      <3>1. CASE Passed(Head(fromAgent))
        BY <1>1, <3>1 DEF Passed
      <3>2. ASSUME NEW b \in Batches, Heeds(b, Head(fromAgent)) PROVE Of(c, batch'[c])
        <4>1. CASE c = b
          BY <1>00, <1>1, <1>4, <2>1, <3>2, <4>1, OfHeeds
        <4>2. CASE c # b
          BY <1>1, <3>2, <4>2 DEF Heeds
        <4> QED
          BY <4>1, <4>2
      <3> QED
        BY <2>2, <3>1, <3>2
    <2>5. \A c \in Batches : (Of(c, batch[c]))'
      <3> SUFFICES ASSUME NEW c \in Batches PROVE (Of(c, batch[c]))'
        OBVIOUS
      <3>1. Of(c, batch'[c])
        BY <2>4
      <3> QED
        BY <3>1 DEF Of
    <2>6. ASSUME NEW c \in Batches, batch'[c].pc = "fetched"
          PROVE  appended' \cap (batch'[c].got \ batch'[c].before) = {}
      <3>1. CallsInv'
        BY SystemStep DEF SystemInv
      <3>2. batch'[c].i \in Checkpoints
        BY <2>6, <3>1 DEF CallsInv, CallOK, Sound, Staged, Stage, OfCheckpoint
      <3>3. (Quiet(batch[c]))'
        BY <2>3 DEF Exchange
      <3>4. appended' \subseteq batch'[c].before
        BY <2>6, <3>2, <3>3 DEF Quiet, Stage
      <3> QED
        BY <3>4
    <2> QED
      BY <2>5, <2>6 DEF Known
  <1> QED
    BY <1>2, <1>3, <1>4 DEF Next

-----------------------------------------------------------------------------
LEMMA EchoStep ==
    ASSUME SystemInv, RunsApart, HushInv, Calm, Lost \/ Exchange, Known, Echo, [Next /\ UNCHANGED hap]_<<vars, hap>>
    PROVE  Echo'
  <1>00. UNCHANGED hap
    OBVIOUS
  <1>0. appended \subseteq 1..Len(log) /\ \A m \in 1..Len(log) : log[m].by \in Batches
    BY World
  <1>1. ASSUME \A m \in 1..Len(log) : log'[m] = log[m], UNCHANGED appended, "db" \in hap \/ appended \cap inserted' = {},
               \A c \in Batches : batch[c].end = "aborted" => batch'[c].end = "aborted"
        PROVE  Echo'
    <2>1. ASSUME NEW n \in appended PROVE log'[n].how = "heal" /\ batch'[log'[n].by].end = "aborted"
      BY <1>0, <1>1, <2>1 DEF Echo
    <2> QED
      BY <1>00, <1>1, <2>1 DEF Echo
  <1>2. ASSUME UNCHANGED hap, NEW b \in Batches, BatchStep(b) \/ Timeout(b)
        PROVE  Echo'
    <2>1. /\ \A c \in Batches \ {b} : batch'[c] = batch[c]
          /\ UNCHANGED <<log, appended>> /\ batch[b].end = None /\ (Timeout(b) => UNCHANGED inserted)
      BY <1>2, BatchLeaves
    <2>2. BatchStep(b) => "db" \in hap \/ UNCHANGED inserted \/ Inserts(batch[b])
      <3>1. BatchStep(b) => Turn(b, batch'[b])
        BY World, BatchTurns
      <3> QED
        BY <3>1 DEF Turn, TurnRests, TurnReplays, TurnHeals, TurnReads
    <2>3. "db" \in hap \/ appended \cap inserted' = {}
      <3>1. CASE UNCHANGED inserted
        BY <3>1 DEF Echo
      <3>2. CASE Inserts(batch[b])
        BY <3>2 DEF Echo, Inserts, Known
      <3> QED
        BY <1>2, <2>1, <2>2, <3>1, <3>2
    <2>4. \A c \in Batches : batch[c].end = "aborted" => batch'[c].end = "aborted"
      BY <2>1 DEF None
    <2> QED
      BY <1>1, <2>1, <2>3, <2>4
  <1>3. CASE (\E b \in Batches : Accept(b)) \/ Stop \/ RecordStop \/ Cancelled \/ MainLoop \/ Dies \/ UNCHANGED vars
    <2>1. SameCalls
      BY <1>3, CallsAreSame, AgentLeaves
    <2>2. UNCHANGED <<appended, inserted>> /\ \A m \in 1..Len(log) : log'[m] = log[m]
      <3>1. CASE Cancelled \/ MainLoop \/ Dies
        BY <3>1, AgentLeaves
      <3>2. CASE (\E b \in Batches : Accept(b)) \/ Stop \/ RecordStop \/ UNCHANGED vars
        BY <3>2 DEF Accept, Stop, RecordStop, vars, steps, executor
      <3> QED
        BY <1>3, <3>1, <3>2
    <2>3. "db" \in hap \/ appended \cap inserted' = {}
      BY <2>2 DEF Echo
    <2> QED
      BY <1>1, <2>1, <2>2, <2>3 DEF SameCalls
  <1>4. CASE Deliver
    <2>1. PICK e : e = Head(fromAgent)
      OBVIOUS
    <2>2. Exchange
      BY <1>4 DEF Lost, Deliver
    <2>3. /\ UNCHANGED <<inserted, log>> /\ e = fromAgent[1] /\ 1 \in 1..Len(fromAgent)
          /\ Passed(e) \/ \E b \in Batches : Heeds(b, e)
      BY <1>4, <2>1, DeliverIs
    <2>4. ASSUME NEW b \in Batches, Heeds(b, e) PROVE Echo'
      <3>1. batch[b].end = None
        BY <2>4, Others DEF Heeds
      <3>2. \A c \in Batches : batch[c].end = "aborted" => batch'[c].end = "aborted"
        BY <2>4, <3>1 DEF Heeds, None
      <3>3. UNCHANGED appended /\ ("db" \in hap \/ appended \cap inserted' = {})
        BY <2>3, <2>4 DEF Heeds, Echo
      <3> QED
        BY <1>1, <2>3, <3>2, <3>3
    <2>5. CASE UNCHANGED <<batch, appended>>
      <3>1. "db" \in hap \/ appended \cap inserted' = {}
        BY <2>3 DEF Echo
      <3> QED
        BY <1>1, <2>3, <2>5, <3>1
    <2>6. ASSUME UNCHANGED batch, \A b \in Batches : ~Running(b), e.ev \in {"sync", "log"},
                 appended' = appended \cup (Entries(e.seen) \ consumed)
          PROVE  Echo'
      <3>1. \A b \in Batches : ~WaitsDone(b) /\ batch[b].pc # "logWait" /\ batch[b].pc # "healWait"
        BY <2>6 DEF Running, WaitsDone
      <3>2. \A j \in 1..Len(fromAgent) : fromAgent[j].ev \notin {"done", "log"}
        BY <2>2, <3>1 DEF Exchange, Answers, Fits
      <3>3. e.ev = "sync"
        BY <2>3, <2>6, <3>2
      <3>4. Safe(e.seen)
        BY <2>2, <2>3, <3>2, <3>3 DEF Exchange, Revealed
      <3>5. \A n \in Entries(e.seen) \ consumed : log[n].how = "heal" /\ Spared(log[n].by) /\ n \in 1..Len(log)
        <4>1. e.seen <= Len(log) /\ e.seen \in Nat /\ Len(log) \in Nat
          <5>1. e \in Events
            BY <1>4, <2>1, DeliverIs
          <5> QED
            BY <2>3, <5>1, World DEF Events
        <4>2. Entries(e.seen) \subseteq 1..Len(log)
          BY <4>1 DEF Entries
        <4> QED
          BY <3>4, <4>2 DEF Safe, Entries
      <3>6. \A n \in Entries(e.seen) \ consumed : log[n].how = "heal" /\ batch[log[n].by].end = "aborted"
        BY <1>0, <3>1, <3>5 DEF Spared
      <3>7. "db" \in hap \/ inserted \subseteq consumed
        BY <2>2, <3>1 DEF Exchange, Taken
      <3> QED
        BY <1>00, <2>3, <2>6, <3>6, <3>7 DEF Echo
    <2> QED
      BY <2>3, <2>4, <2>5, <2>6 DEF Passed
  <1> QED
    BY <1>2, <1>3, <1>4 DEF Next

\* What is marked is what the agent has said.
LEMMA MarksTold ==
    ASSUME RestInv, Told, NEW b \in Batches, NEW s \in Steps, NEW is, Marks(b, s, is), Proven(b, s, is)
    PROVE  Told'
  <1>1. table \in [Steps -> [is : {"untouched", "confirmed", "rejected", "gone"}, by : Batches \cup {NoBatch}, true : BOOLEAN]]
    BY DEF RestInv
  <1>2. CASE UNCHANGED table
    BY <1>2 DEF Told
  <1>3. PICK new : new = [is |-> is, by |-> b, true |-> Proven(b, s, is)]
    OBVIOUS
  <1>4. new.true
    BY <1>3
  <1>5. CASE table' = [table EXCEPT ![s] = IF @.is = "gone" THEN @ ELSE new]
    BY <1>1, <1>4, <1>5 DEF Told
  <1> QED
    BY <1>2, <1>3, <1>5 DEF Marks

LEMMA ToldBatch ==
    ASSUME SystemInv, Known, Told, NEW b \in Batches, BatchStep(b) \/ Timeout(b)
    PROVE  Told'
  <1> DEFINE q == batch[b]
  <1>1. CallsInv /\ RestInv /\ Of(b, q) /\ Checkpoints \subseteq Steps
    BY World, Numbers DEF SystemInv, Known
  <1>2. /\ q.pc \in OfFill \cup OfCheckpoint \cup OfStep => q.i \in Steps
        /\ q.pc \in OfFill => q.i \in Fills
        /\ q.pc \in OfCheckpoint => q.i \in Checkpoints
    BY <1>1, Where
  <1>3. Proven(b, q.i, "rejected")
    BY DEF Proven
  <1>4. ASSUME FailsWith(b, q.i), q.i \in Steps PROVE Told'
    BY <1>1, <1>3, <1>4, MarksTold DEF FailsWith
  <1>5. CASE UNCHANGED table
    BY <1>5 DEF Told
  <1>6. CASE Navigate(b) \/ Ended(b) \/ Skip(b) \/ Replay(b) \/ Retry(b) \/ Heal(b) \/ Healed(b)
    BY <1>5, <1>6 DEF Navigate, Ended, Skip, Replay, Retry, Heal, Healed, steps
  <1>12. CASE Insert(b)
    <2>1. UNCHANGED table \/ FailsWith(b, q.i)
      BY <1>12 DEF Insert
    <2>2. q.i \in Steps
      BY <1>2, <1>12 DEF Insert, OfCheckpoint
    <2> QED
      BY <1>1, <1>4, <1>5, <2>1, <2>2
  <1>7. CASE HealFails(b)
    <2>1. q.i \in Checkpoints => FailsWith(b, q.i)
      BY <1>7 DEF HealFails
    <2>2. q.i \notin Checkpoints => UNCHANGED table
      BY <1>7 DEF HealFails
    <2> QED
      BY <1>1, <1>4, <1>5, <2>1, <2>2
  <1>8. CASE Timeout(b)
    <2>1. UNCHANGED table \/ (q.pc = "wait" /\ FailsWith(b, q.i))
      BY <1>8 DEF Timeout
    <2> QED
      BY <1>2, <1>4, <1>5, <2>1 DEF OfStep
  <1>9. CASE Judge(b) \/ RetryJudge(b)
    <2>1. q.pc \in {"judge", "retryJudge"} /\ q.i \in Fills /\ q.i \in Steps
      BY <1>2, <1>9 DEF Judge, RetryJudge, OfFill
    <2>2. q.of = <<b, q.i>> /\ q.res \in {"ok", "fail", "empty"}
      BY <1>1, <2>1 DEF Of, Stage, OfFill, Outcomes, Fills
    <2>3. IsOk(q.res) => Proven(b, q.i, "confirmed")
      BY <2>2 DEF IsOk, Proven
    <2>4. UNCHANGED table \/ Marks(b, q.i, "rejected") \/ (IsOk(q.res) /\ Marks(b, q.i, "confirmed"))
      BY <1>9 DEF Judge, RetryJudge, FailsWith
    <2> QED
      BY <1>1, <1>3, <1>5, <2>1, <2>3, <2>4, MarksTold
  <1>10. CASE Scan(b)
    <2>1. q.pc = "scan" /\ q.i \in Steps
      BY <1>2, <1>10 DEF Scan, OfCheckpoint
    <2>2. q.of = <<b, q.i>>
      BY <1>1, <2>1 DEF Of, Stage, OfCheckpoint
    <2>3. q.res = "same" => Proven(b, q.i, "confirmed")
      BY <2>2 DEF Proven
    <2>4. \/ UNCHANGED table \/ Marks(b, q.i, "rejected") \/ (q.res = "same" /\ Marks(b, q.i, "confirmed"))
          \/ \E gone \in SUBSET Fills : Cleared(b, gone)
      BY <1>10, ScanIs
    <2>5. ASSUME NEW gone \in SUBSET Fills, Cleared(b, gone) PROVE Told'
      BY <2>5 DEF Told, Cleared
    <2> QED
      BY <1>1, <1>3, <1>5, <2>1, <2>3, <2>4, <2>5, MarksTold
  <1>11. CASE Filled(b)
    <2>1. q.pc = "filled" /\ q.i \in Steps /\ q.i \in Checkpoints
      BY <1>2, <1>11 DEF Filled, OfCheckpoint
    <2>2. q.of = <<b, q.i>> /\ q.res \in {"missing", "added", "both"}
      BY <1>1, <2>1 DEF Of, Stage, OfCheckpoint
    <2>3. Proven(b, q.i, "confirmed")
      BY <2>2 DEF Proven
    <2>4. Marks(b, q.i, "confirmed") \/ FailsWith(b, q.i)
      BY <1>11 DEF Filled
    <2> QED
      BY <1>1, <1>4, <2>1, <2>3, <2>4, MarksTold
  <1> QED
    BY <1>6, <1>7, <1>8, <1>9, <1>10, <1>11, <1>12 DEF BatchStep

LEMMA ToldStep ==
    ASSUME SystemInv, Known, Told, [Next /\ UNCHANGED hap]_<<vars, hap>>
    PROVE  Told'
  <1>1. ASSUME NEW b \in Batches, BatchStep(b) \/ Timeout(b) PROVE Told'
    BY <1>1, ToldBatch
  <1>2. CASE (\E b \in Batches : Accept(b)) \/ Stop \/ RecordStop \/ Deliver \/ Cancelled \/ MainLoop \/ Dies \/ UNCHANGED vars
    <2>1. UNCHANGED table
      BY <1>2, AgentLeaves DEF Accept, Stop, RecordStop, Deliver, vars, steps
    <2> QED
      BY <2>1 DEF Told
  <1> QED
    BY <1>1, <1>2 DEF Next

-----------------------------------------------------------------------------
LEMMA CalmInit == Init => CalmInv
  <1> SUFFICES ASSUME Init PROVE Exchange /\ Known /\ Echo /\ Told
    BY DEF CalmInv
  <1>1. /\ toAgent = <<>> /\ fromAgent = <<>> /\ appended = {} /\ inserted = {} /\ agent.work = "idle"
        /\ \A b \in Batches : batch[b].pc = "idle"
        /\ \A s \in Steps : table[s].true
    BY DEF Init, Fresh
  <1>2. Asked /\ Working /\ Answers /\ Revealed /\ Taken
    BY <1>1 DEF Asked, Working, Answers, Revealed, Taken
  <1>3. \A b \in Batches : Quiet(batch[b]) /\ Of(b, batch[b])
    BY <1>1 DEF Quiet, Silent, Considers, Stage, Of, OfFill, OfCheckpoint
  <1> QED
    BY <1>1, <1>2, <1>3 DEF Exchange, Known, Echo, Told

LEMMA CalmStep == SystemInv /\ RunInv /\ HushInv /\ CalmInv /\ [Next /\ UNCHANGED hap]_<<vars, hap>> => CalmInv'
  <1> SUFFICES ASSUME SystemInv, RunInv, HushInv, CalmInv, [Next /\ UNCHANGED hap]_<<vars, hap>>, Calm'
               PROVE  (Lost \/ Exchange)' /\ Known' /\ Echo' /\ Told'
    BY DEF CalmInv
  <1>1. Calm
    BY DEF Calm, Apart, Without
  <1>2. RunsApart /\ (Lost \/ Exchange) /\ Known /\ Echo /\ Told
    BY <1>1 DEF RunInv, RunsInv, CalmInv, Calm
  <1>3. (Lost \/ Exchange)'
    <2>1. CASE Lost
      BY <2>1, LostStays
    <2>2. CASE ~Lost
      BY <1>1, <1>2, <2>2, ExchangeStep
    <2> QED
      BY <2>1, <2>2
  <1>4. Known'
    BY <1>1, <1>2, <1>3, KnownStep
  <1>5. Echo'
    BY <1>1, <1>2, EchoStep
  <1>6. Told'
    BY <1>2, ToldStep
  <1> QED
    BY <1>3, <1>4, <1>5, <1>6

LEMMA ReplayInvariant == Spec => [](SystemInv /\ RunInv /\ HushInv /\ CalmInv)
  <1>1. Init => SystemInv /\ RunInv /\ HushInv /\ CalmInv
    BY SystemInit, InitRuns, HushInit, CalmInit
  <1>2. SystemInv /\ RunInv /\ HushInv /\ CalmInv /\ [Next /\ UNCHANGED hap]_<<vars, hap>>
            => (SystemInv /\ RunInv /\ HushInv /\ CalmInv)'
    BY SystemStep, RunsStep, HushStep, CalmStep
  <1> QED
    BY <1>1, <1>2, PTL DEF Spec

(***************************************************************************)
(* markStepReplayOk and the report of runReplayBatch: where batches do not *)
(* overlap and no answer comes after its timer, a step the table confirms  *)
(* (replay_done names no request) is one the agent has done.  And wherever *)
(* batches do not overlap and no write of the table fails, late answers or *)
(* not, a batch that is over reports as failed exactly the steps it has    *)
(* left unconfirmed, and a finished one has counted every step it did not  *)
(* remove once.                                                            *)
(***************************************************************************)
THEOREM ReplayTableTrue == Spec => []TableIsTrue
  <1>1. SystemInv /\ CalmInv => TableIsTrue
    <2> SUFFICES ASSUME SystemInv, CalmInv PROVE TableIsTrue
      OBVIOUS
    <2>1. ConfirmedWasDone
      BY DEF CalmInv, Calm, Told, ConfirmedWasDone
    <2> QED
      BY <2>1, SystemTypes, SystemReports DEF TableIsTrue
  <1> QED
    BY <1>1, ReplayInvariant, PTL

(***************************************************************************)
(* The action_log_sync handler, which isReplay and suppressStepPersist     *)
(* keep from appending, and the insertion after a form heal: nothing that  *)
(* a replay or a heal does becomes a step by a sync but the work of a heal *)
(* a stop has interrupted, and unless statements fail a sync appends       *)
(* nothing that a form heal has inserted, for any number of batches, steps *)
(* and stops.                                                              *)
(***************************************************************************)
THEOREM ReplayNoEcho == Spec => []NoEcho
  <1>1. CalmInv => NoEcho
    BY DEF CalmInv, Calm, Echo, NoEcho, Without
  <1> QED
    BY <1>1, ReplayInvariant, PTL
=============================================================================
