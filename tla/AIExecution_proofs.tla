------------------------- MODULE AIExecution_proofs -------------------------
(***************************************************************************)
(* Theorems of AIExecution, for any finite set of requests, any workers,   *)
(* limits and budget and, but for the two theorems about money, any        *)
(* prices.  An attempt decides by its own copy of row 1: it is safe        *)
(* because the attempt that executed had taken the job over from every     *)
(* other one whose copy says "queued".                                     *)
(***************************************************************************)
EXTENDS AIExecution, FiniteSetTheorems, SequenceTheorems, WellFoundedInduction, TLAPS

\* TypeOK, but for the month's spend an attempt has read, the questions and the
\* bills: no step of the executions depends on them (see Held, below).
Shaped(handler) ==
    handler \in [phase : Phase, request : Requests, own : Nat, seen : Status,
                spent : {handler.spent}, try : Nat, repairs : {0, 1}, last : Nat,
                retrying : BOOLEAN, usage : Seq(Nat), pending : SUBSET Nat, winner : Nat]

Shape ==
    /\ job \in [Requests -> Job]
    /\ DOMAIN rows = Requests /\ \A r \in Requests : rows[r] \in [Attempts(r) -> Row]
    /\ DOMAIN handlers = Handlers /\ \A h \in Handlers : Shaped(handlers[h])
    /\ executions \in [Requests -> Nat]

\* A handler that has begun the execution of its request, until it has settled
\* the job by what came of it.
Executes(h) ==
    \/ handlers[h].phase \in {"calling", "repeating", "settling", "settled"}
    \/ handlers[h].phase = "closing" /\ handlers[h].winner # 0

\* The number of every attempt is its own, and the newest owns the job.
OwnersOK ==
    /\ \A h \in Handlers : Active(h) => /\ handlers[h].own <= job[Of(h)].owner
                                       /\ job[Of(h)].status # "absent"
    /\ \A h, k \in Handlers : /\ Active(h) /\ Active(k) /\ Of(h) = Of(k)
                              /\ handlers[h].own = handlers[k].own
                              => h = k

BeforeOK(h) ==
    LET r == Of(h) IN
    /\ handlers[h].phase \in {"claimed", "preparing", "reserving", "refused", "calling", "repeating"} =>
         handlers[h].winner = 0
    /\ handlers[h].phase \in {"claimed", "preparing", "reserving"} => handlers[h].usage = << >>
    /\ handlers[h].phase = "reserving" =>
         Owns(h) /\ handlers[h].seen = "queued" /\ executions[r] = 0
    /\ handlers[h].phase = "preparing" /\ handlers[h].seen = "queued" /\ executions[r] # 0 =>
         handlers[h].own < job[r].owner

NoOutput(r) == \A n \in Attempts(r) : ~rows[r][n].output

\* A try or a repair is spent on every dispatch, and every dispatch has a row.
DispatchingOK(h) ==
    LET r == Of(h)
        spent == handlers[h].try + (Repairs[r] - handlers[h].repairs)
    IN  handlers[h].phase \in {"calling", "repeating"} =>
          /\ handlers[h].try \in 1..MaxTries[r] /\ handlers[h].repairs <= Repairs[r]
          /\ handlers[h].last \in Attempts(r)
          /\ handlers[h].phase = "calling" =>
               handlers[h].last = spent /\ Len(handlers[h].usage) = handlers[h].last - 1
          /\ handlers[h].phase = "repeating" =>
               handlers[h].last + 1 = spent /\ Len(handlers[h].usage) = handlers[h].last
          /\ \A n \in 2..handlers[h].last : rows[r][n].status = "running"
          /\ NoOutput(r)

\* The rows from m on are left, and the first one.
SettlingOK(h) ==
    LET r == Of(h)
        w == handlers[h].winner
        pending == handlers[h].pending
        L == Len(handlers[h].usage)
    IN  handlers[h].phase = "settling" =>
          /\ L \in Attempts(r) /\ w \in 0..L
          /\ \E m \in 2..(L + 1) : pending = {1} \union (m..L)
          /\ \A n \in pending \ {1} : rows[r][n].status = "running"
          /\ \A n \in Attempts(r) : rows[r][n].output => n = w /\ n \notin pending
          /\ w # 0 /\ w \notin pending => rows[r][w].output

SettledOK(h) ==
    LET r == Of(h)
        w == handlers[h].winner
    IN  handlers[h].phase \in {"settled", "closing"} /\ w # 0 =>
          w \in Attempts(r) /\ rows[r][w].output

HandlerOK(h) ==
    /\ BeforeOK(h) /\ DispatchingOK(h) /\ SettlingOK(h) /\ SettledOK(h)
    /\ Executes(h) => executions[Of(h)] # 0

OneExecutor ==
    \A h, k \in Handlers : Executes(h) /\ Executes(k) /\ Of(h) = Of(k) => h = k

RequestOK(r) ==
    /\ executions[r] <= 1
    /\ executions[r] = 0 => NoOutput(r)
    /\ executions[r] # 0 => rows[r][1].status \notin {"absent", "queued"} /\ job[r].status # "absent"
    /\ \A n \in Attempts(r) : rows[r][n].status = "succeeded" => rows[r][n].output
    /\ \A m, n \in Attempts(r) : rows[r][m].output /\ rows[r][n].output => m = n
    /\ job[r].status = "succeeded" => \E n \in Attempts(r) : rows[r][n].output

Rest ==
    /\ OwnersOK /\ OneExecutor
    /\ \A h \in Handlers : HandlerOK(h)
    /\ \A r \in Requests : RequestOK(r)

IInv == Shape /\ Rest

-----------------------------------------------------------------------------
(* Records and limits.                                                     *)

LEMMA Limits ==
    ASSUME NEW r \in Requests
    PROVE  /\ MaxTries[r] \in Nat /\ MaxTries[r] >= 1 /\ Repairs[r] \in {0, 1}
           /\ Reservation(r) \in Nat /\ Reservation(r) >= 1
           /\ Reservation(r) = MaxTries[r] + Repairs[r]
           /\ Attempts(r) = 1..Reservation(r) /\ 1 \in Attempts(r)
BY CountsAssumption DEF Reservation, Attempts

LEMMA IdleShape ==
    ASSUME NEW r \in Requests
    PROVE  /\ AnyRequest \in Requests /\ Idle(r).phase = "idle" /\ Idle(r).request = r
           /\ Idle(r).winner = 0
           /\ Shaped(Idle(r))
BY DEF AnyRequest, Idle, Phase, Status, Shaped

LEMMA HandlerTypes ==
    ASSUME Shape, NEW h \in Handlers
    PROVE  Shaped(handlers[h]) /\ Of(h) \in Requests
BY DEF Shape, Of, Shaped

LEMMA HandlerMoves ==
    ASSUME Shape, NEW h \in Handlers, NEW handler, handlers' = [handlers EXCEPT ![h] = handler],
           Shaped(handler)
    PROVE  /\ handlers'[h] = handler /\ \A k \in Handlers \ {h} : handlers'[k] = handlers[k]
           /\ DOMAIN handlers' = Handlers
           /\ \A k \in Handlers : Shaped(handlers'[k])
BY SMTT(30) DEF Shape, Shaped

LEMMA HandlerEnds ==
    ASSUME Shape, NEW h \in Handlers, Ends(h)
    PROVE  /\ handlers'[h].phase = "idle" /\ \A k \in Handlers \ {h} : handlers'[k] = handlers[k]
           /\ DOMAIN handlers' = Handlers
           /\ \A k \in Handlers : Shaped(handlers'[k])
<1>1. /\ AnyRequest \in Requests /\ Idle(AnyRequest).phase = "idle"
      /\ Idle(AnyRequest).spent = 0
  BY RequestsAssumption, IdleShape DEF AnyRequest, Idle
<1> QED
  BY <1>1, HandlerMoves, IdleShape DEF Ends

LEMMA RowUpdate ==
    ASSUME Shape, NEW r \in Requests, NEW n \in Attempts(r), NEW row \in Row,
           rows' = [rows EXCEPT ![r][n] = row]
    PROVE  /\ DOMAIN rows' = Requests /\ \A s \in Requests : rows'[s] \in [Attempts(s) -> Row]
           /\ rows'[r][n] = row /\ \A m \in Attempts(r) \ {n} : rows'[r][m] = rows[r][m]
           /\ \A s \in Requests \ {r} : rows'[s] = rows[s]
BY DEF Shape

-----------------------------------------------------------------------------
(* One handler moves, and the job, the rows and the executions stay.       *)

LEMMA Untouched ==
    ASSUME NEW k \in Handlers, HandlerOK(k), handlers'[k] = handlers[k],
           job'[Of(k)] = job[Of(k)], rows'[Of(k)] = rows[Of(k)],
           executions'[Of(k)] = executions[Of(k)]
    PROVE  HandlerOK(k)'
<1>1. Of(k)' = Of(k)
  BY DEF Of
<1>2. BeforeOK(k)'
  BY <1>1 DEF HandlerOK, BeforeOK, Owns
<1>3. DispatchingOK(k)'
  BY <1>1 DEF HandlerOK, DispatchingOK, NoOutput
<1>4. SettlingOK(k)' /\ SettledOK(k)'
  BY <1>1 DEF HandlerOK, SettlingOK, SettledOK
<1>5. Executes(k)' => executions'[Of(k)'] # 0
  BY <1>1 DEF HandlerOK, Executes
<1> QED
  BY <1>2, <1>3, <1>4, <1>5 DEF HandlerOK

LEMMA HandlerMoved ==
    ASSUME Shape, Rest, NEW h \in Handlers,
           UNCHANGED <<job, rows, executions>>,
           \A k \in Handlers \ {h} : handlers'[k] = handlers[k],
           handlers'[h].phase # "idle" =>
              /\ Active(h) /\ handlers'[h].own = handlers[h].own
              /\ handlers'[h].request = handlers[h].request,
           HandlerOK(h)',
           Executes(h)' => Executes(h)
    PROVE  Rest'
<1>1. OwnersOK'
  BY HandlerTypes DEF Rest, OwnersOK, Active, Of
<1>2. OneExecutor'
  BY DEF Rest, OneExecutor, Executes, Of
<1>3. \A k \in Handlers : HandlerOK(k)'
  BY Untouched DEF Rest
<1>4. \A r \in Requests : RequestOK(r)'
  BY DEF Rest, RequestOK, NoOutput
<1> QED
  BY <1>1, <1>2, <1>3, <1>4 DEF Rest

LEMMA EndsKeeps ==
    ASSUME Shape, Rest, NEW h \in Handlers, Ends(h), UNCHANGED <<job, rows, executions>>
    PROVE  Shape' /\ Rest'
<1>1. HandlerOK(h)' /\ ~Executes(h)'
  BY HandlerEnds DEF HandlerOK, BeforeOK, DispatchingOK, SettlingOK, SettledOK, Executes
<1> QED
  BY <1>1, HandlerEnds, HandlerMoved DEF Shape

\* What moves a handler that has not begun to execute, or has done with it.
LEMMA PhaseKeeps ==
    ASSUME Shape, Rest, NEW h \in Handlers, Active(h), UNCHANGED <<job, rows, executions>>,
           NEW handler,
           Shaped(handler),
           handlers' = [handlers EXCEPT ![h] = handler],
           handler.request = handlers[h].request, handler.own = handlers[h].own,
           HandlerOK(h)', Executes(h)' => Executes(h)
    PROVE  Shape' /\ Rest'
BY HandlerMoves, HandlerMoved DEF Shape

LEMMA LoadKeeps ==
    ASSUME Shape, Rest, NEW h \in Handlers, LoadRequest(h)
    PROVE  Shape' /\ Rest'
<1> DEFINE r == Of(h)
           phase == IF r \in Asks /\ question[r] # "held" THEN "refused" ELSE "preparing"
           handler == [handlers[h] EXCEPT !.seen = rows[r][1].status, !.phase = phase]
<1>1. /\ handlers[h].phase = "claimed" /\ handlers' = [handlers EXCEPT ![h] = handler]
      /\ UNCHANGED <<job, rows, executions>>
  BY DEF LoadRequest
<1>2. Shaped(handlers[h]) /\ r \in Requests
  BY HandlerTypes
<1>3. rows[r][1].status \in Status
  BY <1>2, Limits DEF Shape, Row
<1>4. /\ Shaped(handler)
      /\ handler.request = r /\ handler.own = handlers[h].own
      /\ handler.winner = handlers[h].winner /\ handler.seen = rows[r][1].status
      /\ handler.usage = handlers[h].usage
      /\ handler.phase \in {"refused", "preparing"}
  BY <1>2, <1>3 DEF Shaped, Phase, Of
<1>5. handlers'[h] = handler
  BY <1>1, <1>4, HandlerMoves
<1>6. executions[r] # 0 => rows[r][1].status # "queued"
  BY <1>2 DEF Rest, RequestOK
<1>7. handlers[h].winner = 0 /\ handlers[h].usage = << >>
  BY <1>1 DEF Rest, HandlerOK, BeforeOK
<1> HIDE DEF handler
<1>8. HandlerOK(h)' /\ ~Executes(h)'
  BY <1>1, <1>4, <1>5, <1>6, <1>7
     DEF HandlerOK, BeforeOK, DispatchingOK, SettlingOK, SettledOK, Executes, Of
<1> QED
  BY <1>1, <1>4, <1>8, PhaseKeeps DEF Active, Of

\* To lock the budget, an attempt must own the job; none that does has a copy
\* of row 1 from before an execution.
LEMMA LockKeeps ==
    ASSUME Shape, Rest, NEW h \in Handlers, LockBudget(h)
    PROVE  Shape' /\ Rest'
<1> DEFINE r == Of(h)
           Locked == [handlers[h] EXCEPT !.phase = "reserving", !.spent = Spent]
           Replays == [handlers[h] EXCEPT !.phase = "replaying"]
<1>1. Shaped(handlers[h]) /\ r \in Requests /\ handlers[h].phase = "preparing"
      /\ handlers[h].winner = 0 /\ handlers[h].usage = << >>
  BY HandlerTypes DEF LockBudget, Rest, HandlerOK, BeforeOK
<1>2. ASSUME Owns(h), handlers[h].seen = "queued", handlers' = [handlers EXCEPT ![h] = Locked],
             UNCHANGED <<job, rows, executions>>
      PROVE  Shape' /\ Rest'
  <2>1. executions[r] = 0
    <3>1. handlers[h].own = job[r].owner /\ handlers[h].own \in Nat
      BY <1>1, <1>2 DEF Owns, Shaped
    <3> QED
      BY <1>1, <1>2, <3>1 DEF Rest, HandlerOK, BeforeOK
  <2>2. /\ Shaped(Locked)
        /\ Locked.request = r /\ Locked.own = handlers[h].own /\ Locked.phase = "reserving"
        /\ Locked.winner = 0 /\ Locked.seen = "queued" /\ Locked.usage = << >>
    BY <1>1, <1>2 DEF Shaped, Phase, Of
  <2>3. handlers'[h] = Locked
    BY <1>2, <2>2, HandlerMoves
  <2> HIDE DEF Locked
  <2>4. HandlerOK(h)' /\ ~Executes(h)'
    BY <1>2, <2>1, <2>2, <2>3
       DEF HandlerOK, BeforeOK, DispatchingOK, SettlingOK, SettledOK, Executes, Of, Owns
  <2> QED
    BY <1>1, <1>2, <2>2, <2>4, PhaseKeeps DEF Active, Of
<1>3. ASSUME handlers' = [handlers EXCEPT ![h] = Replays], UNCHANGED <<job, rows, executions>>
      PROVE  Shape' /\ Rest'
  <2>1. /\ Shaped(Replays)
        /\ Replays.request = r /\ Replays.own = handlers[h].own /\ Replays.phase = "replaying"
        /\ Replays.winner = 0
    BY <1>1 DEF Shaped, Phase, Of
  <2>2. handlers'[h] = Replays
    BY <1>3, <2>1, HandlerMoves
  <2> HIDE DEF Replays
  <2>3. HandlerOK(h)' /\ ~Executes(h)'
    BY <2>1, <2>2
       DEF HandlerOK, BeforeOK, DispatchingOK, SettlingOK, SettledOK, Executes
  <2> QED
    BY <1>1, <1>3, <2>1, <2>3, PhaseKeeps DEF Active, Of
<1> QED
  BY <1>2, <1>3, EndsKeeps DEF LockBudget, Reservable, Moves, EndsStale

\* A refusal, and the clearing of the question of an executed request.
LEMMA MovesKeeps ==
    ASSUME Shape, Rest, NEW h \in Handlers, RefuseBeforeDispatch(h) \/ ClearSettled(h)
    PROVE  Shape' /\ Rest'
<1> DEFINE phase == IF handlers[h].phase = "settled" THEN "closing" ELSE "refused"
           handler == [handlers[h] EXCEPT !.phase = phase]
<1>1. /\ handlers[h].phase \in {"preparing", "settled"}
      /\ handlers' = [handlers EXCEPT ![h] = handler] /\ UNCHANGED <<job, rows, executions>>
  BY DEF RefuseBeforeDispatch, ClearSettled, Moves
<1>2. Shaped(handlers[h]) /\ Of(h) \in Requests
  BY HandlerTypes
<1>3. /\ Shaped(handler)
      /\ handler.request = handlers[h].request /\ handler.own = handlers[h].own
      /\ handler.winner = handlers[h].winner /\ handler.phase = phase
  BY <1>1, <1>2 DEF Shaped, Phase
<1>4. handlers'[h] = handler
  BY <1>1, <1>3, HandlerMoves
<1>5. HandlerOK(h)
  BY DEF Rest
<1> HIDE DEF handler
<1>6. HandlerOK(h)'
  BY <1>1, <1>3, <1>4, <1>5
     DEF HandlerOK, BeforeOK, DispatchingOK, SettlingOK, SettledOK, Executes, Of
<1>7. Executes(h)' => Executes(h)
  BY <1>1, <1>3, <1>4, <1>5 DEF HandlerOK, BeforeOK, Executes
<1> QED
  BY <1>1, <1>3, <1>6, <1>7, PhaseKeeps DEF Active

-----------------------------------------------------------------------------
(* The dispatch loop.                                                      *)

LEMMA FinishKeeps ==
    ASSUME Shape, Rest, NEW h \in Handlers, handlers[h].phase = "calling",
           NEW usage \in Seq(Nat), Len(usage) = handlers[h].last,
           NEW winner \in {0, handlers[h].last},
           Finishes(h, usage, winner), UNCHANGED <<job, rows, executions>>
    PROVE  Shape' /\ Rest'
<1> DEFINE r == Of(h)
           L == handlers[h].last
           handler == [handlers[h] EXCEPT !.phase = "settling", !.usage = usage, !.pending = 1..L,
                                          !.winner = winner, !.try = 0, !.repairs = 0,
                                          !.last = 0, !.retrying = FALSE]
<1>1. Shaped(handlers[h]) /\ r \in Requests /\ HandlerOK(h)
  BY HandlerTypes DEF Rest
<1>2. /\ L \in Attempts(r) /\ L \in Nat /\ L >= 1 /\ NoOutput(r)
      /\ \A n \in 2..L : rows[r][n].status = "running"
  BY <1>1, Limits DEF HandlerOK, DispatchingOK
<1>3. handlers' = [handlers EXCEPT ![h] = handler]
  BY DEF Finishes
<1>4. /\ Shaped(handler) /\ handler.request = handlers[h].request /\ handler.own = handlers[h].own
      /\ handler.phase = "settling" /\ handler.usage = usage /\ handler.pending = 1..L
      /\ handler.winner = winner
  <2>1. 1..L \in SUBSET Nat /\ winner \in Nat
    BY <1>2
  <2> QED
    BY <1>1, <2>1 DEF Shaped, Phase
<1> HIDE DEF handler
<1>5. handlers'[h] = handler /\ \A k \in Handlers \ {h} : handlers'[k] = handlers[k]
  BY <1>3, <1>4, HandlerMoves
<1>6. Of(h)' = r
  BY <1>4, <1>5 DEF Of
<1>7. SettlingOK(h)'
  <2>1. 1..L = {1} \union (2..L) /\ 2 \in 2..(L + 1)
    BY <1>2
  <2>2. \A n \in Attempts(r) : ~rows[r][n].output
    BY <1>2 DEF NoOutput
  <2>3. winner \in 0..L /\ (winner # 0 => winner \in 1..L)
    BY <1>2
  <2>4. \A n \in (1..L) \ {1} : rows[r][n].status = "running"
    BY <1>2
  <2>6. Len(handlers'[h].usage) = L /\ Of(h)' \in Requests /\ handlers'[h].pending = 1..L
    BY <1>1, <1>4, <1>5, <1>6
  <2>7. rows'[Of(h)'] = rows[r]
    BY <1>6
  <2> HIDE DEF L, r
  <2>5. \E m \in 2..(L + 1) : 1..L = {1} \union (m..L)
    BY <2>1
  <2> QED
    BY <1>2, <1>4, <1>5, <1>6, <2>2, <2>3, <2>4, <2>5, <2>6, <2>7 DEF SettlingOK
<1>8. BeforeOK(h)' /\ DispatchingOK(h)' /\ SettledOK(h)'
  BY <1>4, <1>5 DEF BeforeOK, DispatchingOK, SettledOK
<1>9. executions[r] # 0 /\ Executes(h)
  BY <1>1 DEF HandlerOK, Executes
<1>10. HandlerOK(h)'
  BY <1>6, <1>7, <1>8, <1>9 DEF HandlerOK
<1> QED
  BY <1>3, <1>4, <1>9, <1>10, PhaseKeeps DEF Active

\* Another row is needed.
LEMMA RepeatKeeps ==
    ASSUME Shape, Rest, NEW h \in Handlers, handlers[h].phase = "calling",
           NEW usage \in Seq(Nat), Len(usage) = handlers[h].last,
           NEW try \in 1..MaxTries[Of(h)], NEW repairs \in 0..Repairs[Of(h)],
           NEW retrying \in BOOLEAN,
           try + (Repairs[Of(h)] - repairs) = handlers[h].last + 1,
           handlers' = [handlers EXCEPT ![h] = [handlers[h] EXCEPT
               !.phase = "repeating", !.usage = usage, !.try = try, !.repairs = repairs,
               !.retrying = retrying]],
           UNCHANGED <<job, rows, executions>>
    PROVE  Shape' /\ Rest'
<1> DEFINE r == Of(h)
           handler == [handlers[h] EXCEPT !.phase = "repeating", !.usage = usage, !.try = try,
                                          !.repairs = repairs, !.retrying = retrying]
<1>1. Shaped(handlers[h]) /\ r \in Requests /\ HandlerOK(h)
  BY HandlerTypes DEF Rest
<1>2. try \in Nat /\ repairs \in {0, 1} /\ repairs <= Repairs[r]
  BY <1>1, Limits
<1>3. /\ Shaped(handler) /\ handler.request = handlers[h].request /\ handler.own = handlers[h].own
      /\ handler.phase = "repeating" /\ handler.usage = usage /\ handler.try = try
      /\ handler.repairs = repairs /\ handler.winner = handlers[h].winner
      /\ handler.last = handlers[h].last
  BY <1>1, <1>2 DEF Shaped, Phase
<1>4. handlers' = [handlers EXCEPT ![h] = handler]
  OBVIOUS
<1> HIDE DEF handler
<1>5. handlers'[h] = handler /\ \A k \in Handlers \ {h} : handlers'[k] = handlers[k]
  BY <1>3, <1>4, HandlerMoves
<1>6. Of(h)' = r
  BY <1>3, <1>5 DEF Of
<1>7. DispatchingOK(h)'
  BY <1>1, <1>2, <1>3, <1>5, <1>6 DEF HandlerOK, DispatchingOK, NoOutput
<1>8. BeforeOK(h)' /\ SettlingOK(h)' /\ SettledOK(h)'
  BY <1>1, <1>3, <1>5 DEF HandlerOK, BeforeOK, SettlingOK, SettledOK
<1>9. executions[r] # 0 /\ Executes(h)
  BY <1>1 DEF HandlerOK, Executes
<1>10. HandlerOK(h)'
  BY <1>6, <1>7, <1>8, <1>9 DEF HandlerOK
<1> QED
  BY <1>3, <1>4, <1>9, <1>10, PhaseKeeps DEF Active

LEMMA CallKeeps ==
    ASSUME Shape, Rest, NEW h \in Handlers, CallProvider(h)
    PROVE  Shape' /\ Rest'
<1> DEFINE n == handlers[h].last
           charged == Append(handlers[h].usage, Price(h))
           free == Append(handlers[h].usage, 0)
<1>1. /\ handlers[h].phase = "calling" /\ UNCHANGED <<job, rows, executions>>
      /\ \/ Finishes(h, charged, n)
         \/ handlers[h].repairs > 0 /\ MakesRepair(h, charged)
         \/ TriesAgain(h, charged, FALSE)
         \/ TriesAgain(h, free, TRUE)
         \/ Finishes(h, charged, 0)
         \/ Finishes(h, free, 0)
  BY DEF CallProvider
<1>2. Shaped(handlers[h]) /\ Of(h) \in Requests /\ DispatchingOK(h)
  BY HandlerTypes DEF Rest, HandlerOK
<1>3. Price(h) \in Nat
  BY <1>2, CountsAssumption DEF Price
<1>4. /\ n \in Nat /\ n = handlers[h].try + (Repairs[Of(h)] - handlers[h].repairs)
      /\ Len(handlers[h].usage) = n - 1 /\ handlers[h].try \in 1..MaxTries[Of(h)]
      /\ handlers[h].repairs <= Repairs[Of(h)] /\ handlers[h].repairs \in {0, 1}
      /\ handlers[h].usage \in Seq(Nat) /\ handlers[h].retrying \in BOOLEAN
  BY <1>1, <1>2 DEF DispatchingOK, Shaped
<1>5. charged \in Seq(Nat) /\ Len(charged) = n /\ free \in Seq(Nat) /\ Len(free) = n
  BY <1>3, <1>4
<1>6. MaxTries[Of(h)] \in Nat /\ Repairs[Of(h)] \in {0, 1}
  BY <1>2, Limits
<1>7. ASSUME NEW usage \in Seq(Nat), Len(usage) = n, NEW excluded \in BOOLEAN,
             TriesAgain(h, usage, excluded)
      PROVE  Shape' /\ Rest'
  <2>1. CASE handlers[h].try >= MaxTries[Of(h)]
    BY <1>1, <1>7, <2>1, FinishKeeps DEF TriesAgain
  <2>2. CASE ~(handlers[h].try >= MaxTries[Of(h)])
    <3> DEFINE try == handlers[h].try + 1
               retrying == handlers[h].retrying \/ excluded
    <3>1. try \in 1..MaxTries[Of(h)] /\ try + (Repairs[Of(h)] - handlers[h].repairs) = n + 1
      BY <1>4, <1>6, <2>2, SMTT(30)
    <3>2. handlers' = [handlers EXCEPT ![h] = [handlers[h] EXCEPT
               !.phase = "repeating", !.usage = usage, !.try = try,
               !.repairs = handlers[h].repairs, !.retrying = retrying]]
      BY <1>2, <1>7, <2>2 DEF TriesAgain, Shaped, Shape
    <3>3. handlers[h].repairs \in 0..Repairs[Of(h)] /\ retrying \in BOOLEAN
      BY <1>4, <1>6
    <3> HIDE DEF try, retrying
    <3> QED
      BY <1>1, <1>7, <3>1, <3>2, <3>3, RepeatKeeps
  <2> QED
    BY <2>1, <2>2
<1>8. ASSUME handlers[h].repairs > 0, MakesRepair(h, charged) PROVE Shape' /\ Rest'
  <2> DEFINE repairs == handlers[h].repairs - 1
             try == handlers[h].try
             retrying == handlers[h].retrying
  <2>1. /\ repairs \in 0..Repairs[Of(h)] /\ try + (Repairs[Of(h)] - repairs) = n + 1
        /\ try \in 1..MaxTries[Of(h)] /\ retrying \in BOOLEAN
    BY <1>4, <1>6, <1>8
  <2>2. handlers' = [handlers EXCEPT ![h] = [handlers[h] EXCEPT
             !.phase = "repeating", !.usage = charged, !.try = try,
             !.repairs = repairs, !.retrying = retrying]]
    BY <1>2, <1>8 DEF MakesRepair, Shaped, Shape
  <2> HIDE DEF repairs, try, retrying, charged
  <2> QED
    BY <1>1, <1>5, <2>1, <2>2, RepeatKeeps
<1> HIDE DEF charged, free
<1> QED
  BY <1>1, <1>5, <1>7, <1>8, FinishKeeps

-----------------------------------------------------------------------------
(* The job changes hands, or is settled.                                   *)

LEMMA JobMoved ==
    ASSUME Shape, Rest, UNCHANGED <<rows, executions>>,
           \A k \in Handlers :
              \/ handlers'[k] = handlers[k]
              \/ handlers'[k].phase = "idle"
              \/ /\ handlers'[k].phase = "replayed" /\ Active(k)
                 /\ handlers'[k].own = handlers[k].own /\ handlers'[k].request = handlers[k].request,
           \A r \in Requests :
              /\ job'[r].owner = job[r].owner
              /\ job'[r].status = "absent" <=> job[r].status = "absent"
              /\ job'[r].status = "succeeded" =>
                   job[r].status = "succeeded" \/ \E n \in Attempts(r) : rows[r][n].output,
           \A k \in Handlers : handlers'[k].phase = "reserving" => job'[Of(k)] = job[Of(k)]
    PROVE  Rest'
<1>1. OwnersOK'
  BY HandlerTypes DEF Rest, OwnersOK, Active, Of
<1>2. OneExecutor'
  BY DEF Rest, OneExecutor, Executes, Of
<1>3. ASSUME NEW k \in Handlers PROVE HandlerOK(k)'
  <2>1. CASE handlers'[k] # handlers[k]
    BY <2>1 DEF HandlerOK, BeforeOK, DispatchingOK, SettlingOK, SettledOK, Executes
  <2>2. CASE handlers'[k] = handlers[k]
    <3>1. HandlerOK(k) /\ Of(k) \in Requests
      BY HandlerTypes DEF Rest
    <3>2. Of(k)' = Of(k)
      BY <2>2 DEF Of
    <3>3. BeforeOK(k)'
      BY <2>2, <3>1, <3>2 DEF HandlerOK, BeforeOK, Owns
    <3>4. DispatchingOK(k)'
      BY <2>2, <3>1, <3>2 DEF HandlerOK, DispatchingOK, NoOutput
    <3>5. SettlingOK(k)' /\ SettledOK(k)'
      BY <2>2, <3>1, <3>2 DEF HandlerOK, SettlingOK, SettledOK
    <3> QED
      BY <2>2, <3>1, <3>2, <3>3, <3>4, <3>5 DEF HandlerOK, Executes
  <2> QED
    BY <2>1, <2>2
<1>4. ASSUME NEW r \in Requests PROVE RequestOK(r)'
  BY DEF Rest, RequestOK, NoOutput
<1> QED
  BY <1>1, <1>2, <1>3, <1>4 DEF Rest

\* The new attempt's number is larger than any other of the request.
LEMMA ClaimKeeps ==
    ASSUME Shape, Rest, NEW h \in Handlers, NEW r \in Requests, ClaimDispatch(h, r)
    PROVE  Shape' /\ Rest'
<1> DEFINE own == job[r].owner + 1
           handler == [Idle(r) EXCEPT !.phase = "claimed", !.own = job'[r].owner]
<1>1. /\ ~Active(h) /\ job[r].status \in {"queued", "running"} /\ JobFree(r)
      /\ job[r].starts < MaxStarts
      /\ job' = [job EXCEPT ![r].status = "running", ![r].starts = @ + 1, ![r].owner = @ + 1]
      /\ handlers' = [handlers EXCEPT ![h] = handler]
      /\ UNCHANGED <<rows, executions>>
  BY DEF ClaimDispatch
<1>2. job[r] \in Job /\ own \in Nat
  BY DEF Shape, Job
<1>3. /\ job' \in [Requests -> Job] /\ job'[r].owner = own /\ job'[r].status = "running"
      /\ \A s \in Requests \ {r} : job'[s] = job[s]
  BY <1>1, <1>2, CountsAssumption DEF Shape, Job, Status
<1>4. /\ Shaped(handler) /\ handler.phase = "claimed" /\ handler.own = own /\ handler.request = r
      /\ handler.winner = 0 /\ handler.usage = << >>
  <2>1. /\ Shaped(Idle(r)) /\ Idle(r).request = r /\ Idle(r).winner = 0 /\ Idle(r).usage = << >>
    BY IdleShape DEF Idle
  <2>2. job'[r].owner = own /\ job'[r].owner \in Nat
    BY <1>2, <1>3
  <2> HIDE DEF own
  <2> QED
    BY <2>1, <2>2 DEF Shaped, Phase
<1> HIDE DEF handler
<1>5. /\ handlers'[h] = handler /\ \A k \in Handlers \ {h} : handlers'[k] = handlers[k]
      /\ DOMAIN handlers' = Handlers /\ \A k \in Handlers : Shaped(handlers'[k])
  BY <1>1, <1>4, HandlerMoves
<1>6. Shape'
  BY <1>1, <1>3, <1>5 DEF Shape
<1>7. \A k \in Handlers : Shaped(handlers[k]) /\ Of(k) \in Requests
  BY HandlerTypes
<1>8. OwnersOK'
  <2>1. \A k \in Handlers : Active(k) /\ Of(k) = r => handlers[k].own < own
    <3> SUFFICES ASSUME NEW k \in Handlers, Active(k), Of(k) = r PROVE handlers[k].own < own
      OBVIOUS
    <3>1. handlers[k].own <= job[r].owner
      BY DEF Rest, OwnersOK
    <3>2. handlers[k].own \in Nat /\ job[r].owner \in Nat
      BY <1>2, <1>7 DEF Shaped, Job
    <3> QED
      BY <3>1, <3>2
  <2>2. \A k \in Handlers : Active(k)' => /\ handlers'[k].own <= job'[Of(k)'].owner
                                         /\ job'[Of(k)'].status # "absent"
    <3> SUFFICES ASSUME NEW k \in Handlers, Active(k)'
                 PROVE  /\ handlers'[k].own <= job'[Of(k)'].owner
                        /\ job'[Of(k)'].status # "absent"
      OBVIOUS
    <3>1. CASE k = h
      BY <1>2, <1>3, <1>4, <1>5, <3>1 DEF Of
    <3>2. CASE k # h
      <4>1. Active(k) /\ Of(k)' = Of(k) /\ handlers'[k] = handlers[k]
        BY <1>5, <3>2 DEF Active, Of
      <4>2. handlers[k].own <= job[Of(k)].owner /\ job[Of(k)].status # "absent"
        BY <4>1 DEF Rest, OwnersOK
      <4>3. handlers[k].own \in Nat
        BY <1>7 DEF Shaped
      <4>4. Of(k) = r => handlers[k].own < own
        BY <2>1, <4>1
      <4>5. CASE Of(k) = r
        BY <1>2, <1>3, <4>1, <4>3, <4>4, <4>5
      <4>6. CASE Of(k) # r
        BY <1>3, <1>7, <4>1, <4>2, <4>6
      <4> QED
        BY <4>5, <4>6
    <3> QED
      BY <3>1, <3>2
  <2>3. \A k, m \in Handlers : /\ Active(k)' /\ Active(m)' /\ Of(k)' = Of(m)'
                               /\ handlers'[k].own = handlers'[m].own
                               => k = m
    <3> SUFFICES ASSUME NEW k \in Handlers, NEW m \in Handlers, Active(k)', Active(m)',
                        Of(k)' = Of(m)', handlers'[k].own = handlers'[m].own, k # m
                 PROVE  FALSE
      OBVIOUS
    <3>1. \A l \in Handlers \ {h} : Active(l)' /\ Of(l)' = r => handlers'[l].own # own
      <4> SUFFICES ASSUME NEW l \in Handlers \ {h}, Active(l)', Of(l)' = r
                   PROVE  handlers'[l].own # own
        OBVIOUS
      <4>1. handlers'[l] = handlers[l] /\ Active(l) /\ Of(l) = r /\ handlers[l].own \in Nat
        BY <1>5, <1>7 DEF Active, Of, Shaped
      <4> QED
        BY <1>2, <2>1, <4>1
    <3>2. Of(h)' = r /\ handlers'[h].own = own
      BY <1>4, <1>5 DEF Of
    <3>3. k # h /\ m # h
      BY <3>1, <3>2
    <3>4. /\ Active(k) /\ Active(m) /\ Of(k) = Of(m)
          /\ handlers[k].own = handlers[m].own
      BY <1>5, <3>3 DEF Active, Of
    <3> QED
      BY <3>4 DEF Rest, OwnersOK
  <2> QED
    BY <2>2, <2>3 DEF OwnersOK
<1>9. OneExecutor'
  BY <1>4, <1>5 DEF Rest, OneExecutor, Executes, Of
<1>10. ASSUME NEW k \in Handlers PROVE HandlerOK(k)'
  <2>1. CASE k = h
    BY <1>4, <1>5, <2>1 DEF HandlerOK, BeforeOK, DispatchingOK, SettlingOK, SettledOK, Executes
  <2>2. CASE k # h
    <3>1. handlers'[k] = handlers[k] /\ Of(k)' = Of(k) /\ HandlerOK(k) /\ Of(k) \in Requests
      BY <1>5, <1>7, <2>2 DEF Of, Rest
    <3>2. BeforeOK(k)'
      <4>1. handlers[k].phase = "reserving" => Of(k) # r
        BY <1>1 DEF JobFree
      <4>2. job[Of(k)].owner <= job'[Of(k)].owner
        BY <1>2, <1>3, <3>1 DEF Shape, Job
      <4>3. handlers[k].own \in Nat /\ job[Of(k)].owner \in Nat /\ job'[Of(k)].owner \in Nat
        BY <1>3, <1>7, <3>1 DEF Shaped, Job, Shape
      <4> QED
        BY <1>1, <1>3, <3>1, <4>1, <4>2, <4>3 DEF HandlerOK, BeforeOK, Owns
    <3>3. DispatchingOK(k)' /\ SettlingOK(k)' /\ SettledOK(k)'
      BY <1>1, <3>1 DEF HandlerOK, DispatchingOK, SettlingOK, SettledOK, NoOutput
    <3> QED
      BY <1>1, <3>1, <3>2, <3>3 DEF HandlerOK, Executes
  <2> QED
    BY <2>1, <2>2
<1>11. ASSUME NEW s \in Requests PROVE RequestOK(s)'
  BY <1>1, <1>3 DEF Rest, RequestOK, NoOutput
<1> QED
  BY <1>6, <1>8, <1>9, <1>10, <1>11 DEF Rest

\* The job is settled, failed or requeued, while nobody reserves for it.
LEMMA StatusMoved ==
    ASSUME Shape, Rest, NEW r \in Requests, NEW status \in Status \ {"absent"},
           NEW exhausted \in BOOLEAN,
           job' = [job EXCEPT ![r] = [@ EXCEPT !.status = status, !.exhausted = exhausted]],
           job[r].status # "absent"
    PROVE  /\ job' \in [Requests -> Job]
           /\ \A s \in Requests \ {r} : job'[s] = job[s]
           /\ \A s \in Requests :
                /\ job'[s].owner = job[s].owner
                /\ job'[s].status = "absent" <=> job[s].status = "absent"
           /\ job'[r].status = status
BY DEF Shape, Job

\* Only the owner reserves.
LEMMA OwnerAlone ==
    ASSUME Shape, Rest, NEW h \in Handlers, NEW k \in Handlers, Active(h), Owns(h),
           handlers[k].phase = "reserving", Of(k) = Of(h)
    PROVE  k = h
BY DEF Rest, HandlerOK, BeforeOK, OwnersOK, Owns, Active

LEMMA SettleJobKeeps ==
    ASSUME Shape, Rest, NEW h \in Handlers, SettleJob(h)
    PROVE  Shape' /\ Rest'
<1> DEFINE r == Of(h)
           status == IF handlers[h].winner # 0 THEN "succeeded" ELSE "failed"
<1>1. handlers[h].phase = "closing" /\ r \in Requests /\ SettledOK(h)
  BY HandlerTypes DEF SettleJob, Rest, HandlerOK
<1>2. CASE /\ Owns(h) /\ JobFree(r) /\ SettlesJob(r, status) /\ Ends(h)
           /\ UNCHANGED <<rows, question, executions>>
  <2>1. job' = [job EXCEPT ![r] = [@ EXCEPT !.status = status, !.exhausted = job[r].exhausted]]
    BY <1>1, <1>2 DEF SettlesJob, Shape, Job
  <2>2. job[r].status # "absent" /\ job[r].exhausted \in BOOLEAN /\ status \in Status \ {"absent"}
    BY <1>1, <1>2 DEF Owns, Shape, Job, Status
  <2>3. status = "succeeded" => \E n \in Attempts(r) : rows[r][n].output
    BY <1>1 DEF SettledOK
  <2> HIDE DEF status
  <2>4. /\ job' \in [Requests -> Job]
        /\ \A s \in Requests \ {r} : job'[s] = job[s]
        /\ \A s \in Requests :
             /\ job'[s].owner = job[s].owner
             /\ job'[s].status = "absent" <=> job[s].status = "absent"
        /\ job'[r].status = status
    BY <1>1, <2>1, <2>2, StatusMoved
  <2>5. \A k \in Handlers : handlers'[k].phase = "reserving" => job'[Of(k)] = job[Of(k)]
    BY <1>2, <2>4, HandlerEnds, HandlerTypes DEF JobFree
  <2> QED
    BY <1>2, <2>3, <2>4, <2>5, HandlerEnds, JobMoved DEF Shape
<1> QED
  BY <1>1, <1>2, EndsKeeps DEF SettleJob, EndsStale

LEMMA ReplayKeeps ==
    ASSUME Shape, Rest, NEW h \in Handlers, ReconcileReplay(h)
    PROVE  Shape' /\ Rest'
<1> DEFINE r == Of(h)
           Replayed == [handlers[h] EXCEPT !.phase = "replayed"]
<1>1. handlers[h].phase = "replaying" /\ r \in Requests /\ Shaped(handlers[h])
  BY HandlerTypes DEF ReconcileReplay
<1>2. ASSUME Owns(h), NEW status \in {"succeeded", "failed"}, SettlesJob(r, status),
             status = "succeeded" => Won(r), UNCHANGED <<rows, executions>>,
             Ends(h) \/ Moves(h, "replayed")
      PROVE  Shape' /\ Rest'
  <2>1. job' = [job EXCEPT ![r] = [@ EXCEPT !.status = status, !.exhausted = job[r].exhausted]]
    BY <1>1, <1>2 DEF SettlesJob, Shape, Job
  <2>2. job[r].status # "absent" /\ job[r].exhausted \in BOOLEAN /\ status \in Status \ {"absent"}
    BY <1>1, <1>2 DEF Owns, Shape, Job, Status
  <2>3. status = "succeeded" => \E n \in Attempts(r) : rows[r][n].output
    BY <1>1, <1>2 DEF Won, Rest, RequestOK
  <2>4. /\ job' \in [Requests -> Job]
        /\ \A s \in Requests \ {r} : job'[s] = job[s]
        /\ \A s \in Requests :
             /\ job'[s].owner = job[s].owner
             /\ job'[s].status = "absent" <=> job[s].status = "absent"
        /\ job'[r].status = status
    BY <1>1, <2>1, <2>2, StatusMoved
  <2>5. /\ DOMAIN handlers' = Handlers /\ \A k \in Handlers : Shaped(handlers'[k])
        /\ \A k \in Handlers \ {h} : handlers'[k] = handlers[k]
        /\ \/ handlers'[h].phase = "idle"
           \/ /\ handlers'[h].phase = "replayed" /\ handlers'[h].own = handlers[h].own
              /\ handlers'[h].request = handlers[h].request
    <3>1. CASE Ends(h)
      BY <3>1, HandlerEnds
    <3>2. CASE Moves(h, "replayed")
      <4>1. /\ Shaped(Replayed) /\ Replayed.phase = "replayed" /\ Replayed.own = handlers[h].own
            /\ Replayed.request = handlers[h].request
        BY <1>1 DEF Shaped, Phase
      <4>2. handlers' = [handlers EXCEPT ![h] = Replayed]
        BY <3>2 DEF Moves
      <4> HIDE DEF Replayed
      <4> QED
        BY <4>1, <4>2, HandlerMoves
    <3> QED
      BY <1>2, <3>1, <3>2
  <2>6. \A k \in Handlers : handlers'[k].phase = "reserving" => job'[Of(k)] = job[Of(k)]
    BY <1>1, <1>2, <2>4, <2>5, OwnerAlone, HandlerTypes DEF Active
  <2> QED
    BY <1>1, <1>2, <2>3, <2>4, <2>5, <2>6, JobMoved DEF Shape, Active
<1> QED
  BY <1>1, <1>2, EndsKeeps DEF ReconcileReplay, EndsStale

LEMMA RaiseKeeps ==
    ASSUME Shape, Rest, NEW h \in Handlers, HandlerRaises(h)
    PROVE  Shape' /\ Rest'
<1> DEFINE r == Of(h)
<1>1. /\ Active(h) /\ Owns(h) /\ Ends(h) /\ UNCHANGED <<rows, executions>> /\ r \in Requests
      /\ ExhaustsJob(r) \/ SettlesJob(r, "queued")
  BY HandlerTypes DEF HandlerRaises
<1>2. PICK status \in {"failed", "queued"}, exhausted \in BOOLEAN :
        job' = [job EXCEPT ![r] = [@ EXCEPT !.status = status, !.exhausted = exhausted]]
  <2>1. job[r] \in Job
    BY <1>1 DEF Shape
  <2>2. CASE ExhaustsJob(r)
    BY <2>2 DEF ExhaustsJob
  <2>3. CASE SettlesJob(r, "queued")
    <3>1. job' = [job EXCEPT ![r] = [@ EXCEPT !.status = "queued", !.exhausted = job[r].exhausted]]
      BY <1>1, <2>1, <2>3 DEF SettlesJob, Shape, Job
    <3> QED
      BY <2>1, <3>1 DEF Job
  <2> QED
    BY <1>1, <2>2, <2>3
<1>3. status \in Status \ {"absent"} /\ job[r].status # "absent"
  BY <1>1 DEF Owns, Status
<1>4. /\ job' \in [Requests -> Job]
      /\ \A s \in Requests \ {r} : job'[s] = job[s]
      /\ \A s \in Requests :
           /\ job'[s].owner = job[s].owner
           /\ job'[s].status = "absent" <=> job[s].status = "absent"
      /\ job'[r].status = status
  BY <1>1, <1>2, <1>3, StatusMoved
<1>5. \A k \in Handlers : handlers'[k].phase = "reserving" => job'[Of(k)] = job[Of(k)]
  BY <1>1, <1>4, OwnerAlone, HandlerEnds, HandlerTypes
<1> QED
  BY <1>1, <1>4, <1>5, HandlerEnds, JobMoved DEF Shape

LEMMA ExhaustKeeps ==
    ASSUME Shape, Rest, NEW r \in Requests, ExhaustAbandonedJob(r)
    PROVE  Shape' /\ Rest'
<1>1. /\ job' = [job EXCEPT ![r] = [@ EXCEPT !.status = "failed", !.exhausted = TRUE]]
      /\ job[r].status = "running" /\ JobFree(r) /\ UNCHANGED <<rows, handlers, executions>>
  BY DEF ExhaustAbandonedJob, ExhaustsJob
<1>2. "failed" \in Status \ {"absent"}
  BY DEF Status
<1>3. /\ job' \in [Requests -> Job]
      /\ \A s \in Requests \ {r} : job'[s] = job[s]
      /\ \A s \in Requests :
           /\ job'[s].owner = job[s].owner
           /\ job'[s].status = "absent" <=> job[s].status = "absent"
      /\ job'[r].status = "failed"
  BY <1>1, <1>2, StatusMoved
<1>4. \A k \in Handlers : handlers'[k].phase = "reserving" => job'[Of(k)] = job[Of(k)]
  BY <1>1, <1>3, HandlerTypes DEF JobFree
<1> QED
  BY <1>1, <1>3, <1>4, JobMoved DEF Shape

-----------------------------------------------------------------------------
(* Rows that are written without the job's ownership.                      *)

\* No output comes or goes, no first row is made queued after an execution, and
\* the later rows of an execution that goes on are left alone.
LEMMA RowsMoved ==
    ASSUME Shape, Rest, UNCHANGED executions,
           \A k \in Handlers :
              \/ handlers'[k] = handlers[k]
              \/ /\ handlers'[k].phase = "closing" /\ handlers'[k].winner = 0
                 /\ Active(k) /\ handlers'[k].own = handlers[k].own
                 /\ handlers'[k].request = handlers[k].request,
           \A r \in Requests :
              job'[r] = job[r] \/ (job[r].status = "absent" /\ job'[r].status = "queued"),
           \A r \in Requests : \A n \in Attempts(r) :
              /\ rows'[r][n].output = rows[r][n].output
              /\ rows'[r][n].status = "succeeded" => rows[r][n].status = "succeeded",
           \A r \in Requests : executions[r] # 0 =>
              rows'[r][1].status \in {rows[r][1].status, "failed"},
           \A k \in Handlers : handlers[k].phase \in {"calling", "repeating", "settling"} =>
              \A n \in Attempts(Of(k)) \ {1} : rows'[Of(k)][n].status = rows[Of(k)][n].status
    PROVE  Rest'
<1>1. \A k \in Handlers : Active(k) => job'[Of(k)] = job[Of(k)]
  BY HandlerTypes DEF Rest, OwnersOK
<1>2. OwnersOK'
  BY <1>1 DEF Rest, OwnersOK, Active, Of
<1>3. OneExecutor'
  BY DEF Rest, OneExecutor, Executes, Of
<1>4. ASSUME NEW k \in Handlers PROVE HandlerOK(k)'
  <2>1. CASE handlers'[k] # handlers[k]
    BY <2>1 DEF HandlerOK, BeforeOK, DispatchingOK, SettlingOK, SettledOK, Executes
  <2>2. CASE handlers'[k] = handlers[k]
    <3>1. HandlerOK(k) /\ Of(k) \in Requests /\ Shaped(handlers[k])
      BY HandlerTypes DEF Rest
    <3>2. Of(k)' = Of(k)
      BY <2>2 DEF Of
    <3>3. BeforeOK(k)'
      BY <1>1, <2>2, <3>1, <3>2 DEF HandlerOK, BeforeOK, Owns, Active
    <3>4. DispatchingOK(k)'
      <4>1. handlers[k].phase \in {"calling", "repeating"} =>
              \A n \in 2..handlers[k].last : n \in Attempts(Of(k)) \ {1}
        BY <3>1, Limits DEF HandlerOK, DispatchingOK
      <4> QED
        BY <2>2, <3>1, <3>2, <4>1 DEF HandlerOK, DispatchingOK, NoOutput
    <3>5. SettlingOK(k)'
      <4> SUFFICES ASSUME handlers[k].phase = "settling" PROVE SettlingOK(k)'
        BY <2>2 DEF SettlingOK
      <4>1. \A n \in handlers[k].pending \ {1} : n \in Attempts(Of(k)) \ {1}
        BY <3>1, Limits DEF HandlerOK, SettlingOK
      <4>2. handlers[k].winner # 0 => handlers[k].winner \in Attempts(Of(k))
        BY <3>1, Limits DEF HandlerOK, SettlingOK
      <4> QED
        BY <2>2, <3>1, <3>2, <4>1, <4>2 DEF HandlerOK, SettlingOK
    <3>6. SettledOK(k)'
      BY <2>2, <3>1, <3>2 DEF HandlerOK, SettledOK
    <3> QED
      BY <2>2, <3>1, <3>2, <3>3, <3>4, <3>5, <3>6 DEF HandlerOK, Executes
  <2> QED
    BY <2>1, <2>2
<1>5. ASSUME NEW r \in Requests PROVE RequestOK(r)'
  <2>1. RequestOK(r) /\ 1 \in Attempts(r)
    BY Limits DEF Rest
  <2>2. job[r].status = "absent" => executions[r] = 0
    BY <2>1 DEF RequestOK
  <2>3. executions'[r] = 0 => NoOutput(r)'
    BY <2>1 DEF RequestOK, NoOutput
  <2>4. /\ executions'[r] # 0 => rows'[r][1].status \notin {"absent", "queued"}
        /\ job'[r].status = "succeeded" => job[r].status = "succeeded"
    BY <2>1 DEF RequestOK
  <2> QED
    BY <2>1, <2>2, <2>3, <2>4 DEF RequestOK
<1> QED
  BY <1>2, <1>3, <1>4, <1>5 DEF Rest

\* What becomes of one row whose status is changed.
LEMMA StatusUpdate ==
    ASSUME Shape, NEW r \in Requests, NEW n \in Attempts(r), NEW status \in Status,
           rows' = [rows EXCEPT ![r][n].status = status]
    PROVE  /\ DOMAIN rows' = Requests /\ \A s \in Requests : rows'[s] \in [Attempts(s) -> Row]
           /\ rows'[r][n].status = status /\ rows'[r][n].output = rows[r][n].output
           /\ \A m \in Attempts(r) \ {n} : rows'[r][m] = rows[r][m]
           /\ \A s \in Requests \ {r} : rows'[s] = rows[s]
<1> DEFINE row == [rows[r][n] EXCEPT !.status = status]
<1>1. rows[r] \in [Attempts(r) -> Row] /\ rows[r][n] \in Row
  BY DEF Shape
<1>2. row \in Row /\ row.status = status /\ row.output = rows[r][n].output
  BY <1>1 DEF Row
<1>3. DOMAIN rows' = Requests /\ \A s \in Requests \ {r} : rows'[s] = rows[s]
  BY DEF Shape
<1>4. rows'[r] = [rows[r] EXCEPT ![n] = row]
  BY DEF Shape
<1> HIDE DEF row
<1>5. /\ rows'[r] \in [Attempts(r) -> Row] /\ rows'[r][n] = row
      /\ \A m \in Attempts(r) \ {n} : rows'[r][m] = rows[r][m]
  BY <1>1, <1>2, <1>4
<1>6. ASSUME NEW s \in Requests PROVE rows'[s] \in [Attempts(s) -> Row]
  BY <1>3, <1>5 DEF Shape
<1> QED
  BY <1>2, <1>3, <1>5, <1>6

LEMMA ClearRefusedKeeps ==
    ASSUME Shape, Rest, NEW h \in Handlers, ClearRefused(h)
    PROVE  Shape' /\ Rest'
<1> DEFINE r == Of(h)
           handler == [handlers[h] EXCEPT !.phase = "closing"]
<1>1. /\ handlers[h].phase = "refused" /\ Shaped(handlers[h]) /\ r \in Requests
      /\ handlers[h].winner = 0 /\ UNCHANGED <<job, executions>>
      /\ handlers' = [handlers EXCEPT ![h] = handler]
  BY HandlerTypes DEF ClearRefused, Moves, Rest, HandlerOK, BeforeOK
<1>2. /\ Shaped(handler) /\ handler.phase = "closing" /\ handler.winner = 0
      /\ handler.own = handlers[h].own /\ handler.request = handlers[h].request
  BY <1>1 DEF Shaped, Phase
<1> HIDE DEF handler
<1>3. /\ handlers'[h] = handler /\ \A k \in Handlers \ {h} : handlers'[k] = handlers[k]
      /\ DOMAIN handlers' = Handlers /\ \A k \in Handlers : Shaped(handlers'[k])
  BY <1>1, <1>2, HandlerMoves
<1>4. CASE rows' = rows
  <2>1. Rest'
    BY <1>1, <1>2, <1>3, <1>4, RowsMoved DEF Active
  <2> QED
    BY <1>1, <1>3, <1>4, <2>1 DEF Shape
<1>5. CASE rows' = [rows EXCEPT ![r][1].status = "failed"]
  <2>1. /\ DOMAIN rows' = Requests /\ \A s \in Requests : rows'[s] \in [Attempts(s) -> Row]
        /\ rows'[r][1].status = "failed" /\ rows'[r][1].output = rows[r][1].output
        /\ \A m \in Attempts(r) \ {1} : rows'[r][m] = rows[r][m]
        /\ \A s \in Requests \ {r} : rows'[s] = rows[s]
    BY <1>1, <1>5, Limits, StatusUpdate DEF Status
  <2>2. \A s \in Requests : \A n \in Attempts(s) :
          /\ rows'[s][n].output = rows[s][n].output
          /\ rows'[s][n].status = "succeeded" => rows[s][n].status = "succeeded"
    BY <1>1, <2>1
  <2>3. \A s \in Requests : rows'[s][1].status \in {rows[s][1].status, "failed"}
    BY <1>1, <2>1
  <2>4. \A k \in Handlers : \A n \in Attempts(Of(k)) \ {1} :
          rows'[Of(k)][n].status = rows[Of(k)][n].status
    BY <1>1, <2>1, HandlerTypes
  <2>5. Active(h)
    BY <1>1 DEF Active
  <2>6. Rest'
    BY <1>1, <1>2, <1>3, <2>2, <2>3, <2>4, <2>5, RowsMoved
  <2> QED
    BY <1>1, <1>3, <2>1, <2>6 DEF Shape
<1> QED
  BY <1>4, <1>5 DEF ClearRefused

LEMMA ExpiryKeeps ==
    ASSUME Shape, Rest, NEW r \in Requests, ClearExpired(r)
    PROVE  Shape' /\ Rest'
<1>1. UNCHANGED <<job, handlers, executions>>
  BY DEF ClearExpired
<1>2. CASE rows' = rows
  BY <1>1, <1>2, RowsMoved DEF Shape
<1>3. CASE rows' = [rows EXCEPT ![r][1].status = "failed"]
  <2>1. /\ DOMAIN rows' = Requests /\ \A s \in Requests : rows'[s] \in [Attempts(s) -> Row]
        /\ rows'[r][1].status = "failed" /\ rows'[r][1].output = rows[r][1].output
        /\ \A m \in Attempts(r) \ {1} : rows'[r][m] = rows[r][m]
        /\ \A s \in Requests \ {r} : rows'[s] = rows[s]
    BY <1>3, Limits, StatusUpdate DEF Status
  <2>2. Rest'
    BY <1>1, <2>1, Limits, HandlerTypes, RowsMoved
  <2> QED
    BY <1>1, <2>1, <2>2 DEF Shape
<1> QED
  BY <1>2, <1>3 DEF ClearExpired

LEMMA StaleKeeps ==
    ASSUME Shape, Rest, NEW r \in Requests, ReconcileStale(r)
    PROVE  Shape' /\ Rest'
<1>1. UNCHANGED <<job, handlers, executions>>
  BY DEF ReconcileStale
<1>2. PICK upto \in Attempts(r) :
        /\ upto = 1 \/ ~Executing(r)
        /\ rows' = [rows EXCEPT ![r] = [n \in Attempts(r) |->
                       IF n <= upto /\ rows[r][n].status = "running"
                       THEN [rows[r][n] EXCEPT !.status = "failed"] ELSE rows[r][n]]]
  BY DEF ReconcileStale, Shape
<1>3. \A n \in Attempts(r) :
        /\ rows[r][n] \in Row /\ [rows[r][n] EXCEPT !.status = "failed"] \in Row
        /\ [rows[r][n] EXCEPT !.status = "failed"].status = "failed"
        /\ [rows[r][n] EXCEPT !.status = "failed"].output = rows[r][n].output
  BY DEF Shape, Row, Status
<1>4. /\ DOMAIN rows' = Requests /\ \A s \in Requests \ {r} : rows'[s] = rows[s]
      /\ rows'[r] = [n \in Attempts(r) |->
                       IF n <= upto /\ rows[r][n].status = "running"
                       THEN [rows[r][n] EXCEPT !.status = "failed"] ELSE rows[r][n]]
  BY <1>2 DEF Shape
<1>5. rows'[r] \in [Attempts(r) -> Row]
  BY <1>3, <1>4
<1>6. \A n \in Attempts(r) :
        /\ rows'[r][n].output = rows[r][n].output
        /\ rows'[r][n].status \in {rows[r][n].status, "failed"}
        /\ n > upto => rows'[r][n] = rows[r][n]
  BY <1>3, <1>4, Limits
<1>7. ASSUME NEW k \in Handlers, handlers[k].phase \in {"calling", "repeating", "settling"},
             NEW n \in Attempts(Of(k)) \ {1}
      PROVE  rows'[Of(k)][n].status = rows[Of(k)][n].status
  <2>1. CASE Of(k) = r
    <3>1. upto = 1
      BY <1>2, <1>7, <2>1 DEF Executing
    <3>2. n > 1 /\ n \in Attempts(r)
      BY <2>1, Limits
    <3> QED
      BY <1>6, <2>1, <3>1, <3>2
  <2> QED
    BY <1>4, <2>1, HandlerTypes
<1>8. Rest'
  BY <1>1, <1>4, <1>6, <1>7, Limits, RowsMoved
<1> QED
  BY <1>1, <1>4, <1>5, <1>8 DEF Shape

LEMMA EnqueueKeeps ==
    ASSUME Shape, Rest, NEW r \in Requests, Enqueue(r)
    PROVE  Shape' /\ Rest'
<1>1. /\ job[r].status = "absent" /\ job' = [job EXCEPT ![r].status = "queued"]
      /\ rows' = [rows EXCEPT ![r][1].status = "queued"]
      /\ UNCHANGED <<handlers, executions>>
  BY DEF Enqueue
<1>2. /\ job' \in [Requests -> Job] /\ job'[r].status = "queued"
      /\ \A s \in Requests \ {r} : job'[s] = job[s]
  BY <1>1 DEF Shape, Job, Status
<1>3. executions[r] = 0 /\ \A k \in Handlers : Active(k) => Of(k) # r
  BY <1>1 DEF Rest, RequestOK, OwnersOK
<1>4. /\ DOMAIN rows' = Requests /\ \A s \in Requests : rows'[s] \in [Attempts(s) -> Row]
      /\ rows'[r][1].status = "queued" /\ rows'[r][1].output = rows[r][1].output
      /\ \A m \in Attempts(r) \ {1} : rows'[r][m] = rows[r][m]
      /\ \A s \in Requests \ {r} : rows'[s] = rows[s]
  BY <1>1, Limits, StatusUpdate DEF Status
<1>5. Rest'
  BY <1>1, <1>2, <1>3, <1>4, HandlerTypes, RowsMoved DEF Active
<1> QED
  BY <1>1, <1>2, <1>4, <1>5 DEF Shape

-----------------------------------------------------------------------------
(* Rows that the one executor writes.                                      *)

\* A handler that does not execute its request reads none of its rows again
\* but those the replay compares.
LEMMA Bystander ==
    ASSUME NEW k \in Handlers, HandlerOK(k), ~Executes(k), handlers'[k] = handlers[k], BeforeOK(k)'
    PROVE  HandlerOK(k)'
BY DEF HandlerOK, DispatchingOK, SettlingOK, SettledOK, Executes

LEMMA ExecutorMoved ==
    ASSUME Shape, Rest, NEW h \in Handlers, Executes(h),
           UNCHANGED <<job, executions>>,
           \A k \in Handlers \ {h} : handlers'[k] = handlers[k],
           handlers'[h].own = handlers[h].own, handlers'[h].request = handlers[h].request,
           \A s \in Requests \ {Of(h)} : rows'[s] = rows[s],
           HandlerOK(h)', RequestOK(Of(h))'
    PROVE  Rest'
<1> DEFINE r == Of(h)
<1>1. OwnersOK'
  BY DEF Rest, OwnersOK, Active, Of, Executes
<1>2. OneExecutor'
  BY DEF Rest, OneExecutor, Executes, Of
<1>3. ASSUME NEW k \in Handlers PROVE HandlerOK(k)'
  <2>1. CASE k = h
    BY <2>1
  <2>2. CASE k # h
    <3>1. HandlerOK(k) /\ handlers'[k] = handlers[k] /\ Of(k) \in Requests
      BY <2>2, HandlerTypes DEF Rest
    <3>2. CASE Of(k) # r
      BY <3>1, <3>2, Untouched
    <3>3. CASE Of(k) = r
      <4>1. ~Executes(k)
        BY <2>2, <3>3 DEF Rest, OneExecutor
      <4>2. BeforeOK(k)'
        BY <3>1 DEF HandlerOK, BeforeOK, Owns, Of
      <4> QED
        BY <3>1, <4>1, <4>2, Bystander
    <3> QED
      BY <3>2, <3>3
  <2> QED
    BY <2>1, <2>2
<1>4. ASSUME NEW s \in Requests PROVE RequestOK(s)'
  <2>1. CASE s = r
    <3>1. Of(h)' = r
      BY DEF Of
    <3> QED
      BY <2>1, <3>1
  <2>2. CASE s # r
    BY <2>2 DEF Rest, RequestOK, NoOutput
  <2> QED
    BY <2>1, <2>2
<1> QED
  BY <1>1, <1>2, <1>3, <1>4 DEF Rest

LEMMA RecordKeeps ==
    ASSUME Shape, Rest, NEW h \in Handlers, RecordAttempt(h)
    PROVE  Shape' /\ Rest'
<1> DEFINE r == Of(h)
           n == handlers[h].last + 1
           handler == [handlers[h] EXCEPT !.phase = "calling", !.last = n]
<1>1. /\ handlers[h].phase = "repeating" /\ r \in Requests /\ Shaped(handlers[h])
      /\ HandlerOK(h) /\ RequestOK(r)
  BY HandlerTypes DEF RecordAttempt, Rest
<1>2. CASE /\ rows' = [rows EXCEPT ![r][n].status = "running"]
           /\ handlers' = [handlers EXCEPT ![h].phase = "calling", ![h].last = n]
           /\ UNCHANGED <<job, question, executions>>
  <2>1. /\ n \in Attempts(r) /\ n # 1 /\ handlers[h].last \in Nat /\ n \in Nat /\ n >= 2
        /\ n = handlers[h].try + (Repairs[r] - handlers[h].repairs)
    <3>1. /\ handlers[h].try \in 1..MaxTries[r] /\ handlers[h].repairs <= Repairs[r]
          /\ handlers[h].last \in Attempts(r)
          /\ n = handlers[h].try + (Repairs[r] - handlers[h].repairs)
      BY <1>1 DEF HandlerOK, DispatchingOK
    <3>2. handlers[h].repairs \in {0, 1}
      BY <1>1 DEF Shaped
    <3> QED
      BY <1>1, <3>1, <3>2, Limits, SMTT(30)
  <2>2. /\ Shaped(handler) /\ handler.phase = "calling" /\ handler.last = n
        /\ handler.own = handlers[h].own /\ handler.request = handlers[h].request
        /\ handler.winner = handlers[h].winner /\ handler.usage = handlers[h].usage
        /\ handler.try = handlers[h].try /\ handler.repairs = handlers[h].repairs
    BY <1>1, <2>1 DEF Shaped, Phase
  <2>3. handlers' = [handlers EXCEPT ![h] = handler]
    BY <1>2
  <2> HIDE DEF handler
  <2>4. /\ handlers'[h] = handler /\ \A k \in Handlers \ {h} : handlers'[k] = handlers[k]
        /\ DOMAIN handlers' = Handlers /\ \A k \in Handlers : Shaped(handlers'[k])
    BY <2>2, <2>3, HandlerMoves
  <2>5. Of(h)' = r
    BY <2>2, <2>4 DEF Of
  <2>6. /\ DOMAIN rows' = Requests /\ \A s \in Requests : rows'[s] \in [Attempts(s) -> Row]
        /\ rows'[r][n].status = "running" /\ rows'[r][n].output = rows[r][n].output
        /\ \A m \in Attempts(r) \ {n} : rows'[r][m] = rows[r][m]
        /\ \A s \in Requests \ {r} : rows'[s] = rows[s]
    BY <1>1, <1>2, <2>1, StatusUpdate DEF Status
  <2>7. DispatchingOK(h)'
    <3>1. /\ handlers[h].try \in 1..MaxTries[r] /\ handlers[h].repairs <= Repairs[r]
          /\ Len(handlers[h].usage) = handlers[h].last /\ NoOutput(r)
          /\ \A m \in 2..handlers[h].last : rows[r][m].status = "running"
      BY <1>1 DEF HandlerOK, DispatchingOK
    <3>2. \A m \in Attempts(r) : ~rows'[r][m].output
      BY <2>6, <3>1 DEF NoOutput
    <3>3. \A m \in 2..n : rows'[r][m].status = "running"
      <4> SUFFICES ASSUME NEW m \in 2..n PROVE rows'[r][m].status = "running"
        OBVIOUS
      <4>1. m = n \/ (m \in 2..handlers[h].last /\ m \in Attempts(r))
        BY <1>1, <2>1, Limits
      <4> QED
        BY <2>6, <3>1, <4>1
    <3>4. Len(handlers[h].usage) = n - 1
      BY <2>1, <3>1
    <3> HIDE DEF n, r
    <3> QED
      BY <2>1, <2>2, <2>4, <2>5, <3>1, <3>2, <3>3, <3>4 DEF DispatchingOK, NoOutput
  <2>8. BeforeOK(h)' /\ SettlingOK(h)' /\ SettledOK(h)'
    BY <1>1, <2>2, <2>4 DEF HandlerOK, BeforeOK, SettlingOK, SettledOK
  <2>9. Executes(h) /\ executions[r] # 0
    BY <1>1 DEF HandlerOK, Executes
  <2>10. HandlerOK(h)'
    BY <1>2, <2>5, <2>7, <2>8, <2>9 DEF HandlerOK
  <2>11. RequestOK(r)'
    <3>1. NoOutput(r)
      BY <1>1 DEF HandlerOK, DispatchingOK
    <3>2. \A m \in Attempts(r) : ~rows'[r][m].output
      BY <2>6, <3>1 DEF NoOutput
    <3>3. \A m \in Attempts(r) : rows'[r][m].status = "succeeded" => rows[r][m].status = "succeeded"
      BY <2>6
    <3>4. rows'[r][1] = rows[r][1]
      BY <1>1, <2>1, <2>6, Limits
    <3> HIDE DEF n
    <3> QED
      BY <1>1, <1>2, <2>5, <2>9, <3>1, <3>2, <3>3, <3>4 DEF RequestOK, NoOutput
  <2>12. Rest'
    BY <1>2, <2>2, <2>4, <2>5, <2>6, <2>9, <2>10, <2>11, ExecutorMoved
  <2> QED
    BY <1>2, <2>4, <2>6, <2>12 DEF Shape
<1> QED
  BY <1>1, <1>2, EndsKeeps DEF RecordAttempt, EndsStale

\* What is left is the rows from m on and the first one, which comes last.
LEMMA NextRow ==
    ASSUME NEW L \in Nat, L >= 1, NEW m \in 2..(L + 1), NEW pending,
           pending = {1} \union (m..L)
    PROVE  LET n == NextToSettle(pending)
               left == pending \ {n}
           IN  /\ n \in pending /\ n \in 1..L
               /\ n = 1 <=> left = {}
               /\ n # 1 => \E k \in 2..(L + 1) : left = {1} \union (k..L)
<1>1. CASE m = L + 1
  <2>1. pending = {1}
    BY <1>1
  <2> QED
    BY <2>1 DEF NextToSettle
<1>2. CASE m # L + 1
  <2>1. m \in m..L /\ 1 \notin m..L /\ m <= L /\ m \in Nat
    BY <1>2
  <2>2. pending # {1} /\ pending \ {1} = m..L
    BY <2>1
  <2>3. Min(m..L) = m
    <3>1. m \in m..L /\ \A y \in m..L : m <= y
      BY <2>1
    <3>2. \A x \in m..L : (\A y \in m..L : x <= y) => x = m
      BY <2>1
    <3> QED
      BY <3>1, <3>2 DEF Min
  <2>4. NextToSettle(pending) = m
    BY <2>2, <2>3 DEF NextToSettle
  <2>5. pending \ {m} = {1} \union ((m + 1)..L) /\ m + 1 \in 2..(L + 1)
    BY <2>1
  <2> QED
    BY <2>1, <2>4, <2>5
<1> QED
  BY <1>1, <1>2

LEMMA SettleKeeps ==
    ASSUME Shape, Rest, NEW h \in Handlers, Settle(h)
    PROVE  Shape' /\ Rest'
<1> DEFINE r == Of(h)
           w == handlers[h].winner
           usage == handlers[h].usage
           pending == handlers[h].pending
           n == NextToSettle(pending)
           left == pending \ {n}
           status == IF w = n THEN "succeeded" ELSE "failed"
           row == [status |-> status, output |-> w = n, cost |-> usage[n]]
           handler == [handlers[h] EXCEPT
                         !.pending = left, !.usage = [usage EXCEPT ![n] = 0],
                         !.seen = IF n = 1 THEN status ELSE @,
                         !.phase = IF left = {} THEN "settled" ELSE @]
<1>1. /\ handlers[h].phase = "settling" /\ r \in Requests /\ Shaped(handlers[h])
      /\ HandlerOK(h) /\ SettlingOK(h) /\ RequestOK(r)
  BY HandlerTypes DEF Settle, Rest, HandlerOK
<1>2. CASE /\ Owns(h)
           /\ rows' = IF n = 1 \/ rows[r][n].status = "running"
                      THEN [rows EXCEPT ![r][n] = row] ELSE rows
           /\ handlers' = [handlers EXCEPT ![h] = handler]
           /\ UNCHANGED <<job, question, executions>>
  <2> DEFINE L == Len(usage)
  <2>1. /\ L \in Attempts(r) /\ w \in 0..L /\ usage \in Seq(Nat)
        /\ \E m \in 2..(L + 1) : pending = {1} \union (m..L)
        /\ \A k \in pending \ {1} : rows[r][k].status = "running"
        /\ \A k \in Attempts(r) : rows[r][k].output => k = w /\ k \notin pending
        /\ w # 0 /\ w \notin pending => rows[r][w].output
    BY <1>1 DEF SettlingOK, Shaped
  <2>2. L \in Nat /\ L >= 1 /\ \A k \in 1..L : k \in Attempts(r)
    BY <1>1, <2>1, Limits
  <2>3. /\ n \in pending /\ n \in 1..L /\ (n = 1 <=> left = {})
        /\ n # 1 => \E k \in 2..(L + 1) : left = {1} \union (k..L)
    <3>1. PICK m \in 2..(L + 1) : pending = {1} \union (m..L)
      BY <2>1
    <3> HIDE DEF L, pending
    <3> QED
      BY <2>2, <3>1, NextRow
  <2>4. n \in Attempts(r) /\ usage[n] \in Nat /\ pending \in SUBSET Nat
    <3>1. pending \in SUBSET Nat
      BY <1>1 DEF Shaped
    <3> HIDE DEF n, usage, pending
    <3> QED
      BY <2>1, <2>2, <2>3, <3>1, ElementOfSeq
  <2>5. row \in Row /\ row.status = status /\ row.output = (w = n)
    <3>1. status \in Status /\ (w = n) \in BOOLEAN
      BY DEF Status
    <3>2. usage[n] \in Nat
      BY <2>4
    <3> HIDE DEF status, w, n, usage
    <3> QED
      BY <3>1, <3>2 DEF Row
  <2>6. rows' = [rows EXCEPT ![r][n] = row]
    <3>1. n = 1 \/ rows[r][n].status = "running"
      BY <2>1, <2>3
    <3> HIDE DEF n, row
    <3> QED
      BY <1>2, <3>1
  <2>7. [usage EXCEPT ![n] = 0] \in Seq(Nat) /\ Len([usage EXCEPT ![n] = 0]) = L
    BY <2>1, <2>3, ExceptSeq
  <2>8. /\ Shaped(handler) /\ handler.own = handlers[h].own
        /\ handler.request = handlers[h].request /\ handler.winner = w
        /\ handler.pending = left /\ handler.usage = [usage EXCEPT ![n] = 0]
        /\ handler.phase = IF left = {} THEN "settled" ELSE "settling"
    <3>1. status \in Status /\ left \in SUBSET Nat
      BY <2>4 DEF Status
    <3> HIDE DEF status, left
    <3> QED
      BY <1>1, <2>7, <3>1 DEF Shaped, Phase
  <2> HIDE DEF row, handler, status
  <2>9. /\ DOMAIN rows' = Requests /\ \A s \in Requests : rows'[s] \in [Attempts(s) -> Row]
        /\ rows'[r][n] = row /\ \A m \in Attempts(r) \ {n} : rows'[r][m] = rows[r][m]
        /\ \A s \in Requests \ {r} : rows'[s] = rows[s]
    BY <1>1, <2>4, <2>5, <2>6, RowUpdate
  <2>10. /\ handlers'[h] = handler /\ \A k \in Handlers \ {h} : handlers'[k] = handlers[k]
         /\ DOMAIN handlers' = Handlers /\ \A k \in Handlers : Shaped(handlers'[k])
    BY <1>2, <2>8, HandlerMoves
  <2>11. Of(h)' = r
    BY <2>8, <2>10 DEF Of
  <2>12. \A k \in Attempts(r) : rows'[r][k].output => k = w /\ k \notin left
    BY <2>1, <2>5, <2>9
  <2>13. w # 0 /\ w \notin left => w \in Attempts(r) /\ rows'[r][w].output
    <3> SUFFICES ASSUME w # 0, w \notin left PROVE w \in Attempts(r) /\ rows'[r][w].output
      OBVIOUS
    <3>1. w \in Attempts(r)
      BY <2>1, <2>2
    <3>2. CASE w = n
      BY <2>5, <2>9, <3>1, <3>2
    <3>3. CASE w # n
      BY <2>1, <2>9, <3>1, <3>3
    <3> QED
      BY <3>1, <3>2, <3>3
  <2>14. \A k \in left \ {1} : rows'[r][k].status = "running"
    <3> SUFFICES ASSUME NEW k \in left \ {1} PROVE rows'[r][k].status = "running"
      OBVIOUS
    <3>1. k \in pending \ {1} /\ k # n /\ k \in Attempts(r)
      BY <2>1, <2>2, Limits
    <3> QED
      BY <2>1, <2>9, <3>1
  <2>15. SettlingOK(h)'
    <3> SUFFICES ASSUME left # {} PROVE SettlingOK(h)'
      BY <2>8, <2>10 DEF SettlingOK
    <3>1. \E k \in 2..(L + 1) : left = {1} \union (k..L)
      BY <2>3
    <3>2. Len(handlers'[h].usage) = L /\ handlers'[h].winner = w /\ handlers'[h].pending = left
      BY <2>7, <2>8, <2>10
    <3>3. L \in Attempts(r) /\ w \in 0..L
      BY <2>1
    <3> HIDE DEF L, w, left, r
    <3> QED
      BY <2>11, <2>12, <2>13, <2>14, <3>1, <3>2, <3>3 DEF SettlingOK
  <2>16. SettledOK(h)'
    BY <2>8, <2>10, <2>11, <2>13 DEF SettledOK
  <2>17. BeforeOK(h)' /\ DispatchingOK(h)'
    BY <2>8, <2>10 DEF BeforeOK, DispatchingOK
  <2>18. Executes(h) /\ executions[r] # 0
    BY <1>1 DEF HandlerOK, Executes
  <2>19. HandlerOK(h)'
    BY <1>2, <2>11, <2>15, <2>16, <2>17, <2>18 DEF HandlerOK
  <2>20. RequestOK(r)'
    <3>1. \A k \in Attempts(r) : rows'[r][k].status = "succeeded" => rows'[r][k].output
      <4>1. row.status = "succeeded" => row.output
        BY <2>5 DEF status
      <4> QED
        BY <1>1, <2>9, <4>1 DEF RequestOK
    <3>2. rows'[r][1].status \notin {"absent", "queued"}
      <4>1. row.status \notin {"absent", "queued"}
        BY <2>5 DEF status
      <4>2. 1 \in Attempts(r)
        BY <1>1, Limits
      <4> QED
        BY <1>1, <2>9, <2>18, <4>1, <4>2 DEF RequestOK
    <3>3. job[r].status = "running" /\ job' = job /\ executions' = executions
      BY <1>2 DEF Owns
    <3>4. \A j, k \in Attempts(r) : rows'[r][j].output /\ rows'[r][k].output => j = k
      BY <2>12
    <3> QED
      BY <1>1, <2>11, <2>18, <3>1, <3>2, <3>3, <3>4 DEF RequestOK
  <2>21. Rest'
    BY <1>2, <2>8, <2>9, <2>10, <2>18, <2>19, <2>20, ExecutorMoved
  <2> QED
    BY <1>2, <2>9, <2>10, <2>21 DEF Shape
<1> QED
  BY <1>1, <1>2, EndsKeeps DEF Settle, EndsStale

LEMMA RefusedKeeps ==
    ASSUME Shape, Rest, NEW h \in Handlers, handlers[h].phase = "reserving",
           Moves(h, "refused"), UNCHANGED <<job, rows, executions>>
    PROVE  Shape' /\ Rest'
<1> DEFINE handler == [handlers[h] EXCEPT !.phase = "refused"]
<1>1. /\ Shaped(handlers[h]) /\ handlers[h].winner = 0
      /\ handlers' = [handlers EXCEPT ![h] = handler]
  BY HandlerTypes DEF Moves, Rest, HandlerOK, BeforeOK
<1>2. /\ Shaped(handler) /\ handler.phase = "refused" /\ handler.winner = 0
      /\ handler.own = handlers[h].own /\ handler.request = handlers[h].request
  BY <1>1 DEF Shaped, Phase
<1> HIDE DEF handler
<1>3. handlers'[h] = handler
  BY <1>1, <1>2, HandlerMoves
<1>4. HandlerOK(h)' /\ ~Executes(h)'
  BY <1>2, <1>3 DEF HandlerOK, BeforeOK, DispatchingOK, SettlingOK, SettledOK, Executes
<1> QED
  BY <1>1, <1>2, <1>4, PhaseKeeps DEF Active

\* The execution begins.  Any other attempt of the request that still believes
\* it queued was overtaken: its number is not the owner's.
LEMMA ReserveKeeps ==
    ASSUME Shape, Rest, NEW h \in Handlers, Reserve(h)
    PROVE  Shape' /\ Rest'
<1> DEFINE r == Of(h)
           row == [rows[r][1] EXCEPT !.status = "running", !.cost = Reservation(r)]
           handler == [handlers[h] EXCEPT
                         !.phase = "calling", !.seen = "running", !.spent = 0,
                         !.try = 1, !.repairs = Repairs[r], !.last = 1]
<1>1. /\ handlers[h].phase = "reserving" /\ r \in Requests /\ Shaped(handlers[h])
      /\ Active(h) /\ BeforeOK(h) /\ RequestOK(r)
  BY HandlerTypes DEF Reserve, Rest, HandlerOK, Active
<1>2. Owns(h) /\ executions[r] = 0 /\ handlers[h].usage = << >> /\ handlers[h].winner = 0
  BY <1>1 DEF BeforeOK
<1>3. CASE /\ rows' = [rows EXCEPT ![r][1].status = "running", ![r][1].cost = Reservation(r)]
           /\ handlers' = [handlers EXCEPT
                              ![h].phase = "calling", ![h].seen = "running", ![h].spent = 0,
                              ![h].try = 1, ![h].repairs = Repairs[r], ![h].last = 1]
           /\ executions' = [executions EXCEPT ![r] = @ + 1]
           /\ UNCHANGED job
  <2>1. 1 \in Attempts(r) /\ rows[r] \in [Attempts(r) -> Row] /\ rows[r][1] \in Row
    BY <1>1, Limits DEF Shape
  <2>2. row \in Row /\ row.status = "running" /\ row.output = rows[r][1].output
    BY <1>1, <2>1, Limits DEF Row, Status
  <2>3. rows' = [rows EXCEPT ![r][1] = row]
    BY <1>1, <1>3, <2>1 DEF Shape, Row
  <2>4. handlers' = [handlers EXCEPT ![h] = handler]
    BY <1>3
  <2>5. /\ Shaped(handler) /\ handler.phase = "calling" /\ handler.own = handlers[h].own
        /\ handler.request = handlers[h].request /\ handler.winner = 0
        /\ handler.usage = << >> /\ handler.try = 1 /\ handler.repairs = Repairs[r]
        /\ handler.last = 1
    BY <1>1, <1>2, Limits DEF Shaped, Phase, Status
  <2> HIDE DEF row, handler
  <2>6. /\ DOMAIN rows' = Requests /\ \A s \in Requests : rows'[s] \in [Attempts(s) -> Row]
        /\ rows'[r][1] = row /\ \A m \in Attempts(r) \ {1} : rows'[r][m] = rows[r][m]
        /\ \A s \in Requests \ {r} : rows'[s] = rows[s]
    BY <1>1, <2>1, <2>2, <2>3, RowUpdate
  <2>7. /\ handlers'[h] = handler /\ \A k \in Handlers \ {h} : handlers'[k] = handlers[k]
        /\ DOMAIN handlers' = Handlers /\ \A k \in Handlers : Shaped(handlers'[k])
    BY <2>4, <2>5, HandlerMoves
  <2>8. /\ executions' \in [Requests -> Nat] /\ executions'[r] = 1
        /\ \A s \in Requests \ {r} : executions'[s] = executions[s]
    BY <1>1, <1>2, <1>3 DEF Shape
  <2>9. Of(h)' = r /\ \A k \in Handlers \ {h} : Of(k)' = Of(k)
    BY <2>5, <2>7 DEF Of
  <2>10. \A m \in Attempts(r) : ~rows'[r][m].output
    <3>1. \A m \in Attempts(r) : rows'[r][m].output = rows[r][m].output
      BY <2>2, <2>6
    <3> QED
      BY <1>1, <1>2, <3>1 DEF RequestOK, NoOutput
  <2>11. OwnersOK'
    <3>1. \A k \in Handlers : /\ Active(k)' <=> Active(k)
                              /\ handlers'[k].own = handlers[k].own /\ Of(k)' = Of(k)
      BY <1>1, <2>5, <2>7, <2>9 DEF Active
    <3> QED
      BY <1>3, <3>1 DEF Rest, OwnersOK
  <2>12. \A k \in Handlers \ {h} : Of(k) = r => ~Executes(k)
    BY <1>2 DEF Rest, HandlerOK
  <2>13. OneExecutor'
    BY <2>7, <2>9, <2>12 DEF Rest, OneExecutor, Executes
  <2>14. DispatchingOK(h)'
    <3>1. MaxTries[r] \in Nat /\ MaxTries[r] >= 1 /\ Repairs[r] \in {0, 1}
      BY <1>1, Limits
    <3>2. 1 \in 1..MaxTries[r] /\ 1 = 1 + (Repairs[r] - Repairs[r]) /\ Len(<< >>) = 1 - 1
          /\ Repairs[r] <= Repairs[r]
      BY <3>1
    <3>3. \A n \in 2..1 : rows'[r][n].status = "running"
      OBVIOUS
    <3> QED
      BY <2>1, <2>5, <2>7, <2>9, <2>10, <3>2, <3>3 DEF DispatchingOK, NoOutput
  <2>15. HandlerOK(h)'
    <3>1. BeforeOK(h)' /\ SettlingOK(h)' /\ SettledOK(h)'
      BY <2>5, <2>7 DEF BeforeOK, SettlingOK, SettledOK
    <3> QED
      BY <2>8, <2>9, <2>14, <3>1 DEF HandlerOK
  <2>16. ASSUME NEW k \in Handlers \ {h} PROVE HandlerOK(k)'
    <3>1. HandlerOK(k) /\ handlers'[k] = handlers[k] /\ Of(k)' = Of(k) /\ Of(k) \in Requests
          /\ Shaped(handlers[k])
      BY <2>7, <2>9, HandlerTypes DEF Rest
    <3>2. CASE Of(k) # r
      BY <1>3, <2>6, <2>8, <3>1, <3>2, Untouched
    <3>3. CASE Of(k) = r
      <4>1. ~Executes(k)
        BY <2>12, <3>3
      <4>2. handlers[k].phase # "reserving"
        BY <1>1, <1>2, <3>3, OwnerAlone
      <4>3. Active(k) => handlers[k].own < job[r].owner
        <5> SUFFICES ASSUME Active(k) PROVE handlers[k].own < job[r].owner
          OBVIOUS
        <5>1. handlers[k].own <= job[r].owner /\ handlers[k].own # handlers[h].own
          BY <1>1, <3>3 DEF Rest, OwnersOK
        <5>2. handlers[h].own = job[r].owner
          BY <1>2 DEF Owns
        <5>3. handlers[k].own \in Nat /\ job[r].owner \in Nat
          BY <1>1, <3>1 DEF Shape, Shaped, Job
        <5> QED
          BY <5>1, <5>2, <5>3
      <4>4. BeforeOK(k)'
        BY <1>3, <3>1, <3>3, <4>2, <4>3 DEF HandlerOK, BeforeOK, Active
      <4> QED
        BY <3>1, <4>1, <4>4, Bystander
    <3> QED
      BY <3>2, <3>3
  <2>17. RequestOK(r)'
    <3>1. /\ executions'[r] <= 1 /\ executions'[r] # 0
          /\ \A m \in Attempts(r) : rows'[r][m].status = "succeeded" => FALSE
      <4>1. \A m \in Attempts(r) : rows[r][m].status # "succeeded"
        BY <1>1, <1>2 DEF RequestOK, NoOutput
      <4>2. \A m \in Attempts(r) : rows'[r][m].status # "succeeded"
        BY <2>2, <2>6, <4>1
      <4> QED
        BY <2>8, <4>2
    <3>2. rows'[r][1].status = "running" /\ job'[r].status = "running"
      BY <1>2, <1>3, <2>2, <2>6 DEF Owns
    <3> QED
      BY <2>9, <2>10, <3>1, <3>2 DEF RequestOK, NoOutput
  <2>18. ASSUME NEW s \in Requests \ {r} PROVE RequestOK(s)'
    BY <1>3, <2>6, <2>8 DEF Rest, RequestOK, NoOutput
  <2>19. Rest'
    <3>1. \A s \in Requests : RequestOK(s)'
      BY <2>9, <2>17, <2>18
    <3> QED
      BY <2>11, <2>13, <2>15, <2>16, <3>1 DEF Rest
  <2> QED
    BY <1>3, <2>6, <2>7, <2>8, <2>19 DEF Shape
<1> QED
  BY <1>1, <1>3, RefusedKeeps DEF Reserve

-----------------------------------------------------------------------------
(* Executions and outputs.                                                 *)

LEMMA Initially == Init => IInv
<1> SUFFICES ASSUME Init PROVE IInv
  OBVIOUS
<1>1. /\ AnyRequest \in Requests /\ Idle(AnyRequest).phase = "idle" /\ Shaped(Idle(AnyRequest))
  BY RequestsAssumption, IdleShape DEF AnyRequest
<1>2. \A h \in Handlers : handlers[h] = Idle(AnyRequest) /\ handlers[h].phase = "idle"
  BY <1>1 DEF Init
<1>3. NoRow \in Row /\ NoRow.output = FALSE /\ NoRow.status = "absent"
  BY DEF NoRow, Row, Status
<1>4. \A r \in Requests : \A n \in Attempts(r) : rows[r][n] = NoRow
  BY DEF Init
<1>5. Shape
  <2>1. job \in [Requests -> Job] /\ executions \in [Requests -> Nat]
    <3>1. MaxStarts \in Nat
      BY CountsAssumption
    <3>2. [status |-> "absent", starts |-> 0, owner |-> 0, exhausted |-> FALSE] \in Job
      BY <3>1 DEF Job, Status
    <3> QED
      BY <3>2 DEF Init
  <2>2. DOMAIN rows = Requests /\ \A r \in Requests : rows[r] \in [Attempts(r) -> Row]
    BY <1>3 DEF Init
  <2>3. DOMAIN handlers = Handlers
    BY DEF Init
  <2> QED
    BY <1>1, <1>2, <2>1, <2>2, <2>3 DEF Shape
<1>6. OwnersOK /\ OneExecutor /\ \A h \in Handlers : HandlerOK(h)
  BY <1>2 DEF OwnersOK, OneExecutor, HandlerOK, BeforeOK, DispatchingOK, SettlingOK, SettledOK,
              Executes, Active
<1>7. \A r \in Requests : RequestOK(r)
  BY <1>3, <1>4 DEF Init, RequestOK, NoOutput
<1> QED
  BY <1>5, <1>6, <1>7 DEF IInv, Rest

LEMMA Preserved == IInv /\ [Next]_vars => IInv'
<1> SUFFICES ASSUME Shape, Rest, [Next]_vars PROVE Shape' /\ Rest'
  BY DEF IInv
<1>1. CASE UNCHANGED vars
  BY <1>1, RowsMoved DEF vars, Shape
<1>2. ASSUME NEW h \in Handlers, HandlerStep(h) PROVE Shape' /\ Rest'
  <2>1. CASE \E r \in Requests : ClaimDispatch(h, r)
    BY <2>1, ClaimKeeps
  <2>2. CASE LoadRequest(h) \/ RefuseBeforeDispatch(h) \/ ClearRefused(h)
    BY <2>2, LoadKeeps, MovesKeeps, ClearRefusedKeeps
  <2>3. CASE LockBudget(h) \/ Reserve(h)
    BY <2>3, LockKeeps, ReserveKeeps
  <2>4. CASE CallProvider(h) \/ RecordAttempt(h) \/ Settle(h)
    BY <2>4, CallKeeps, RecordKeeps, SettleKeeps
  <2>5. CASE ClearSettled(h) \/ SettleJob(h) \/ ReconcileReplay(h)
    BY <2>5, MovesKeeps, SettleJobKeeps, ReplayKeeps
  <2>6. CASE ClearReplayed(h) \/ WorkerCrash(h)
    BY <2>6, EndsKeeps DEF ClearReplayed, WorkerCrash
  <2>7. CASE HandlerRaises(h)
    BY <2>7, RaiseKeeps
  <2> QED
    BY <1>2, <2>1, <2>2, <2>3, <2>4, <2>5, <2>6, <2>7 DEF HandlerStep
<1>3. ASSUME NEW r \in Requests,
             Enqueue(r) \/ ExhaustAbandonedJob(r) \/ ReconcileStale(r) \/ ClearExpired(r)
      PROVE  Shape' /\ Rest'
  BY <1>3, EnqueueKeeps, ExhaustKeeps, StaleKeeps, ExpiryKeeps
<1>4. ASSUME NEW r \in Requests, QuestionExpires(r) PROVE Shape' /\ Rest'
  BY <1>4, RowsMoved DEF QuestionExpires, Shape
<1> QED
  BY <1>1, <1>2, <1>3, <1>4 DEF Next

LEMMA Invariance == Spec => []IInv
BY Initially, Preserved, PTL DEF Spec

\* A request is executed at most once, for any number of workers, requests and
\* limits, however its job is delivered, taken over or retried: what process_execution
\* and reserve decide by the status of a row that the session does not refresh.
THEOREM ExecutedOnceCorrect == Spec => []ExecutedOnce
<1>1. IInv => ExecutedOnce
  BY DEF IInv, Rest, RequestOK, ExecutedOnce
<1> QED
  BY <1>1, Invariance, PTL

\* A job that succeeds has exactly one output, whether the attempt that executed
\* the request settles it or one that finds the request executed.
THEOREM OneOutputCorrect == Spec => []SuccessHasOneOutput
<1>1. IInv => SuccessHasOneOutput
  <2> SUFFICES ASSUME IInv, NEW r \in Requests, job[r].status = "succeeded"
               PROVE  Cardinality({n \in Attempts(r) : rows[r][n].output}) = 1
    BY DEF SuccessHasOneOutput
  <2>1. PICK w \in Attempts(r) : rows[r][w].output
    BY DEF IInv, Rest, RequestOK
  <2>2. \A n \in Attempts(r) : rows[r][n].output => n = w
    BY <2>1 DEF IInv, Rest, RequestOK
  <2>3. {n \in Attempts(r) : rows[r][n].output} = {w}
    BY <2>1, <2>2
  <2> QED
    BY <2>3, FS_Singleton
<1> QED
  BY <1>1, Invariance, PTL

-----------------------------------------------------------------------------
(* Sums.  What a fold computes is proved from the table of the sums over   *)
(* every set of indices: of the sets where something about it is false, if *)
(* any, take one with the fewest elements.                                 *)

\* A set of numbers that is not empty has a least one.
LEMMA HasLeast ==
    ASSUME NEW T \in SUBSET Nat, T # {}
    PROVE  \E n \in T : \A k \in T : n <= k
<1> DEFINE R == OpToRel(<, Nat)
<1>1. IsWellFoundedOn(R, Nat)
  BY NatLessThanWellFounded, Zenon
<1>2. \A x, y \in Nat : x < y => <<x, y>> \in R
  BY Zenon DEF OpToRel
<1> HIDE DEF R
<1>3. PICK n \in T : \A k \in T : <<k, n>> \notin R
  BY <1>1, WFMin
<1>4. n \in Nat /\ \A k \in T : k \in Nat /\ ~(k < n)
  BY <1>2, <1>3
<1> QED
  BY <1>3, <1>4

\* The element a sum takes first.
First(T) == CHOOSE x \in T : TRUE

\* A table of the sums over every set of indices, as the fold computes it.
IsTable(F, f, S) ==
    F = [T \in SUBSET S |-> IF T = {} THEN 0 ELSE f[First(T)] + F[T \ {First(T)}]]

LEMMA SumIsOfTable ==
    ASSUME NEW f
    PROVE  SumFunction(f) = (CHOOSE F : IsTable(F, f, DOMAIN f))[DOMAIN f]
  BY Zenon DEF SumFunction, SumFunctionOnSet, FoldFunctionOnSet, MapThenFoldSet, IsTable, First

LEMMA Firsts ==
    ASSUME NEW S, IsFiniteSet(S), NEW T \in SUBSET S, T # {}
    PROVE  /\ First(T) \in T /\ T \ {First(T)} \in SUBSET S
           /\ IsFiniteSet(T) /\ Cardinality(T) \in Nat
           /\ \A a \in T : Cardinality(T \ {a}) \in Nat /\ Cardinality(T \ {a}) < Cardinality(T)
<1>1. First(T) \in T
  BY DEF First
<1>2. IsFiniteSet(T) /\ Cardinality(T) \in Nat
  BY FS_Subset, FS_CardinalityType
<1>3. ASSUME NEW a \in T
      PROVE  Cardinality(T \ {a}) \in Nat /\ Cardinality(T \ {a}) < Cardinality(T)
  <2>1. IsFiniteSet(T \ {a}) /\ Cardinality(T \ {a}) = Cardinality(T) - 1
    BY <1>2, FS_RemoveElement
  <2>2. Cardinality(T \ {a}) \in Nat
    BY <2>1, FS_CardinalityType
  <2> QED
    BY <1>2, <2>1, <2>2
<1> QED
  BY <1>1, <1>2, <1>3

\* Of the sets of which something is true, one is of the least size.
LEMMA Smallest ==
    ASSUME NEW S, IsFiniteSet(S), NEW bad \in SUBSET SUBSET S, bad # {}
    PROVE  \E T \in bad : \A U \in SUBSET S : Cardinality(U) < Cardinality(T) => U \notin bad
<1> DEFINE sizes == {Cardinality(T) : T \in bad}
<1>1. \A T \in SUBSET S : Cardinality(T) \in Nat
  BY FS_Subset, FS_CardinalityType
<1>2. sizes \in SUBSET Nat /\ sizes # {}
  BY <1>1
<1>3. PICK n \in sizes : \A k \in sizes : n <= k
  <2> HIDE DEF sizes
  <2> QED
    BY <1>2, HasLeast
<1>4. PICK T \in bad : n = Cardinality(T)
  BY <1>3
<1>5. ASSUME NEW U \in SUBSET S, Cardinality(U) < Cardinality(T), U \in bad
      PROVE  FALSE
  BY <1>1, <1>3, <1>4, <1>5
<1> QED
  BY <1>4, <1>5

LEMMA TablesExist ==
    ASSUME NEW S, IsFiniteSet(S), NEW f \in [S -> Nat]
    PROVE  \E F \in [SUBSET S -> Nat] : IsTable(F, f, S)
<1> DEFINE step(F, T) == IF T = {} THEN 0 ELSE f[First(T)] + F[T \ {First(T)}]
           upTo(F, n) == \A T \in SUBSET S : Cardinality(T) <= n => F[T] = step(F, T)
           missing == {n \in Nat : ~ \E F \in [SUBSET S -> Nat] : upTo(F, n)}
<1>1. \A T \in SUBSET S : Cardinality(T) \in Nat /\ (Cardinality(T) = 0 <=> T = {})
  BY FS_Subset, FS_CardinalityType, FS_EmptySet
<1>2. missing = {}
  <2>1. SUFFICES ASSUME missing # {} PROVE FALSE
    OBVIOUS
  <2>2. PICK n \in missing : \A k \in missing : n <= k
    <3>1. missing \in SUBSET Nat
      OBVIOUS
    <3> HIDE DEF missing
    <3> QED
      BY <2>1, <3>1, HasLeast
  <2>3. n \in Nat /\ ~ \E F \in [SUBSET S -> Nat] : upTo(F, n)
    OBVIOUS
  <2>4. n # 0
    <3> DEFINE F == [T \in SUBSET S |-> 0]
    <3>1. F \in [SUBSET S -> Nat]
      OBVIOUS
    <3>2. upTo(F, 0)
      BY <1>1
    <3> QED
      BY <2>3, <3>1, <3>2, ZenonT(60)
  <2>5. PICK F \in [SUBSET S -> Nat] : upTo(F, n - 1)
    <3>1. n - 1 \in Nat /\ n - 1 \notin missing
      <4> HIDE DEF missing
      <4> QED
        BY <2>2, <2>3, <2>4
    <3> QED
      BY <3>1
  <2> DEFINE G == [T \in SUBSET S |-> step(F, T)]
  <2>6. G \in [SUBSET S -> Nat]
    <3>1. \A T \in SUBSET S : step(F, T) \in Nat
      BY Firsts
    <3> QED
      BY <3>1
  <2>7. ASSUME NEW T \in SUBSET S, Cardinality(T) <= n
        PROVE  G[T] = step(G, T)
    <3>1. CASE T = {}
      BY <3>1
    <3>2. CASE T # {}
      <4>1. T \ {First(T)} \in SUBSET S /\ Cardinality(T \ {First(T)}) <= n - 1
        BY <1>1, <2>3, <2>7, <3>2, Firsts
      <4>2. F[T \ {First(T)}] = step(F, T \ {First(T)})
        BY <2>5, <4>1
      <4>3. G[T \ {First(T)}] = F[T \ {First(T)}]
        BY <4>1, <4>2
      <4> QED
        BY <3>2, <4>3
    <3> QED
      BY <3>1, <3>2
  <2> QED
    BY <2>3, <2>6, <2>7
<1>3. PICK F \in [SUBSET S -> Nat] : upTo(F, Cardinality(S))
  <2>1. Cardinality(S) \in Nat /\ Cardinality(S) \notin missing
    BY <1>1, <1>2
  <2> QED
    BY <2>1
<1>4. \A T \in SUBSET S : Cardinality(T) <= Cardinality(S)
  BY FS_Subset
<1>5. \A T \in SUBSET S : F[T] = step(F, T)
  BY <1>3, <1>4
<1>6. F = [T \in SUBSET S |-> step(F, T)]
  BY <1>5
<1> QED
  BY <1>6 DEF IsTable

\* The table a sum is read from.
LEMMA HasTable ==
    ASSUME NEW S, IsFiniteSet(S), NEW f \in [S -> Nat]
    PROVE  \E F \in [SUBSET S -> Nat] : IsTable(F, f, S) /\ SumFunction(f) = F[S]
<1> DEFINE F == CHOOSE G : IsTable(G, f, S)
<1>1. IsTable(F, f, S)
  BY TablesExist
<1>2. PICK G \in [SUBSET S -> Nat] : IsTable(G, f, S)
  BY TablesExist
<1>3. SumFunction(f) = F[S]
  BY SumIsOfTable
<1> HIDE DEF F
<1>4. F = G
  <2> DEFINE bad == {T \in SUBSET S : F[T] # G[T]}
  <2>1. bad = {}
    <3>1. SUFFICES ASSUME bad # {} PROVE FALSE
      OBVIOUS
    <3>2. PICK T \in bad : \A U \in SUBSET S : Cardinality(U) < Cardinality(T) => U \notin bad
      <4>1. bad \in SUBSET SUBSET S
        OBVIOUS
      <4> HIDE DEF bad
      <4> QED
        BY <3>1, <4>1, Smallest
    <3>3. CASE T = {}
      BY <1>1, <1>2, <3>3 DEF IsTable
    <3>4. CASE T # {}
      <4>1. F[T \ {First(T)}] = G[T \ {First(T)}]
        BY <3>2, <3>4, Firsts
      <4> QED
        BY <1>1, <1>2, <3>4, <4>1 DEF IsTable
    <3> QED
      BY <3>3, <3>4
  <2> QED
    BY <1>1, <1>2, <2>1 DEF IsTable
<1> QED
  BY <1>2, <1>3, <1>4

\* In whatever order a sum is taken, it can be taken in another one.
LEMMA Peel ==
    ASSUME NEW S, IsFiniteSet(S), NEW f \in [S -> Nat], NEW F \in [SUBSET S -> Nat],
           IsTable(F, f, S)
    PROVE  \A T \in SUBSET S : \A a \in T : F[T] = f[a] + F[T \ {a}]
<1> DEFINE bad == {T \in SUBSET S : \E a \in T : F[T] # f[a] + F[T \ {a}]}
<1>1. SUFFICES ASSUME bad # {} PROVE FALSE
  OBVIOUS
<1>2. PICK T \in bad : \A U \in SUBSET S : Cardinality(U) < Cardinality(T) => U \notin bad
  <2>1. bad \in SUBSET SUBSET S
    OBVIOUS
  <2> HIDE DEF bad
  <2> QED
    BY <1>1, <2>1, Smallest
<1>3. PICK a \in T : F[T] # f[a] + F[T \ {a}]
  OBVIOUS
<1> DEFINE x == First(T)
<1>4. T \in SUBSET S /\ T # {} /\ x \in T
  BY <1>3, Firsts
<1>5. \A U \in SUBSET S : U # {} => F[U] = f[First(U)] + F[U \ {First(U)}]
  BY DEF IsTable
<1>6. a # x
  BY <1>3, <1>4, <1>5
<1>7. \A b \in T : T \ {b} \in SUBSET S /\ T \ {b} \notin bad
  <2>1. \A b \in T : T \ {b} \in SUBSET S /\ Cardinality(T \ {b}) < Cardinality(T)
    BY <1>4, Firsts
  <2> HIDE DEF bad
  <2> QED
    BY <1>2, <2>1
<1>8. F[T] = f[x] + F[T \ {x}]
  BY <1>4, <1>5
<1> HIDE DEF x
<1> DEFINE U == (T \ {x}) \ {a}
<1>9. U = (T \ {a}) \ {x} /\ U \in SUBSET S
  OBVIOUS
<1>10. F[T \ {x}] = f[a] + F[U] /\ F[T \ {a}] = f[x] + F[U]
  BY <1>4, <1>6, <1>7, <1>9
<1>11. f[a] \in Nat /\ f[x] \in Nat /\ F[U] \in Nat
  BY <1>4, <1>9
<1> HIDE DEF U
<1> QED
  BY <1>3, <1>8, <1>10, <1>11

\* Sums of what is nowhere more.
LEMMA Compare ==
    ASSUME NEW S, IsFiniteSet(S), NEW f \in [S -> Nat], NEW F \in [SUBSET S -> Nat],
           IsTable(F, f, S), NEW g \in [S -> Nat], NEW G \in [SUBSET S -> Nat],
           IsTable(G, g, S), NEW A \in SUBSET S, \A a \in A : f[a] <= g[a]
    PROVE  F[A] <= G[A]
<1> DEFINE bad == {T \in SUBSET A : ~(F[T] <= G[T])}
<1>1. SUFFICES ASSUME bad # {} PROVE FALSE
  OBVIOUS
<1>2. IsFiniteSet(A)
  BY FS_Subset
<1>3. PICK T \in bad : \A U \in SUBSET A : Cardinality(U) < Cardinality(T) => U \notin bad
  <2>1. bad \in SUBSET SUBSET A
    OBVIOUS
  <2> HIDE DEF bad
  <2> QED
    BY <1>1, <1>2, <2>1, Smallest
<1>4. CASE T = {}
  BY <1>3, <1>4 DEF IsTable
<1>5. CASE T # {}
  <2> DEFINE x == First(T)
  <2>1. x \in T /\ T \ {x} \in SUBSET A /\ T \ {x} \notin bad
    BY <1>2, <1>3, <1>5, Firsts
  <2>2. F[T] = f[x] + F[T \ {x}] /\ G[T] = g[x] + G[T \ {x}]
    BY <1>5 DEF IsTable
  <2> HIDE DEF x
  <2>3. f[x] \in Nat /\ g[x] \in Nat /\ F[T \ {x}] \in Nat /\ G[T \ {x}] \in Nat /\ f[x] <= g[x]
        /\ F[T \ {x}] <= G[T \ {x}]
    BY <2>1
  <2> QED
    BY <1>3, <2>2, <2>3
<1> QED
  BY <1>4, <1>5

-----------------------------------------------------------------------------
(* What is used of sums.                                                   *)

LEMMA SumType ==
    ASSUME NEW S, IsFiniteSet(S), NEW f \in [S -> Nat]
    PROVE  /\ SumFunction(f) \in Nat
           /\ \A a \in S : f[a] <= SumFunction(f)
<1>1. PICK F \in [SUBSET S -> Nat] : IsTable(F, f, S) /\ SumFunction(f) = F[S]
  BY HasTable
<1>2. ASSUME NEW a \in S
      PROVE  f[a] <= SumFunction(f)
  <2>1. F[S] = f[a] + F[S \ {a}]
    BY <1>1, Peel
  <2>2. f[a] \in Nat /\ F[S \ {a}] \in Nat
    OBVIOUS
  <2> QED
    BY <1>1, <2>1, <2>2
<1> QED
  BY <1>1, <1>2

LEMMA SumGrows ==
    ASSUME NEW S, IsFiniteSet(S), NEW f \in [S -> Nat], NEW g \in [S -> Nat],
           \A a \in S : f[a] <= g[a]
    PROVE  SumFunction(f) <= SumFunction(g)
<1>1. PICK F \in [SUBSET S -> Nat] : IsTable(F, f, S) /\ SumFunction(f) = F[S]
  BY HasTable
<1>2. PICK G \in [SUBSET S -> Nat] : IsTable(G, g, S) /\ SumFunction(g) = G[S]
  BY HasTable
<1> QED
  BY <1>1, <1>2, Compare, SMTT(30)

\* One number changes.
LEMMA SumChanges ==
    ASSUME NEW S, IsFiniteSet(S), NEW f \in [S -> Nat], NEW g \in [S -> Nat], NEW a \in S,
           \A b \in S \ {a} : g[b] <= f[b]
    PROVE  SumFunction(g) + f[a] <= SumFunction(f) + g[a]
<1>1. PICK F \in [SUBSET S -> Nat] : IsTable(F, f, S) /\ SumFunction(f) = F[S]
  BY HasTable
<1>2. PICK G \in [SUBSET S -> Nat] : IsTable(G, g, S) /\ SumFunction(g) = G[S]
  BY HasTable
<1>3. G[S \ {a}] <= F[S \ {a}]
  <2> DEFINE A == S \ {a}
  <2>1. A \in SUBSET S /\ \A b \in A : g[b] <= f[b]
    OBVIOUS
  <2> HIDE DEF A
  <2>2. G[A] <= F[A]
    BY <1>1, <1>2, <2>1, Compare
  <2> QED
    BY <2>2 DEF A
<1>4. F[S] = f[a] + F[S \ {a}] /\ G[S] = g[a] + G[S \ {a}]
  BY <1>1, <1>2, Peel
<1>5. f[a] \in Nat /\ g[a] \in Nat /\ F[S \ {a}] \in Nat /\ G[S \ {a}] \in Nat
  OBVIOUS
<1> QED
  BY <1>1, <1>2, <1>3, <1>4, <1>5

LEMMA SumOfNothing ==
    ASSUME NEW S, IsFiniteSet(S), NEW f \in [S -> Nat], \A a \in S : f[a] = 0
    PROVE  SumFunction(f) = 0
<1>1. PICK F \in [SUBSET S -> Nat] : IsTable(F, f, S) /\ SumFunction(f) = F[S]
  BY HasTable
<1>2. SumFunction(f) \in Nat
  BY SumType
<1> DEFINE bad == {T \in SUBSET S : F[T] # 0}
<1>3. bad = {}
  <2>1. SUFFICES ASSUME bad # {} PROVE FALSE
    OBVIOUS
  <2>2. PICK T \in bad : \A U \in SUBSET S : Cardinality(U) < Cardinality(T) => U \notin bad
    <3>1. bad \in SUBSET SUBSET S
      OBVIOUS
    <3> HIDE DEF bad
    <3> QED
      BY <2>1, <3>1, Smallest
  <2>3. CASE T = {}
    BY <1>1, <2>3 DEF IsTable
  <2>4. CASE T # {}
    <3>1. First(T) \in S /\ F[T \ {First(T)}] = 0
      BY <2>2, <2>4, Firsts
    <3>2. F[T] = f[First(T)] + F[T \ {First(T)}]
      BY <1>1, <2>4 DEF IsTable
    <3> QED
      BY <3>1, <3>2
  <2> QED
    BY <2>3, <2>4
<1> QED
  BY <1>1, <1>3

-----------------------------------------------------------------------------
(* Money.  A request whose dispatches are not over may still be charged up *)
(* to its reservation; once they are, what it was charged is known.  The   *)
(* sum of these liabilities is what must stay within the budget, and what  *)
(* the month's recorded spend covers when the next request is reserved.    *)

\* The dispatch loop is not over.
Dispatches(x) == x.phase \in {"calling", "repeating"}

\* What the request may still be charged by the end of its execution.
LiabilityOf(hs, bl) ==
    [r \in Requests |-> IF \E h \in Handlers : Dispatches(hs[h]) /\ hs[h].request = r
                        THEN Reservation(r) ELSE bl[r]]
Owed(hs, bl) == SumFunction(LiabilityOf(hs, bl))

\* What is recorded, what the provider is known to charge for each dispatch, and
\* what will be recorded when the rows that are left are settled.
CostsOf(rs, r) == [n \in Attempts(r) |-> rs[r][n].cost]
Charged(x) == [n \in Attempts(x.request) |-> IF n <= Len(x.usage) THEN x.usage[n] ELSE 0]
ToCome(x, rs) ==
    [n \in Attempts(x.request) |-> IF n \in x.pending THEN x.usage[n] ELSE rs[x.request][n].cost]

\* While an execution has not settled its first row, that row has the reservation
\* and the bill is within what it knows to be charged.
Paying(x, rs, bl) ==
    LET r == x.request IN
    /\ Dispatches(x) => /\ rs[r][1].cost = Reservation(r)
                        /\ bl[r] <= Len(x.usage)
                        /\ bl[r] <= SumFunction(Charged(x))
    /\ x.phase = "settling" => /\ rs[r][1].cost = Reservation(r)
                               /\ bl[r] <= SumFunction(ToCome(x, rs))

\* What is recorded covers the bill, which stays within the reservation.
Covered(rs, bl, ex) ==
    \A r \in Requests : /\ bl[r] <= Reservation(r)
                        /\ ex[r] = 0 => bl[r] = 0
                        /\ bl[r] <= SumFunction(CostsOf(rs, r))

\* Nobody comes to owe more while the settings row is locked.
ReservingOK(x, owed) == x.phase = "reserving" => x.spent \in Nat /\ owed <= x.spent

MoneyInv ==
    /\ billed \in [Requests -> Nat]
    /\ Covered(rows, billed, executions)
    /\ \A h \in Handlers : Paying(handlers[h], rows, billed)
    /\ \A h \in Handlers : ReservingOK(handlers[h], Owed(handlers, billed))
    /\ \A h, k \in Handlers :
         handlers[h].phase = "reserving" /\ handlers[k].phase = "reserving" => h = k
    /\ Owed(handlers, billed) <= Budget

\* No retry falls back to a model that is dearer than the one that was routed
\* first, by which the reservation is computed.
NoDearerRetry == \A r \in Requests : RetryCost[r] <= 1

LEMMA AttemptsFinite ==
    ASSUME NEW r \in Requests
    PROVE  IsFiniteSet(Attempts(r))
BY Limits, FS_Interval

LEMMA CostsType ==
    ASSUME NEW r \in Requests, NEW rs, rs[r] \in [Attempts(r) -> Row]
    PROVE  /\ CostsOf(rs, r) \in [Attempts(r) -> Nat]
           /\ SumFunction(CostsOf(rs, r)) \in Nat
           /\ \A n \in Attempts(r) : rs[r][n].cost \in Nat /\ rs[r][n].cost <= SumFunction(CostsOf(rs, r))
<1>1. \A n \in Attempts(r) : rs[r][n].cost \in Nat
  BY DEF Row
<1>2. CostsOf(rs, r) \in [Attempts(r) -> Nat]
  BY <1>1 DEF CostsOf
<1>3. SumFunction(CostsOf(rs, r)) \in Nat
      /\ \A n \in Attempts(r) : CostsOf(rs, r)[n] <= SumFunction(CostsOf(rs, r))
  BY <1>2, AttemptsFinite, SumType
<1>4. \A n \in Attempts(r) : CostsOf(rs, r)[n] = rs[r][n].cost
  BY DEF CostsOf
<1> QED
  BY <1>1, <1>2, <1>3, <1>4

\* The liabilities of a state that money is kept in.
LEMMA LiabilityType ==
    ASSUME NEW hs, NEW bl \in [Requests -> Nat]
    PROVE  /\ LiabilityOf(hs, bl) \in [Requests -> Nat]
           /\ Owed(hs, bl) \in Nat
<1>1. \A r \in Requests : Reservation(r) \in Nat
  BY Limits
<1>2. LiabilityOf(hs, bl) \in [Requests -> Nat]
  BY <1>1 DEF LiabilityOf
<1> QED
  BY <1>2, RequestsAssumption, SumType DEF Owed

\* Nothing more is owed when no request begins to be dispatched, and one is
\* charged for within what it was reserved.
LEMMA OwedFalls ==
    ASSUME NEW hs, NEW hs2, NEW bl \in [Requests -> Nat], NEW bl2 \in [Requests -> Nat],
           \A r \in Requests : bl[r] <= Reservation(r),
           \A k \in Handlers : Dispatches(hs2[k]) =>
              Dispatches(hs[k]) /\ hs2[k].request = hs[k].request,
           \A r \in Requests :
              \/ bl2[r] = bl[r]
              \/ /\ bl2[r] <= Reservation(r)
                 /\ \E k \in Handlers : Dispatches(hs[k]) /\ hs[k].request = r
    PROVE  Owed(hs2, bl2) <= Owed(hs, bl)
<1>1. \A r \in Requests : LiabilityOf(hs2, bl2)[r] <= LiabilityOf(hs, bl)[r]
  <2> SUFFICES ASSUME NEW r \in Requests
               PROVE  LiabilityOf(hs2, bl2)[r] <= LiabilityOf(hs, bl)[r]
    OBVIOUS
  <2>1. Reservation(r) \in Nat /\ bl[r] \in Nat /\ bl2[r] \in Nat
    BY Limits
  <2>2. CASE \E k \in Handlers : Dispatches(hs2[k]) /\ hs2[k].request = r
    <3>1. \E k \in Handlers : Dispatches(hs[k]) /\ hs[k].request = r
      BY <2>2
    <3> QED
      BY <2>1, <2>2, <3>1 DEF LiabilityOf
  <2>3. CASE ~ \E k \in Handlers : Dispatches(hs2[k]) /\ hs2[k].request = r
    BY <2>1, <2>3 DEF LiabilityOf
  <2> QED
    BY <2>2, <2>3
<1> QED
  BY <1>1, LiabilityType, RequestsAssumption, SumGrows DEF Owed

\* What a handler pays does not depend on more than this.
LEMMA PayingKept ==
    ASSUME NEW x, x.request \in Requests, NEW rs, NEW rs2, NEW bl, NEW bl2, Paying(x, rs, bl),
           bl2[x.request] = bl[x.request],
           \A n \in Attempts(x.request) : rs2[x.request][n].cost = rs[x.request][n].cost
    PROVE  Paying(x, rs2, bl2)
<1>1. rs2[x.request][1].cost = rs[x.request][1].cost
  BY Limits
<1>2. ToCome(x, rs2) = ToCome(x, rs)
  BY DEF ToCome
<1> QED
  BY <1>1, <1>2 DEF Paying

Pays(x) == x.phase \in {"calling", "repeating", "settling"}
Quiet(x) == ~Pays(x) /\ x.phase # "reserving"

LEMMA QuietPays == ASSUME NEW x, ~Pays(x), NEW rs, NEW bl PROVE Paying(x, rs, bl) /\ ~Dispatches(x)
BY DEF Pays, Paying, Dispatches

\* Steps that charge nothing and record no cost, and in which handlers only
\* turn to what is not about money.
LEMMA QuietStep ==
    ASSUME Shape, MoneyInv,
           \A k \in Handlers : handlers'[k] = handlers[k] \/ Quiet(handlers'[k]),
           \A r \in Requests : \A n \in Attempts(r) : rows'[r][n].cost = rows[r][n].cost,
           UNCHANGED <<billed, executions>>
    PROVE  MoneyInv'
<1>1. billed' \in [Requests -> Nat]
  BY DEF MoneyInv
<1>2. Covered(rows', billed', executions')
  <2>1. \A r \in Requests : CostsOf(rows', r) = CostsOf(rows, r)
    BY DEF CostsOf
  <2> QED
    BY <2>1 DEF MoneyInv, Covered
<1>3. ASSUME NEW k \in Handlers PROVE Paying(handlers'[k], rows', billed')
  <2>1. CASE handlers'[k] = handlers[k]
    <3>1. handlers[k].request \in Requests /\ Paying(handlers[k], rows, billed)
      BY HandlerTypes DEF MoneyInv, Of
    <3> QED
      BY <2>1, <3>1, PayingKept
  <2>2. CASE Quiet(handlers'[k])
    BY <2>2, QuietPays DEF Quiet
  <2> QED
    BY <2>1, <2>2
<1>4. Owed(handlers', billed') <= Owed(handlers, billed)
  <2>1. \A k \in Handlers : Dispatches(handlers'[k]) =>
           Dispatches(handlers[k]) /\ handlers'[k].request = handlers[k].request
    BY DEF Quiet, Pays, Dispatches
  <2>2. /\ billed \in [Requests -> Nat] /\ billed' \in [Requests -> Nat]
        /\ \A r \in Requests : billed[r] <= Reservation(r) /\ billed'[r] = billed[r]
    BY DEF MoneyInv, Covered
  <2> QED
    BY <2>1, <2>2, OwedFalls
<1>5. Owed(handlers', billed') \in Nat /\ Owed(handlers, billed) \in Nat /\ Budget \in Nat
  BY <1>1, LiabilityType, CountsAssumption DEF MoneyInv
<1>6. \A k \in Handlers : ReservingOK(handlers'[k], Owed(handlers', billed'))
  <2> SUFFICES ASSUME NEW k \in Handlers, handlers'[k].phase = "reserving"
               PROVE  /\ handlers'[k].spent \in Nat
                      /\ Owed(handlers', billed') <= handlers'[k].spent
    BY DEF ReservingOK
  <2>1. handlers'[k] = handlers[k]
    BY DEF Quiet
  <2>2. handlers[k].spent \in Nat /\ Owed(handlers, billed) <= handlers[k].spent
    BY <2>1 DEF MoneyInv, ReservingOK
  <2> QED
    BY <1>4, <1>5, <2>1, <2>2
<1>7. \A k, l \in Handlers :
        handlers'[k].phase = "reserving" /\ handlers'[l].phase = "reserving" => k = l
  BY DEF MoneyInv, Quiet
<1>8. Owed(handlers', billed') <= Budget
  BY <1>4, <1>5 DEF MoneyInv
<1> QED
  BY <1>1, <1>2, <1>3, <1>6, <1>7, <1>8 DEF MoneyInv

\* Steps of the handler that executes a request.
LEMMA PayingStep ==
    ASSUME Shape, Rest, MoneyInv, NEW h \in Handlers, Pays(handlers[h]),
           NEW r, r = Of(h),
           \A k \in Handlers \ {h} : handlers'[k] = handlers[k],
           Pays(handlers'[h]) => handlers'[h].request = r,
           Dispatches(handlers'[h]) => Dispatches(handlers[h]),
           handlers'[h].phase # "reserving",
           executions' = executions,
           \A s \in Requests \ {r} : rows'[s] = rows[s] /\ billed'[s] = billed[s],
           billed' \in [Requests -> Nat],
           billed'[r] <= Reservation(r),
           billed'[r] <= SumFunction(CostsOf(rows', r)),
           billed'[r] = billed[r] \/ Dispatches(handlers[h]),
           Paying(handlers'[h], rows', billed')
    PROVE  MoneyInv'
<1>1. r \in Requests /\ executions[r] # 0 /\ Executes(h)
  BY HandlerTypes DEF Rest, HandlerOK, Executes, Pays
<1>2. Covered(rows', billed', executions')
  <2> SUFFICES ASSUME NEW s \in Requests
               PROVE  /\ billed'[s] <= Reservation(s)
                      /\ executions'[s] = 0 => billed'[s] = 0
                      /\ billed'[s] <= SumFunction(CostsOf(rows', s))
    BY DEF Covered
  <2>1. CASE s = r
    BY <1>1, <2>1
  <2>2. CASE s # r
    <3>1. rows'[s] = rows[s] /\ billed'[s] = billed[s] /\ CostsOf(rows', s) = CostsOf(rows, s)
      BY <2>2 DEF CostsOf
    <3> QED
      BY <3>1 DEF MoneyInv, Covered
  <2> QED
    BY <2>1, <2>2
<1>3. ASSUME NEW k \in Handlers PROVE Paying(handlers'[k], rows', billed')
  <2>1. CASE k = h
    BY <2>1
  <2>2. CASE k # h /\ Pays(handlers[k])
    <3>1. Executes(k) /\ Of(k) # r /\ Of(k) \in Requests
      BY <1>1, <2>2, HandlerTypes DEF Rest, OneExecutor, Executes, Pays
    <3>2. handlers'[k] = handlers[k] /\ Paying(handlers[k], rows, billed)
      BY <2>2 DEF MoneyInv
    <3> QED
      BY <3>1, <3>2, PayingKept DEF Of
  <2>3. CASE k # h /\ ~Pays(handlers[k])
    BY <2>3, QuietPays
  <2> QED
    BY <2>1, <2>2, <2>3
<1>4. Owed(handlers', billed') <= Owed(handlers, billed)
  <2>1. \A k \in Handlers : Dispatches(handlers'[k]) =>
           Dispatches(handlers[k]) /\ handlers'[k].request = handlers[k].request
    BY DEF Pays, Dispatches, Of
  <2>2. /\ billed \in [Requests -> Nat]
        /\ \A s \in Requests : billed[s] <= Reservation(s)
    BY DEF MoneyInv, Covered
  <2>3. \A s \in Requests :
          \/ billed'[s] = billed[s]
          \/ /\ billed'[s] <= Reservation(s)
             /\ \E k \in Handlers : Dispatches(handlers[k]) /\ handlers[k].request = s
    BY DEF Of
  <2> QED
    BY <2>1, <2>2, <2>3, OwedFalls
<1>5. Owed(handlers', billed') \in Nat /\ Owed(handlers, billed) \in Nat /\ Budget \in Nat
  BY LiabilityType, CountsAssumption DEF MoneyInv
<1>6. \A k \in Handlers : ReservingOK(handlers'[k], Owed(handlers', billed'))
  <2> SUFFICES ASSUME NEW k \in Handlers, handlers'[k].phase = "reserving"
               PROVE  /\ handlers'[k].spent \in Nat
                      /\ Owed(handlers', billed') <= handlers'[k].spent
    BY DEF ReservingOK
  <2>1. handlers'[k] = handlers[k]
    OBVIOUS
  <2>2. handlers[k].spent \in Nat /\ Owed(handlers, billed) <= handlers[k].spent
    BY <2>1 DEF MoneyInv, ReservingOK
  <2> QED
    BY <1>4, <1>5, <2>1, <2>2
<1>7. \A k, l \in Handlers :
        handlers'[k].phase = "reserving" /\ handlers'[l].phase = "reserving" => k = l
  BY DEF MoneyInv
<1>8. Owed(handlers', billed') <= Budget
  BY <1>4, <1>5 DEF MoneyInv
<1> QED
  BY <1>2, <1>3, <1>6, <1>7, <1>8 DEF MoneyInv

\* The month's spend covers what is still owed.
LEMMA SpentCovers ==
    ASSUME Shape, MoneyInv
    PROVE  Spent \in Nat /\ Owed(handlers, billed) <= Spent
<1> DEFINE costs == [r \in Requests |-> Cost(r)]
<1>1. \A r \in Requests : /\ Cost(r) = SumFunction(CostsOf(rows, r)) /\ Cost(r) \in Nat
                          /\ rows[r][1].cost <= Cost(r)
  BY CostsType, Limits DEF Shape, Cost, CostsOf
<1>2. costs \in [Requests -> Nat] /\ Spent = SumFunction(costs)
  BY <1>1 DEF Spent
<1>3. \A r \in Requests : LiabilityOf(handlers, billed)[r] <= costs[r]
  <2> SUFFICES ASSUME NEW r \in Requests
               PROVE  LiabilityOf(handlers, billed)[r] <= Cost(r)
    OBVIOUS
  <2>1. CASE \E k \in Handlers : Dispatches(handlers[k]) /\ handlers[k].request = r
    <3>1. rows[r][1].cost = Reservation(r)
      BY <2>1 DEF MoneyInv, Paying
    <3> QED
      BY <1>1, <2>1, <3>1 DEF LiabilityOf
  <2>2. CASE ~ \E k \in Handlers : Dispatches(handlers[k]) /\ handlers[k].request = r
    BY <1>1, <2>2 DEF LiabilityOf, MoneyInv, Covered
  <2> QED
    BY <2>1, <2>2
<1>4. billed \in [Requests -> Nat]
  BY DEF MoneyInv
<1> HIDE DEF costs
<1>5. LiabilityOf(handlers, billed) \in [Requests -> Nat]
  BY <1>4, LiabilityType
<1>6. SumFunction(LiabilityOf(handlers, billed)) <= SumFunction(costs)
  BY <1>2, <1>3, <1>5, RequestsAssumption, SumGrows
<1> QED
  BY <1>2, <1>6, RequestsAssumption, SumType DEF Owed

\* The settings row is locked: the one spend that was read is not outdated.
LEMMA LockMoney ==
    ASSUME Shape, MoneyInv, NEW h \in Handlers, LockBudget(h)
    PROVE  MoneyInv'
<1> DEFINE Locked == [handlers[h] EXCEPT !.phase = "reserving", !.spent = Spent]
<1>1. Shaped(handlers[h]) /\ UNCHANGED <<rows, billed, executions>>
  BY HandlerTypes DEF LockBudget, EndsStale
<1>2. CASE BudgetFree /\ handlers' = [handlers EXCEPT ![h].phase = "reserving", ![h].spent = Spent]
  <2>1. handlers' = [handlers EXCEPT ![h] = Locked]
    BY <1>2
  <2>2. Shaped(Locked) /\ Locked.phase = "reserving" /\ Locked.spent = Spent
    BY <1>1 DEF Shaped, Phase
  <2> HIDE DEF Locked
  <2>3. handlers'[h] = Locked /\ \A k \in Handlers \ {h} : handlers'[k] = handlers[k]
    BY <2>1, <2>2, HandlerMoves
  <2>4. ~Pays(handlers'[h]) /\ handlers'[h].phase = "reserving" /\ handlers'[h].spent = Spent
    BY <2>2, <2>3 DEF Pays
  <2>5. \A k \in Handlers : Paying(handlers'[k], rows', billed')
    BY <1>1, <2>3, <2>4, QuietPays DEF MoneyInv
  <2>6. Owed(handlers', billed') <= Owed(handlers, billed)
    <3>1. \A k \in Handlers : Dispatches(handlers'[k]) =>
             Dispatches(handlers[k]) /\ handlers'[k].request = handlers[k].request
      BY <2>3, <2>4 DEF Pays, Dispatches
    <3>2. /\ billed \in [Requests -> Nat] /\ billed' \in [Requests -> Nat]
          /\ \A r \in Requests : billed[r] <= Reservation(r) /\ billed'[r] = billed[r]
      BY <1>1 DEF MoneyInv, Covered
    <3> QED
      BY <3>1, <3>2, OwedFalls
  <2>7. /\ Owed(handlers', billed') \in Nat /\ Owed(handlers, billed) \in Nat /\ Budget \in Nat
        /\ billed' \in [Requests -> Nat]
    BY <1>1, LiabilityType, CountsAssumption DEF MoneyInv
  <2>8. \A k \in Handlers \ {h} : handlers'[k].phase # "reserving"
    BY <1>2, <2>3 DEF BudgetFree
  <2>9. \A k \in Handlers : ReservingOK(handlers'[k], Owed(handlers', billed'))
    BY <2>4, <2>6, <2>7, <2>8, SpentCovers DEF ReservingOK
  <2>10. Owed(handlers', billed') <= Budget
    BY <2>6, <2>7 DEF MoneyInv
  <2>11. Covered(rows', billed', executions')
    BY <1>1 DEF MoneyInv
  <2> QED
    BY <2>5, <2>7, <2>8, <2>9, <2>10, <2>11 DEF MoneyInv
<1>3. CASE Moves(h, "replaying")
  <2>1. \A k \in Handlers : handlers'[k] = handlers[k] \/ handlers'[k].phase = "replaying"
    BY <1>1, <1>3 DEF Moves, Shape, Shaped
  <2> QED
    BY <1>1, <2>1, QuietStep DEF Quiet, Pays
<1>4. CASE Ends(h)
  <2>1. \A k \in Handlers : handlers'[k] = handlers[k] \/ handlers'[k].phase = "idle"
    BY <1>4, HandlerEnds
  <2> QED
    BY <1>1, <2>1, QuietStep DEF Quiet, Pays
<1> QED
  BY <1>2, <1>3, <1>4 DEF LockBudget, EndsStale

LEMMA ReserveMoney ==
    ASSUME Shape, Rest, MoneyInv, NEW h \in Handlers, Reserve(h)
    PROVE  MoneyInv'
<1> DEFINE r == Of(h)
           row == [rows[r][1] EXCEPT !.status = "running", !.cost = Reservation(r)]
           handler == [handlers[h] EXCEPT
                         !.phase = "calling", !.seen = "running", !.spent = 0,
                         !.try = 1, !.repairs = Repairs[r], !.last = 1]
<1>1. /\ handlers[h].phase = "reserving" /\ r \in Requests /\ Shaped(handlers[h])
      /\ BeforeOK(h) /\ billed' = billed
  BY HandlerTypes DEF Reserve, Rest, HandlerOK
<1>2. executions[r] = 0 /\ handlers[h].usage = << >>
  BY <1>1 DEF BeforeOK
<1>3. CASE handlers[h].spent + Reservation(r) > Budget
  <2>1. Moves(h, "refused") /\ UNCHANGED <<rows, executions>>
    BY <1>3 DEF Reserve
  <2>2. \A k \in Handlers : handlers'[k] = handlers[k] \/ handlers'[k].phase = "refused"
    BY <1>1, <2>1 DEF Moves, Shape, Shaped
  <2> QED
    BY <1>1, <2>1, <2>2, QuietStep DEF Quiet, Pays
<1>4. CASE ~(handlers[h].spent + Reservation(r) > Budget)
  <2>0. /\ rows' = [rows EXCEPT ![r][1].status = "running", ![r][1].cost = Reservation(r)]
        /\ handlers' = [handlers EXCEPT
                           ![h].phase = "calling", ![h].seen = "running", ![h].spent = 0,
                           ![h].try = 1, ![h].repairs = Repairs[r], ![h].last = 1]
        /\ executions' = [executions EXCEPT ![r] = @ + 1]
    BY <1>4 DEF Reserve
  <2>1. 1 \in Attempts(r) /\ rows[r] \in [Attempts(r) -> Row] /\ rows[r][1] \in Row
        /\ Reservation(r) \in Nat
    BY <1>1, Limits DEF Shape
  <2>2. row \in Row /\ row.cost = Reservation(r)
    BY <1>1, <2>1 DEF Row, Status
  <2>3. rows' = [rows EXCEPT ![r][1] = row]
    BY <1>1, <2>0, <2>1 DEF Shape, Row
  <2>4. handlers' = [handlers EXCEPT ![h] = handler]
    BY <2>0
  <2>5. /\ Shaped(handler) /\ handler.phase = "calling" /\ handler.request = r
        /\ handler.usage = << >>
    BY <1>1, <1>2, Limits DEF Shaped, Phase, Status, Of
  <2> HIDE DEF row, handler
  <2>6. /\ \A s \in Requests : rows'[s] \in [Attempts(s) -> Row]
        /\ rows'[r][1] = row /\ \A s \in Requests \ {r} : rows'[s] = rows[s]
    BY <1>1, <2>1, <2>2, <2>3, RowUpdate
  <2>7. handlers'[h] = handler /\ \A k \in Handlers \ {h} : handlers'[k] = handlers[k]
    BY <2>4, <2>5, HandlerMoves
  <2>8. \A s \in Requests \ {r} : executions'[s] = executions[s]
    BY <2>0 DEF Shape
  <2>9. billed \in [Requests -> Nat] /\ billed[r] = 0
    BY <1>1, <1>2 DEF MoneyInv, Covered
  <2>10. Covered(rows', billed', executions')
    <3> SUFFICES ASSUME NEW s \in Requests
                 PROVE  /\ billed[s] <= Reservation(s)
                        /\ executions'[s] = 0 => billed[s] = 0
                        /\ billed[s] <= SumFunction(CostsOf(rows', s))
      BY <1>1 DEF Covered
    <3>1. CASE s = r
      BY <2>1, <2>6, <2>9, <3>1, CostsType
    <3>2. CASE s # r
      <4>1. CostsOf(rows', s) = CostsOf(rows, s)
        BY <2>6, <3>2 DEF CostsOf
      <4> QED
        BY <2>8, <3>2, <4>1 DEF MoneyInv, Covered
    <3> QED
      BY <3>1, <3>2
  <2>11. \A k \in Handlers : Pays(handlers[k]) => Of(k) # r
    BY <1>2 DEF Rest, HandlerOK, Executes, Pays
  <2>12. ASSUME NEW k \in Handlers PROVE Paying(handlers'[k], rows', billed')
    <3>1. CASE k = h
      <4>0. Len(handler.usage) = 0
        BY <2>5
      <4>1. Charged(handler) \in [Attempts(r) -> Nat]
        <5>1. \A n \in Attempts(r) : ~(n <= Len(handler.usage))
          BY <1>1, <4>0, Limits
        <5>2. Charged(handler) = [n \in Attempts(r) |-> 0]
          BY <2>5, <5>1 DEF Charged
        <5> QED
          BY <5>2
      <4>2. SumFunction(Charged(handler)) \in Nat
        BY <1>1, <4>1, AttemptsFinite, SumType
      <4>4. rows'[r][1].cost = Reservation(r) /\ billed'[r] = 0
        BY <1>1, <2>2, <2>6, <2>9
      <4> QED
        BY <2>5, <2>7, <3>1, <4>0, <4>2, <4>4 DEF Paying
    <3>2. CASE k # h /\ Pays(handlers[k])
      <4>1. Of(k) # r /\ Of(k) \in Requests
        BY <2>11, <3>2, HandlerTypes
      <4>2. handlers'[k] = handlers[k] /\ Paying(handlers[k], rows, billed)
        BY <2>7, <3>2 DEF MoneyInv
      <4> QED
        BY <1>1, <2>6, <4>1, <4>2, PayingKept DEF Of
    <3>3. CASE k # h /\ ~Pays(handlers[k])
      BY <2>7, <3>3, QuietPays
    <3> QED
      BY <3>1, <3>2, <3>3
  <2>13. Owed(handlers', billed') <= Owed(handlers, billed) + Reservation(r)
    <3> DEFINE old == LiabilityOf(handlers, billed)
               new == LiabilityOf(handlers', billed')
    <3>1. old \in [Requests -> Nat] /\ new \in [Requests -> Nat]
      BY <1>1, <2>9, LiabilityType
    <3>2. old[r] = 0
      BY <1>1, <2>9, <2>11 DEF LiabilityOf, Of, Dispatches, Pays
    <3>3. new[r] = Reservation(r)
      BY <1>1, <2>5, <2>7 DEF LiabilityOf, Dispatches
    <3>4. \A s \in Requests \ {r} : new[s] <= old[s]
      <4> SUFFICES ASSUME NEW s \in Requests \ {r} PROVE new[s] = old[s] /\ old[s] \in Nat
        OBVIOUS
      <4>1. \A k \in Handlers : Dispatches(handlers'[k]) /\ handlers'[k].request = s
                                <=> Dispatches(handlers[k]) /\ handlers[k].request = s
        BY <1>1, <2>5, <2>7 DEF Of
      <4> QED
        BY <1>1, <3>1, <4>1 DEF LiabilityOf
    <3> HIDE DEF old, new
    <3>5. SumFunction(new) + old[r] <= SumFunction(old) + new[r]
      BY <1>1, <3>1, <3>4, RequestsAssumption, SumChanges
    <3>6. SumFunction(new) \in Nat /\ SumFunction(old) \in Nat
      BY <3>1, RequestsAssumption, SumType
    <3>7. SumFunction(new) <= SumFunction(old) + Reservation(r)
      BY <2>1, <3>2, <3>3, <3>5, <3>6
    <3> QED
      BY <3>7 DEF Owed, old, new
  <2>14. Owed(handlers, billed) <= handlers[h].spent /\ handlers[h].spent \in Nat
    BY <1>1 DEF MoneyInv, ReservingOK
  <2>15. Owed(handlers', billed') \in Nat /\ Owed(handlers, billed) \in Nat /\ Budget \in Nat
    BY <1>1, <2>9, LiabilityType, CountsAssumption
  <2>16. Owed(handlers', billed') <= Budget
    BY <1>4, <2>1, <2>13, <2>14, <2>15
  <2>17. \A k \in Handlers : handlers'[k].phase # "reserving"
    BY <1>1, <2>5, <2>7 DEF MoneyInv
  <2> QED
    BY <1>1, <2>9, <2>10, <2>12, <2>16, <2>17 DEF MoneyInv, ReservingOK
<1> QED
  BY <1>3, <1>4

\* A dispatch is charged for, or not.
LEMMA ChargeStep ==
    ASSUME Shape, Rest, MoneyInv, NEW h \in Handlers, handlers[h].phase = "calling",
           NEW price \in {0, 1},
           handlers'[h].request = Of(h),
           handlers'[h].usage = Append(handlers[h].usage, price),
           \/ handlers'[h].phase = "repeating"
           \/ handlers'[h].phase = "settling" /\ handlers'[h].pending = 1..handlers[h].last,
           \A k \in Handlers \ {h} : handlers'[k] = handlers[k],
           billed' = [billed EXCEPT ![Of(h)] = @ + price],
           UNCHANGED <<rows, executions>>
    PROVE  MoneyInv'
<1> DEFINE r == Of(h)
           L == handlers[h].last
           before == Charged(handlers[h])
           after == Charged(handlers'[h])
<1>1. /\ r \in Requests /\ handlers[h].usage \in Seq(Nat) /\ DispatchingOK(h)
      /\ Paying(handlers[h], rows, billed) /\ handlers[h].request = r
      /\ rows[r] \in [Attempts(r) -> Row]
  BY HandlerTypes DEF Rest, HandlerOK, MoneyInv, Shaped, Shape, Of
<1>2. L \in Attempts(r) /\ Len(handlers[h].usage) = L - 1
  BY <1>1 DEF DispatchingOK
<1>3. L \in Nat /\ L >= 1 /\ L <= Reservation(r) /\ Reservation(r) \in Nat
  BY <1>1, <1>2, Limits
<1>4. /\ Len(handlers'[h].usage) = L /\ handlers'[h].usage[L] = price
      /\ \A n \in 1..(L - 1) : handlers'[h].usage[n] = handlers[h].usage[n]
      /\ \A n \in 1..(L - 1) : handlers[h].usage[n] \in Nat
  <2>1. ASSUME NEW u \in Seq(Nat), Len(u) = L - 1
        PROVE  /\ Len(Append(u, price)) = L /\ Append(u, price)[L] = price
               /\ \A n \in 1..(L - 1) : Append(u, price)[n] = u[n]
               /\ \A n \in 1..(L - 1) : u[n] \in Nat
    <3> HIDE DEF L
    <3> QED
      BY <1>3, <2>1
  <2> QED
    BY <1>1, <1>2, <2>1
<1>5. billed[r] <= L - 1 /\ billed[r] <= SumFunction(before) /\ rows[r][1].cost = Reservation(r)
  BY <1>1, <1>2 DEF Paying, Dispatches
<1>6. /\ billed \in [Requests -> Nat] /\ billed[r] \in Nat /\ billed'[r] = billed[r] + price
      /\ billed' \in [Requests -> Nat] /\ \A s \in Requests \ {r} : billed'[s] = billed[s]
  BY <1>1 DEF MoneyInv
<1>7. /\ before \in [Attempts(r) -> Nat] /\ after \in [Attempts(r) -> Nat]
      /\ before[L] = 0 /\ after[L] = price
      /\ \A n \in Attempts(r) \ {L} : before[n] = after[n]
      /\ \A n \in Attempts(r) : n > L => after[n] = 0
      /\ \A n \in 1..L : after[n] = handlers'[h].usage[n]
  <2>1. before = [n \in Attempts(r) |-> IF n <= L - 1 THEN handlers[h].usage[n] ELSE 0]
    BY <1>1, <1>2 DEF Charged
  <2>2. after = [n \in Attempts(r) |-> IF n <= L THEN handlers'[h].usage[n] ELSE 0]
    BY <1>4 DEF Charged
  <2>3. Attempts(r) = 1..Reservation(r)
    BY DEF Attempts
  <2> HIDE DEF before, after, L, r
  <2> QED
    BY <1>2, <1>3, <1>4, <2>1, <2>2, <2>3
<1>8. billed'[r] <= SumFunction(after)
  <2> HIDE DEF before, after
  <2>1. SumFunction(before) + after[L] <= SumFunction(after) + before[L]
    <3>1. \A n \in Attempts(r) \ {L} : before[n] <= after[n]
      BY <1>7
    <3> QED
      BY <1>1, <1>2, <1>7, <3>1, AttemptsFinite, SumChanges
  <2>2. SumFunction(before) \in Nat /\ SumFunction(after) \in Nat
    BY <1>1, <1>7, AttemptsFinite, SumType
  <2> QED
    BY <1>5, <1>6, <1>7, <2>1, <2>2
<1>9. billed'[r] <= L /\ billed'[r] <= Reservation(r)
  BY <1>3, <1>5, <1>6
<1>10. billed'[r] <= SumFunction(CostsOf(rows', r))
  <2>1. /\ SumFunction(CostsOf(rows, r)) \in Nat
        /\ rows[r][1].cost <= SumFunction(CostsOf(rows, r))
    BY <1>1, CostsType, Limits
  <2> QED
    BY <1>3, <1>5, <1>6, <1>9, <2>1
<1>11. Paying(handlers'[h], rows', billed')
  <2>1. CASE handlers'[h].phase = "repeating"
    BY <1>4, <1>5, <1>8, <1>9, <2>1 DEF Paying, Dispatches
  <2>2. CASE handlers'[h].phase = "settling" /\ handlers'[h].pending = 1..L
    <3> DEFINE coming == ToCome(handlers'[h], rows')
    <3>1. coming = [n \in Attempts(r) |-> IF n \in 1..L THEN handlers'[h].usage[n]
                                          ELSE rows[r][n].cost]
      BY <2>2 DEF ToCome
    <3>2. \A n \in Attempts(r) : rows[r][n].cost \in Nat
      BY <1>1, CostsType
    <3>3. coming \in [Attempts(r) -> Nat] /\ \A n \in Attempts(r) : after[n] <= coming[n]
      <4>1. \A n \in Attempts(r) : n \in Nat /\ (n \in 1..L \/ n > L)
        BY <1>3 DEF Attempts
      <4>2. ASSUME NEW n \in Attempts(r) PROVE coming[n] \in Nat /\ after[n] <= coming[n]
        <5>1. after[n] \in Nat
          BY <1>7
        <5>2. CASE n \in 1..L
          <6>1. coming[n] = handlers'[h].usage[n] /\ after[n] = handlers'[h].usage[n]
            BY <1>7, <3>1, <5>2
          <6>2. coming[n] = after[n]
            BY <6>1
          <6>3. \A v \in Nat : v <= v
            OBVIOUS
          <6> HIDE DEF coming, after
          <6> QED
            BY <5>1, <6>2, <6>3
        <5>3. CASE n \notin 1..L
          <6>1. coming[n] = rows[r][n].cost /\ after[n] = 0
            BY <1>7, <3>1, <4>1, <5>3
          <6> QED
            BY <3>2, <6>1
        <5> QED
          BY <5>2, <5>3
      <4> QED
        BY <3>1, <4>2
    <3> HIDE DEF coming, after
    <3>4. SumFunction(after) <= SumFunction(coming)
      BY <1>1, <1>7, <3>3, AttemptsFinite, SumGrows
    <3>5. SumFunction(after) \in Nat /\ SumFunction(coming) \in Nat
      BY <1>1, <1>7, <3>3, AttemptsFinite, SumType
    <3>6. billed'[r] <= SumFunction(coming)
      BY <1>6, <1>8, <3>4, <3>5
    <3>7. rows'[r][1].cost = Reservation(r)
      BY <1>5
    <3> QED
      BY <2>2, <3>6, <3>7 DEF Paying, Dispatches, coming
  <2> QED
    BY <2>1, <2>2
<1> HIDE DEF before, after
<1> QED
  BY <1>1, <1>6, <1>9, <1>10, <1>11, PayingStep DEF Pays, Dispatches

LEMMA CallMoney ==
    ASSUME NoDearerRetry, Shape, Rest, MoneyInv, NEW h \in Handlers, CallProvider(h)
    PROVE  MoneyInv'
<1> DEFINE r == Of(h)
           L == handlers[h].last
           Leads(price) ==
              /\ billed' = [billed EXCEPT ![r] = @ + price]
              /\ handlers'[h].request = r
              /\ handlers'[h].usage = Append(handlers[h].usage, price)
              /\ \/ handlers'[h].phase = "repeating"
                 \/ handlers'[h].phase = "settling" /\ handlers'[h].pending = 1..L
              /\ \A k \in Handlers \ {h} : handlers'[k] = handlers[k]
<1>1. /\ handlers[h].phase = "calling" /\ UNCHANGED <<rows, executions>> /\ r \in Requests
      /\ Shaped(handlers[h]) /\ handlers[h].request = r /\ h \in DOMAIN handlers
      /\ DOMAIN handlers = Handlers
  BY HandlerTypes DEF CallProvider, Of, Shape
<1>2. Price(h) \in {0, 1}
  <2>1. RetryCost[r] \in Nat /\ RetryCost[r] <= 1
    BY <1>1, CountsAssumption DEF NoDearerRetry
  <2> QED
    BY <2>1 DEF Price
<1>3. ASSUME NEW usage, NEW winner, Finishes(h, usage, winner)
      PROVE  /\ handlers'[h].request = r /\ handlers'[h].usage = usage
             /\ handlers'[h].phase = "settling" /\ handlers'[h].pending = 1..L
             /\ \A k \in Handlers \ {h} : handlers'[k] = handlers[k]
  BY <1>1, <1>3 DEF Finishes, Shaped
<1>4. ASSUME NEW usage, MakesRepair(h, usage)
      PROVE  /\ handlers'[h].request = r /\ handlers'[h].usage = usage
             /\ handlers'[h].phase = "repeating"
             /\ \A k \in Handlers \ {h} : handlers'[k] = handlers[k]
  BY <1>1, <1>4 DEF MakesRepair, Shaped
<1>5. ASSUME NEW usage, NEW excluded, TriesAgain(h, usage, excluded)
      PROVE  /\ handlers'[h].request = r /\ handlers'[h].usage = usage
             /\ \/ handlers'[h].phase = "repeating"
                \/ handlers'[h].phase = "settling" /\ handlers'[h].pending = 1..L
             /\ \A k \in Handlers \ {h} : handlers'[k] = handlers[k]
  <2>1. CASE handlers[h].try >= MaxTries[r]
    BY <1>3, <1>5, <2>1 DEF TriesAgain
  <2>2. CASE ~(handlers[h].try >= MaxTries[r])
    BY <1>1, <1>5, <2>2 DEF TriesAgain, Shaped
  <2> QED
    BY <2>1, <2>2
<1>6. Leads(Price(h)) \/ Leads(0)
  BY <1>3, <1>4, <1>5 DEF CallProvider
<1>7. \A price \in {0, 1} : Leads(price) => MoneyInv'
  <2> SUFFICES ASSUME NEW price \in {0, 1}, Leads(price) PROVE MoneyInv'
    OBVIOUS
  <2> QED
    BY <1>1, ChargeStep
<1> HIDE DEF Leads
<1> QED
  BY <1>2, <1>6, <1>7

\* The next row has no cost until it is settled.
LEMMA RecordMoney ==
    ASSUME Shape, Rest, MoneyInv, NEW h \in Handlers, RecordAttempt(h)
    PROVE  MoneyInv'
<1> DEFINE r == Of(h)
           n == handlers[h].last + 1
           row == [rows[r][n] EXCEPT !.status = "running"]
           handler == [handlers[h] EXCEPT !.phase = "calling", !.last = n]
<1>1. /\ handlers[h].phase = "repeating" /\ r \in Requests /\ Shaped(handlers[h])
      /\ DispatchingOK(h) /\ billed' = billed /\ handlers[h].request = r
      /\ Paying(handlers[h], rows, billed)
  BY HandlerTypes DEF RecordAttempt, Rest, HandlerOK, Of, MoneyInv
<1>2. CASE Ends(h) /\ UNCHANGED <<rows, executions>>
  <2>1. \A k \in Handlers : handlers'[k] = handlers[k] \/ handlers'[k].phase = "idle"
    BY <1>2, HandlerEnds
  <2> QED
    BY <1>1, <1>2, <2>1, QuietStep DEF Quiet, Pays
<1>3. CASE /\ rows' = [rows EXCEPT ![r][n].status = "running"]
           /\ handlers' = [handlers EXCEPT ![h].phase = "calling", ![h].last = n]
           /\ UNCHANGED executions
  <2>1. n \in Attempts(r) /\ n \in Nat
    BY <1>1, Limits, SMTT(30) DEF DispatchingOK, Attempts, Shaped
  <2>2. rows[r][n] \in Row
    BY <1>1, <2>1 DEF Shape
  <2>3. row \in Row /\ row.cost = rows[r][n].cost
    BY <2>2 DEF Row, Status
  <2>4. rows' = [rows EXCEPT ![r][n] = row]
    BY <1>1, <1>3, <2>1 DEF Shape
  <2>5. handlers' = [handlers EXCEPT ![h] = handler]
    BY <1>3
  <2>6. /\ Shaped(handler) /\ handler.phase = "calling" /\ handler.request = r
        /\ handler.usage = handlers[h].usage
    BY <1>1, <2>1 DEF Shaped, Phase
  <2> HIDE DEF row, handler
  <2>7. /\ rows'[r][n] = row /\ \A m \in Attempts(r) \ {n} : rows'[r][m] = rows[r][m]
        /\ \A s \in Requests \ {r} : rows'[s] = rows[s]
    BY <1>1, <2>1, <2>3, <2>4, RowUpdate, ZenonT(60)
  <2>8. handlers'[h] = handler /\ \A k \in Handlers \ {h} : handlers'[k] = handlers[k]
    BY <2>5, <2>6, HandlerMoves
  <2>9. \A m \in Attempts(r) : rows'[r][m].cost = rows[r][m].cost
    BY <2>3, <2>7
  <2>10. CostsOf(rows', r) = CostsOf(rows, r) /\ rows'[r][1].cost = rows[r][1].cost
    BY <1>1, <2>9, Limits DEF CostsOf
  <2>11. Charged(handler) = Charged(handlers[h])
    BY <1>1, <2>6 DEF Charged
  <2>12. Paying(handlers'[h], rows', billed')
    BY <1>1, <2>6, <2>8, <2>10, <2>11 DEF Paying, Dispatches
  <2>13. billed' \in [Requests -> Nat] /\ billed'[r] <= Reservation(r)
         /\ billed'[r] <= SumFunction(CostsOf(rows', r))
    BY <1>1, <2>10 DEF MoneyInv, Covered
  <2> QED
    BY <1>1, <1>3, <2>6, <2>7, <2>8, <2>12, <2>13, PayingStep DEF Pays, Dispatches
<1> QED
  BY <1>2, <1>3 DEF RecordAttempt, EndsStale

\* What ends an attempt, by an exception or a crash: a call that it made may be
\* charged all the same.
LEMMA EndsMoney ==
    ASSUME NoDearerRetry, Shape, Rest, MoneyInv, NEW h \in Handlers, Ends(h), MayBeCharged(h),
           UNCHANGED <<rows, executions>>
    PROVE  MoneyInv'
<1> DEFINE r == Of(h)
<1>1. /\ r \in Requests /\ Shaped(handlers[h]) /\ handlers[h].request = r
      /\ rows[r] \in [Attempts(r) -> Row]
  BY HandlerTypes DEF Of, Shape
<1>2. handlers'[h].phase = "idle" /\ \A k \in Handlers \ {h} : handlers'[k] = handlers[k]
  BY HandlerEnds
<1>3. CASE handlers[h].phase = "calling"
  <2>1. RetryCost[r] \in Nat /\ RetryCost[r] <= 1
    BY <1>1, CountsAssumption DEF NoDearerRetry
  <2>2. PICK price \in {0, 1} : billed' = [billed EXCEPT ![r] = @ + price]
    BY <1>3, <2>1 DEF MayBeCharged, Price
  <2>3. /\ billed \in [Requests -> Nat] /\ billed[r] \in Nat /\ billed'[r] = billed[r] + price
        /\ billed' \in [Requests -> Nat] /\ \A s \in Requests \ {r} : billed'[s] = billed[s]
    BY <1>1, <2>2 DEF MoneyInv
  <2>4. billed[r] <= handlers[h].last - 1 /\ rows[r][1].cost = Reservation(r)
        /\ handlers[h].last \in Attempts(r)
    <3>1. Paying(handlers[h], rows, billed) /\ DispatchingOK(h)
      BY DEF MoneyInv, Rest, HandlerOK
    <3> QED
      BY <1>1, <1>3, <3>1 DEF Paying, DispatchingOK, Dispatches
  <2>5. billed'[r] <= Reservation(r)
    BY <1>1, <2>3, <2>4, Limits
  <2>6. billed'[r] <= SumFunction(CostsOf(rows', r))
    <3>1. /\ SumFunction(CostsOf(rows, r)) \in Nat /\ Reservation(r) \in Nat
          /\ rows[r][1].cost <= SumFunction(CostsOf(rows, r))
      BY <1>1, CostsType, Limits
    <3> QED
      BY <2>3, <2>4, <2>5, <3>1
  <2>7. ~Pays(handlers'[h]) /\ handlers'[h].phase # "reserving" /\ Dispatches(handlers[h])
        /\ Pays(handlers[h])
    BY <1>2, <1>3 DEF Pays, Dispatches
  <2>8. Paying(handlers'[h], rows', billed') /\ ~Dispatches(handlers'[h])
    BY <2>7, QuietPays
  <2> QED
    BY <1>2, <2>3, <2>5, <2>6, <2>7, <2>8, PayingStep
<1>4. CASE handlers[h].phase # "calling"
  BY <1>2, <1>4, QuietStep DEF MayBeCharged, Quiet, Pays
<1> QED
  BY <1>3, <1>4

\* What a row gets is what was to come for it, and the reservation is replaced
\* when nothing else is left.
LEMMA SettleMoney ==
    ASSUME Shape, Rest, MoneyInv, NEW h \in Handlers, Settle(h)
    PROVE  MoneyInv'
<1> DEFINE r == Of(h)
           w == handlers[h].winner
           usage == handlers[h].usage
           pending == handlers[h].pending
           n == NextToSettle(pending)
           left == pending \ {n}
           status == IF w = n THEN "succeeded" ELSE "failed"
           row == [status |-> status, output |-> w = n, cost |-> usage[n]]
           handler == [handlers[h] EXCEPT
                         !.pending = left, !.usage = [usage EXCEPT ![n] = 0],
                         !.seen = IF n = 1 THEN status ELSE @,
                         !.phase = IF left = {} THEN "settled" ELSE @]
<1>1. /\ handlers[h].phase = "settling" /\ r \in Requests /\ Shaped(handlers[h])
      /\ SettlingOK(h) /\ handlers[h].request = r /\ billed' = billed
      /\ Paying(handlers[h], rows, billed) /\ rows[r] \in [Attempts(r) -> Row]
  BY HandlerTypes DEF Settle, Rest, HandlerOK, MoneyInv, Of, Shape
<1>2. CASE Ends(h) /\ UNCHANGED <<rows, executions>>
  <2>1. \A k \in Handlers : handlers'[k] = handlers[k] \/ handlers'[k].phase = "idle"
    BY <1>2, HandlerEnds
  <2> QED
    BY <1>1, <1>2, <2>1, QuietStep DEF Quiet, Pays
<1>3. CASE /\ rows' = IF n = 1 \/ rows[r][n].status = "running"
                      THEN [rows EXCEPT ![r][n] = row] ELSE rows
           /\ handlers' = [handlers EXCEPT ![h] = handler]
           /\ UNCHANGED executions
  <2> DEFINE L == Len(usage)
  <2>1. /\ L \in Attempts(r) /\ usage \in Seq(Nat)
        /\ \E m \in 2..(L + 1) : pending = {1} \union (m..L)
        /\ \A k \in pending \ {1} : rows[r][k].status = "running"
    BY <1>1 DEF SettlingOK, Shaped
  <2>2. L \in Nat /\ L >= 1 /\ \A k \in 1..L : k \in Attempts(r)
    BY <1>1, <2>1, Limits
  <2>3. n \in pending /\ n \in 1..L /\ (n = 1 <=> left = {})
    <3>1. PICK m \in 2..(L + 1) : pending = {1} \union (m..L)
      BY <2>1
    <3> HIDE DEF L, pending
    <3> QED
      BY <2>2, <3>1, NextRow
  <2>4. n \in Attempts(r) /\ usage[n] \in Nat /\ pending \in SUBSET Nat /\ 1 \in pending
    <3>1. pending \in SUBSET Nat /\ 1 \in pending
      BY <1>1, <2>1 DEF Shaped
    <3> HIDE DEF n, usage, pending
    <3> QED
      BY <2>1, <2>2, <2>3, <3>1, ElementOfSeq
  <2>5. row \in Row /\ row.cost = usage[n]
    <3>1. status \in Status /\ (w = n) \in BOOLEAN
      BY DEF Status
    <3> HIDE DEF status, n, w, usage
    <3> QED
      BY <2>4, <3>1 DEF Row
  <2>6. rows' = [rows EXCEPT ![r][n] = row]
    <3>1. n = 1 \/ rows[r][n].status = "running"
      BY <2>1, <2>3
    <3> QED
      BY <1>3, <3>1
  <2>7. /\ handler.request = r /\ handler.pending = left
        /\ handler.usage = [usage EXCEPT ![n] = 0]
        /\ handler.phase = IF left = {} THEN "settled" ELSE "settling"
    BY <1>1 DEF Shaped
  <2>8. handlers'[h] = handler /\ \A k \in Handlers \ {h} : handlers'[k] = handlers[k]
    BY <1>3 DEF Shape
  <2> HIDE DEF row, handler
  <2>9. /\ rows'[r][n] = row /\ \A m \in Attempts(r) \ {n} : rows'[r][m] = rows[r][m]
        /\ \A s \in Requests \ {r} : rows'[s] = rows[s]
        /\ rows'[r] \in [Attempts(r) -> Row]
    BY <1>1, <2>4, <2>5, <2>6, RowUpdate, ZenonT(60)
  <2>10. /\ rows[r][1].cost = Reservation(r) /\ billed[r] <= Reservation(r)
         /\ billed[r] <= SumFunction(ToCome(handlers[h], rows))
         /\ billed \in [Requests -> Nat] /\ billed[r] \in Nat /\ Reservation(r) \in Nat
    BY <1>1, Limits DEF Paying, Dispatches, MoneyInv, Covered
  <2>11. ~Dispatches(handlers'[h]) /\ handlers'[h].phase # "reserving" /\ Pays(handlers[h])
    BY <1>1, <2>7, <2>8 DEF Dispatches, Pays
  <2>12. CASE n = 1
    <3>1. ~Pays(handlers'[h])
      BY <2>3, <2>7, <2>8, <2>12 DEF Pays
    <3>2. pending = {1}
      <4> HIDE DEF n, pending
      <4> QED
        BY <2>3, <2>4, <2>12
    <3>3. CostsOf(rows', r) = ToCome(handlers[h], rows)
      <4>1. \A m \in Attempts(r) :
              rows'[r][m].cost = IF m \in pending THEN usage[m] ELSE rows[r][m].cost
        <5> HIDE DEF n, pending, usage
        <5> QED
          BY <2>5, <2>9, <2>12, <3>2
      <4> QED
        BY <1>1, <4>1 DEF CostsOf, ToCome
    <3>4. Paying(handlers'[h], rows', billed')
      BY <3>1, QuietPays
    <3> QED
      BY <1>1, <1>3, <2>8, <2>9, <2>10, <2>11, <3>1, <3>3, <3>4, PayingStep
  <2>13. CASE n # 1
    <3>1. rows'[r][1].cost = Reservation(r) /\ 1 \in Attempts(r)
      BY <1>1, <2>9, <2>10, <2>13, Limits
    <3>2. billed[r] <= SumFunction(CostsOf(rows', r))
      <4>1. /\ SumFunction(CostsOf(rows', r)) \in Nat
            /\ rows'[r][1].cost <= SumFunction(CostsOf(rows', r))
        BY <1>1, <2>9, <3>1, CostsType
      <4> QED
        BY <2>10, <3>1, <4>1
    <3>3. handlers'[h].phase = "settling" /\ handlers'[h].request = r
      BY <2>3, <2>7, <2>8, <2>13
    <3>4. ToCome(handlers'[h], rows') = ToCome(handlers[h], rows)
      <4>1. \A m \in Attempts(r) :
              (IF m \in left THEN handler.usage[m] ELSE rows'[r][m].cost)
              = IF m \in pending THEN usage[m] ELSE rows[r][m].cost
        <5>1. \A m \in pending \ {n} : handler.usage[m] = usage[m]
          <6>1. DOMAIN usage = 1..L /\ pending \subseteq 1..L
            BY <2>1, <2>2
          <6> HIDE DEF n, pending, usage
          <6> QED
            BY <2>7, <6>1
        <5> HIDE DEF n, pending, usage
        <5> QED
          BY <2>3, <2>5, <2>9, <5>1
      <4>2. ToCome(handlers'[h], rows') =
              [m \in Attempts(r) |-> IF m \in left THEN handler.usage[m] ELSE rows'[r][m].cost]
        BY <2>7, <2>8 DEF ToCome
      <4>3. ToCome(handlers[h], rows) =
              [m \in Attempts(r) |-> IF m \in pending THEN usage[m] ELSE rows[r][m].cost]
        BY <1>1 DEF ToCome
      <4> HIDE DEF n, pending, usage, left
      <4> QED
        BY <4>1, <4>2, <4>3
    <3>5. Paying(handlers'[h], rows', billed')
      BY <1>1, <2>10, <3>1, <3>3, <3>4 DEF Paying, Dispatches
    <3> QED
      BY <1>1, <1>3, <2>8, <2>9, <2>10, <2>11, <3>2, <3>3, <3>5, PayingStep
  <2> QED
    BY <2>12, <2>13
<1> QED
  BY <1>2, <1>3 DEF Settle, EndsStale

LEMMA StatusCosts ==
    ASSUME Shape, NEW r \in Requests, NEW n \in Attempts(r), NEW status,
           rows' = [rows EXCEPT ![r][n].status = status]
    PROVE  \A s \in Requests : \A m \in Attempts(s) : rows'[s][m].cost = rows[s][m].cost
<1> DEFINE row == [rows[r][n] EXCEPT !.status = status]
           own == [rows[r] EXCEPT ![n] = row]
<1>1. rows[r] \in [Attempts(r) -> Row] /\ rows[r][n] \in Row /\ DOMAIN rows = Requests
  BY DEF Shape
<1>2. row.cost = rows[r][n].cost
  BY <1>1 DEF Row
<1>3. rows' = [rows EXCEPT ![r] = own]
  OBVIOUS
<1> HIDE DEF row
<1>4. \A m \in Attempts(r) : own[m].cost = rows[r][m].cost
  BY <1>1, <1>2
<1> HIDE DEF own
<1> QED
  BY <1>1, <1>3, <1>4

\* The other steps of a handler: it takes no part in what is paid afterwards.
LEMMA OtherMoney ==
    ASSUME Shape, MoneyInv, NEW h \in Handlers,
           \/ \E r \in Requests : ClaimDispatch(h, r)
           \/ LoadRequest(h) \/ RefuseBeforeDispatch(h) \/ ClearRefused(h)
           \/ ClearSettled(h) \/ SettleJob(h) \/ ReconcileReplay(h) \/ ClearReplayed(h)
    PROVE  MoneyInv'
<1>1. Shaped(handlers[h]) /\ Of(h) \in Requests /\ DOMAIN handlers = Handlers
  BY HandlerTypes DEF Shape
<1>2. UNCHANGED <<billed, executions>>
  BY DEF ClaimDispatch, LoadRequest, RefuseBeforeDispatch, ClearRefused, ClearSettled, SettleJob,
         ReconcileReplay, ClearReplayed, EndsStale
<1>3. \A r \in Requests : \A n \in Attempts(r) : rows'[r][n].cost = rows[r][n].cost
  <2>1. CASE ClearRefused(h)
    <3>1. \/ rows' = rows
          \/ rows' = [rows EXCEPT ![Of(h)][1].status = "failed"]
      BY <2>1 DEF ClearRefused
    <3>2. 1 \in Attempts(Of(h)) /\ "failed" \in Status
      BY <1>1, Limits DEF Status
    <3>3. rows' = [rows EXCEPT ![Of(h)][1].status = "failed"] =>
            \A r \in Requests : \A n \in Attempts(r) : rows'[r][n].cost = rows[r][n].cost
      BY <1>1, <3>2, StatusCosts
    <3> QED
      BY <3>1, <3>3
  <2>2. CASE rows' = rows
    BY <2>2
  <2> QED
    BY <2>1, <2>2 DEF ClaimDispatch, LoadRequest, RefuseBeforeDispatch, ClearSettled, SettleJob,
                      ReconcileReplay, ClearReplayed, EndsStale
<1>4. ASSUME NEW phase, Moves(h, phase), phase \in {"refused", "closing", "replayed"}
      PROVE  \A k \in Handlers : handlers'[k] = handlers[k] \/ Quiet(handlers'[k])
  BY <1>1, <1>4 DEF Moves, Shaped, Quiet, Pays
<1>5. ASSUME Ends(h) PROVE \A k \in Handlers : handlers'[k] = handlers[k] \/ Quiet(handlers'[k])
  BY <1>5, HandlerEnds DEF Quiet, Pays
<1>6. ASSUME NEW r \in Requests, ClaimDispatch(h, r)
      PROVE  \A k \in Handlers : handlers'[k] = handlers[k] \/ Quiet(handlers'[k])
  <2> DEFINE handler == [Idle(r) EXCEPT !.phase = "claimed", !.own = job'[r].owner]
  <2>1. handlers' = [handlers EXCEPT ![h] = handler]
    BY <1>6 DEF ClaimDispatch
  <2>2. handler.phase = "claimed"
    BY DEF Idle
  <2> HIDE DEF handler
  <2> QED
    BY <1>1, <2>1, <2>2 DEF Quiet, Pays
<1>7. ASSUME LoadRequest(h)
      PROVE  \A k \in Handlers : handlers'[k] = handlers[k] \/ Quiet(handlers'[k])
  <2> DEFINE phase == IF Of(h) \in Asks /\ question[Of(h)] # "held"
                      THEN "refused" ELSE "preparing"
             handler == [handlers[h] EXCEPT !.seen = rows[Of(h)][1].status, !.phase = phase]
  <2>1. handlers' = [handlers EXCEPT ![h] = handler]
    BY <1>7 DEF LoadRequest
  <2>2. handler.phase \in {"refused", "preparing"}
    BY <1>1 DEF Shaped
  <2> HIDE DEF handler
  <2> QED
    BY <1>1, <2>1, <2>2 DEF Quiet, Pays
<1>8. \A k \in Handlers : handlers'[k] = handlers[k] \/ Quiet(handlers'[k])
  BY <1>4, <1>5, <1>6, <1>7
     DEF RefuseBeforeDispatch, ClearRefused, ClearSettled, SettleJob, ReconcileReplay,
         ClearReplayed, EndsStale
<1> QED
  BY <1>2, <1>3, <1>8, QuietStep

LEMMA RequestMoney ==
    ASSUME Shape, MoneyInv, NEW r \in Requests,
           \/ Enqueue(r) \/ ExhaustAbandonedJob(r)
           \/ ReconcileStale(r) \/ QuestionExpires(r) \/ ClearExpired(r)
    PROVE  MoneyInv'
<1>1. UNCHANGED <<handlers, billed, executions>>
  BY DEF Enqueue, ExhaustAbandonedJob, ReconcileStale, QuestionExpires, ClearExpired
<1>2. 1 \in Attempts(r) /\ DOMAIN rows = Requests
      /\ \A s \in Requests : rows[s] \in [Attempts(s) -> Row]
  BY Limits DEF Shape
<1>3. \A s \in Requests : \A n \in Attempts(s) : rows'[s][n].cost = rows[s][n].cost
  <2>1. ASSUME NEW status, rows' = [rows EXCEPT ![r][1].status = status]
        PROVE  \A s \in Requests : \A n \in Attempts(s) : rows'[s][n].cost = rows[s][n].cost
    BY <1>2, <2>1 DEF Row
  <2>2. ASSUME ReconcileStale(r)
        PROVE  \A s \in Requests : \A n \in Attempts(s) : rows'[s][n].cost = rows[s][n].cost
    <3>1. PICK upto \in Attempts(r) :
                 rows' = [rows EXCEPT ![r] = [n \in Attempts(r) |->
                            IF n <= upto /\ @[n].status = "running"
                            THEN [@[n] EXCEPT !.status = "failed"] ELSE @[n]]]
      BY <2>2 DEF ReconcileStale
    <3>2. \A n \in Attempts(r) : rows'[r][n] = IF n <= upto /\ rows[r][n].status = "running"
                                               THEN [rows[r][n] EXCEPT !.status = "failed"]
                                               ELSE rows[r][n]
      BY <1>2, <3>1
    <3>3. ASSUME NEW n \in Attempts(r) PROVE rows'[r][n].cost = rows[r][n].cost
      <4>1. rows[r][n] \in Row
        BY <1>2
      <4>2. [rows[r][n] EXCEPT !.status = "failed"].cost = rows[r][n].cost
        BY <4>1 DEF Row
      <4> QED
        BY <3>2, <4>2
    <3>4. \A s \in Requests \ {r} : rows'[s] = rows[s]
      BY <1>2, <3>1
    <3> QED
      BY <3>3, <3>4
  <2>3. CASE rows' = rows
    BY <2>3
  <2> QED
    BY <2>1, <2>2, <2>3 DEF Enqueue, ExhaustAbandonedJob, QuestionExpires, ClearExpired
<1> QED
  BY <1>1, <1>3, QuietStep

MInv == IInv /\ MoneyInv

LEMMA MoneyInitially == Init => MoneyInv
<1> SUFFICES ASSUME Init PROVE MoneyInv
  OBVIOUS
<1>1. Shape
  BY Initially DEF IInv
<1>2. billed \in [Requests -> Nat] /\ \A r \in Requests : billed[r] = 0
  BY DEF Init
<1>3. \A h \in Handlers : handlers[h].phase = "idle"
  BY RequestsAssumption, IdleShape DEF Init, AnyRequest
<1>4. Covered(rows, billed, executions)
  <2>1. \A r \in Requests : SumFunction(CostsOf(rows, r)) \in Nat /\ Reservation(r) \in Nat
    BY <1>1, CostsType, Limits DEF Shape
  <2> QED
    BY <1>2, <2>1 DEF Covered
<1>5. \A h \in Handlers : Paying(handlers[h], rows, billed) /\ ~Dispatches(handlers[h])
  BY <1>3, QuietPays DEF Pays
<1>6. Owed(handlers, billed) <= Budget
  <2> DEFINE zero == [r \in Requests |-> 0]
  <2>1. LiabilityOf(handlers, billed) = zero
    BY <1>2, <1>5 DEF LiabilityOf
  <2>2. zero \in [Requests -> Nat] /\ \A r \in Requests : zero[r] = 0
    OBVIOUS
  <2> HIDE DEF zero
  <2>3. SumFunction(zero) = 0
    BY <2>2, RequestsAssumption, SumOfNothing
  <2> QED
    BY <2>1, <2>3, CountsAssumption DEF Owed
<1> QED
  BY <1>2, <1>3, <1>4, <1>5, <1>6 DEF MoneyInv, ReservingOK

LEMMA MoneyPreserved == NoDearerRetry /\ MInv /\ [Next]_vars => MInv'
<1> SUFFICES ASSUME NoDearerRetry, IInv, Shape, Rest, MoneyInv, [Next]_vars PROVE MInv'
  BY DEF MInv, IInv
<1>1. IInv'
  BY Preserved
<1>2. ASSUME UNCHANGED vars PROVE MoneyInv'
  <2>1. handlers' = handlers /\ rows' = rows /\ UNCHANGED <<billed, executions>>
    BY <1>2 DEF vars
  <2>2. \A k \in Handlers : handlers'[k] = handlers[k]
    BY <2>1
  <2>3. \A r \in Requests : \A n \in Attempts(r) : rows'[r][n].cost = rows[r][n].cost
    BY <2>1
  <2> QED
    BY <2>1, <2>2, <2>3, QuietStep
<1>3. ASSUME NEW h \in Handlers, HandlerStep(h) PROVE MoneyInv'
  <2>1. CASE \/ \E r \in Requests : ClaimDispatch(h, r)
             \/ LoadRequest(h) \/ RefuseBeforeDispatch(h) \/ ClearRefused(h)
             \/ ClearSettled(h) \/ SettleJob(h) \/ ReconcileReplay(h) \/ ClearReplayed(h)
    BY <2>1, OtherMoney
  <2>2. CASE LockBudget(h) \/ Reserve(h)
    BY <2>2, LockMoney, ReserveMoney
  <2>3. CASE CallProvider(h) \/ RecordAttempt(h) \/ Settle(h)
    BY <2>3, CallMoney, RecordMoney, SettleMoney
  <2>4. CASE HandlerRaises(h) \/ WorkerCrash(h)
    BY <2>4, EndsMoney DEF HandlerRaises, WorkerCrash
  <2> QED
    BY <1>3, <2>1, <2>2, <2>3, <2>4 DEF HandlerStep
<1>4. ASSUME NEW r \in Requests,
             \/ Enqueue(r) \/ ExhaustAbandonedJob(r)
             \/ ReconcileStale(r) \/ QuestionExpires(r) \/ ClearExpired(r)
      PROVE  MoneyInv'
  BY <1>4, RequestMoney
<1>5. MoneyInv'
  BY <1>2, <1>3, <1>4 DEF Next
<1> QED
  BY <1>1, <1>5 DEF MInv

LEMMA MoneyInvariance == NoDearerRetry => (Spec => []MInv)
<1> SUFFICES ASSUME NoDearerRetry PROVE Spec => []MInv
  OBVIOUS
<1>1. Init => MInv
  BY Initially, MoneyInitially DEF MInv
<1>2. MInv /\ [Next]_vars => MInv'
  BY MoneyPreserved
<1> QED
  BY <1>1, <1>2, PTL DEF Spec

\* While no retry falls back to a dearer model, what is recorded of a request
\* covers what its provider charges, at every moment and for any number of
\* workers, tries and crashes: reserve and settle of ai/persistence.
THEOREM SpendCovers == NoDearerRetry => (Spec => []SpendCoversBilled)
<1> SUFFICES ASSUME NoDearerRetry PROVE Spec => []SpendCoversBilled
  OBVIOUS
<1>1. MInv => SpendCoversBilled
  <2> SUFFICES ASSUME MInv, NEW r \in Requests PROVE Cost(r) >= billed[r]
    BY DEF SpendCoversBilled
  <2>1. Cost(r) = SumFunction(CostsOf(rows, r)) /\ SumFunction(CostsOf(rows, r)) \in Nat
    BY CostsType DEF MInv, IInv, Shape, Cost, CostsOf
  <2>2. billed[r] \in Nat /\ billed[r] <= SumFunction(CostsOf(rows, r))
    BY DEF MInv, MoneyInv, Covered
  <2> QED
    BY <2>1, <2>2
<1> QED
  BY <1>1, MoneyInvariance, PTL

\* Under the same condition, what the providers charge for all requests together
\* stays within the month's budget, although the spend that reserve compares is
\* read before the executions that run at the same time are over.
THEOREM BudgetHolds == NoDearerRetry => (Spec => []WithinBudget)
<1> SUFFICES ASSUME NoDearerRetry PROVE Spec => []WithinBudget
  OBVIOUS
<1>1. MInv => WithinBudget
  <2> SUFFICES ASSUME MInv PROVE SumFunction(billed) <= Budget
    BY DEF WithinBudget
  <2>1. /\ billed \in [Requests -> Nat] /\ Owed(handlers, billed) <= Budget
        /\ \A r \in Requests : billed[r] <= Reservation(r)
    BY DEF MInv, MoneyInv, Covered
  <2>2. LiabilityOf(handlers, billed) \in [Requests -> Nat] /\ Owed(handlers, billed) \in Nat
    BY <2>1, LiabilityType
  <2>3. \A r \in Requests : billed[r] <= LiabilityOf(handlers, billed)[r]
    BY <2>1 DEF LiabilityOf
  <2>4. SumFunction(billed) <= Owed(handlers, billed)
    BY <2>1, <2>2, <2>3, RequestsAssumption, SumGrows DEF Owed
  <2>5. SumFunction(billed) \in Nat /\ Budget \in Nat
    BY <2>1, RequestsAssumption, SumType, CountsAssumption
  <2> QED
    BY <2>1, <2>2, <2>4, <2>5
<1> QED
  BY <1>1, MoneyInvariance, PTL

-----------------------------------------------------------------------------
(* Types, the month's spend included.                                      *)

\* What TypeOK says and Shape does not.
Held ==
    /\ question \in [Requests -> QuestionStatus]
    /\ billed \in [Requests -> Nat]
    /\ handlers = [h \in Handlers |-> handlers[h]]
    /\ \A h \in Handlers : handlers[h].spent \in Nat

LEMMA SpentType ==
    ASSUME Shape
    PROVE  Spent \in Nat
<1>1. \A r \in Requests : Cost(r) = SumFunction(CostsOf(rows, r)) /\ Cost(r) \in Nat
  BY CostsType DEF Shape, Cost, CostsOf
<1>2. [r \in Requests |-> Cost(r)] \in [Requests -> Nat]
  BY <1>1
<1> QED
  BY <1>2, RequestsAssumption, SumType DEF Spent

LEMMA HeldPreserved == Shape /\ Held /\ [Next]_vars => Held'
<1> SUFFICES ASSUME Shape, Held, [Next]_vars PROVE Held'
  OBVIOUS
<1>1. CASE UNCHANGED vars
  BY <1>1 DEF vars, Held
<1>2. ASSUME NEW h \in Handlers, HandlerStep(h) PROVE Held'
  <2>1. Of(h) \in Requests /\ Shaped(handlers[h]) /\ DOMAIN handlers = Handlers
    BY HandlerTypes DEF Shape
  <2>2. question' \in [Requests -> QuestionStatus]
    <3>1. question' = question \/ question' = [question EXCEPT ![Of(h)] = "none"]
      BY <1>2 DEF HandlerStep, ClaimDispatch, LoadRequest, RefuseBeforeDispatch, ClearRefused,
                  LockBudget, Reserve, CallProvider, RecordAttempt, Settle, ClearSettled,
                  SettleJob, ReconcileReplay, ClearReplayed, HandlerRaises, WorkerCrash, EndsStale
    <3> QED
      BY <2>1, <3>1 DEF Held, QuestionStatus
  <2>3. Price(h) \in Nat
    BY <2>1, CountsAssumption DEF Price
  <2>4. billed' \in [Requests -> Nat]
    <3>1. \/ billed' = billed
          \/ \E price \in {0, Price(h)} : billed' = [billed EXCEPT ![Of(h)] = @ + price]
      <4>1. CASE CallProvider(h)
        BY <4>1 DEF CallProvider
      <4>2. CASE HandlerRaises(h) \/ WorkerCrash(h)
        BY <4>2 DEF HandlerRaises, WorkerCrash, MayBeCharged
      <4>3. CASE ~(CallProvider(h) \/ HandlerRaises(h) \/ WorkerCrash(h))
        BY <1>2, <4>3 DEF HandlerStep, ClaimDispatch, LoadRequest, RefuseBeforeDispatch,
                    ClearRefused, LockBudget, Reserve, RecordAttempt, Settle, ClearSettled,
                    SettleJob, ReconcileReplay, ClearReplayed
      <4> QED
        BY <4>1, <4>2, <4>3
    <3>2. ASSUME NEW price \in Nat, billed' = [billed EXCEPT ![Of(h)] = @ + price]
          PROVE  billed' \in [Requests -> Nat]
      BY <2>1, <3>2 DEF Held
    <3>3. 0 \in Nat
      OBVIOUS
    <3> QED
      BY <2>3, <3>1, <3>2, <3>3 DEF Held
  <2>5. \E handler : handler.spent \in Nat /\ handlers' = [handlers EXCEPT ![h] = handler]
    <3> DEFINE Goal == \E handler : handler.spent \in Nat
                                   /\ handlers' = [handlers EXCEPT ![h] = handler]
    <3>1. handlers[h].spent \in Nat
      BY DEF Held
    <3>2. ASSUME NEW phase, Moves(h, phase) PROVE Goal
      <4>1. [handlers[h] EXCEPT !.phase = phase].spent = handlers[h].spent
        BY <2>1 DEF Shaped
      <4> QED
        BY <3>1, <3>2, <4>1 DEF Moves
    <3>3. Ends(h) => Goal
      <4>1. Idle(AnyRequest).spent = 0 /\ 0 \in Nat
        BY DEF Idle
      <4> QED
        BY <4>1 DEF Ends
    <3>4. CASE \E r \in Requests : ClaimDispatch(h, r)
      <4>1. PICK r \in Requests : ClaimDispatch(h, r)
        BY <3>4
      <4> DEFINE handler == [Idle(r) EXCEPT !.phase = "claimed", !.own = job'[r].owner]
      <4>2. handlers' = [handlers EXCEPT ![h] = handler]
        BY <4>1 DEF ClaimDispatch
      <4>3. handler.spent = 0 /\ 0 \in Nat
        BY DEF Idle
      <4> HIDE DEF handler
      <4> QED
        BY <4>2, <4>3
    <3>5. CASE LoadRequest(h)
      <4> DEFINE phase == IF Of(h) \in Asks /\ question[Of(h)] # "held"
                          THEN "refused" ELSE "preparing"
                 handler == [handlers[h] EXCEPT !.seen = rows[Of(h)][1].status, !.phase = phase]
      <4>1. handlers' = [handlers EXCEPT ![h] = handler]
        BY <3>5 DEF LoadRequest
      <4>2. handler.spent = handlers[h].spent
        BY <2>1 DEF Shaped
      <4> HIDE DEF handler
      <4> QED
        BY <3>1, <4>1, <4>2
    <3>6. CASE LockBudget(h)
      <4>1. CASE handlers' = [handlers EXCEPT ![h].phase = "reserving", ![h].spent = Spent]
        <5> DEFINE handler == [handlers[h] EXCEPT !.phase = "reserving", !.spent = Spent]
        <5>1. handlers' = [handlers EXCEPT ![h] = handler]
          BY <4>1
        <5>2. handler.spent = Spent
          BY <2>1 DEF Shaped
        <5> HIDE DEF handler
        <5> QED
          BY <5>1, <5>2, SpentType
      <4> QED
        BY <3>2, <3>3, <3>6, <4>1 DEF LockBudget, EndsStale
    <3>7. CASE Reserve(h)
      <4>1. CASE handlers' = [handlers EXCEPT
                                ![h].phase = "calling", ![h].seen = "running", ![h].spent = 0,
                                ![h].try = 1, ![h].repairs = Repairs[Of(h)], ![h].last = 1]
        <5> DEFINE handler == [handlers[h] EXCEPT
                                 !.phase = "calling", !.seen = "running", !.spent = 0,
                                 !.try = 1, !.repairs = Repairs[Of(h)], !.last = 1]
        <5>1. handlers' = [handlers EXCEPT ![h] = handler]
          BY <4>1
        <5>2. handler.spent = 0 /\ 0 \in Nat
          BY <2>1 DEF Shaped
        <5> HIDE DEF handler
        <5> QED
          BY <5>1, <5>2
      <4> QED
        BY <3>2, <3>7, <4>1 DEF Reserve
    <3>8. CASE CallProvider(h)
      <4>1. ASSUME NEW usage, NEW winner, Finishes(h, usage, winner) PROVE Goal
        <5> DEFINE handler == [handlers[h] EXCEPT
                     !.phase = "settling", !.usage = usage, !.pending = 1..handlers[h].last,
                     !.winner = winner, !.try = 0, !.repairs = 0, !.last = 0, !.retrying = FALSE]
        <5>1. handlers' = [handlers EXCEPT ![h] = handler]
          BY <4>1 DEF Finishes
        <5>2. handler.spent = handlers[h].spent
          BY <2>1 DEF Shaped
        <5> HIDE DEF handler
        <5> QED
          BY <3>1, <5>1, <5>2
      <4>2. ASSUME NEW usage, MakesRepair(h, usage) PROVE Goal
        <5> DEFINE handler == [handlers[h] EXCEPT !.phase = "repeating", !.usage = usage,
                                                  !.repairs = @ - 1]
        <5>1. handlers' = [handlers EXCEPT ![h] = handler]
          BY <4>2 DEF MakesRepair
        <5>2. handler.spent = handlers[h].spent
          BY <2>1 DEF Shaped
        <5> HIDE DEF handler
        <5> QED
          BY <3>1, <5>1, <5>2
      <4>3. ASSUME NEW usage, NEW excluded, TriesAgain(h, usage, excluded) PROVE Goal
        <5> DEFINE handler == [handlers[h] EXCEPT !.phase = "repeating", !.usage = usage,
                                     !.try = @ + 1, !.retrying = @ \/ excluded]
        <5>1. CASE handlers[h].try >= MaxTries[Of(h)]
          BY <4>1, <4>3, <5>1 DEF TriesAgain
        <5>2. CASE ~(handlers[h].try >= MaxTries[Of(h)])
          <6>1. handlers' = [handlers EXCEPT ![h] = handler]
            BY <4>3, <5>2 DEF TriesAgain
          <6>2. handler.spent = handlers[h].spent
            BY <2>1 DEF Shaped
          <6> HIDE DEF handler
          <6> QED
            BY <3>1, <6>1, <6>2
        <5> QED
          BY <5>1, <5>2
      <4> HIDE DEF Goal
      <4>4. Goal
        BY <3>8, <4>1, <4>2, <4>3 DEF CallProvider
      <4> QED
        BY <4>4 DEF Goal
    <3>9. CASE RecordAttempt(h)
      <4> DEFINE handler == [handlers[h] EXCEPT !.phase = "calling",
                                                !.last = handlers[h].last + 1]
      <4>1. handler.spent = handlers[h].spent
        BY <2>1 DEF Shaped
      <4>2. Ends(h) \/ handlers' = [handlers EXCEPT ![h] = handler]
        BY <3>9 DEF RecordAttempt, EndsStale
      <4> HIDE DEF handler
      <4> QED
        BY <3>1, <3>3, <4>1, <4>2
    <3>10. CASE Settle(h)
      <4> DEFINE n == NextToSettle(handlers[h].pending)
                 left == handlers[h].pending \ {n}
                 status == IF handlers[h].winner = n THEN "succeeded" ELSE "failed"
                 handler == [handlers[h] EXCEPT
                               !.pending = left, !.usage = [@ EXCEPT ![n] = 0],
                               !.seen = IF n = 1 THEN status ELSE @,
                               !.phase = IF left = {} THEN "settled" ELSE @]
      <4>1. handler.spent = handlers[h].spent
        BY <2>1 DEF Shaped
      <4>2. Ends(h) \/ handlers' = [handlers EXCEPT ![h] = handler]
        BY <3>10 DEF Settle, EndsStale
      <4> HIDE DEF handler
      <4> QED
        BY <3>1, <3>3, <4>1, <4>2
    <3>11. CASE RefuseBeforeDispatch(h) \/ ClearRefused(h) \/ ClearSettled(h)
      BY <3>2, <3>11 DEF RefuseBeforeDispatch, ClearRefused, ClearSettled
    <3>12. CASE SettleJob(h) \/ ReconcileReplay(h) \/ ClearReplayed(h)
                \/ HandlerRaises(h) \/ WorkerCrash(h)
      BY <3>2, <3>3, <3>12
         DEF SettleJob, ReconcileReplay, ClearReplayed, HandlerRaises, WorkerCrash, EndsStale
    <3> QED
      BY <1>2, <3>4, <3>5, <3>6, <3>7, <3>8, <3>9, <3>10, <3>11, <3>12 DEF HandlerStep
  <2>6. /\ handlers' = [k \in Handlers |-> handlers'[k]]
        /\ \A k \in Handlers : handlers'[k].spent \in Nat
    <3>1. PICK handler : /\ handler.spent \in Nat
                         /\ handlers' = [handlers EXCEPT ![h] = handler]
      BY <2>5
    <3> QED
      BY <2>1, <3>1 DEF Held
  <2> QED
    BY <2>2, <2>4, <2>6 DEF Held
<1>3. ASSUME NEW r \in Requests,
             \/ Enqueue(r) \/ ExhaustAbandonedJob(r)
             \/ ReconcileStale(r) \/ QuestionExpires(r) \/ ClearExpired(r)
      PROVE  Held'
  <2>1. UNCHANGED <<handlers, billed>>
    BY <1>3 DEF Enqueue, ExhaustAbandonedJob, ReconcileStale, QuestionExpires, ClearExpired
  <2>2. \/ question' = question
        \/ \E status \in QuestionStatus : question' = [question EXCEPT ![r] = status]
    BY <1>3 DEF Enqueue, ExhaustAbandonedJob, ReconcileStale, QuestionExpires, ClearExpired,
                QuestionStatus
  <2> QED
    BY <2>1, <2>2 DEF Held
<1> QED
  BY <1>1, <1>2, <1>3 DEF Next

\* Every variable keeps its type, for any limits and prices: the month's spend
\* that reserve reads is the sum over every row of every request.
THEOREM TypeCorrect == Spec => []TypeOK
<1>1. Init => IInv /\ Held
  <2> SUFFICES ASSUME Init PROVE Held
    BY Initially
  <2>1. \A h \in Handlers : handlers[h].spent = 0
    BY DEF Init, Idle
  <2> QED
    BY <2>1 DEF Init, Held, QuestionStatus
<1>2. IInv /\ Held /\ [Next]_vars => IInv' /\ Held'
  BY Preserved, HeldPreserved DEF IInv
<1>3. IInv /\ Held => TypeOK
  <2> SUFFICES ASSUME Shape, Held PROVE TypeOK
    BY DEF IInv
  <2>1. ASSUME NEW h \in Handlers PROVE handlers[h] \in Handler
    BY HandlerTypes DEF Held, Shaped, Handler
  <2>2. handlers \in [Handlers -> Handler]
    BY <2>1 DEF Held
  <2> QED
    BY <2>2 DEF Shape, Held, TypeOK
<1> QED
  BY <1>1, <1>2, <1>3, PTL DEF Spec

-----------------------------------------------------------------------------
(* What is seen of the jobs.                                               *)

\* The job of a request, as it is told from outside: a terminal status is the
\* one outcome that was recorded.
Lifecycle(r) == INSTANCE JobLifecycle WITH
    state <- job[r].status, starts <- job[r].starts, owner <- job[r].owner,
    outcomes <- IF job[r].status \in {"succeeded", "failed"} THEN 1 ELSE 0

LifecycleMoves(r) == [Lifecycle(r)!Next]_(Lifecycle(r)!jobVars)

\* What a step makes of one job.
LEMMA JobMoves ==
    ASSUME Shape, NEW r \in Requests, NEW new, job' = [job EXCEPT ![r] = new],
           \/ /\ job[r].status = "absent" /\ new.status = "queued"
              /\ new.starts = job[r].starts /\ new.owner = job[r].owner
           \/ /\ job[r].status \in {"queued", "running"} /\ job[r].starts < MaxStarts
              /\ new.status = "running" /\ new.starts = job[r].starts + 1
              /\ new.owner = job[r].owner + 1
           \/ /\ job[r].status = "running" /\ job[r].starts < MaxStarts /\ new.status = "queued"
              /\ new.starts = job[r].starts /\ new.owner = job[r].owner
           \/ /\ job[r].status = "running" /\ new.status \in {"succeeded", "failed"}
              /\ new.starts = job[r].starts /\ new.owner = job[r].owner,
           NEW s \in Requests
    PROVE  LifecycleMoves(s)
<1>1. CASE s # r
  <2>1. job'[s] = job[s]
    BY <1>1 DEF Shape
  <2> QED
    BY <2>1 DEF LifecycleMoves, Lifecycle!jobVars
<1>2. CASE s = r
  <2>1. job'[r] = new
    BY DEF Shape
  <2>2. Lifecycle(r)!Next
    BY <2>1 DEF Lifecycle!Next, Lifecycle!Accept, Lifecycle!Start, Lifecycle!Requeue,
                Lifecycle!Settle, Lifecycle!Open
  <2> QED
    BY <1>2, <2>2 DEF LifecycleMoves
<1> QED
  BY <1>1, <1>2

\* The statuses a handler or a sweep gives a job that runs.
LEMMA RunningMoves ==
    ASSUME Shape, NEW r \in Requests, job[r].status = "running",
           \/ SettlesJob(r, "succeeded") \/ SettlesJob(r, "failed") \/ ExhaustsJob(r)
           \/ job[r].starts < MaxStarts /\ SettlesJob(r, "queued"),
           NEW s \in Requests
    PROVE  LifecycleMoves(s)
<1>1. job[r] \in Job
  BY DEF Shape
<1>2. \E new : /\ job' = [job EXCEPT ![r] = new]
               /\ new.starts = job[r].starts /\ new.owner = job[r].owner
               /\ \/ new.status \in {"succeeded", "failed"}
                  \/ job[r].starts < MaxStarts /\ new.status = "queued"
  <2>1. ASSUME NEW status, SettlesJob(r, status)
        PROVE  \E new : /\ job' = [job EXCEPT ![r] = new] /\ new.status = status
                        /\ new.starts = job[r].starts /\ new.owner = job[r].owner
    <3> DEFINE new == [job[r] EXCEPT !.status = status]
    <3>1. new.status = status /\ new.starts = job[r].starts /\ new.owner = job[r].owner
      BY <1>1 DEF Job
    <3>2. job' = [job EXCEPT ![r] = new]
      BY <2>1 DEF SettlesJob
    <3> QED
      BY <3>1, <3>2
  <2>2. ASSUME ExhaustsJob(r)
        PROVE  \E new : /\ job' = [job EXCEPT ![r] = new] /\ new.status = "failed"
                        /\ new.starts = job[r].starts /\ new.owner = job[r].owner
    <3> DEFINE new == [job[r] EXCEPT !.status = "failed", !.exhausted = TRUE]
    <3>1. new.status = "failed" /\ new.starts = job[r].starts /\ new.owner = job[r].owner
      BY <1>1 DEF Job
    <3>2. job' = [job EXCEPT ![r] = new]
      BY <2>2 DEF ExhaustsJob
    <3> QED
      BY <3>1, <3>2
  <2> QED
    BY <2>1, <2>2
<1> QED
  BY <1>2, JobMoves

LEMMA LifecycleStep ==
    ASSUME Shape, [Next]_vars, NEW s \in Requests
    PROVE  LifecycleMoves(s)
<1>1. ASSUME job' = job PROVE LifecycleMoves(s)
  BY <1>1 DEF LifecycleMoves, Lifecycle!jobVars
<1>2. ASSUME NEW h \in Handlers, HandlerStep(h) PROVE LifecycleMoves(s)
  <2>1. Of(h) \in Requests /\ job[Of(h)].starts \in Nat /\ MaxStarts \in Nat
    BY HandlerTypes, CountsAssumption DEF Shape, Job
  <2>2. ASSUME NEW r \in Requests, ClaimDispatch(h, r) PROVE LifecycleMoves(s)
    <3> DEFINE new == [job[r] EXCEPT !.status = "running", !.starts = @ + 1, !.owner = @ + 1]
    <3>1. job[r].status \in {"queued", "running"} /\ job[r].starts < MaxStarts
          /\ job' = [job EXCEPT ![r] = new]
      BY <2>2 DEF ClaimDispatch
    <3>2. new.status = "running" /\ new.starts = job[r].starts + 1
          /\ new.owner = job[r].owner + 1
      BY DEF Shape, Job
    <3> HIDE DEF new
    <3> QED
      BY <3>1, <3>2, JobMoves
  <2>3. CASE SettleJob(h) \/ ReconcileReplay(h)
    BY <1>1, <2>1, <2>3, RunningMoves DEF SettleJob, ReconcileReplay, EndsStale, Owns
  <2>4. CASE HandlerRaises(h)
    BY <2>1, <2>4, RunningMoves DEF HandlerRaises, Owns
  <2>5. CASE LoadRequest(h) \/ RefuseBeforeDispatch(h) \/ ClearRefused(h) \/ LockBudget(h)
             \/ Reserve(h)
    BY <1>1, <2>5 DEF LoadRequest, RefuseBeforeDispatch, ClearRefused, LockBudget, Reserve, EndsStale
  <2>6. CASE CallProvider(h) \/ RecordAttempt(h) \/ Settle(h) \/ ClearSettled(h)
             \/ ClearReplayed(h) \/ WorkerCrash(h)
    BY <1>1, <2>6 DEF CallProvider, RecordAttempt, Settle, ClearSettled, ClearReplayed,
                      WorkerCrash, EndsStale
  <2> QED
    BY <1>2, <2>2, <2>3, <2>4, <2>5, <2>6 DEF HandlerStep
<1>3. ASSUME NEW r \in Requests, Enqueue(r) PROVE LifecycleMoves(s)
  <2> DEFINE new == [job[r] EXCEPT !.status = "queued"]
  <2>1. job[r].status = "absent" /\ job' = [job EXCEPT ![r] = new]
    BY <1>3 DEF Enqueue
  <2>2. new.status = "queued" /\ new.starts = job[r].starts /\ new.owner = job[r].owner
    BY DEF Shape, Job
  <2> HIDE DEF new
  <2> QED
    BY <2>1, <2>2, JobMoves
<1>4. ASSUME NEW r \in Requests, ExhaustAbandonedJob(r) PROVE LifecycleMoves(s)
  BY <1>4, RunningMoves DEF ExhaustAbandonedJob
<1>5. ASSUME NEW r \in Requests, ReconcileStale(r) \/ QuestionExpires(r) \/ ClearExpired(r)
      PROVE  LifecycleMoves(s)
  BY <1>1, <1>5 DEF ReconcileStale, QuestionExpires, ClearExpired
<1>6. CASE UNCHANGED vars
  BY <1>1, <1>6 DEF vars
<1> QED
  BY <1>2, <1>3, <1>4, <1>5, <1>6 DEF Next

\* The job of every request implements the lifecycle that the delivery promises of
\* a job, although its lease is not kept: whoever takes it over, whatever its
\* handlers raise and however a replay settles it, it is started a bounded number
\* of times and gets one outcome, which is final (ai/execution.py).
THEOREM Refinement ==
    ASSUME NEW r \in Requests
    PROVE  Spec => Lifecycle(r)!Spec
<1>1. Init => Lifecycle(r)!Init
  BY DEF Init, Lifecycle!Init
<1>2. IInv /\ [Next]_vars => LifecycleMoves(r)
  BY LifecycleStep DEF IInv
<1> QED
  BY <1>1, <1>2, Invariance, PTL DEF Spec, Lifecycle!Spec, LifecycleMoves

-----------------------------------------------------------------------------
(* Answers are final.                                                      *)

\* An action: a row with an output keeps it, and its cost.
AnswerIsKept ==
    \A r \in Requests : \A n \in Attempts(r) :
        rows[r][n].output => rows'[r][n].output /\ rows'[r][n].cost = rows[r][n].cost

LEMMA StatusKeepsAnswer ==
    ASSUME Shape, NEW r \in Requests, NEW n \in Attempts(r), NEW status \in Status,
           rows' = [rows EXCEPT ![r][n].status = status]
    PROVE  AnswerIsKept
<1>1. /\ rows'[r][n].output = rows[r][n].output
      /\ \A m \in Attempts(r) \ {n} : rows'[r][m] = rows[r][m]
      /\ \A s \in Requests \ {r} : rows'[s] = rows[s]
  BY StatusUpdate
<1>2. \A s \in Requests : \A m \in Attempts(s) : rows'[s][m].cost = rows[s][m].cost
  BY StatusCosts
<1> QED
  BY <1>1, <1>2 DEF AnswerIsKept

\* What is still to be settled, or to be reserved, has no answer yet.
LEMMA AnswerStep == Shape /\ Rest /\ [Next]_vars => AnswerIsKept
<1> SUFFICES ASSUME Shape, Rest, [Next]_vars PROVE AnswerIsKept
  OBVIOUS
<1>1. ASSUME rows' = rows PROVE AnswerIsKept
  BY <1>1 DEF AnswerIsKept
<1>2. ASSUME NEW r \in Requests, NEW n \in Attempts(r), ~rows[r][n].output, NEW row \in Row,
             rows' = [rows EXCEPT ![r][n] = row]
      PROVE  AnswerIsKept
  <2>1. /\ \A m \in Attempts(r) \ {n} : rows'[r][m] = rows[r][m]
        /\ \A s \in Requests \ {r} : rows'[s] = rows[s]
    BY <1>2, RowUpdate
  <2> QED
    BY <1>2, <2>1 DEF AnswerIsKept
<1>3. ASSUME NEW h \in Handlers, HandlerStep(h) PROVE AnswerIsKept
  <2>1. Of(h) \in Requests /\ 1 \in Attempts(Of(h)) /\ HandlerOK(h) /\ Shaped(handlers[h])
        /\ {"failed", "running"} \subseteq Status
    BY HandlerTypes, Limits DEF Rest, Status
  <2>2. CASE ClearRefused(h)
    <3>1. rows' = rows \/ rows' = [rows EXCEPT ![Of(h)][1].status = "failed"]
      BY <2>2 DEF ClearRefused
    <3> QED
      BY <1>1, <2>1, <3>1, StatusKeepsAnswer
  <2>3. CASE Reserve(h)
    <3> DEFINE r == Of(h)
               row == [rows[r][1] EXCEPT !.status = "running", !.cost = Reservation(r)]
    <3>1. rows' = rows \/ rows' = [rows EXCEPT ![r][1].status = "running",
                                               ![r][1].cost = Reservation(r)]
      BY <2>3 DEF Reserve
    <3>2. rows[r] \in [Attempts(r) -> Row] /\ rows[r][1] \in Row /\ Reservation(r) \in Nat
      BY <2>1, Limits DEF Shape
    <3>3. row \in Row
      BY <2>1, <3>2 DEF Row
    <3>4. rows' = rows \/ rows' = [rows EXCEPT ![r][1] = row]
      BY <2>1, <3>1, <3>2 DEF Shape, Row
    <3>5. ~rows[r][1].output
      <4>1. executions[r] = 0
        BY <2>1, <2>3 DEF Reserve, HandlerOK, BeforeOK
      <4> QED
        BY <2>1, <4>1 DEF Rest, RequestOK, NoOutput
    <3> HIDE DEF row
    <3> QED
      BY <1>1, <1>2, <2>1, <3>3, <3>4, <3>5
  <2>4. CASE RecordAttempt(h)
    <3> DEFINE n == handlers[h].last + 1
    <3>1. rows' = rows \/ rows' = [rows EXCEPT ![Of(h)][n].status = "running"]
      BY <2>4 DEF RecordAttempt, EndsStale
    <3>2. n \in Attempts(Of(h))
      <4>1. handlers[h].phase = "repeating" /\ DispatchingOK(h)
        BY <2>1, <2>4 DEF RecordAttempt, HandlerOK
      <4> QED
        BY <2>1, <4>1, Limits, SMTT(30) DEF DispatchingOK, Attempts, Shaped
    <3> HIDE DEF n
    <3> QED
      BY <1>1, <2>1, <3>1, <3>2, StatusKeepsAnswer
  <2>5. CASE Settle(h)
    <3> DEFINE r == Of(h)
               pending == handlers[h].pending
               usage == handlers[h].usage
               n == NextToSettle(pending)
               won == handlers[h].winner = n
               status == IF won THEN "succeeded" ELSE "failed"
               row == [status |-> status, output |-> won, cost |-> usage[n]]
               L == Len(usage)
    <3>1. rows' = rows \/ rows' = [rows EXCEPT ![r][n] = row]
      BY <2>5 DEF Settle, EndsStale
    <3>2. /\ L \in Attempts(r) /\ usage \in Seq(Nat)
          /\ \E m \in 2..(L + 1) : pending = {1} \union (m..L)
          /\ \A k \in Attempts(r) : rows[r][k].output => k \notin pending
      BY <2>1, <2>5 DEF Settle, HandlerOK, SettlingOK, Shaped
    <3>3. L \in Nat /\ L >= 1 /\ \A k \in 1..L : k \in Attempts(r)
      BY <2>1, <3>2, Limits
    <3>4. n \in pending /\ n \in 1..L
      <4>1. PICK m \in 2..(L + 1) : pending = {1} \union (m..L)
        BY <3>2
      <4> HIDE DEF L, pending
      <4> QED
        BY <3>3, <4>1, NextRow
    <3>5. n \in Attempts(r) /\ ~rows[r][n].output /\ usage[n] \in Nat
      <4> HIDE DEF n, usage, pending
      <4> QED
        BY <3>2, <3>3, <3>4, ElementOfSeq
    <3>6. row \in Row
      <4>1. status \in Status /\ won \in BOOLEAN
        BY DEF Status
      <4> HIDE DEF status, won, usage, n
      <4> QED
        BY <3>5, <4>1 DEF Row
    <3> HIDE DEF row, n
    <3> QED
      BY <1>1, <1>2, <2>1, <3>1, <3>5, <3>6
  <2>6. CASE ~(ClearRefused(h) \/ Reserve(h) \/ RecordAttempt(h) \/ Settle(h))
    BY <1>1, <1>3, <2>6
       DEF HandlerStep, ClaimDispatch, LoadRequest, RefuseBeforeDispatch, LockBudget, CallProvider,
           ClearSettled, SettleJob, ReconcileReplay, ClearReplayed, HandlerRaises, WorkerCrash,
           EndsStale
  <2> QED
    BY <2>2, <2>3, <2>4, <2>5, <2>6
<1>4. ASSUME NEW r \in Requests, Enqueue(r) \/ ClearExpired(r) PROVE AnswerIsKept
  <2>1. \/ rows' = rows \/ rows' = [rows EXCEPT ![r][1].status = "queued"]
        \/ rows' = [rows EXCEPT ![r][1].status = "failed"]
    BY <1>4 DEF Enqueue, ClearExpired
  <2>2. 1 \in Attempts(r) /\ "queued" \in Status /\ "failed" \in Status
    BY Limits DEF Status
  <2> QED
    BY <1>1, <2>1, <2>2, StatusKeepsAnswer
<1>5. ASSUME NEW r \in Requests, ReconcileStale(r) PROVE AnswerIsKept
  <2>1. PICK upto \in Attempts(r) :
               rows' = [rows EXCEPT ![r] = [n \in Attempts(r) |->
                          IF n <= upto /\ @[n].status = "running"
                          THEN [@[n] EXCEPT !.status = "failed"] ELSE @[n]]]
    BY <1>5 DEF ReconcileStale
  <2>2. DOMAIN rows = Requests /\ \A n \in Attempts(r) : rows[r][n] \in Row
    BY DEF Shape
  <2>3. /\ \A s \in Requests \ {r} : rows'[s] = rows[s]
        /\ \A n \in Attempts(r) : \/ rows'[r][n] = rows[r][n]
                                  \/ rows'[r][n] = [rows[r][n] EXCEPT !.status = "failed"]
    BY <2>1, <2>2
  <2>4. ASSUME NEW n \in Attempts(r), rows[r][n].output
        PROVE  rows'[r][n].output /\ rows'[r][n].cost = rows[r][n].cost
    <3>1. rows[r][n] \in Row
      BY <2>2
    <3>2. CASE rows'[r][n] = rows[r][n]
      BY <2>4, <3>2
    <3>3. CASE rows'[r][n] = [rows[r][n] EXCEPT !.status = "failed"]
      BY <2>4, <3>1, <3>3 DEF Row
    <3> QED
      BY <2>3, <3>2, <3>3
  <2> QED
    BY <2>3, <2>4 DEF AnswerIsKept
<1>6. ASSUME NEW r \in Requests, ExhaustAbandonedJob(r) \/ QuestionExpires(r) PROVE AnswerIsKept
  BY <1>1, <1>6 DEF ExhaustAbandonedJob, QuestionExpires
<1>7. CASE UNCHANGED vars
  BY <1>1, <1>7 DEF vars
<1> QED
  BY <1>3, <1>4, <1>5, <1>6, <1>7 DEF Next

\* An answer that is stored stays, with what it cost: neither a later attempt, nor
\* one that was overtaken and clears the request it thinks queued, nor the sweep
\* for stale rows takes it away (settle, _clear_execution_metadata and
\* enforce_ai_retention each write rows under another condition).
THEOREM AnswerCorrect == Spec => [][AnswerIsKept]_vars
<1>1. IInv /\ [Next]_vars => AnswerIsKept
  BY AnswerStep DEF IInv
<1> QED
  BY <1>1, Invariance, PTL DEF Spec
=============================================================================
