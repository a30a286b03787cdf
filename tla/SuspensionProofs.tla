-------------------------- MODULE SuspensionProofs --------------------------
(* What holds of the suspensions for every set of clients, every number of  *)
(* overlapping runs and requests, every calendar and every setting.         *)
EXTENDS Suspension, TLAPS, WellFoundedInduction

\* What a turn of a worker or a request may write.
Typed ==
  /\ status \in [Clients -> Status]
  /\ revoked \in [Clients -> BOOLEAN]
  /\ reached \in [Clients -> SUBSET Periods]
  /\ heavy \in [Clients -> BOOLEAN]
  /\ job \in [Slots -> Job]

-----------------------------------------------------------------------------
(* Lists of rows *)

(* A list that is not empty has a first row. *)
LEMMA FirstIn ==
  ASSUME NEW L \in SUBSET Row, L # {}
  PROVE  First(L) \in L /\ \A q \in L : First(L).id <= q.id
<1> DEFINE T == {r.id : r \in L}
<1>1. T \subseteq Nat /\ T # {}
  <2>1. \A r \in L : r.id \in Nat
    BY SuspensionAssumption DEF Row
  <2>2. PICK r \in L : TRUE
    OBVIOUS
  <2>3. r.id \in T
    OBVIOUS
  <2> QED
    BY <2>1, <2>3
<1>2. PICK x \in T : \A y \in T : ~(<<y, x>> \in OpToRel(<, Nat))
  BY <1>1, WFMin, NatLessThanWellFounded
<1>3. \A y \in T : ~(y < x)
  BY <1>1, <1>2 DEF OpToRel
<1>4. PICK r \in L : r.id = x
  OBVIOUS
<1>5. \A q \in L : r.id <= q.id
  <2> TAKE q \in L
  <2>1. q.id \in T /\ q.id \in Nat /\ r.id \in Nat
    BY <1>1
  <2> HIDE DEF T
  <2> QED
    BY <1>3, <1>4, <2>1
<1> QED
  BY <1>5 DEF First

(* Every list a worker reads is made of rows. *)
LEMMA RowLists ==
  ASSUME Typed, quota \in [Clients -> SUBSET Periods]
  PROVE  /\ \A S \in SUBSET Clients : RowsOf(S) \in SUBSET Row
         /\ {WithQuotas, Expired, ActiveRows} \subseteq SUBSET Row
         /\ \A reason : SuspendedFor(reason) \in SUBSET Row
         /\ \A L \in SUBSET Row, r \in Row : Later(L, r) \in SUBSET L
<1>1. \A S \in SUBSET Clients : RowsOf(S) \in SUBSET Row
  BY DEF RowsOf, Row
<1> QED
  BY <1>1 DEF WithQuotas, Expired, ActiveRows, Active, SuspendedFor, Later

-----------------------------------------------------------------------------
(* Types *)

LEMMA WriteTypes ==
  ASSUME Typed, NEW ph, NEW c \in Clients, NEW s \in Status, Write(ph, c, s)
  PROVE  /\ status' \in [Clients -> Status]
         /\ revoked' \in [Clients -> BOOLEAN]
         /\ reached' \in [Clients -> SUBSET Periods]
         /\ heavy' \in [Clients -> BOOLEAN]
BY DEF Write, Typed, Exists

LEMMA AskTypes ==
  ASSUME Typed, NEW p \in Slots, NEW ph \in Phases, NEW todo \in SUBSET Row,
         NEW m \in 0..MaxMonth, NEW c \in Clients, NEW s \in Status,
         Ask(p, ph, todo, m, c, s)
  PROVE  Typed'
<1>1. \A w \in {"ssh", "restart", "notify"} :
        Awaiting(w, ph, todo, m, c, s) \in Job
  BY DEF Awaiting, Job
<1>2. After(ph, todo, m, c, s) \in Job
  BY <1>1 DEF After, Job
<1>3. CASE c \in Wg
  BY <1>1, <1>3 DEF Ask, Become, Typed, traffic
<1>4. CASE c \notin Wg
  <2>1. Write(ph, c, s)
    BY <1>4 DEF Ask
  <2>2. job' \in [Slots -> Job]
    BY <1>1, <1>2, <1>4 DEF Ask, Become, Typed
  <2> QED
    BY <2>1, <2>2, WriteTypes DEF Typed
<1> QED
  BY <1>3, <1>4

LEMMA RestTypes ==
  ASSUME Typed, NEW p \in Slots, Become(p, Rest),
         UNCHANGED <<status, revoked, traffic>>
  PROVE  Typed'
BY DEF Typed, Become, Job, traffic
-----------------------------------------------------------------------------
(* What one turn of slot p keeps: the types, and, when it may touch the     *)
(* clients in question, the reasons of revoked clients and its own list.    *)

Done(p) ==
  /\ Kept'
  /\ job'[p] # Rest => Careful(job[p])'
  /\ \A q \in Slots \ {p} : job'[q] = job[q]

(* A write that is allowed leaves revoked clients a lasting reason, and      *)
(* revokes nobody on the list that is left.                                  *)
LEMMA WriteKeeps ==
  ASSUME Typed, Kept, NEW ph \in Phases, NEW todo \in SUBSET Row,
         NEW c \in Clients, NEW s \in Status, Allowed(ph, todo, c, s),
         Write(ph, c, s)
  PROVE  /\ Kept'
         /\ ph \in Passing => Spared(todo)'
<1>1. \A d \in Clients : d # c => revoked'[d] = revoked[d] /\ status'[d] = status[d]
  BY DEF Write, Typed
<1>2. status'[c] = IF status[c] # "gone" THEN s ELSE status[c]
  BY DEF Write, Typed, Exists
<1>3. revoked'[c] = IF s \in Lasting THEN status[c] # "gone"
                    ELSE revoked[c] /\ ph # "resume" /\ s # "gone"
  BY DEF Write, Typed, Exists
<1>4. Kept'
  BY <1>1, <1>2, <1>3 DEF Kept, Allowed, Typed
<1>5. ASSUME ph \in Passing PROVE Spared(todo)'
  <2>1. revoked'[c] => revoked[c]
    BY <1>3, <1>5 DEF Allowed, Typed
  <2>2. \A r \in todo : r.id \in Clients
    BY DEF Row
  <2> QED
    BY <1>1, <1>5, <2>1, <2>2 DEF Allowed, Spared
<1> QED
  BY <1>4, <1>5

(* So does asking for such a change, in the same turn or after an await.     *)
LEMMA AskKeeps ==
  ASSUME Typed, Kept, NEW p \in Slots, NEW ph \in Phases,
         NEW todo \in SUBSET Row, NEW m \in 0..MaxMonth, NEW c \in Clients,
         NEW s \in Status, Allowed(ph, todo, c, s),
         Ask(p, ph, todo, m, c, s)
  PROVE  Done(p)
<1>1. CASE c \in Wg
  <2>1. /\ job' = [job EXCEPT ![p] = Awaiting("ssh", ph, todo, m, c, s)]
        /\ status' = status /\ revoked' = revoked
    BY <1>1 DEF Ask, Become
  <2>2. job'[p] = Awaiting("ssh", ph, todo, m, c, s)
    BY <2>1 DEF Typed
  <2>3. Careful(job[p])'
    BY <2>1, <2>2 DEF Careful, Allowed, Awaiting, Spared
  <2> QED
    BY <2>1, <2>3 DEF Done, Kept, Typed
<1>2. CASE c \notin Wg
  <2>1. Write(ph, c, s)
    BY <1>2 DEF Ask
  <2>2. PICK j : /\ job' = [job EXCEPT ![p] = j]
                 /\ \/ j = Rest
                    \/ j = Awaiting("restart", ph, todo, m, c, s)
                    \/ j = Awaiting("notify", ph, todo, m, c, s)
    BY <1>2 DEF Ask, Become, After
  <2>3. job'[p] = j
    BY <2>2 DEF Typed
  <2>4. j # Rest => Careful(job[p])'
    BY <2>1, <2>2, <2>3, WriteKeeps DEF Careful, Awaiting
  <2> QED
    BY <2>1, <2>2, <2>3, <2>4, WriteKeeps DEF Done, Typed
<1> QED
  BY <1>1, <1>2

LEMMA RestKeeps ==
  ASSUME Typed, Kept, NEW p \in Slots, Become(p, Rest),
         UNCHANGED <<status, revoked, traffic>>
  PROVE  Done(p)
BY DEF Typed, Become, Done, Kept

-----------------------------------------------------------------------------
(* The turns of the workers *)

(* The rows of clients that are active, or suspended for a quota, are not    *)
(* those of revoked clients.                                                 *)
LEMMA ListsSpare ==
  ASSUME Typed, Kept
  PROVE  /\ Spared(WithQuotas) /\ Spared(Expired)
         /\ Spared(SuspendedFor("daily_quota"))
         /\ Spared(SuspendedFor("monthly_quota"))
<1>1. ASSUME NEW S \in SUBSET Clients,
             \A c \in S : status[c] \notin Lasting \cup {"gone"}
      PROVE  Spared(RowsOf(S))
  BY <1>1 DEF Spared, RowsOf, Kept
<1>2. \A x \in {"active", "daily_quota", "monthly_quota"} :
        x \notin Lasting \cup {"gone"}
  BY DEF Lasting
<1>3. \A x \in {"daily_quota", "monthly_quota"} : Spared(SuspendedFor(x))
  BY <1>1, <1>2 DEF SuspendedFor
<1>4. Spared(WithQuotas) /\ Spared(Expired)
  BY <1>1, <1>2 DEF WithQuotas, Expired, Active
<1> QED
  BY <1>3, <1>4

(* A turn keeps the types.                                                   *)
LEMMA TurnTypes ==
  ASSUME Typed, quota \in [Clients -> SUBSET Periods],
         lastMonth \in 0..MaxMonth, NEW p \in Slots, NEW L \in SUBSET Row
  PROVE  /\ EnforceTurn(p, L) \/ MonthTurn(p, L) => Typed'
         /\ TtlTurn(p, L) \/ AlertTurn(p, L) => Typed'
         /\ \A m \in 0..MaxMonth :
              DayTurn(p, L, m) => Typed' /\ lastMonth' \in 0..MaxMonth
<1> USE DEF Status, Reasons, Phases
<1>0. 0 \in 0..MaxMonth
  BY SuspensionAssumption
<1>1. ASSUME NEW M \in SUBSET Row, EnforceTurn(p, M) PROVE Typed'
  <2>1. ASSUME EnforceRow(p, M) PROVE Typed'
    <3> DEFINE over == {r \in M : Over(r, "monthly") \/ Over(r, "daily")}
               r == First(over)
    <3>1. over # {} /\ Ask(p, "enforce", Later(M, r), 0, r.id, Reason(r))
      BY <2>1 DEF EnforceRow
    <3>2. r \in Row
      BY <3>1, FirstIn
    <3>3. Later(M, r) \in SUBSET Row /\ r.id \in Clients
      BY <3>2 DEF Later, Row
    <3>4. Reason(r) \in Status
      BY DEF Reason
    <3> QED
      BY <1>0, <3>1, <3>3, <3>4, AskTypes
  <2> QED
    BY <1>1, <2>1, RestTypes DEF EnforceTurn
<1>2. ASSUME NEW M \in SUBSET Row, MonthTurn(p, M) PROVE Typed'
  <2>1. ASSUME MonthRow(p, M) PROVE Typed'
    <3>1. First(M) \in Row /\ Later(M, First(M)) \in SUBSET Row
      BY <2>1, FirstIn DEF MonthRow, Later
    <3>2. First(M).id \in Clients
      BY <3>1 DEF Row
    <3> QED
      BY <1>0, <2>1, <3>1, <3>2, AskTypes DEF MonthRow
  <2> QED
    BY <1>1, <1>2, <2>1, RowLists DEF MonthTurn
<1>3. ASSUME TtlTurn(p, L) PROVE Typed'
  <2>1. CASE L = {}
    BY <1>3, <2>1, RestTypes DEF TtlTurn
  <2>2. CASE L # {}
    <3>1. First(L) \in Row /\ Later(L, First(L)) \in SUBSET Row
      BY <2>2, FirstIn DEF Later
    <3>2. First(L).id \in Clients
      BY <3>1 DEF Row
    <3> QED
      BY <1>0, <1>3, <2>2, <3>1, <3>2, AskTypes DEF TtlTurn
  <2> QED
    BY <2>1, <2>2
<1>4. ASSUME AlertTurn(p, L) PROVE Typed'
  <2> DEFINE abnormal == {r \in L : heavy[r.id] /\ ~fired[r.id]}
             r == First(abnormal)
  <2>1. CASE abnormal = {}
    BY <1>4, <2>1, RestTypes DEF AlertTurn
  <2>2. CASE abnormal # {}
    <3>1. Ask(p, "alert", Later(L, r), 0, r.id, "abnormal_traffic")
      BY <1>4, <2>2 DEF AlertTurn
    <3>2. r \in Row
      BY <2>2, FirstIn
    <3>3. Later(L, r) \in SUBSET Row /\ r.id \in Clients
      BY <3>2 DEF Later, Row
    <3> QED
      BY <1>0, <3>1, <3>3, AskTypes DEF Lasting
  <2> QED
    BY <2>1, <2>2
<1>5. ASSUME NEW m \in 0..MaxMonth, DayTurn(p, L, m)
      PROVE  Typed' /\ lastMonth' \in 0..MaxMonth
  <2>1. ASSUME DayRow(p, L, m) PROVE Typed' /\ lastMonth' = lastMonth
    <3> DEFINE r == First(L)
    <3>1. r \in Row /\ Later(L, r) \in SUBSET Row
      BY <2>1, FirstIn DEF DayRow, Later
    <3>2. r.id \in Clients
      BY <3>1 DEF Row
    <3>3. CASE Over(r, "monthly")
      <4>1. /\ Write("day", r.id, "monthly_quota")
            /\ Become(p, After("day", Later(L, r), m, r.id, "monthly_quota"))
        BY <2>1, <3>3 DEF DayRow
      <4>2. After("day", Later(L, r), m, r.id, "monthly_quota") \in Job
        BY <3>1, <3>2 DEF After, Awaiting, Job
      <4>3. job' \in [Slots -> Job]
        BY <4>1, <4>2 DEF Become, Typed
      <4> QED
        BY <2>1, <3>2, <4>1, <4>3, WriteTypes DEF Typed, DayRow
    <3>4. CASE ~Over(r, "monthly")
      BY <2>1, <3>1, <3>2, <3>4, AskTypes DEF DayRow
    <3> QED
      BY <3>3, <3>4
  <2>2. ASSUME NEW M \in SUBSET Row, MonthTurn(p, M) PROVE Typed'
    BY <2>2, <1>2
  <2> QED
    BY <1>5, <2>1, <2>2, RowLists DEF DayTurn
<1> QED
  BY <1>1, <1>2, <1>3, <1>4, <1>5

(* A turn whose list spares revoked clients leaves them alone.  The alert    *)
(* worker's list may name whom it likes: it can only revoke.                 *)
LEMMA TurnKeeps ==
  ASSUME Typed, Kept, quota \in [Clients -> SUBSET Periods],
         NEW p \in Slots, NEW L \in SUBSET Row
  PROVE  /\ AlertTurn(p, L) => Done(p)
         /\ Spared(L) /\ (EnforceTurn(p, L) \/ MonthTurn(p, L)) => Done(p)
         /\ Spared(L) /\ TtlTurn(p, L) => Done(p)
         /\ \A m \in 0..MaxMonth :
              Spared(L) /\ DayTurn(p, L, m) => Done(p)
<1> USE DEF Status, Reasons, Phases
<1>0. 0 \in 0..MaxMonth
  BY SuspensionAssumption
<1>a. ASSUME NEW M \in SUBSET Row, NEW r \in M, Spared(M), NEW ph \in Phases,
             NEW s \in {"active", "expired", "daily_quota", "monthly_quota"}
      PROVE  /\ Allowed(ph, Later(M, r), r.id, s)
             /\ Later(M, r) \in SUBSET Row /\ r.id \in Clients /\ s \in Status
  BY <1>a DEF Allowed, Later, Spared, Lasting, Row
<1>1. ASSUME NEW M \in SUBSET Row, Spared(M), EnforceTurn(p, M) PROVE Done(p)
  <2>1. ASSUME EnforceRow(p, M) PROVE Done(p)
    <3> DEFINE over == {r \in M : Over(r, "monthly") \/ Over(r, "daily")}
               r == First(over)
    <3>1. over # {} /\ Ask(p, "enforce", Later(M, r), 0, r.id, Reason(r))
      BY <2>1 DEF EnforceRow
    <3>2. r \in M
      BY <3>1, FirstIn
    <3>3. Reason(r) \in {"active", "expired", "daily_quota", "monthly_quota"}
      BY DEF Reason
    <3>4. /\ Allowed("enforce", Later(M, r), r.id, Reason(r))
          /\ Later(M, r) \in SUBSET Row /\ r.id \in Clients
          /\ Reason(r) \in Status
      BY <1>1, <1>a, <3>2, <3>3
    <3> QED
      BY <1>0, <3>1, <3>4, AskKeeps
  <2> QED
    BY <1>1, <2>1, RestKeeps DEF EnforceTurn
<1>2. ASSUME NEW M \in SUBSET Row, Spared(M), MonthTurn(p, M) PROVE Done(p)
  <2>1. ASSUME MonthRow(p, M) PROVE Done(p)
    <3>1. M # {} /\ First(M) \in M
      BY <2>1, FirstIn DEF MonthRow
    <3>2. /\ Allowed("month", Later(M, First(M)), First(M).id, "active")
          /\ Later(M, First(M)) \in SUBSET Row /\ First(M).id \in Clients
      BY <1>2, <1>a, <3>1
    <3> QED
      BY <1>0, <2>1, <3>2, AskKeeps DEF MonthRow
  <2> QED
    BY <1>1, <1>2, <2>1, RowLists, ListsSpare DEF MonthTurn
<1>3. ASSUME Spared(L), TtlTurn(p, L) PROVE Done(p)
  <2>1. CASE L = {}
    BY <1>3, <2>1, RestKeeps DEF TtlTurn
  <2>2. CASE L # {}
    <3>1. First(L) \in L
      BY <2>2, FirstIn
    <3>2. /\ Allowed("ttl", Later(L, First(L)), First(L).id, "expired")
          /\ Later(L, First(L)) \in SUBSET Row /\ First(L).id \in Clients
      BY <1>3, <1>a, <3>1
    <3> QED
      BY <1>0, <1>3, <2>2, <3>2, AskKeeps DEF TtlTurn
  <2> QED
    BY <2>1, <2>2
<1>4. ASSUME AlertTurn(p, L) PROVE Done(p)
  <2> DEFINE abnormal == {r \in L : heavy[r.id] /\ ~fired[r.id]}
             r == First(abnormal)
  <2>1. CASE abnormal = {}
    BY <1>4, <2>1, RestKeeps DEF AlertTurn
  <2>2. CASE abnormal # {}
    <3>1. Ask(p, "alert", Later(L, r), 0, r.id, "abnormal_traffic")
      BY <1>4, <2>2 DEF AlertTurn
    <3>2. r \in Row
      BY <2>2, FirstIn
    <3>3. Later(L, r) \in SUBSET Row /\ r.id \in Clients
      BY <3>2 DEF Later, Row
    <3>4. Allowed("alert", Later(L, r), r.id, "abnormal_traffic")
      BY DEF Allowed, Lasting, Passing
    <3> QED
      BY <1>0, <3>1, <3>3, <3>4, AskKeeps DEF Lasting
  <2> QED
    BY <2>1, <2>2
<1>5. ASSUME NEW m \in 0..MaxMonth, Spared(L), DayTurn(p, L, m) PROVE Done(p)
  <2>1. ASSUME DayRow(p, L, m) PROVE Done(p)
    <3> DEFINE r == First(L)
    <3>1. r \in L
      BY <2>1, FirstIn DEF DayRow
    <3>2. \A s \in {"active", "monthly_quota"} :
            /\ Allowed("day", Later(L, r), r.id, s)
            /\ Later(L, r) \in SUBSET Row /\ r.id \in Clients
      BY <1>5, <1>a, <3>1
    <3>3. CASE Over(r, "monthly")
      <4>1. /\ Write("day", r.id, "monthly_quota")
            /\ Become(p, After("day", Later(L, r), m, r.id, "monthly_quota"))
        BY <2>1, <3>3 DEF DayRow
      <4>2. Kept' /\ Spared(Later(L, r))'
        <5>1. "day" \in Phases /\ "day" \in Passing
              /\ "monthly_quota" \in Status
          BY DEF Passing
        <5> QED
          BY <3>2, <4>1, <5>1, WriteKeeps
      <4>3. job' = [job EXCEPT ![p] =
                      Awaiting("notify", "day", Later(L, r), m, r.id,
                               "monthly_quota")]
        BY <4>1 DEF Become, After
      <4> HIDE DEF r
      <4>4. Careful(job[p])'
        BY <4>2, <4>3 DEF Careful, Awaiting, Typed
      <4> QED
        BY <4>2, <4>3, <4>4 DEF Done, Typed
    <3>4. CASE ~Over(r, "monthly")
      BY <2>1, <3>2, <3>4, AskKeeps DEF DayRow
    <3> QED
      BY <3>3, <3>4
  <2> QED
    BY <1>2, <1>5, <2>1, RowLists, ListsSpare DEF DayTurn, Spared
<1> QED
  BY <1>1, <1>2, <1>3, <1>4, <1>5

-----------------------------------------------------------------------------
(* Every reachable state is well formed.                                     *)
THEOREM SuspensionTypes == Spec => []TypeOK
<1> USE SuspensionAssumption
<1>1. Init => TypeOK
  <2> SUFFICES ASSUME Init PROVE TypeOK
    OBVIOUS
  <2> USE DEF Init
  <2>1. status \in [Clients -> Status]
    BY DEF Status
  <2>2. quota \in [Clients -> SUBSET Periods]
    BY DEF Periods
  <2>3. job \in [Slots -> Job]
    BY DEF Job
  <2>4. reached \in [Clients -> SUBSET Periods]
    OBVIOUS
  <2> QED
    BY <2>1, <2>2, <2>3, <2>4 DEF TypeOK
<1>2. TypeOK /\ [Next]_vars => TypeOK'
  <2> SUFFICES ASSUME TypeOK, [Next]_vars PROVE TypeOK'
    OBVIOUS
  <2>0. /\ Typed /\ quota \in [Clients -> SUBSET Periods]
        /\ lastMonth \in 0..MaxMonth /\ month \in 0..MaxMonth
        /\ day \in 0..MaxDay /\ 0 \in 0..MaxMonth
    BY DEF TypeOK, Typed
  <2>l. /\ {} \in SUBSET Row /\ SuspendedFor("daily_quota") \in SUBSET Row
        /\ Expired \in SUBSET Row /\ ActiveRows \in SUBSET Row
    BY <2>0, RowLists
  <2>j. ASSUME NEW p \in Slots, job[p] # Rest
        PROVE  /\ job[p].todo \in SUBSET Row /\ job[p].month \in 0..MaxMonth
               /\ job[p].id \in Clients /\ job[p].to \in Status
               /\ job[p].phase \in Phases
    BY <2>0, <2>j DEF Typed, Job
  <2>r. \A p \in Slots : job[p].at \in {"ssh", "restart", "notify"}
                          => job[p] # Rest
    BY DEF Rest
  <2>1. ASSUME NEW p \in Slots, StartQuota(p) PROVE TypeOK'
    <3>1. Typed' /\ lastMonth' \in 0..MaxMonth
      BY <2>0, <2>1, <2>l, TurnTypes DEF StartQuota, QuotaTick
    <3> QED
      BY <2>0, <2>1, <3>1 DEF StartQuota, QuotaTick, Begins, calendar, TypeOK, Typed
  <2>2. ASSUME NEW p \in Slots, StartTtl(p) PROVE TypeOK'
    <3>1. Typed'
      BY <2>0, <2>2, <2>l, TurnTypes DEF StartTtl
    <3> QED
      BY <2>2, <3>1 DEF StartTtl, Begins, calendar, memory, TypeOK, Typed
  <2>3. ASSUME NEW p \in Slots, StartAlert(p) PROVE TypeOK'
    <3>1. Typed'
      BY <2>0, <2>3, <2>l, TurnTypes DEF StartAlert
    <3> QED
      BY <2>3, <3>1 DEF StartAlert, Begins, calendar, memory, TypeOK, Typed
  <2>4. ASSUME NEW p \in Slots, NEW c \in Clients, Request(p, c) PROVE TypeOK'
    <3>1. PICK step \in {<<"manual", "manual">>, <<"resume", "active">>,
                         <<"delete", "gone">>} :
            Ask(p, step[1], {}, 0, c, step[2])
      BY <2>4 DEF Request
    <3>2. step[1] \in Phases /\ step[2] \in Status
      BY DEF Phases, Status, Reasons, Lasting
    <3>3. Typed'
      BY <2>0, <2>l, <3>1, <3>2, AskTypes
    <3> QED
      BY <2>4, <3>3 DEF Request, Begins, calendar, memory, TypeOK, Typed
  <2>a. "auto" \in Phases /\ "active" \in Status
    BY DEF Phases, Status
  <2>5. ASSUME NEW p \in Slots, NEW c \in Clients, NEW q \in SUBSET Periods,
               UpdateQuota(p, c, q) PROVE TypeOK'
    <3>1. CASE QuotaResumes(c, q)
      <4>1. Typed'
        BY <2>0, <2>5, <2>a, <2>l, <3>1, AskTypes DEF UpdateQuota
      <4> QED
        BY <2>5, <4>1 DEF UpdateQuota, Begins, calendar, memory, TypeOK, Typed
    <3>2. CASE ~QuotaResumes(c, q)
      BY <2>5, <3>2 DEF UpdateQuota, Begins, calendar, memory, traffic, TypeOK
    <3> QED
      BY <3>1, <3>2
  <2>6. ASSUME NEW p \in Slots, NEW c \in Clients, UpdateExpiry(p, c)
        PROVE TypeOK'
    <3>1. CASE ExpiryResumes(c)
      <4>1. Typed'
        BY <2>0, <2>6, <2>a, <2>l, <3>1, AskTypes DEF UpdateExpiry
      <4> QED
        BY <2>6, <4>1 DEF UpdateExpiry, Begins, calendar, memory, TypeOK, Typed
    <3>2. CASE ~ExpiryResumes(c)
      BY <2>6, <3>2 DEF UpdateExpiry, Begins, calendar, memory, traffic, TypeOK
    <3> QED
      BY <3>1, <3>2
  <2>7. ASSUME NEW p \in Slots, NEW j \in Job, j # Rest
        PROVE  After(j.phase, j.todo, j.month, j.id, j.to) \in Job
    BY <2>7 DEF After, Awaiting, Job
  <2>f. ASSUME NEW p \in Slots, job[p] # Rest, AlertFired(job[p])
        PROVE  fired' \in [Clients -> BOOLEAN]
    BY <2>f, <2>j DEF AlertFired, TypeOK
  <2>8. ASSUME NEW p \in Slots, SshDone(p) PROVE TypeOK'
    <3>1. job[p] # Rest
      BY <2>8, <2>r DEF SshDone
    <3>2. job' \in [Slots -> Job]
      BY <2>0, <2>7, <2>8, <3>1 DEF SshDone, Become, Typed
    <3>3. fired' \in [Clients -> BOOLEAN]
      BY <2>8, <2>f, <3>1 DEF SshDone
    <3>4. /\ status' \in [Clients -> Status]
          /\ revoked' \in [Clients -> BOOLEAN]
          /\ reached' \in [Clients -> SUBSET Periods]
          /\ heavy' \in [Clients -> BOOLEAN]
      BY <2>0, <2>8, <2>j, <3>1, WriteTypes DEF SshDone
    <3> QED
      BY <2>8, <3>2, <3>3, <3>4 DEF SshDone, calendar, memory, TypeOK
  <2>9. ASSUME NEW p \in Slots, RestartDone(p) PROVE TypeOK'
    <3>1. job[p] # Rest
      BY <2>9, <2>r DEF RestartDone
    <3>2. job' \in [Slots -> Job]
      BY <2>0, <2>7, <2>9, <3>1 DEF RestartDone, Become, Typed
    <3>3. fired' \in [Clients -> BOOLEAN]
      BY <2>9, <2>f, <3>1 DEF RestartDone
    <3> QED
      BY <2>9, <3>2, <3>3 DEF RestartDone, rows, traffic, calendar, memory, TypeOK
  <2>10. ASSUME NEW p \in Slots, job[p] # Rest, GoOn(p)
         PROVE  Typed' /\ lastMonth' \in 0..MaxMonth
    BY <2>0, <2>j, <2>10, TurnTypes DEF GoOn
  <2>11. ASSUME NEW p \in Slots, Notified(p) PROVE TypeOK'
    <3>1. Typed' /\ lastMonth' \in 0..MaxMonth
      BY <2>10, <2>11, <2>r DEF Notified
    <3> QED
      BY <2>11, <3>1 DEF Notified, calendar, TypeOK, Typed
  <2>12. ASSUME NEW p \in Slots, SshFails(p) PROVE TypeOK'
    <3>1. job[p] # Rest
      BY <2>12, <2>r DEF SshFails
    <3>2. fired' \in [Clients -> BOOLEAN]
      BY <2>12, <2>f, <3>1 DEF SshFails
    <3>3. Typed' /\ lastMonth' \in 0..MaxMonth
      <4>1. CASE GoOn(p)
        BY <2>10, <3>1, <4>1
      <4>2. CASE /\ Become(p, After(job[p].phase, job[p].todo, job[p].month,
                                    job[p].id, job[p].to))
                 /\ UNCHANGED <<status, revoked, traffic, lastMonth>>
        <5>1. job' \in [Slots -> Job]
          BY <2>0, <2>7, <3>1, <4>2 DEF Become, Typed
        <5> QED
          BY <2>0, <4>2, <5>1 DEF Typed, traffic
      <4> QED
        BY <2>12, <4>1, <4>2 DEF SshFails
    <3> QED
      BY <2>12, <3>2, <3>3 DEF SshFails, calendar, TypeOK, Typed
  <2>13. CASE Restart
    <3>1. job' \in [Slots -> Job]
      BY <2>13 DEF Restart, Job
    <3> QED
      BY <2>13, <3>1 DEF Restart, rows, traffic, calendar, TypeOK
  <2>14. CASE NewDay
    <3>1. day' \in 0..MaxDay /\ month' \in 0..MaxMonth
      BY <2>0, <2>14 DEF NewDay
    <3>2. reached' \in [Clients -> SUBSET Periods]
      BY <2>0, <2>14 DEF NewDay, Typed
    <3> QED
      BY <2>14, <3>1, <3>2 DEF NewDay, rows, memory, TypeOK
  <2>19. CASE Rollup
    <3>1. reached' \in [Clients -> SUBSET Periods] /\ spent' \subseteq Clients
      BY <2>0, <2>19 DEF Rollup, Typed, TypeOK
    <3> QED
      BY <2>19, <3>1 DEF Rollup, rows, memory, TypeOK
  <2>15. ASSUME NEW c \in Clients, Use(c) PROVE TypeOK'
    <3>1. ASSUME NEW period \in Periods,
                 reached' = [reached EXCEPT ![c] = @ \cup {period}]
          PROVE  reached' \in [Clients -> SUBSET Periods]
      BY <2>0, <3>1 DEF Typed
    <3>2. /\ reached' \in [Clients -> SUBSET Periods]
          /\ heavy' \in [Clients -> BOOLEAN]
      <4>1. "daily" \in Periods
        BY DEF Periods
      <4>2. reached' \in [Clients -> SUBSET Periods]
        BY <2>0, <2>15, <3>1, <4>1 DEF Use, Typed
      <4> QED
        BY <2>0, <2>15, <4>2 DEF Use, Typed
    <3> QED
      BY <2>15, <3>2 DEF Use, rows, calendar, memory, TypeOK
  <2>16. ASSUME NEW c \in Clients, Lapse(c) PROVE TypeOK'
    BY <2>16 DEF Lapse, traffic, calendar, memory, TypeOK
  <2>17. ASSUME NEW c \in Clients, Calm(c) PROVE TypeOK'
    BY <2>17 DEF Calm, rows, calendar, memory, TypeOK
  <2>18. CASE UNCHANGED vars
    BY <2>18 DEF vars, rows, traffic, calendar, memory, TypeOK
  <2> QED
    BY <2>1, <2>2, <2>3, <2>4, <2>5, <2>6, <2>8, <2>9, <2>11, <2>12, <2>13,
       <2>14, <2>15, <2>16, <2>17, <2>18, <2>19 DEF Next, Begin, Answer
<1> QED
  BY <1>1, <1>2, PTL DEF Spec

-----------------------------------------------------------------------------
LEMMA SettingStays == [Next]_vars => setting' = setting
  <1>1. \A p \in Slots : Begin(p) => setting' = setting
    BY DEF Begin, StartQuota, StartTtl, StartAlert, Begins
  <1>2. \A p \in Slots : Answer(p) \/ SshFails(p) => setting' = setting
    BY DEF Answer, SshDone, RestartDone, Notified, SshFails
  <1>3. \A p \in Slots, c \in Clients :
          \/ Request(p, c) \/ UpdateExpiry(p, c)
          \/ \E q \in SUBSET Periods : UpdateQuota(p, c, q)
          => setting' = setting
    BY DEF Request, UpdateExpiry, UpdateQuota, Begins
  <1>4. Restart \/ NewDay \/ Rollup \/ UNCHANGED vars => setting' = setting
    BY DEF Restart, NewDay, Rollup, vars
  <1>5. \A c \in Clients : Use(c) \/ Lapse(c) \/ Calm(c)
                           => setting' = setting
    BY DEF Use, Lapse, Calm
  <1> QED
    BY <1>1, <1>2, <1>3, <1>4, <1>5 DEF Next

(* Turns by turns, what TurnsInv says goes on.                               *)
LEMMA TurnsHold == Spec => []TurnsInv
<1> USE SuspensionAssumption
<1>1. Init => TurnsInv
  BY DEF Init, TurnsInv, Kept
<1>2. TypeOK /\ TurnsInv /\ [Next]_vars => TurnsInv'
  <2> SUFFICES ASSUME TypeOK, TurnsInv, [Next]_vars, setting.inTurn,
                      setting' = setting
               PROVE  TurnsInv'
    BY SettingStays DEF TurnsInv
  <2>0. /\ Typed /\ quota \in [Clients -> SUBSET Periods] /\ Kept
        /\ lastMonth \in 0..MaxMonth /\ month \in 0..MaxMonth
        /\ 0 \in 0..MaxMonth
    BY DEF TypeOK, Typed, TurnsInv
  <2>l. /\ {} \in SUBSET Row /\ SuspendedFor("daily_quota") \in SUBSET Row
        /\ Expired \in SUBSET Row /\ ActiveRows \in SUBSET Row
        /\ Spared({}) /\ Spared(Expired) /\ Spared(SuspendedFor("daily_quota"))
    BY <2>0, RowLists, ListsSpare DEF Spared
  \* A turn of p that keeps what it should, when nobody else is at work.
  <2>d. ASSUME NEW p \in Slots, \A q \in Slots \ {p} : job[q] = Rest, Done(p)
        PROVE  TurnsInv'
    <3>1. \A q \in Slots : job'[q] # Rest => q = p
      BY <2>d DEF Done
    <3>2. \A q \in Slots : (job[q] # Rest)' => Careful(job[q])'
      BY <2>d, <3>1 DEF Done
    <3> QED
      BY <2>d, <3>1, <3>2 DEF Done, TurnsInv, Rest
  <2>b. ASSUME NEW p \in Slots, Begins(p)
        PROVE  \A q \in Slots \ {p} : job[q] = Rest
    BY <2>b DEF Begins
  <2>a. ASSUME NEW p \in Slots, job[p] # Rest
        PROVE  /\ \A q \in Slots \ {p} : job[q] = Rest
               /\ Careful(job[p])
               /\ job[p].todo \in SUBSET Row /\ job[p].month \in 0..MaxMonth
               /\ job[p].id \in Clients /\ job[p].to \in Status
               /\ job[p].phase \in Phases
    BY <2>0, <2>a DEF TurnsInv, Typed, Job
  <2>r. \A p \in Slots : job[p].at \in {"ssh", "restart", "notify"}
                          => job[p] # Rest
    BY DEF Rest
  \* Nothing these properties look at has changed.
  <2>s. ASSUME UNCHANGED <<status, revoked, job>> PROVE TurnsInv'
    BY <2>s DEF TurnsInv, Kept, Careful, Allowed, Spared
  <2>1. ASSUME NEW p \in Slots, StartQuota(p) PROVE TurnsInv'
    <3>1. Done(p)
      BY <2>0, <2>1, <2>l, TurnKeeps DEF StartQuota, QuotaTick, Spared
    <3> QED
      BY <2>1, <2>b, <2>d, <3>1 DEF StartQuota
  <2>2. ASSUME NEW p \in Slots, StartTtl(p) PROVE TurnsInv'
    <3>1. Done(p)
      BY <2>0, <2>2, <2>l, TurnKeeps DEF StartTtl
    <3> QED
      BY <2>2, <2>b, <2>d, <3>1 DEF StartTtl
  <2>3. ASSUME NEW p \in Slots, StartAlert(p) PROVE TurnsInv'
    <3>1. Done(p)
      BY <2>0, <2>3, <2>l, TurnKeeps DEF StartAlert
    <3> QED
      BY <2>3, <2>b, <2>d, <3>1 DEF StartAlert
  <2>4. ASSUME NEW p \in Slots, NEW c \in Clients, Request(p, c)
        PROVE  TurnsInv'
    <3>1. PICK step \in {<<"manual", "manual">>, <<"resume", "active">>,
                         <<"delete", "gone">>} :
            Ask(p, step[1], {}, 0, c, step[2])
      BY <2>4 DEF Request
    <3>2. /\ step[1] \in Phases /\ step[2] \in Status
          /\ Allowed(step[1], {}, c, step[2])
      BY DEF Phases, Status, Reasons, Lasting, Allowed, Passing
    <3>3. Done(p)
      BY <2>0, <2>l, <3>1, <3>2, AskKeeps
    <3> QED
      BY <2>4, <2>b, <2>d, <3>3 DEF Request
  \* A suspension that a change of quota or expiry may lift is not a lasting one.
  <2>e. ASSUME NEW c \in Clients,
               status[c] \in {"daily_quota", "monthly_quota", "expired"}
        PROVE  /\ Allowed("auto", {}, c, "active")
               /\ "auto" \in Phases /\ "active" \in Status
    BY <2>0, <2>e DEF Kept, Allowed, Passing, Lasting, Phases, Status
  <2>5. ASSUME NEW p \in Slots, NEW c \in Clients, NEW q \in SUBSET Periods,
               UpdateQuota(p, c, q)
        PROVE  TurnsInv'
    <3>1. CASE QuotaResumes(c, q)
      <4>1. /\ Ask(p, "auto", {}, 0, c, "active")
            /\ status[c] \in {"daily_quota", "monthly_quota", "expired"}
        BY <2>5, <3>1 DEF UpdateQuota, QuotaResumes
      <4>2. Done(p)
        BY <2>0, <2>l, <2>e, <4>1, AskKeeps
      <4> QED
        BY <2>5, <2>b, <2>d, <4>2 DEF UpdateQuota
    <3>2. CASE ~QuotaResumes(c, q)
      BY <2>5, <2>s, <3>2 DEF UpdateQuota
    <3> QED
      BY <3>1, <3>2
  <2>6. ASSUME NEW p \in Slots, NEW c \in Clients, UpdateExpiry(p, c)
        PROVE  TurnsInv'
    <3>1. CASE ExpiryResumes(c)
      <4>1. /\ Ask(p, "auto", {}, 0, c, "active")
            /\ status[c] \in {"daily_quota", "monthly_quota", "expired"}
        BY <2>6, <3>1 DEF UpdateExpiry, ExpiryResumes
      <4>2. Done(p)
        BY <2>0, <2>l, <2>e, <4>1, AskKeeps
      <4> QED
        BY <2>6, <2>b, <2>d, <4>2 DEF UpdateExpiry
    <3>2. CASE ~ExpiryResumes(c)
      BY <2>6, <2>s, <3>2 DEF UpdateExpiry
    <3> QED
      BY <3>1, <3>2
  \* The job that p goes on with looks after its list.
  <2>n. ASSUME NEW p \in Slots, job[p] # Rest, Kept', UNCHANGED setting,
               Become(p, After(job[p].phase, job[p].todo, job[p].month,
                               job[p].id, job[p].to)),
               job[p].phase \in Passing =>
                 \A r \in job[p].todo : ~revoked'[r.id]
        PROVE  TurnsInv'
    <3> DEFINE j == After(job[p].phase, job[p].todo, job[p].month,
                          job[p].id, job[p].to)
    <3>1. job' = [job EXCEPT ![p] = j] /\ job'[p] = j
      BY <2>0, <2>n DEF Become, Typed
    <3>2. \/ j = Rest
          \/ j.at = "notify" /\ j.phase = job[p].phase /\ j.todo = job[p].todo
      BY DEF After, Awaiting
    <3> HIDE DEF j
    <3>3. job'[p] # Rest => Careful(job[p])'
      BY <2>n, <3>1, <3>2 DEF Careful, Spared
    <3> QED
      BY <2>0, <2>a, <2>d, <2>n, <3>1, <3>3 DEF Done, Typed
  <2>7. ASSUME NEW p \in Slots, SshDone(p) PROVE TurnsInv'
    <3>1. job[p] # Rest
      BY <2>7, <2>r DEF SshDone
    <3>2. Allowed(job[p].phase, job[p].todo, job[p].id, job[p].to)
      BY <2>7, <2>a, <3>1 DEF SshDone, Careful
    <3> DEFINE L == job[p].todo
    <3>3. /\ L \in SUBSET Row /\ job[p].phase \in Phases /\ job[p].id \in Clients
          /\ job[p].to \in Status /\ Allowed(job[p].phase, L, job[p].id, job[p].to)
          /\ Write(job[p].phase, job[p].id, job[p].to)
      BY <2>7, <2>a, <3>1, <3>2 DEF SshDone
    <3>4. Kept' /\ (job[p].phase \in Passing => \A r \in L : ~revoked'[r.id])
      <4> HIDE DEF L
      <4> QED
        BY <2>0, <3>3, WriteKeeps DEF Spared
    <3>5. job[p].phase \in Passing => \A r \in job[p].todo : ~revoked'[r.id]
      BY <3>4
    <3> QED
      BY <2>7, <2>n, <3>1, <3>4, <3>5 DEF SshDone
  <2>8. ASSUME NEW p \in Slots, RestartDone(p) PROVE TurnsInv'
    <3>1. job[p] # Rest
      BY <2>8, <2>r DEF RestartDone
    <3> QED
      BY <2>0, <2>8, <2>a, <2>n, <3>1 DEF RestartDone, rows, Kept, Careful, Spared
  <2>9. ASSUME NEW p \in Slots, job[p] # Rest, GoOn(p) PROVE TurnsInv'
    <3>1. Done(p)
      BY <2>0, <2>9, <2>a, TurnKeeps DEF GoOn, Careful, Passing
    <3> QED
      BY <2>9, <2>a, <2>d, <3>1
  <2>10. ASSUME NEW p \in Slots, Notified(p) PROVE TurnsInv'
    BY <2>9, <2>10, <2>r DEF Notified
  <2>11. ASSUME NEW p \in Slots, SshFails(p) PROVE TurnsInv'
    <3>1. job[p] # Rest
      BY <2>11, <2>r DEF SshFails
    <3>2. CASE GoOn(p)
      BY <2>9, <3>1, <3>2
    <3>3. CASE /\ Become(p, After(job[p].phase, job[p].todo, job[p].month,
                                  job[p].id, job[p].to))
               /\ UNCHANGED <<status, revoked, traffic, lastMonth>>
      BY <2>0, <2>a, <2>n, <3>1, <3>3 DEF Kept, Careful, Spared
    <3> QED
      BY <2>11, <3>2, <3>3 DEF SshFails
  <2>12. CASE Restart
    BY <2>0, <2>12 DEF Restart, rows, TurnsInv, Kept
  <2>13. CASE NewDay \/ Rollup
    BY <2>13, <2>s DEF NewDay, Rollup, rows
  <2>14. ASSUME NEW c \in Clients, Use(c) \/ Lapse(c) \/ Calm(c) PROVE TurnsInv'
    BY <2>14, <2>s DEF Use, Lapse, Calm, rows
  <2>15. CASE UNCHANGED vars
    BY <2>15, <2>s DEF vars, rows
  <2> QED
    BY <2>1, <2>2, <2>3, <2>4, <2>5, <2>6, <2>7, <2>8, <2>10, <2>11, <2>12,
       <2>13, <2>14, <2>15 DEF Next, Begin, Answer
<1> QED
  BY <1>1, <1>2, SuspensionTypes, PTL DEF Spec

(* While the programs take turns no suspension by hand or for abnormal       *)
(* traffic is lifted by anything but the operator's resume.                  *)
THEOREM RevokedHolds == Spec => []RevokedStaysInTurn
<1>1. TurnsInv => RevokedStaysInTurn
  <2>1. "active" \notin Lasting \cup {"gone"}
    BY DEF Lasting
  <2> QED
    BY <2>1 DEF TurnsInv, RevokedStaysInTurn, RevokedStays, Kept
<1> QED
  BY <1>1, TurnsHold, PTL

-----------------------------------------------------------------------------
(* Causes.  Where the programs take turns and nothing fails, a client that  *)
(* is suspended for a quota or its expiry has given cause for it, or the    *)
(* job under way is about to lift that.                                     *)

(* Has c given cause to be s, when day ld and month lm are dealt with?       *)
Due(c, s, ld, lm) ==
  /\ s = "daily_quota" => "daily" \in quota[c] \cap reached[c] \/ ld # day
  /\ s = "monthly_quota" =>
       \/ "monthly" \in quota[c] /\ ("monthly" \in reached[c] \/ c \in spent)
       \/ lm # month
  /\ s = "expired" => lapsed[c]

(* A reset that has c, suspended for s, on its list.                         *)
Listed(todo, ph, c, s) ==
  /\ \E r \in todo : r.id = c
  /\ \/ ph = "day" /\ s = "daily_quota"
     \/ ph = "month" /\ s = "monthly_quota"

Lifts(j, c, s) ==
  /\ j # Rest
  /\ \/ j.at = "ssh" /\ j.id = c /\ j.to = "active"
     \/ Listed(j.todo, j.phase, c, s)

(* A list says what the rows say now.                                        *)
Fresh(ph, todo) ==
  \A r \in todo : r.quota = quota[r.id] /\ (ph = "ttl" => lapsed[r.id])

Grounded(j) ==
  /\ j.month <= month
  /\ Fresh(j.phase, j.todo)
  /\ j.at = "ssh" => Due(j.id, j.to, lastDay, lastMonth)

CauseInv ==
  setting.inTurn /\ Clean =>
    /\ lastDay <= day /\ lastMonth <= month
    /\ \A p \in Slots : job[p] # Rest => Grounded(job[p])
    /\ \A c \in Clients : \/ Due(c, status[c], lastDay, lastMonth)
                          \/ \E p \in Slots : Lifts(job[p], c, status[c])

(* What the turn of p that asks for c to become s leaves alone.              *)
Frame(c, s) ==
  /\ UNCHANGED <<day, month, spent>>
  /\ \A d \in Clients : d # c \/ s # "active" => quota'[d] = quota[d] /\ lapsed'[d] = lapsed[d]

(* What a turn of p establishes.                                             *)
Handled(p) ==
  /\ job'[p] # Rest => Grounded(job[p])'
  /\ \A c \in Clients : \/ Due(c, status[c], lastDay, lastMonth)'
                        \/ Lifts(job[p], c, status[c])'
  /\ \A q \in Slots \ {p} : job'[q] = job[q]

(* What a write or a command asked for needs: a list that is fresh, cause    *)
(* for s, and for what the others are.                                       *)
Ready(ph, todo, m, c, s) ==
  /\ m <= month
  /\ \A r \in todo : r.quota = quota'[r.id] /\ (ph = "ttl" => lapsed'[r.id])
  /\ Due(c, s, lastDay', lastMonth')
  /\ \A d \in Clients \ {c} : \/ Due(d, status[d], lastDay', lastMonth')
                              \/ Listed(todo, ph, d, status[d])

LEMMA DueStays ==
  ASSUME NEW c \in Clients, NEW s, NEW d \in Clients, NEW x, Frame(c, s),
         d # c \/ s # "active" \/ x \notin {"daily_quota", "monthly_quota", "expired"},
         reached'[d] = reached[d] \/ x \notin {"daily_quota", "monthly_quota"},
         Due(d, x, lastDay', lastMonth')
  PROVE  Due(d, x, lastDay, lastMonth)'
BY DEF Due, Frame

LEMMA WriteHandled ==
  ASSUME Typed, NEW p \in Slots, NEW ph, NEW todo, NEW m, NEW c \in Clients,
         NEW s \in Status,
         Frame(c, s), Ready(ph, todo, m, c, s), Write(ph, c, s), NEW j, Become(p, j),
         \/ j = Rest /\ ph \notin {"day", "month"}
         \/ j = Awaiting("restart", ph, todo, m, c, s)
         \/ j = Awaiting("notify", ph, todo, m, c, s)
  PROVE  Handled(p)
<1>1. job'[p] = j /\ \A q \in Slots \ {p} : job'[q] = job[q]
  BY DEF Become, Typed
<1>2. /\ \A d \in Clients : d # c => status'[d] = status[d] /\ reached'[d] = reached[d]
      /\ status'[c] \in {s, "gone"}
      /\ s # "gone" => reached'[c] = reached[c]
  BY DEF Write, Typed, Exists
<1>3. ASSUME j # Rest PROVE Grounded(job[p])'
  <2>1. /\ j.at # "ssh" /\ j.month = m /\ j.todo = todo /\ j.phase = ph
    BY <1>3 DEF Awaiting
  <2>2. month' = month /\ Fresh(ph, todo)'
    BY DEF Frame, Ready, Fresh
  <2> QED BY <1>1, <2>1, <2>2 DEF Grounded, Ready, Fresh
<1>4. ASSUME NEW d \in Clients
      PROVE  Due(d, status[d], lastDay, lastMonth)' \/ Lifts(job[p], d, status[d])'
  <2>0. PICK x : x = status'[d]
    OBVIOUS
  <2>1. CASE d = c
    <3>1. x \in {s, "gone"}
      BY <1>2, <2>0, <2>1
    <3>2. Due(c, x, lastDay', lastMonth')
      BY <3>1 DEF Ready, Due
    <3>3. /\ s # "active" \/ x \notin {"daily_quota", "monthly_quota", "expired"}
          /\ reached'[c] = reached[c] \/ x \notin {"daily_quota", "monthly_quota"}
      BY <1>2, <3>1
    <3>4. Due(c, x, lastDay, lastMonth)'
      BY <3>2, <3>3, DueStays
    <3>5. Due(d, status[d], lastDay, lastMonth)'
      BY <2>0, <2>1, <3>4 DEF Due
    <3> QED BY <3>5
  <2>2. CASE d # c /\ Due(d, status[d], lastDay', lastMonth')
    <3>1. x = status[d] /\ reached'[d] = reached[d]
      BY <1>2, <2>0, <2>2
    <3>2. Due(d, x, lastDay, lastMonth)'
      BY <2>2, <3>1, DueStays
    <3>3. Due(d, status[d], lastDay, lastMonth)'
      BY <2>0, <3>2 DEF Due
    <3> QED BY <3>3
  <2>3. CASE d # c /\ Listed(todo, ph, d, status[d])
    <3>1. j # Rest /\ j.todo = todo /\ j.phase = ph
      BY <2>3 DEF Listed, Awaiting, Rest
    <3> QED BY <1>1, <1>2, <2>3, <3>1 DEF Lifts, Listed
  <2> QED BY <2>1, <2>2, <2>3 DEF Ready
<1> QED BY <1>1, <1>3, <1>4 DEF Handled

LEMMA AskHandled ==
  ASSUME Typed, NEW p \in Slots, NEW ph \in Phases, NEW todo, NEW m,
         NEW c \in Clients,
         NEW s \in Status, Frame(c, s), Ready(ph, todo, m, c, s),
         s = "active" \/ Due(c, status[c], lastDay', lastMonth'),
         Ask(p, ph, todo, m, c, s)
  PROVE  Handled(p)
<1>1. CASE c \in Wg
  <2> DEFINE j == Awaiting("ssh", ph, todo, m, c, s)
  <2>1. UNCHANGED <<status, revoked, reached>> /\ Become(p, j)
    BY <1>1 DEF Ask, traffic
  <2>2. job'[p] = j /\ \A q \in Slots \ {p} : job'[q] = job[q]
    BY <2>1 DEF Become, Typed
  <2>3. /\ j # Rest /\ j.at = "ssh" /\ j.phase = ph /\ j.todo = todo /\ j.month = m
        /\ j.id = c /\ j.to = s
    BY DEF Awaiting, Rest
  <2> HIDE DEF j
  <2>4. Due(c, s, lastDay, lastMonth)'
    <3>1. s # "active" \/ s \notin {"daily_quota", "monthly_quota", "expired"}
      OBVIOUS
    <3> QED BY <2>1, <3>1, DueStays DEF Ready
  <2>5. Grounded(job[p])'
    <3>1. month' = month /\ Fresh(ph, todo)'
      BY DEF Frame, Ready, Fresh
    <3> QED BY <2>2, <2>3, <2>4, <3>1 DEF Grounded, Ready, Fresh, Due
  <2>6. ASSUME NEW d \in Clients
        PROVE  Due(d, status[d], lastDay, lastMonth)' \/ Lifts(job[p], d, status[d])'
    <3>1. CASE d = c /\ s = "active"
      BY <2>2, <2>3, <3>1 DEF Lifts
    <3>2. CASE /\ Due(d, status[d], lastDay', lastMonth') /\ (d # c \/ s # "active")
      <4>1. PICK x : x = status[d]
        OBVIOUS
      <4>2. Due(d, x, lastDay, lastMonth)'
        BY <2>1, <3>2, <4>1, DueStays
      <4> QED BY <2>1, <4>1, <4>2 DEF Due
    <3>3. CASE Listed(todo, ph, d, status[d])
      BY <2>1, <2>2, <2>3, <3>3 DEF Lifts, Listed
    <3> QED BY <3>1, <3>2, <3>3 DEF Ready
  <2> QED BY <2>2, <2>5, <2>6 DEF Handled
<1>2. CASE c \notin Wg
  <2>1. Write(ph, c, s)
    BY <1>2 DEF Ask
  <2>2. PICK j : /\ Become(p, j)
                 /\ \/ j = Rest /\ ph \notin {"day", "month"}
                    \/ j = Awaiting("restart", ph, todo, m, c, s)
                    \/ j = Awaiting("notify", ph, todo, m, c, s)
    <3>1. CASE ph = "alert"
      BY <1>2, <3>1 DEF Ask
    <3>2. CASE ph # "alert"
      BY <1>2, <3>2 DEF Ask, After
    <3> QED BY <3>1, <3>2
  <2> QED BY <2>1, <2>2, WriteHandled
<1> QED BY <1>1, <1>2

(* A worker's turn touches neither quotas nor expiries, and takes no time.   *)
Still == UNCHANGED <<quota, lapsed, day, month, spent>>

AllDue == \A c \in Clients : Due(c, status[c], lastDay', lastMonth')

LEMMA RestHandled ==
  ASSUME Typed, Still, AllDue, NEW p \in Slots, Become(p, Rest),
         UNCHANGED <<status, revoked, traffic>>
  PROVE  Handled(p)
<1>1. job'[p] = Rest /\ \A q \in Slots \ {p} : job'[q] = job[q]
  BY DEF Become, Typed
<1>2. ASSUME NEW c \in Clients PROVE Due(c, status[c], lastDay, lastMonth)'
  BY DEF AllDue, Due, Still, traffic
<1> QED BY <1>1, <1>2 DEF Handled

(* Whoever is not first on a list comes later.                               *)
LEMMA OthersLater ==
  ASSUME NEW L \in SUBSET Row, L # {}, NEW c \in Clients, c # First(L).id,
         NEW ph, NEW s, Listed(L, ph, c, s)
  PROVE  Listed(Later(L, First(L)), ph, c, s)
<1>1. PICK q \in L : q.id = c
  BY DEF Listed
<1>2. First(L) \in L /\ First(L).id <= q.id
  BY FirstIn
<1>3. First(L).id \in Nat /\ c \in Nat
  BY <1>2, SuspensionAssumption DEF Row
<1>4. q \in Later(L, First(L))
  BY <1>1, <1>2, <1>3 DEF Later
<1> QED BY <1>1, <1>4 DEF Listed

LEMMA StillFrames == Still => \A c, s : Frame(c, s)
BY DEF Still, Frame

(* A worker that asks for the first row of a list to become s.               *)
LEMMA FirstHandled ==
  ASSUME Typed, Still, NEW p \in Slots, NEW ph \in Phases, NEW L \in SUBSET Row,
         L # {},
         Fresh(ph, L), NEW m \in 0..MaxMonth, m <= month,
         NEW s \in Status, Due(First(L).id, s, lastDay', lastMonth'),
         \A d \in Clients \ {First(L).id} : \/ Due(d, status[d], lastDay', lastMonth')
                                           \/ Listed(L, ph, d, status[d]),
         s = "active" \/ Due(First(L).id, status[First(L).id], lastDay', lastMonth'),
         \/ Ask(p, ph, Later(L, First(L)), m, First(L).id, s)
         \/ /\ Write(ph, First(L).id, s) /\ ph = "day"
            /\ Become(p, After(ph, Later(L, First(L)), m, First(L).id, s))
  PROVE  Handled(p)
<1> DEFINE r == First(L)
           todo == Later(L, r)
<1>1. r \in L /\ r.id \in Clients /\ todo \subseteq L
  BY FirstIn DEF Row, Later
<1>2. Frame(r.id, s)
  BY StillFrames
<1>3. Ready(ph, todo, m, r.id, s)
  <2>1. \A q \in todo : q.quota = quota'[q.id] /\ (ph = "ttl" => lapsed'[q.id])
    BY <1>1 DEF Fresh, Still
  <2>2. \A d \in Clients \ {r.id} : \/ Due(d, status[d], lastDay', lastMonth')
                                    \/ Listed(todo, ph, d, status[d])
    BY OthersLater
  <2> HIDE DEF r, todo
  <2>3. Due(r.id, s, lastDay', lastMonth')
    BY DEF r
  <2> QED BY <2>1, <2>2, <2>3 DEF Ready
<1>4. CASE Ask(p, ph, todo, m, r.id, s)
  BY <1>1, <1>2, <1>3, <1>4, AskHandled
<1>5. CASE Write(ph, r.id, s) /\ ph = "day" /\ Become(p, After(ph, todo, m, r.id, s))
  <2>1. After(ph, todo, m, r.id, s) = Awaiting("notify", ph, todo, m, r.id, s)
    BY <1>5 DEF After
  <2> HIDE DEF r, todo
  <2> QED BY <1>1, <1>2, <1>3, <1>5, <2>1, WriteHandled
<1> QED BY <1>4, <1>5

LEMMA EnforceHandled ==
  ASSUME Typed, Still, AllDue, month \in 0..MaxMonth, NEW p \in Slots,
         NEW L \in SUBSET Row,
         Fresh("enforce", L), EnforceTurn(p, L)
  PROVE  Handled(p)
<1> DEFINE over == {r \in L : Over(r, "monthly") \/ Over(r, "daily")}
           r == First(over)
<1>1. CASE over # {} /\ Ask(p, "enforce", Later(L, r), 0, r.id, Reason(r))
  <2>1. r \in over /\ r \in L /\ r.id \in Clients
    BY <1>1, FirstIn DEF Row
  <2>2. Due(r.id, Reason(r), lastDay', lastMonth')
    <3>1. r.quota = quota[r.id] /\ (Over(r, "monthly") \/ Over(r, "daily"))
      BY <2>1 DEF Fresh
    <3>2. Reason(r) = IF Over(r, "monthly") THEN "monthly_quota" ELSE "daily_quota"
      BY DEF Reason
    <3> HIDE DEF r
    <3> QED BY <3>1, <3>2 DEF Over, Due
  <2>3. /\ "enforce" \in Phases /\ Reason(r) \in Status /\ 0 <= month
        /\ Later(L, r) \subseteq L
    BY DEF Phases, Reason, Status, Reasons, Later
  <2> DEFINE c == r.id
             s == Reason(r)
             todo == Later(L, r)
  <2>4. Frame(c, s)
    BY StillFrames
  <2>5. Ready("enforce", todo, 0, c, s)
    <3>1. \A q \in todo : q.quota = quota'[q.id]
      BY <2>3 DEF Fresh, Still
    <3>2. Due(c, s, lastDay', lastMonth')
      BY <2>2
    <3> HIDE DEF c, s, todo
    <3> QED BY <2>3, <3>1, <3>2 DEF Ready, AllDue
  <2>6. Due(c, status[c], lastDay', lastMonth') /\ Ask(p, "enforce", todo, 0, c, s)
    BY <1>1, <2>1 DEF AllDue
  <2>7. c \in Clients /\ s \in Status
    BY <2>1, <2>3
  <2> HIDE DEF c, s, todo
  <2> QED BY <2>3, <2>4, <2>5, <2>6, <2>7, AskHandled
<1>2. CASE Become(p, Rest) /\ UNCHANGED <<status, revoked, traffic>>
  BY <1>2, RestHandled
<1> QED BY <1>1, <1>2 DEF EnforceTurn, EnforceRow

LEMMA FreshLists ==
  ASSUME Typed, quota \in [Clients -> SUBSET Periods]
  PROVE  /\ Fresh("enforce", WithQuotas) /\ Fresh("ttl", Expired) /\ Fresh("alert", ActiveRows)
         /\ Fresh("day", SuspendedFor("daily_quota")) /\ Fresh("month", SuspendedFor("monthly_quota"))
         /\ \A c \in Clients : \A s : status[c] = s /\ s = "daily_quota"
              => Listed(SuspendedFor("daily_quota"), "day", c, s)
         /\ \A c \in Clients : \A s : status[c] = s /\ s = "monthly_quota"
              => Listed(SuspendedFor("monthly_quota"), "month", c, s)
<1>1. \A S : \A r \in RowsOf(S) : r.id \in S /\ r.quota = quota[r.id]
  BY DEF RowsOf
<1>2. ASSUME NEW S, NEW c \in S PROVE \E r \in RowsOf(S) : r.id = c
  <2>1. [id |-> c, quota |-> quota[c]] \in RowsOf(S)
    BY DEF RowsOf
  <2>2. [id |-> c, quota |-> quota[c]].id = c
    OBVIOUS
  <2> QED BY <2>1, <2>2
<1>3. Fresh("enforce", WithQuotas) /\ Fresh("alert", ActiveRows)
  <2>1. \A S : \A ph : ph # "ttl" => Fresh(ph, RowsOf(S))
    BY <1>1 DEF Fresh
  <2> QED BY <2>1 DEF WithQuotas, ActiveRows
<1>4. \A x : Fresh("day", SuspendedFor(x)) /\ Fresh("month", SuspendedFor(x))
  BY <1>1 DEF Fresh, SuspendedFor
<1>5. Fresh("ttl", Expired)
  BY <1>1 DEF Fresh, Expired
<1>6. ASSUME NEW c \in Clients, NEW s, status[c] = s
      PROVE  \E r \in SuspendedFor(s) : r.id = c
  <2>1. c \in {d \in Clients : status[d] = s}
    BY <1>6
  <2> HIDE DEF SuspendedFor
  <2> QED BY <1>2, <2>1 DEF SuspendedFor
<1> QED BY <1>3, <1>4, <1>5, <1>6 DEF Listed

LEMMA MonthHandled ==
  ASSUME Typed, Still, quota \in [Clients -> SUBSET Periods], month \in 0..MaxMonth,
         NEW p \in Slots, NEW L \in SUBSET Row, Fresh("month", L),
         \A c \in Clients : \/ Due(c, status[c], lastDay', lastMonth')
                            \/ Listed(L, "month", c, status[c]),
         MonthTurn(p, L)
  PROVE  Handled(p)
<1>1. CASE L # {} /\ Ask(p, "month", Later(L, First(L)), 0, First(L).id, "active")
  <2>1. /\ "month" \in Phases /\ "active" \in Status /\ 0 <= month /\ 0 \in 0..MaxMonth
        /\ Due(First(L).id, "active", lastDay', lastMonth')
    BY SuspensionAssumption DEF Phases, Status, Due
  <2> QED BY <1>1, <2>1, FirstHandled
<1>2. CASE L = {} /\ EnforceTurn(p, WithQuotas)
  <2>1. AllDue
    BY <1>2 DEF AllDue, Listed
  <2> QED BY <1>2, <2>1, EnforceHandled, FreshLists, RowLists
<1> QED BY <1>1, <1>2 DEF MonthTurn, MonthRow

LEMMA DayHandled ==
  ASSUME Typed, Still, quota \in [Clients -> SUBSET Periods], month \in 0..MaxMonth,
         NEW p \in Slots, NEW L \in SUBSET Row, Fresh("day", L),
         NEW m \in 0..MaxMonth, m <= month,
         \A c \in Clients : \/ Due(c, status[c], lastDay', lastMonth)
                            \/ Listed(L, "day", c, status[c]),
         DayTurn(p, L, m)
  PROVE  Handled(p)
<1>1. CASE DayRow(p, L, m)
  <2> DEFINE r == First(L)
  <2>1. L # {} /\ lastMonth' = lastMonth
    BY <1>1 DEF DayRow
  <2>2. r \in L /\ r.id \in Clients /\ r.quota = quota[r.id]
    BY <2>1, FirstIn DEF Row, Fresh
  <2>3. "day" \in Phases /\ {"active", "monthly_quota"} \subseteq Status
    BY DEF Phases, Status, Reasons
  <2>4. CASE ~ Over(r, "monthly")
    <3>1. Ask(p, "day", Later(L, r), m, r.id, "active")
      BY <1>1, <2>4 DEF DayRow
    <3>2. Due(r.id, "active", lastDay', lastMonth')
      BY DEF Due
    <3> QED BY <2>1, <2>3, <3>1, <3>2, FirstHandled
  <2>5. CASE Over(r, "monthly")
    <3>1. /\ Write("day", r.id, "monthly_quota")
          /\ Become(p, After("day", Later(L, r), m, r.id, "monthly_quota"))
      BY <1>1, <2>5 DEF DayRow
    <3>2. Due(r.id, "monthly_quota", lastDay', lastMonth')
      BY <2>2, <2>5 DEF Due, Over
    <3>3. Frame(r.id, "monthly_quota")
      BY StillFrames
    <3>4. Ready("day", Later(L, r), m, r.id, "monthly_quota")
      <4>1. \A q \in Later(L, r) : q.quota = quota'[q.id]
        BY DEF Later, Fresh, Still
      <4>2. \A d \in Clients \ {r.id} : \/ Due(d, status[d], lastDay', lastMonth')
                                        \/ Listed(Later(L, r), "day", d, status[d])
        BY <2>1, OthersLater
      <4> HIDE DEF r
      <4> QED BY <3>2, <4>1, <4>2 DEF Ready
    <3>5. After("day", Later(L, r), m, r.id, "monthly_quota")
            = Awaiting("notify", "day", Later(L, r), m, r.id, "monthly_quota")
      BY DEF After
    <3> HIDE DEF r
    <3> QED BY <2>2, <2>3, <3>1, <3>3, <3>4, <3>5, WriteHandled
  <2> QED BY <2>4, <2>5
<1>2. CASE L = {} /\ lastMonth' = m
           /\ MonthTurn(p, IF m = lastMonth THEN {} ELSE SuspendedFor("monthly_quota"))
  <2> DEFINE M == IF m = lastMonth THEN {} ELSE SuspendedFor("monthly_quota")
  <2>1. \A c \in Clients : Due(c, status[c], lastDay', lastMonth)
    BY <1>2 DEF Listed
  <2>2. M \in SUBSET Row /\ Fresh("month", M)
    <3>1. Fresh("month", {}) /\ {} \in SUBSET Row
      BY DEF Fresh
    <3> QED BY <3>1, FreshLists, RowLists
  <2>3. \A c \in Clients : \/ Due(c, status[c], lastDay', lastMonth')
                           \/ Listed(M, "month", c, status[c])
    BY <1>2, <2>1, FreshLists DEF Due
  <2> HIDE DEF M
  <2>4. MonthTurn(p, M)
    BY <1>2 DEF M
  <2> QED BY <2>2, <2>3, <2>4, MonthHandled
<1> QED BY <1>1, <1>2 DEF DayTurn

LEMMA TtlHandled ==
  ASSUME Typed, Still, AllDue, month \in 0..MaxMonth, NEW p \in Slots,
         NEW L \in SUBSET Row,
         Fresh("ttl", L), TtlTurn(p, L)
  PROVE  Handled(p)
<1>1. CASE L = {}
  BY <1>1, RestHandled DEF TtlTurn
<1>2. CASE L # {}
  <2>1. Ask(p, "ttl", Later(L, First(L)), 0, First(L).id, "expired")
    BY <1>2 DEF TtlTurn
  <2>2. First(L) \in L /\ First(L).id \in Clients
    BY <1>2, FirstIn DEF Row
  <2>3. /\ "ttl" \in Phases /\ "expired" \in Status /\ 0 <= month /\ 0 \in 0..MaxMonth
        /\ Due(First(L).id, "expired", lastDay', lastMonth')
    BY <2>2, SuspensionAssumption DEF Phases, Status, Reasons, Due, Fresh
  <2> QED BY <1>2, <2>1, <2>2, <2>3, FirstHandled DEF AllDue
<1> QED BY <1>1, <1>2

LEMMA AlertHandled ==
  ASSUME Typed, Still, AllDue, month \in 0..MaxMonth, NEW p \in Slots,
         NEW L \in SUBSET Row,
         Fresh("alert", L), AlertTurn(p, L)
  PROVE  Handled(p)
<1> DEFINE abnormal == {r \in L : heavy[r.id] /\ ~fired[r.id]}
           r == First(abnormal)
<1>1. CASE abnormal = {}
  BY <1>1, RestHandled DEF AlertTurn
<1>2. CASE abnormal # {}
  <2>1. Ask(p, "alert", Later(L, r), 0, r.id, "abnormal_traffic")
    BY <1>2 DEF AlertTurn
  <2>2. r \in L /\ r.id \in Clients /\ Later(L, r) \subseteq L
    BY <1>2, FirstIn DEF Row, Later
  <2>3. /\ "alert" \in Phases /\ "abnormal_traffic" \in Status /\ 0 <= month
        /\ Frame(r.id, "abnormal_traffic")
    BY StillFrames DEF Phases, Status, Reasons, Lasting
  <2>4. Ready("alert", Later(L, r), 0, r.id, "abnormal_traffic")
    <3>1. \A q \in Later(L, r) : q.quota = quota'[q.id]
      BY <2>2 DEF Fresh, Still
    <3> HIDE DEF r
    <3> QED BY <2>3, <3>1 DEF Ready, AllDue, Due
  <2> DEFINE c == r.id
             todo == Later(L, r)
  <2>5. /\ Due(c, status[c], lastDay', lastMonth') /\ c \in Clients
        /\ Frame(c, "abnormal_traffic") /\ Ready("alert", todo, 0, c, "abnormal_traffic")
        /\ Ask(p, "alert", todo, 0, c, "abnormal_traffic")
    BY <2>1, <2>2, <2>3, <2>4 DEF AllDue
  <2> HIDE DEF c, todo
  <2> QED BY <2>3, <2>5, AskHandled
<1> QED BY <1>1, <1>2

(* One step of anybody.                                                      *)
LEMMA CauseNext ==
  ASSUME TypeOK, TurnsInv, CauseInv, [Next]_vars
  PROVE  CauseInv'
<1> SUFFICES ASSUME setting.inTurn, Clean' PROVE CauseInv'
  BY SettingStays DEF CauseInv
<1>0. /\ Typed /\ quota \in [Clients -> SUBSET Periods] /\ setting' = setting
      /\ month \in 0..MaxMonth /\ lastMonth \in 0..MaxMonth
      /\ day \in 0..MaxDay /\ lastDay \in 0..MaxDay
      /\ faults \subseteq setting.faults /\ faults' = setting.faults
      /\ 0 \in 0..MaxMonth /\ MaxDay \in Nat /\ MaxMonth \in Nat
  BY SettingStays, SuspensionAssumption DEF TypeOK, Typed, Clean
<1>1. ASSUME NEW p \in Slots, SshFails(p) PROVE FALSE
  BY <1>0, <1>1 DEF SshFails
<1>2. ~Restart
  BY <1>0 DEF Restart
<1>3. Clean
  <2>1. faults' = faults
    <3>1. \A p \in Slots : Begin(p) \/ Answer(p) => faults' = faults
      BY DEF Begin, StartQuota, StartTtl, StartAlert, Begins, Answer, SshDone,
             RestartDone, Notified
    <3>2. \A p \in Slots, c \in Clients :
            \/ Request(p, c) \/ UpdateExpiry(p, c)
            \/ \E q \in SUBSET Periods : UpdateQuota(p, c, q)
            => faults' = faults
      BY DEF Request, UpdateExpiry, UpdateQuota, Begins
    <3>3. NewDay \/ Rollup \/ UNCHANGED vars => faults' = faults
      BY DEF NewDay, Rollup, vars
    <3>4. \A c \in Clients : Use(c) \/ Lapse(c) \/ Calm(c) => faults' = faults
      BY DEF Use, Lapse, Calm
    <3> QED BY <1>1, <1>2, <3>1, <3>2, <3>3, <3>4 DEF Next
  <2> QED BY <1>0, <2>1 DEF Clean
<1>4. /\ lastDay <= day /\ lastMonth <= month
      /\ \A p \in Slots : job[p] # Rest => Grounded(job[p])
      /\ \A c \in Clients : \/ Due(c, status[c], lastDay, lastMonth)
                            \/ \E p \in Slots : Lifts(job[p], c, status[c])
  BY <1>3 DEF CauseInv
<1>5. \A p \in Slots : job[p] # Rest => \A q \in Slots \ {p} : job[q] = Rest
  BY DEF TurnsInv
\* A turn of p, when nobody else is at work.
<1>6. ASSUME NEW p \in Slots, \A q \in Slots \ {p} : job[q] = Rest, Handled(p),
             lastDay' <= day', lastMonth' <= month'
      PROVE  CauseInv'
  <2>1. ASSUME NEW q \in Slots, (job[q] # Rest)' PROVE Grounded(job[q])'
    <3>1. q = p
      BY <1>6, <2>1 DEF Handled, Rest
    <3> QED BY <1>6, <2>1, <3>1 DEF Handled, Rest
  <2>2. \A c \in Clients : \/ Due(c, status[c], lastDay, lastMonth)'
                           \/ \E q \in Slots : Lifts(job[q], c, status[c])'
    BY <1>6 DEF Handled
  <2> QED BY <1>6, <2>1, <2>2 DEF CauseInv
<1>7. ASSUME \A q \in Slots : job[q] = Rest
      PROVE  \A c \in Clients : Due(c, status[c], lastDay, lastMonth)
  BY <1>4, <1>7 DEF Lifts
<1>8. ASSUME NEW p \in Slots, job[p] # Rest, NEW c \in Clients
      PROVE  Due(c, status[c], lastDay, lastMonth) \/ Lifts(job[p], c, status[c])
  <2>1. \A q \in Slots : Lifts(job[q], c, status[c]) => q = p
    BY <1>5, <1>8 DEF Lifts
  <2> QED BY <1>4, <2>1
<1>r. \A p \in Slots : job[p].at \in {"ssh", "restart", "notify"} => job[p] # Rest
  BY DEF Rest
<1>j. ASSUME NEW p \in Slots, job[p] # Rest
      PROVE  /\ job[p].todo \in SUBSET Row /\ job[p].month \in 0..MaxMonth
             /\ job[p].id \in Clients /\ job[p].to \in Status
             /\ job[p].phase \in Phases
  BY <1>0, <1>j DEF Typed, Job
<1>l. /\ {} \in SUBSET Row /\ SuspendedFor("daily_quota") \in SUBSET Row
      /\ Expired \in SUBSET Row /\ ActiveRows \in SUBSET Row
  BY <1>0, RowLists
<1>f. /\ Fresh("ttl", Expired) /\ Fresh("alert", ActiveRows)
      /\ Fresh("day", SuspendedFor("daily_quota")) /\ Fresh("day", {})
      /\ \A c \in Clients : status[c] = "daily_quota"
           => Listed(SuspendedFor("daily_quota"), "day", c, status[c])
  BY <1>0, FreshLists DEF Fresh
<1>m. ASSUME NEW p \in Slots, NEW L \in SUBSET Row, NEW m \in 0..MaxMonth, m <= month,
             DayTurn(p, L, m)
      PROVE  lastMonth' <= month
  BY <1>4, <1>m DEF DayTurn, DayRow
<1>11. ASSUME NEW p \in Slots, StartQuota(p) PROVE CauseInv'
  <2> DEFINE L == IF day = lastDay THEN {} ELSE SuspendedFor("daily_quota")
  <2>1. /\ \A q \in Slots : job[q] = Rest
        /\ Still /\ lastDay' = day /\ day' = day /\ month' = month
        /\ DayTurn(p, L, month)
    BY <1>11 DEF StartQuota, Begins, QuotaTick, Still, calendar
  <2>2. L \in SUBSET Row /\ Fresh("day", L)
    BY <1>l, <1>f
  <2>3. ASSUME NEW c \in Clients
        PROVE  Due(c, status[c], lastDay', lastMonth) \/ Listed(L, "day", c, status[c])
    <3>1. Due(c, status[c], lastDay, lastMonth)
      BY <1>7, <2>1
    <3> QED BY <1>f, <2>1, <3>1 DEF Due
  <2> HIDE DEF L
  <2>4. month <= month
    BY <1>0
  <2>5. Handled(p)
    BY <1>0, <2>1, <2>2, <2>3, <2>4, DayHandled
  <2>6. lastMonth' <= month' /\ lastDay' <= day'
    BY <1>0, <1>m, <2>1, <2>2, <2>4
  <2> QED BY <1>6, <2>1, <2>5, <2>6
<1>12. ASSUME NEW p \in Slots, StartTtl(p) PROVE CauseInv'
  <2>1. /\ \A q \in Slots : job[q] = Rest
        /\ Still /\ lastDay' = lastDay /\ lastMonth' = lastMonth /\ TtlTurn(p, Expired)
    BY <1>12 DEF StartTtl, Begins, Still, calendar, memory
  <2>2. AllDue
    BY <1>7, <2>1 DEF AllDue
  <2>3. Handled(p)
    BY <1>0, <1>f, <1>l, <2>1, <2>2, TtlHandled
  <2> QED BY <1>4, <1>6, <2>1, <2>3 DEF Still
<1>13. ASSUME NEW p \in Slots, StartAlert(p) PROVE CauseInv'
  <2>1. /\ \A q \in Slots : job[q] = Rest
        /\ Still /\ lastDay' = lastDay /\ lastMonth' = lastMonth
        /\ AlertTurn(p, ActiveRows)
    BY <1>13 DEF StartAlert, Begins, Still, calendar, memory
  <2>2. AllDue
    BY <1>7, <2>1 DEF AllDue
  <2>3. Handled(p)
    BY <1>0, <1>f, <1>l, <2>1, <2>2, AlertHandled
  <2> QED BY <1>4, <1>6, <2>1, <2>3 DEF Still
\* What a request asks for, of c alone.
<1>a. ASSUME NEW p \in Slots, NEW c \in Clients, NEW ph \in Phases, NEW s \in Status,
             \A q \in Slots : job[q] = Rest, s \in {"manual", "active", "gone"},
             Ask(p, ph, {}, 0, c, s), UNCHANGED <<day, month, spent, lastDay, lastMonth>>,
             \A d \in Clients : d # c \/ s # "active"
               => quota'[d] = quota[d] /\ lapsed'[d] = lapsed[d]
      PROVE  CauseInv'
  <2>1. Frame(c, s)
    BY <1>a DEF Frame
  <2>2. \A d \in Clients : Due(d, status[d], lastDay', lastMonth')
    BY <1>7, <1>a
  <2>3. Ready(ph, {}, 0, c, s)
    <3>1. Due(c, s, lastDay', lastMonth')
      BY <1>a DEF Due
    <3>2. 0 <= month
      BY <1>0
    <3> QED BY <2>2, <3>1, <3>2 DEF Ready
  <2>4. Handled(p)
    BY <1>0, <1>a, <2>1, <2>2, <2>3, AskHandled
  <2> QED BY <1>4, <1>6, <1>a, <2>4
\* A request that changes c's quotas or expiry but not its status.
<1>b. ASSUME \A q \in Slots : job[q] = Rest, NEW c \in Clients,
             UNCHANGED <<day, month, spent, lastDay, lastMonth, status, reached, job>>,
             \A d \in Clients \ {c} : quota'[d] = quota[d] /\ lapsed'[d] = lapsed[d],
             Due(c, status[c], lastDay, lastMonth)'
      PROVE  CauseInv'
  <2>1. \A d \in Clients \ {c} : Due(d, status[d], lastDay, lastMonth)'
    BY <1>7, <1>b DEF Due
  <2> QED BY <1>4, <1>b, <2>1 DEF CauseInv, Rest
<1>14. ASSUME NEW p \in Slots, NEW c \in Clients, Request(p, c) PROVE CauseInv'
  <2>1. PICK step \in {<<"manual", "manual">>, <<"resume", "active">>,
                       <<"delete", "gone">>} :
          Ask(p, step[1], {}, 0, c, step[2])
    BY <1>14 DEF Request
  <2>2. step[1] \in Phases /\ step[2] \in Status /\ step[2] \in {"manual", "active", "gone"}
    BY DEF Phases, Status, Reasons, Lasting
  <2>3. /\ \A q \in Slots : job[q] = Rest
        /\ UNCHANGED <<day, month, spent, lastDay, lastMonth, quota, lapsed>>
    BY <1>14 DEF Request, Begins, calendar, memory
  <2> QED BY <1>a, <2>1, <2>2, <2>3
<1>s. "auto" \in Phases /\ "active" \in Status
  BY DEF Phases, Status
<1>15. ASSUME NEW p \in Slots, NEW c \in Clients, NEW q \in SUBSET Periods,
              UpdateQuota(p, c, q) PROVE CauseInv'
  <2>1. /\ \A x \in Slots : job[x] = Rest
        /\ UNCHANGED <<day, month, spent, lastDay, lastMonth, lapsed>>
        /\ \A d \in Clients \ {c} : quota'[d] = quota[d] /\ quota'[c] = q
    BY <1>0, <1>15 DEF UpdateQuota, Begins, calendar, memory
  <2>2. CASE QuotaResumes(c, q)
    <3>1. Ask(p, "auto", {}, 0, c, "active")
      BY <1>15, <2>2 DEF UpdateQuota
    <3> QED BY <1>a, <1>s, <2>1, <3>1
  <2>3. CASE ~QuotaResumes(c, q)
    <3>1. UNCHANGED <<status, reached, job>> /\ quota'[c] = q
      BY <1>0, <1>15, <2>3 DEF UpdateQuota, traffic
    <3>2. Due(c, status[c], lastDay, lastMonth)
      BY <1>7, <2>1
    <3>3. Due(c, status[c], lastDay, lastMonth)'
      BY <2>1, <2>3, <3>1, <3>2 DEF Due, QuotaResumes
    <3> QED BY <1>b, <2>1, <3>1, <3>3
  <2> QED BY <2>2, <2>3
<1>16. ASSUME NEW p \in Slots, NEW c \in Clients, UpdateExpiry(p, c) PROVE CauseInv'
  <2>1. /\ \A x \in Slots : job[x] = Rest
        /\ UNCHANGED <<day, month, spent, lastDay, lastMonth, quota>>
        /\ \A d \in Clients \ {c} : lapsed'[d] = lapsed[d]
    <3>1. lapsed' = [lapsed EXCEPT ![c] = FALSE] /\ lapsed \in [Clients -> BOOLEAN]
      BY <1>16 DEF UpdateExpiry, TypeOK
    <3>2. \A d \in Clients \ {c} : lapsed'[d] = lapsed[d]
      BY <3>1
    <3> QED BY <1>16, <3>2 DEF UpdateExpiry, Begins, calendar, memory
  <2>2. CASE ExpiryResumes(c)
    <3>1. Ask(p, "auto", {}, 0, c, "active")
      BY <1>16, <2>2 DEF UpdateExpiry
    <3> QED BY <1>a, <1>s, <2>1, <3>1
  <2>3. CASE ~ExpiryResumes(c)
    <3>1. UNCHANGED <<status, reached, job>>
      BY <1>16, <2>3 DEF UpdateExpiry, traffic
    <3>2. Due(c, status[c], lastDay, lastMonth)
      BY <1>7, <2>1
    <3>3. Due(c, status[c], lastDay, lastMonth)'
      BY <2>1, <2>3, <3>1, <3>2 DEF Due, ExpiryResumes
    <3> QED BY <1>b, <2>1, <3>1, <3>3
  <2> QED BY <2>2, <2>3
<1>17. ASSUME NEW p \in Slots, SshDone(p) PROVE CauseInv'
  <2> DEFINE j == job[p]
  <2>1. /\ j # Rest /\ j.at = "ssh" /\ Write(j.phase, j.id, j.to)
        /\ Become(p, After(j.phase, j.todo, j.month, j.id, j.to))
        /\ UNCHANGED <<day, month, spent, lastDay, lastMonth, quota, lapsed>>
    BY <1>17, <1>r DEF SshDone, calendar, memory
  <2>2. Grounded(j) /\ j.id \in Clients /\ j.to \in Status
    BY <1>4, <1>j, <2>1
  <2>3. \A d \in Clients \ {j.id} : \/ Due(d, status[d], lastDay', lastMonth')
                                    \/ Listed(j.todo, j.phase, d, status[d])
    BY <1>8, <2>1 DEF Lifts
  <2>4. Ready(j.phase, j.todo, j.month, j.id, j.to)
    BY <2>1, <2>2, <2>3 DEF Ready, Grounded, Fresh
  <2>5. Frame(j.id, j.to)
    BY <2>1 DEF Frame
  <2>6. PICK k : /\ Become(p, k)
                 /\ \/ k = Rest /\ j.phase \notin {"day", "month"}
                    \/ k = Awaiting("notify", j.phase, j.todo, j.month, j.id, j.to)
    BY <2>1 DEF After
  <2>7. Handled(p)
    <3> HIDE DEF j
    <3> QED BY <1>0, <2>1, <2>2, <2>4, <2>5, <2>6, WriteHandled
  <2> QED BY <1>4, <1>5, <1>6, <2>1, <2>7
<1>18. ASSUME NEW p \in Slots, RestartDone(p) PROVE CauseInv'
  <2> DEFINE j == job[p]
  <2>1. /\ j # Rest /\ j.at = "restart"
        /\ Become(p, After(j.phase, j.todo, j.month, j.id, j.to))
        /\ UNCHANGED <<day, month, spent, lastDay, lastMonth, quota, lapsed, status, reached>>
    BY <1>18, <1>r DEF RestartDone, calendar, memory, rows, traffic
  <2>2. Grounded(j)
    BY <1>4, <2>1
  <2>3. PICK k : /\ Become(p, k)
                 /\ \/ k = Rest /\ j.phase \notin {"day", "month"}
                    \/ k = Awaiting("notify", j.phase, j.todo, j.month, j.id, j.to)
    BY <2>1 DEF After
  <2>4. job'[p] = k /\ \A q \in Slots \ {p} : job'[q] = job[q]
    BY <1>0, <2>3 DEF Become, Typed
  <2>5. k # Rest => /\ k.at = "notify" /\ k.todo = j.todo /\ k.phase = j.phase
                    /\ k.month = j.month
    BY <2>3 DEF Awaiting
  <2> HIDE DEF j
  <2>6. (job[p] # Rest)' => Grounded(job[p])'
    BY <2>1, <2>2, <2>4, <2>5 DEF Grounded, Fresh, Rest
  <2>7. ASSUME NEW c \in Clients
        PROVE  Due(c, status[c], lastDay, lastMonth)' \/ Lifts(job[p], c, status[c])'
    <3>1. CASE Due(c, status[c], lastDay, lastMonth)
      BY <2>1, <3>1 DEF Due
    <3>2. CASE Lifts(j, c, status[c])
      <4>1. Listed(j.todo, j.phase, c, status[c])
        BY <2>1, <3>2 DEF Lifts
      <4>2. k # Rest
        BY <2>3, <4>1 DEF Listed, Awaiting, Rest
      <4> QED BY <2>1, <2>4, <2>5, <4>1, <4>2 DEF Lifts, Listed
    <3> QED BY <1>8, <2>1, <3>1, <3>2 DEF j
  <2>8. Handled(p)
    BY <2>4, <2>6, <2>7 DEF Handled, Rest
  <2>9. \A q \in Slots \ {p} : job[q] = Rest
    BY <1>5, <2>1 DEF j
  <2> QED BY <1>4, <1>6, <2>1, <2>8, <2>9
<1>19. ASSUME NEW p \in Slots, Notified(p) PROVE CauseInv'
  <2> DEFINE j == job[p]
             L == j.todo
             m == j.month
  <2>1. /\ j # Rest /\ j.at = "notify" /\ GoOn(p) /\ Still /\ lastDay' = lastDay
    BY <1>19, <1>r DEF Notified, calendar, Still
  <2>2. Grounded(j) /\ L \in SUBSET Row /\ m \in 0..MaxMonth /\ m <= month
        /\ Fresh(j.phase, L)
    BY <1>4, <1>j, <2>1 DEF Grounded
  <2>3. \A c \in Clients : \/ Due(c, status[c], lastDay', lastMonth)
                           \/ Listed(L, j.phase, c, status[c])
    BY <1>8, <2>1 DEF Lifts
  <2>4. j.phase \notin {"day", "month"} /\ lastMonth' = lastMonth => AllDue
    BY <2>1, <2>3 DEF Listed, AllDue
  <2>5. \/ j.phase = "day" /\ DayTurn(p, L, m)
        \/ /\ lastMonth' = lastMonth
           /\ \/ j.phase = "month"   /\ MonthTurn(p, L)
              \/ j.phase = "enforce" /\ EnforceTurn(p, L)
              \/ j.phase = "ttl"     /\ TtlTurn(p, L)
              \/ j.phase = "alert"   /\ AlertTurn(p, L)
    BY <2>1 DEF GoOn
  <2>6. \A q \in Slots \ {p} : job[q] = Rest
    BY <1>5, <2>1
  <2> DEFINE ph == j.phase
  <2>7. /\ Fresh(ph, L)
        /\ ph \notin {"day", "month"} /\ lastMonth' = lastMonth => AllDue
        /\ \A c \in Clients : \/ Due(c, status[c], lastDay', lastMonth)
                              \/ Listed(L, ph, c, status[c])
        /\ L \in SUBSET Row /\ m \in 0..MaxMonth /\ m <= month
        /\ \/ ph = "day" /\ DayTurn(p, L, m)
           \/ /\ lastMonth' = lastMonth
              /\ \/ ph = "month"   /\ MonthTurn(p, L)
                 \/ ph = "enforce" /\ EnforceTurn(p, L)
                 \/ ph = "ttl"     /\ TtlTurn(p, L)
                 \/ ph = "alert"   /\ AlertTurn(p, L)
    BY <2>2, <2>3, <2>4, <2>5
  <2>8. Still /\ lastDay' = lastDay /\ day' = day /\ month' = month
    BY <2>1 DEF Still
  <2> HIDE DEF j, L, m, ph
  <2>9. CASE ph = "day" /\ DayTurn(p, L, m)
    <3>1. Handled(p)
      BY <1>0, <2>7, <2>8, <2>9, DayHandled
    <3>2. lastMonth' <= month'
      BY <1>m, <2>7, <2>8, <2>9
    <3> QED BY <1>4, <1>6, <2>6, <2>8, <3>1, <3>2
  <2>10. CASE lastMonth' = lastMonth /\ ph = "month" /\ MonthTurn(p, L)
    <3>1. Handled(p)
      BY <1>0, <2>7, <2>8, <2>10, MonthHandled
    <3> QED BY <1>4, <1>6, <2>6, <2>8, <2>10, <3>1
  <2>11. CASE lastMonth' = lastMonth /\ ph = "enforce" /\ EnforceTurn(p, L)
    <3>1. Handled(p)
      BY <1>0, <2>7, <2>8, <2>11, EnforceHandled
    <3> QED BY <1>4, <1>6, <2>6, <2>8, <2>11, <3>1
  <2>12. CASE lastMonth' = lastMonth /\ ph = "ttl" /\ TtlTurn(p, L)
    <3>1. Handled(p)
      BY <1>0, <2>7, <2>8, <2>12, TtlHandled
    <3> QED BY <1>4, <1>6, <2>6, <2>8, <2>12, <3>1
  <2>13. CASE lastMonth' = lastMonth /\ ph = "alert" /\ AlertTurn(p, L)
    <3>1. Handled(p)
      BY <1>0, <2>7, <2>8, <2>13, AlertHandled
    <3> QED BY <1>4, <1>6, <2>6, <2>8, <2>13, <3>1
  <2> QED BY <2>7, <2>9, <2>10, <2>11, <2>12, <2>13
\* The world can only add a cause, or a day that is not dealt with yet.
<1>c. ASSUME UNCHANGED <<status, quota, job, lastDay, lastMonth>>,
             day <= day', month <= month', month' \in Nat, day' \in Nat,
             \A c \in Clients : lapsed[c] => lapsed'[c],
             \A c \in Clients : "daily" \in reached[c] /\ "daily" \notin reached'[c] => day' > day,
             \A c \in Clients : "monthly" \in reached[c] \/ c \in spent
               => "monthly" \in reached'[c] \/ c \in spent' \/ month' > month
      PROVE  CauseInv'
  <2>1. /\ lastDay' <= day' /\ lastMonth' <= month'
        /\ day' > day => lastDay' # day'
        /\ month' > month => lastMonth' # month'
        /\ lastDay # day => lastDay' # day'
        /\ lastMonth # month => lastMonth' # month'
    BY <1>0, <1>4, <1>c
  <2>2. ASSUME NEW c \in Clients, NEW s, Due(c, s, lastDay, lastMonth)
        PROVE  Due(c, s, lastDay, lastMonth)'
    BY <1>0, <1>c, <2>1, <2>2 DEF Due
  <2>3. ASSUME NEW p \in Slots, job[p] # Rest PROVE Grounded(job[p])'
    <3>1. Grounded(job[p]) /\ job[p].todo \in SUBSET Row /\ job[p].id \in Clients
          /\ job[p].month \in 0..MaxMonth
      BY <1>4, <1>j, <2>3
    <3>2. job[p].month <= month'
      BY <1>0, <1>c, <3>1 DEF Grounded
    <3>3. Fresh(job[p].phase, job[p].todo)'
      BY <1>c, <3>1 DEF Grounded, Fresh, Row
    <3>4. job[p].at = "ssh" => Due(job[p].id, job[p].to, lastDay, lastMonth)'
      BY <1>c, <2>2, <3>1 DEF Grounded, Due
    <3> QED BY <1>c, <3>2, <3>3, <3>4 DEF Grounded, Fresh, Due
  <2>4. ASSUME NEW c \in Clients
        PROVE  \/ Due(c, status[c], lastDay, lastMonth)'
               \/ \E p \in Slots : Lifts(job[p], c, status[c])'
    <3>1. CASE Due(c, status[c], lastDay, lastMonth)
      <4>1. PICK s : s = status[c]
        OBVIOUS
      <4>2. Due(c, s, lastDay, lastMonth)'
        BY <2>2, <3>1, <4>1
      <4> QED BY <1>c, <4>1, <4>2 DEF Due
    <3>2. CASE \E p \in Slots : Lifts(job[p], c, status[c])
      BY <1>c, <3>2 DEF Lifts, Listed, Rest
    <3> QED BY <1>4, <3>1, <3>2
  <2> QED BY <1>c, <2>1, <2>3, <2>4 DEF CauseInv, Rest
<1>20. CASE NewDay
  <2>1. /\ UNCHANGED <<status, quota, lapsed, job, lastDay, lastMonth>>
        /\ day' = day + 1 /\ (month' = month \/ month' = month + 1)
    BY <1>20 DEF NewDay, rows, memory
  <2>2. \A c \in Clients : "monthly" \in reached[c] \/ c \in spent
          => "monthly" \in reached'[c] \/ c \in spent' \/ month' = month + 1
    BY <1>20 DEF NewDay
  <2>3. /\ day <= day' /\ month <= month' /\ month' \in Nat /\ day' \in Nat /\ day' > day
        /\ month' = month + 1 => month' > month
    BY <1>0, <2>1
  <2> QED BY <1>c, <2>1, <2>2, <2>3
<1>24. CASE Rollup
  <2>1. /\ UNCHANGED <<status, quota, lapsed, job, lastDay, lastMonth, day, month>>
        /\ \A c \in Clients : "monthly" \in reached[c] \/ c \in spent
             => "monthly" \in reached'[c] \/ c \in spent'
        /\ \A c \in Clients : "daily" \in reached[c] => "daily" \in reached'[c]
    BY <1>24 DEF Rollup, rows, memory
  <2>2. day <= day' /\ month <= month' /\ month' \in Nat /\ day' \in Nat
    BY <1>0, <2>1
  <2> QED BY <1>c, <2>1, <2>2
<1>21. ASSUME NEW c \in Clients, Use(c) PROVE CauseInv'
  <2>1. /\ UNCHANGED <<status, quota, lapsed, job, lastDay, lastMonth, day, month, spent>>
        /\ \A d \in Clients : reached[d] \subseteq reached'[d]
    <3>1. CASE \E period \in IF "month" \in About THEN Periods ELSE {"daily"} :
                 reached' = [reached EXCEPT ![c] = @ \cup {period}]
      BY <1>0, <1>21, <3>1 DEF Use, rows, memory, calendar, Typed
    <3>2. CASE UNCHANGED reached
      BY <1>21, <3>2 DEF Use, rows, memory, calendar
    <3> QED BY <1>21, <3>1, <3>2 DEF Use
  <2>2. day <= day' /\ month <= month' /\ month' \in Nat /\ day' \in Nat
    BY <1>0, <2>1
  <2> QED BY <1>c, <2>1, <2>2
<1>22. ASSUME NEW c \in Clients, Lapse(c) \/ Calm(c) PROVE CauseInv'
  <2>1. /\ UNCHANGED <<status, quota, reached, job, lastDay, lastMonth, day, month, spent>>
    BY <1>22 DEF Lapse, Calm, rows, memory, calendar, traffic
  <2>2. \A d \in Clients : lapsed[d] => lapsed'[d]
    <3>1. CASE Lapse(c)
      <4>1. lapsed' = [lapsed EXCEPT ![c] = TRUE] /\ lapsed \in [Clients -> BOOLEAN]
        BY <3>1 DEF Lapse, TypeOK
      <4> QED BY <4>1
    <3>2. CASE Calm(c)
      BY <3>2 DEF Calm, rows
    <3> QED BY <1>22, <3>1, <3>2
  <2>3. day <= day' /\ month <= month' /\ month' \in Nat /\ day' \in Nat
    BY <1>0, <2>1
  <2> QED BY <1>c, <2>1, <2>2, <2>3
<1>23. CASE UNCHANGED vars
  <2>1. UNCHANGED <<status, quota, lapsed, reached, job, lastDay, lastMonth, day, month, spent>>
    BY <1>23 DEF vars, rows, memory, calendar, traffic
  <2>2. day <= day' /\ month <= month' /\ month' \in Nat /\ day' \in Nat
    BY <1>0, <2>1
  <2> QED BY <1>c, <2>1, <2>2
<1> QED
  BY <1>1, <1>2, <1>11, <1>12, <1>13, <1>14, <1>15, <1>16, <1>17, <1>18, <1>19,
     <1>20, <1>21, <1>22, <1>23, <1>24 DEF Next, Begin, Answer

(* As long as the programs take turns and nothing fails, whoever is          *)
(* suspended for a quota or the expiry has given cause for it, or the reset  *)
(* that lifts the suspension is still to come.                               *)
THEOREM SuspensionsCaused == Spec => []SuspendedForCause
<1>1. Init => CauseInv
  <2> SUFFICES ASSUME Init PROVE CauseInv
    OBVIOUS
  <2>1. \A c \in Clients : status[c] \in {"active", "gone"}
    BY DEF Init
  <2>2. lastDay <= day /\ lastMonth <= month /\ \A p \in Slots : job[p] = Rest
    BY DEF Init
  <2> QED BY <2>1, <2>2 DEF CauseInv, Due
<1>2. TypeOK /\ TurnsInv /\ CauseInv /\ [Next]_vars => CauseInv'
  BY CauseNext
<1>3. CauseInv => SuspendedForCause
  BY DEF CauseInv, SuspendedForCause, Lifts, Due
<1> QED
  BY <1>1, <1>2, <1>3, SuspensionTypes, TurnsHold, PTL DEF Spec
=============================================================================
