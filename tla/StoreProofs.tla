---------------------------- MODULE StoreProofs ----------------------------
(***************************************************************************)
(* Store, for every number of sessions, requests and stored rows: every    *)
(* handler keeps the shape of its transaction, so that uncommitted writes, *)
(* and with them row locks, end with the request; and a session numbers an *)
(* update of an incident only while it holds the incident's row, so that   *)
(* the history of an incident grows at its end; and a component is seen by *)
(* its own session only until it has all its attributes; and no session    *)
(* stores, keeps or answers a status that the history does not explain;    *)
(* and the update at a position a client was shown is the one that a PATCH *)
(* of this position finds; and a reopened incident keeps its end no longer *)
(* than until the statement after the commit that reopened it, unless that *)
(* statement failed or an extraction saves the incident as it read it in   *)
(* between.                                                                *)
(***************************************************************************)
EXTENDS StoreSteps, FiniteSetTheorems, SequenceTheorems, WellFoundedInduction, TLAPS

-----------------------------------------------------------------------------
(* What remains of a handler. *)

(* The steps after the first one. *)
LEMMA TailIs ==
  ASSUME NEW S, NEW t \in Seq(S), t # <<>>
  PROVE  /\ Tail(t) \in Seq(S) /\ Len(Tail(t)) = Len(t) - 1 /\ DOMAIN Tail(t) = 1..(Len(t) - 1)
         /\ Len(t) \in Nat \ {0} /\ DOMAIN t = 1..Len(t) /\ Head(t) = t[1]
         /\ \A i \in DOMAIN Tail(t) : Tail(t)[i] = t[i + 1]
OBVIOUS

(* The shape of a handler is kept by each of its steps. *)
LEMMA ShapeTail ==
  ASSUME NEW t, Shape(t), t # <<>>
  PROVE  Shape(Tail(t))
<1> DEFINE u == Tail(t)
<1>1. /\ u \in Seq(Steps) /\ Len(u) = Len(t) - 1 /\ DOMAIN u = 1..(Len(t) - 1)
      /\ Len(t) \in Nat \ {0} /\ DOMAIN t = 1..Len(t)
      /\ \A i \in DOMAIN u : u[i] = t[i + 1]
  BY TailIs DEF Shape
<1> HIDE DEF u
<1>2. \A i \in DOMAIN u : i + 1 \in DOMAIN t /\ i \in Nat \ {0} /\ i + 1 \in Nat
  BY <1>1
<1>3. \A i, j \in DOMAIN u : u[i][1] = "commit" /\ u[j][1] = "commit" => i = j
  <2> SUFFICES ASSUME NEW i \in DOMAIN u, NEW j \in DOMAIN u, u[i][1] = "commit", u[j][1] = "commit"
               PROVE  i = j
    OBVIOUS
  <2>1. i + 1 = j + 1
    BY <1>1, <1>2 DEF Shape
  <2> QED BY <2>1, <1>2
<1>4. \A i \in DOMAIN u : u[i][1] \in InsideTx => \E j \in DOMAIN u : i < j /\ u[j][1] = "commit"
  <2> SUFFICES ASSUME NEW i \in DOMAIN u, u[i][1] \in InsideTx
               PROVE  \E j \in DOMAIN u : i < j /\ u[j][1] = "commit"
    OBVIOUS
  <2>1. PICK k \in DOMAIN t : i + 1 < k /\ t[k][1] = "commit"
    BY <1>1, <1>2 DEF Shape
  <2>2. k - 1 \in DOMAIN u /\ i < k - 1 /\ (k - 1) + 1 = k
    BY <1>1, <1>2, <2>1
  <2> QED BY <1>1, <2>1, <2>2
<1>5. \A i, j \in DOMAIN u : u[i][1] \in OutsideTx /\ u[j][1] = "commit" => j < i
  <2> SUFFICES ASSUME NEW i \in DOMAIN u, NEW j \in DOMAIN u, u[i][1] \in OutsideTx, u[j][1] = "commit"
               PROVE  j < i
    OBVIOUS
  <2>1. j + 1 < i + 1
    BY <1>1, <1>2 DEF Shape
  <2> QED BY <2>1, <1>2
<1>6. \A i \in DOMAIN u : u[i][1] = "reopen" /\ i # 1 => u[i - 1][1] = "commit"
  <2> SUFFICES ASSUME NEW i \in DOMAIN u, u[i][1] = "reopen", i # 1 PROVE u[i - 1][1] = "commit"
    OBVIOUS
  <2>1. i - 1 \in DOMAIN u /\ (i - 1) + 1 = i /\ (i + 1) - 1 = i /\ i + 1 # 1
    BY <1>1
  <2>2. t[i + 1][1] = "reopen" /\ i + 1 \in DOMAIN t
    BY <1>1, <1>2
  <2>3. t[(i + 1) - 1][1] = "commit"
    BY <2>1, <2>2 DEF Shape
  <2> QED BY <1>1, <2>1, <2>3
<1>7. \A i \in DOMAIN u : u[i][1] \in {"decide", "prepare", "extract"} => i = Len(u)
  <2> SUFFICES ASSUME NEW i \in DOMAIN u, u[i][1] \in {"decide", "prepare", "extract"} PROVE i = Len(u)
    OBVIOUS
  <2>1. i + 1 = Len(t)
    BY <1>1, <1>2 DEF Shape
  <2> QED BY <1>1, <1>2, <2>1
<1> QED BY <1>1, <1>3, <1>4, <1>5, <1>6, <1>7 DEF Shape, u

(* Two tuples joined. *)
LEMMA Join3and1 ==
  ASSUME NEW S, NEW x1 \in S, NEW x2 \in S, NEW x3 \in S, NEW x4 \in S
  PROVE  <<x1, x2, x3>> \o <<x4>> = <<x1, x2, x3, x4>>
<1>1. <<x1, x2, x3>> \o <<x4>> \in Seq(S) /\ <<x1, x2, x3, x4>> \in Seq(S)
  OBVIOUS
<1>2. Len(<<x1, x2, x3>> \o <<x4>>) = 4 /\ Len(<<x1, x2, x3, x4>>) = 4
  OBVIOUS
<1>3. \A n \in 1..4 : (<<x1, x2, x3>> \o <<x4>>)[n] = <<x1, x2, x3, x4>>[n]
  OBVIOUS
<1> QED BY <1>1, <1>2, <1>3, SeqEqual

LEMMA Join4and3 ==
  ASSUME NEW S, NEW x1 \in S, NEW x2 \in S, NEW x3 \in S, NEW x4 \in S, NEW x5 \in S, NEW x6 \in S,
         NEW x7 \in S
  PROVE  <<x1, x2, x3, x4>> \o <<x5, x6, x7>> = <<x1, x2, x3, x4, x5, x6, x7>>
<1>1. <<x1, x2, x3, x4>> \o <<x5, x6, x7>> \in Seq(S) /\ <<x1, x2, x3, x4, x5, x6, x7>> \in Seq(S)
  OBVIOUS
<1>2. Len(<<x1, x2, x3, x4>> \o <<x5, x6, x7>>) = 7 /\ Len(<<x1, x2, x3, x4, x5, x6, x7>>) = 7
  OBVIOUS
<1>3. \A n \in 1..7 : (<<x1, x2, x3, x4>> \o <<x5, x6, x7>>)[n] = <<x1, x2, x3, x4, x5, x6, x7>>[n]
  OBVIOUS
<1> QED BY <1>1, <1>2, <1>3, SeqEqual

LEMMA Join3and3 ==
  ASSUME NEW S, NEW x1 \in S, NEW x2 \in S, NEW x3 \in S, NEW x4 \in S, NEW x5 \in S, NEW x6 \in S
  PROVE  <<x1, x2, x3>> \o <<x4, x5, x6>> = <<x1, x2, x3, x4, x5, x6>>
<1>1. <<x1, x2, x3>> \o <<x4, x5, x6>> \in Seq(S) /\ <<x1, x2, x3, x4, x5, x6>> \in Seq(S)
  OBVIOUS
<1>2. Len(<<x1, x2, x3>> \o <<x4, x5, x6>>) = 6 /\ Len(<<x1, x2, x3, x4, x5, x6>>) = 6
  OBVIOUS
<1>3. \A n \in 1..6 : (<<x1, x2, x3>> \o <<x4, x5, x6>>)[n] = <<x1, x2, x3, x4, x5, x6>>[n]
  OBVIOUS
<1> QED BY <1>1, <1>2, <1>3, SeqEqual

LEMMA Join3and4 ==
  ASSUME NEW S, NEW x1 \in S, NEW x2 \in S, NEW x3 \in S, NEW x4 \in S, NEW x5 \in S, NEW x6 \in S,
         NEW x7 \in S
  PROVE  <<x1, x2, x3>> \o <<x4, x5, x6, x7>> = <<x1, x2, x3, x4, x5, x6, x7>>
<1>1. <<x1, x2, x3>> \o <<x4, x5, x6, x7>> \in Seq(S) /\ <<x1, x2, x3, x4, x5, x6, x7>> \in Seq(S)
  OBVIOUS
<1>2. Len(<<x1, x2, x3>> \o <<x4, x5, x6, x7>>) = 7 /\ Len(<<x1, x2, x3, x4, x5, x6, x7>>) = 7
  OBVIOUS
<1>3. \A n \in 1..7 : (<<x1, x2, x3>> \o <<x4, x5, x6, x7>>)[n] = <<x1, x2, x3, x4, x5, x6, x7>>[n]
  OBVIOUS
<1> QED BY <1>1, <1>2, <1>3, SeqEqual

(* What a PATCH does after its checks. *)
LEMMA PatchStepsIs ==
  ASSUME NEW e, NEW status
  PROVE  PatchSteps(e, status) = IF status = "reopened" THEN Reopening(e) ELSE Patching(e)
<1> DEFINE S == {<<"modify", e>>, <<"insert", e>>, <<"commit", e>>, <<"reopen", e>>, <<"row", e>>,
                 <<"components", e>>, <<"statuses", e>>, <<"answer", e>>}
<1>1. PICK m, i, c, o, r, k, h, w :
        /\ m = <<"modify", e>> /\ i = <<"insert", e>> /\ c = <<"commit", e>> /\ o = <<"reopen", e>>
        /\ r = <<"row", e>> /\ k = <<"components", e>> /\ h = <<"statuses", e>> /\ w = <<"answer", e>>
  OBVIOUS
<1>2. m \in S /\ i \in S /\ c \in S /\ o \in S /\ r \in S /\ k \in S /\ h \in S /\ w \in S
  BY <1>1
<1> HIDE DEF S
<1>3. CASE status = "reopened"
  <2>1. PatchSteps(e, status) = ((<<m, i, c>> \o <<o>>) \o <<r, k, h>>) \o <<w>>
    BY <1>1, <1>3 DEF PatchSteps, Load
  <2>2. <<m, i, c>> \o <<o>> = <<m, i, c, o>>
    BY <1>2, Join3and1
  <2>3. <<m, i, c, o>> \o <<r, k, h>> = <<m, i, c, o, r, k, h>>
    BY <1>2, Join4and3
  <2>4. <<m, i, c, o, r, k, h>> \o <<w>> = <<m, i, c, o, r, k, h, w>>
    <3>1. <<m, i, c, o, r, k, h>> \o <<w>> \in Seq(S) /\ <<m, i, c, o, r, k, h, w>> \in Seq(S)
      BY <1>2
    <3>2. Len(<<m, i, c, o, r, k, h>> \o <<w>>) = 8 /\ Len(<<m, i, c, o, r, k, h, w>>) = 8
      BY <1>2
    <3>3. \A n \in 1..8 : (<<m, i, c, o, r, k, h>> \o <<w>>)[n] = <<m, i, c, o, r, k, h, w>>[n]
      BY <1>2
    <3> QED BY <3>1, <3>2, <3>3, SeqEqual
  <2>5. Reopening(e) = <<m, i, c, o, r, k, h, w>>
    BY <1>1 DEF Reopening
  <2> QED BY <1>3, <2>1, <2>2, <2>3, <2>4, <2>5
<1>4. CASE status # "reopened"
  <2>1. PatchSteps(e, status) = ((<<m, i, c>> \o <<>>) \o <<r, k, h>>) \o <<w>>
    BY <1>1, <1>4 DEF PatchSteps, Load
  <2>2. <<m, i, c>> \o <<>> = <<m, i, c>>
    <3>1. <<m, i, c>> \in Seq(S)
      BY <1>2
    <3> QED BY <3>1, ConcatEmptySeq
  <2>3. <<m, i, c>> \o <<r, k, h>> = <<m, i, c, r, k, h>>
    BY <1>2, Join3and3
  <2>4. <<m, i, c, r, k, h>> \o <<w>> = <<m, i, c, r, k, h, w>>
    <3>1. <<m, i, c, r, k, h>> \o <<w>> \in Seq(S) /\ <<m, i, c, r, k, h, w>> \in Seq(S)
      BY <1>2
    <3>2. Len(<<m, i, c, r, k, h>> \o <<w>>) = 7 /\ Len(<<m, i, c, r, k, h, w>>) = 7
      BY <1>2
    <3>3. \A n \in 1..7 : (<<m, i, c, r, k, h>> \o <<w>>)[n] = <<m, i, c, r, k, h, w>>[n]
      BY <1>2
    <3> QED BY <3>1, <3>2, <3>3, SeqEqual
  <2>5. Patching(e) = <<m, i, c, r, k, h, w>>
    BY <1>1 DEF Patching
  <2> QED BY <1>4, <2>1, <2>2, <2>3, <2>4, <2>5
<1> QED BY <1>3, <1>4

(* What a move does after its checks. *)
LEMMA MoveStepsIs ==
  ASSUME NEW q
  PROVE  MoveSteps(q) = IF q.closes THEN Moving(q.e, q.f) ELSE MovingAway(q.e, q.f)
<1> DEFINE S == {<<"unlink", q.e>>, <<"save", q.f>>, <<"link", q.f>>, <<"insert", q.f>>,
                 <<"save", q.e>>, <<"link", q.e>>, <<"insert", q.e>>, <<"commit", q.e>>, <<"done", q.e>>}
<1>1. PICK u, a, b, c, d, e, f, m, w :
        /\ u = <<"unlink", q.e>> /\ a = <<"save", q.f>> /\ b = <<"link", q.f>> /\ c = <<"insert", q.f>>
        /\ d = <<"save", q.e>> /\ e = <<"link", q.e>> /\ f = <<"insert", q.e>> /\ m = <<"commit", q.e>>
        /\ w = <<"done", q.e>>
  OBVIOUS
<1>2. u \in S /\ a \in S /\ b \in S /\ c \in S /\ d \in S /\ e \in S /\ f \in S /\ m \in S /\ w \in S
  BY <1>1
<1> HIDE DEF S
<1>3. CASE q.closes
  <2>1. MoveSteps(q) = <<>> \o <<a, b, c, d, e, f, m, w>>
    BY <1>1, <1>3 DEF MoveSteps
  <2>2. <<a, b, c, d, e, f, m, w>> \in Seq(S)
    BY <1>2
  <2>3. <<>> \o <<a, b, c, d, e, f, m, w>> = <<a, b, c, d, e, f, m, w>>
    BY <2>2, ConcatEmptySeq
  <2> QED BY <1>1, <1>3, <2>1, <2>3 DEF Moving
<1>4. CASE ~q.closes
  <2>1. MoveSteps(q) = <<u>> \o <<a, b, c, d, e, f, m, w>>
    BY <1>1, <1>4 DEF MoveSteps
  <2>2. <<u>> \o <<a, b, c, d, e, f, m, w>> = <<u, a, b, c, d, e, f, m, w>>
    <3>1. <<u>> \o <<a, b, c, d, e, f, m, w>> \in Seq(S) /\ <<u, a, b, c, d, e, f, m, w>> \in Seq(S)
      BY <1>2
    <3>2. Len(<<u>> \o <<a, b, c, d, e, f, m, w>>) = 9 /\ Len(<<u, a, b, c, d, e, f, m, w>>) = 9
      BY <1>2
    <3>3. \A n \in 1..9 : (<<u>> \o <<a, b, c, d, e, f, m, w>>)[n] = <<u, a, b, c, d, e, f, m, w>>[n]
      BY <1>2
    <3> QED BY <3>1, <3>2, <3>3, SeqEqual
  <2> QED BY <1>1, <1>4, <2>1, <2>2 DEF MovingAway
<1> QED BY <1>3, <1>4

(* What a request starts with. *)
LEMMA ProgramIs ==
  ASSUME NEW q \in Request
  PROVE  \/ q.op = "get" /\ Program(q) = Getting(q.e)
         \/ q.op = "patch" /\ Program(q) = Checking(q.e)
         \/ q.op = "edit" /\ Program(q) = Editing(q.e)
         \/ q.op = "move" /\ Program(q) = Preparing(q.e, q.f)
         \/ q.op = "extract" /\ Program(q) = Extracting(q.e)
         \/ q.op = "component" /\ Program(q) = Registering
<1> DEFINE S == Steps
<1>1. PICK r, k, h, a, d, p, u, x, y, r2, k2, h2, m, o :
        /\ r = <<"row", q.e>> /\ k = <<"components", q.e>> /\ h = <<"statuses", q.e>>
        /\ a = <<"answer", q.e>> /\ d = <<"decide", q.e>> /\ p = <<"pick", q.e>> /\ u = <<"updates", q.e>>
        /\ x = <<"text", q.e>> /\ y = <<"reread", q.e>>
        /\ r2 = <<"row", q.f>> /\ k2 = <<"components", q.f>> /\ h2 = <<"statuses", q.f>>
        /\ m = <<"prepare", q.e>> /\ o = <<"extract", q.e>>
  OBVIOUS
<1>2. /\ r \in S /\ k \in S /\ h \in S /\ a \in S /\ d \in S /\ p \in S /\ u \in S /\ x \in S /\ y \in S
      /\ r2 \in S /\ k2 \in S /\ h2 \in S /\ m \in S /\ o \in S
  BY <1>1 DEF Steps, StepName, OutsideTx
<1> HIDE DEF S
<1>3. CASE q.op = "get"
  <2>1. Program(q) = <<r, k, h>> \o <<a>>
    BY <1>1, <1>3 DEF Program, Load
  <2>2. <<r, k, h>> \o <<a>> = <<r, k, h, a>>
    BY <1>2, Join3and1
  <2> QED BY <1>1, <1>3, <2>1, <2>2 DEF Getting
<1>4. CASE q.op = "patch"
  <2>1. Program(q) = <<r, k, h>> \o <<d>>
    BY <1>1, <1>4 DEF Program, Load
  <2>2. <<r, k, h>> \o <<d>> = <<r, k, h, d>>
    BY <1>2, Join3and1
  <2> QED BY <1>1, <1>4, <2>1, <2>2 DEF Checking
<1>5. CASE q.op = "edit"
  <2>1. Program(q) = <<r, k, h>> \o <<p, u, x, y>>
    BY <1>1, <1>5 DEF Program, Load
  <2>2. <<r, k, h>> \o <<p, u, x, y>> = <<r, k, h, p, u, x, y>>
    BY <1>2, Join3and4
  <2> QED BY <1>1, <1>5, <2>1, <2>2 DEF Editing
<1>6. CASE q.op = "move"
  <2>1. Program(q) = (<<r, k, h>> \o <<r2, k2, h2>>) \o <<m>>
    BY <1>1, <1>6 DEF Program, Load
  <2>2. <<r, k, h>> \o <<r2, k2, h2>> = <<r, k, h, r2, k2, h2>>
    BY <1>2, Join3and3
  <2>3. <<r, k, h, r2, k2, h2>> \o <<m>> = <<r, k, h, r2, k2, h2, m>>
    <3>1. <<r, k, h, r2, k2, h2>> \o <<m>> \in Seq(S) /\ <<r, k, h, r2, k2, h2, m>> \in Seq(S)
      BY <1>2
    <3>2. Len(<<r, k, h, r2, k2, h2>> \o <<m>>) = 7 /\ Len(<<r, k, h, r2, k2, h2, m>>) = 7
      BY <1>2
    <3>3. \A n \in 1..7 : (<<r, k, h, r2, k2, h2>> \o <<m>>)[n] = <<r, k, h, r2, k2, h2, m>>[n]
      BY <1>2
    <3> QED BY <3>1, <3>2, <3>3, SeqEqual
  <2> QED BY <1>1, <1>6, <2>1, <2>2, <2>3 DEF Preparing
<1>7. CASE q.op = "component"
  BY <1>7 DEF Program, Registering
<1>8. CASE q.op = "extract"
  <2>1. Program(q) = <<r, k, h>> \o <<o>>
    BY <1>1, <1>8 DEF Program, Load
  <2>2. <<r, k, h>> \o <<o>> = <<r, k, h, o>>
    BY <1>2, Join3and1
  <2> QED BY <1>1, <1>8, <2>1, <2>2 DEF Extracting
<1> QED BY <1>3, <1>4, <1>5, <1>6, <1>7, <1>8, RequestAssumption

(* Every program has the shape. *)
LEMMA GettingShape ==
  ASSUME NEW e, {<<m, e>> : m \in StepName} \subseteq Steps
  PROVE  Shape(Getting(e))
<1>1. PICK t : t = Getting(e)
  OBVIOUS
<1>2. /\ DOMAIN t = 1..4 /\ Len(t) = 4
      /\ t[1] = <<"row", e>> /\ t[2] = <<"components", e>> /\ t[3] = <<"statuses", e>>
      /\ t[4] = <<"answer", e>>
  BY <1>1 DEF Getting
<1>3. /\ t[1][1] = "row" /\ t[2][1] = "components" /\ t[3][1] = "statuses" /\ t[4][1] = "answer"
  BY <1>2
<1>4. t \in Seq(Steps)
  <2>1. /\ <<"row", e>> \in Steps
      /\ <<"components", e>> \in Steps
      /\ <<"statuses", e>> \in Steps
      /\ <<"answer", e>> \in Steps
    BY DEF StepName, InsideTx, OutsideTx
  <2> QED BY <1>1, <2>1 DEF Getting
<1>5. \A i, j \in 1..4 : t[i][1] = "commit" /\ t[j][1] = "commit" => i = j
  BY <1>3
<1>6. \A i \in 1..4 : t[i][1] \in InsideTx => \E j \in 1..4 : i < j /\ t[j][1] = "commit"
  BY <1>3 DEF InsideTx
<1>7. \A i, j \in 1..4 : t[i][1] \in OutsideTx /\ t[j][1] = "commit" => j < i
  BY <1>3 DEF OutsideTx
<1>8. \A i \in 1..4 : t[i][1] = "reopen" /\ i # 1 => t[i - 1][1] = "commit"
  BY <1>3
<1>9. \A i \in 1..4 : t[i][1] \in {"decide", "prepare", "extract"} => i = 4
  BY <1>3
<1> QED BY <1>1, <1>2, <1>4, <1>5, <1>6, <1>7, <1>8, <1>9 DEF Shape

LEMMA CheckingShape ==
  ASSUME NEW e, {<<m, e>> : m \in StepName} \subseteq Steps
  PROVE  Shape(Checking(e))
<1>1. PICK t : t = Checking(e)
  OBVIOUS
<1>2. /\ DOMAIN t = 1..4 /\ Len(t) = 4
      /\ t[1] = <<"row", e>> /\ t[2] = <<"components", e>> /\ t[3] = <<"statuses", e>>
      /\ t[4] = <<"decide", e>>
  BY <1>1 DEF Checking
<1>3. /\ t[1][1] = "row" /\ t[2][1] = "components" /\ t[3][1] = "statuses" /\ t[4][1] = "decide"
  BY <1>2
<1>4. t \in Seq(Steps)
  <2>1. /\ <<"row", e>> \in Steps
      /\ <<"components", e>> \in Steps
      /\ <<"statuses", e>> \in Steps
      /\ <<"decide", e>> \in Steps
    BY DEF StepName, InsideTx, OutsideTx
  <2> QED BY <1>1, <2>1 DEF Checking
<1>5. \A i, j \in 1..4 : t[i][1] = "commit" /\ t[j][1] = "commit" => i = j
  BY <1>3
<1>6. \A i \in 1..4 : t[i][1] \in InsideTx => \E j \in 1..4 : i < j /\ t[j][1] = "commit"
  BY <1>3 DEF InsideTx
<1>7. \A i, j \in 1..4 : t[i][1] \in OutsideTx /\ t[j][1] = "commit" => j < i
  BY <1>3 DEF OutsideTx
<1>8. \A i \in 1..4 : t[i][1] = "reopen" /\ i # 1 => t[i - 1][1] = "commit"
  BY <1>3
<1>9. \A i \in 1..4 : t[i][1] \in {"decide", "prepare", "extract"} => i = 4
  BY <1>3
<1> QED BY <1>1, <1>2, <1>4, <1>5, <1>6, <1>7, <1>8, <1>9 DEF Shape

LEMMA ExtractingShape ==
  ASSUME NEW e, {<<m, e>> : m \in StepName} \subseteq Steps
  PROVE  Shape(Extracting(e))
<1>1. PICK t : t = Extracting(e)
  OBVIOUS
<1>2. /\ DOMAIN t = 1..4 /\ Len(t) = 4
      /\ t[1] = <<"row", e>> /\ t[2] = <<"components", e>> /\ t[3] = <<"statuses", e>>
      /\ t[4] = <<"extract", e>>
  BY <1>1 DEF Extracting
<1>3. /\ t[1][1] = "row" /\ t[2][1] = "components" /\ t[3][1] = "statuses" /\ t[4][1] = "extract"
  BY <1>2
<1>4. t \in Seq(Steps)
  <2>1. /\ <<"row", e>> \in Steps
      /\ <<"components", e>> \in Steps
      /\ <<"statuses", e>> \in Steps
      /\ <<"extract", e>> \in Steps
    BY DEF StepName, InsideTx, OutsideTx
  <2> QED BY <1>1, <2>1 DEF Extracting
<1>5. \A i, j \in 1..4 : t[i][1] = "commit" /\ t[j][1] = "commit" => i = j
  BY <1>3
<1>6. \A i \in 1..4 : t[i][1] \in InsideTx => \E j \in 1..4 : i < j /\ t[j][1] = "commit"
  BY <1>3 DEF InsideTx
<1>7. \A i, j \in 1..4 : t[i][1] \in OutsideTx /\ t[j][1] = "commit" => j < i
  BY <1>3 DEF OutsideTx
<1>8. \A i \in 1..4 : t[i][1] = "reopen" /\ i # 1 => t[i - 1][1] = "commit"
  BY <1>3
<1>9. \A i \in 1..4 : t[i][1] \in {"decide", "prepare", "extract"} => i = 4
  BY <1>3
<1> QED BY <1>1, <1>2, <1>4, <1>5, <1>6, <1>7, <1>8, <1>9 DEF Shape

LEMMA EditingShape ==
  ASSUME NEW e, {<<m, e>> : m \in StepName} \subseteq Steps
  PROVE  Shape(Editing(e))
<1>1. PICK t : t = Editing(e)
  OBVIOUS
<1>2. /\ DOMAIN t = 1..7 /\ Len(t) = 7
      /\ t[1] = <<"row", e>> /\ t[2] = <<"components", e>> /\ t[3] = <<"statuses", e>>
      /\ t[4] = <<"pick", e>> /\ t[5] = <<"updates", e>> /\ t[6] = <<"text", e>>
      /\ t[7] = <<"reread", e>>
  BY <1>1 DEF Editing
<1>3. /\ t[1][1] = "row" /\ t[2][1] = "components" /\ t[3][1] = "statuses" /\ t[4][1] = "pick"
      /\ t[5][1] = "updates" /\ t[6][1] = "text" /\ t[7][1] = "reread"
  BY <1>2
<1>4. t \in Seq(Steps)
  <2>1. /\ <<"row", e>> \in Steps
      /\ <<"components", e>> \in Steps
      /\ <<"statuses", e>> \in Steps
      /\ <<"pick", e>> \in Steps
      /\ <<"updates", e>> \in Steps
      /\ <<"text", e>> \in Steps
      /\ <<"reread", e>> \in Steps
    BY DEF StepName, InsideTx, OutsideTx
  <2> QED BY <1>1, <2>1 DEF Editing
<1>5. \A i, j \in 1..7 : t[i][1] = "commit" /\ t[j][1] = "commit" => i = j
  BY <1>3
<1>6. \A i \in 1..7 : t[i][1] \in InsideTx => \E j \in 1..7 : i < j /\ t[j][1] = "commit"
  BY <1>3 DEF InsideTx
<1>7. \A i, j \in 1..7 : t[i][1] \in OutsideTx /\ t[j][1] = "commit" => j < i
  BY <1>3 DEF OutsideTx
<1>8. \A i \in 1..7 : t[i][1] = "reopen" /\ i # 1 => t[i - 1][1] = "commit"
  BY <1>3
<1>9. \A i \in 1..7 : t[i][1] \in {"decide", "prepare", "extract"} => i = 7
  BY <1>3
<1> QED BY <1>1, <1>2, <1>4, <1>5, <1>6, <1>7, <1>8, <1>9 DEF Shape

LEMMA PreparingShape ==
  ASSUME NEW e, {<<m, e>> : m \in StepName} \subseteq Steps, NEW f, {<<m, f>> : m \in StepName} \subseteq Steps
  PROVE  Shape(Preparing(e, f))
<1>1. PICK t : t = Preparing(e, f)
  OBVIOUS
<1>2. /\ DOMAIN t = 1..7 /\ Len(t) = 7
      /\ t[1] = <<"row", e>> /\ t[2] = <<"components", e>> /\ t[3] = <<"statuses", e>>
      /\ t[4] = <<"row", f>> /\ t[5] = <<"components", f>> /\ t[6] = <<"statuses", f>>
      /\ t[7] = <<"prepare", e>>
  BY <1>1 DEF Preparing
<1>3. /\ t[1][1] = "row" /\ t[2][1] = "components" /\ t[3][1] = "statuses" /\ t[4][1] = "row"
      /\ t[5][1] = "components" /\ t[6][1] = "statuses" /\ t[7][1] = "prepare"
  BY <1>2
<1>4. t \in Seq(Steps)
  <2>1. /\ <<"row", e>> \in Steps
      /\ <<"components", e>> \in Steps
      /\ <<"statuses", e>> \in Steps
      /\ <<"row", f>> \in Steps
      /\ <<"components", f>> \in Steps
      /\ <<"statuses", f>> \in Steps
      /\ <<"prepare", e>> \in Steps
    BY DEF StepName, InsideTx, OutsideTx
  <2> QED BY <1>1, <2>1 DEF Preparing
<1>5. \A i, j \in 1..7 : t[i][1] = "commit" /\ t[j][1] = "commit" => i = j
  BY <1>3
<1>6. \A i \in 1..7 : t[i][1] \in InsideTx => \E j \in 1..7 : i < j /\ t[j][1] = "commit"
  BY <1>3 DEF InsideTx
<1>7. \A i, j \in 1..7 : t[i][1] \in OutsideTx /\ t[j][1] = "commit" => j < i
  BY <1>3 DEF OutsideTx
<1>8. \A i \in 1..7 : t[i][1] = "reopen" /\ i # 1 => t[i - 1][1] = "commit"
  BY <1>3
<1>9. \A i \in 1..7 : t[i][1] \in {"decide", "prepare", "extract"} => i = 7
  BY <1>3
<1> QED BY <1>1, <1>2, <1>4, <1>5, <1>6, <1>7, <1>8, <1>9 DEF Shape

LEMMA RegisteringShape ==
  Shape(Registering)
<1>1. PICK t : t = Registering
  OBVIOUS
<1>2. /\ DOMAIN t = 1..7 /\ Len(t) = 7
      /\ t[1] = <<"exists", 0>> /\ t[2] = <<"component", 0>> /\ t[3] = <<"attribute", 1>>
      /\ t[4] = <<"attribute", 2>> /\ t[5] = <<"attribute", 3>> /\ t[6] = <<"commit", 0>>
      /\ t[7] = <<"done", 0>>
  BY <1>1 DEF Registering
<1>3. /\ t[1][1] = "exists" /\ t[2][1] = "component" /\ t[3][1] = "attribute" /\ t[4][1] = "attribute"
      /\ t[5][1] = "attribute" /\ t[6][1] = "commit" /\ t[7][1] = "done"
  BY <1>2
<1>4. t \in Seq(Steps)
  <2>1. /\ <<"exists", 0>> \in Steps
      /\ <<"component", 0>> \in Steps
      /\ <<"attribute", 1>> \in Steps
      /\ <<"attribute", 2>> \in Steps
      /\ <<"attribute", 3>> \in Steps
      /\ <<"commit", 0>> \in Steps
      /\ <<"done", 0>> \in Steps
    BY DEF StepName, InsideTx, OutsideTx, Steps
  <2> QED BY <1>1, <2>1 DEF Registering
<1>5. \A i, j \in 1..7 : t[i][1] = "commit" /\ t[j][1] = "commit" => i = j
  BY <1>3
<1>6. \A i \in 1..7 : t[i][1] \in InsideTx => \E j \in 1..7 : i < j /\ t[j][1] = "commit"
  BY <1>3 DEF InsideTx
<1>7. \A i, j \in 1..7 : t[i][1] \in OutsideTx /\ t[j][1] = "commit" => j < i
  BY <1>3 DEF OutsideTx
<1>8. \A i \in 1..7 : t[i][1] = "reopen" /\ i # 1 => t[i - 1][1] = "commit"
  BY <1>3
<1>9. \A i \in 1..7 : t[i][1] \in {"decide", "prepare", "extract"} => i = 7
  BY <1>3
<1> QED BY <1>1, <1>2, <1>4, <1>5, <1>6, <1>7, <1>8, <1>9 DEF Shape

LEMMA PatchingShape ==
  ASSUME NEW e, {<<m, e>> : m \in StepName} \subseteq Steps
  PROVE  Shape(Patching(e))
<1>1. PICK t : t = Patching(e)
  OBVIOUS
<1>2. /\ DOMAIN t = 1..7 /\ Len(t) = 7
      /\ t[1] = <<"modify", e>> /\ t[2] = <<"insert", e>> /\ t[3] = <<"commit", e>>
      /\ t[4] = <<"row", e>> /\ t[5] = <<"components", e>> /\ t[6] = <<"statuses", e>>
      /\ t[7] = <<"answer", e>>
  BY <1>1 DEF Patching
<1>3. /\ t[1][1] = "modify" /\ t[2][1] = "insert" /\ t[3][1] = "commit" /\ t[4][1] = "row"
      /\ t[5][1] = "components" /\ t[6][1] = "statuses" /\ t[7][1] = "answer"
  BY <1>2
<1>4. t \in Seq(Steps)
  <2>1. /\ <<"modify", e>> \in Steps
      /\ <<"insert", e>> \in Steps
      /\ <<"commit", e>> \in Steps
      /\ <<"row", e>> \in Steps
      /\ <<"components", e>> \in Steps
      /\ <<"statuses", e>> \in Steps
      /\ <<"answer", e>> \in Steps
    BY DEF StepName, InsideTx, OutsideTx
  <2> QED BY <1>1, <2>1 DEF Patching
<1>5. \A i, j \in 1..7 : t[i][1] = "commit" /\ t[j][1] = "commit" => i = j
  BY <1>3
<1>6. \A i \in 1..7 : t[i][1] \in InsideTx => \E j \in 1..7 : i < j /\ t[j][1] = "commit"
  BY <1>3 DEF InsideTx
<1>7. \A i, j \in 1..7 : t[i][1] \in OutsideTx /\ t[j][1] = "commit" => j < i
  BY <1>3 DEF OutsideTx
<1>8. \A i \in 1..7 : t[i][1] = "reopen" /\ i # 1 => t[i - 1][1] = "commit"
  BY <1>3
<1>9. \A i \in 1..7 : t[i][1] \in {"decide", "prepare", "extract"} => i = 7
  BY <1>3
<1> QED BY <1>1, <1>2, <1>4, <1>5, <1>6, <1>7, <1>8, <1>9 DEF Shape

LEMMA ReopeningShape ==
  ASSUME NEW e, {<<m, e>> : m \in StepName} \subseteq Steps
  PROVE  Shape(Reopening(e))
<1>1. PICK t : t = Reopening(e)
  OBVIOUS
<1>2. /\ DOMAIN t = 1..8 /\ Len(t) = 8
      /\ t[1] = <<"modify", e>> /\ t[2] = <<"insert", e>> /\ t[3] = <<"commit", e>>
      /\ t[4] = <<"reopen", e>> /\ t[5] = <<"row", e>> /\ t[6] = <<"components", e>>
      /\ t[7] = <<"statuses", e>> /\ t[8] = <<"answer", e>>
  BY <1>1 DEF Reopening
<1>3. /\ t[1][1] = "modify" /\ t[2][1] = "insert" /\ t[3][1] = "commit" /\ t[4][1] = "reopen"
      /\ t[5][1] = "row" /\ t[6][1] = "components" /\ t[7][1] = "statuses" /\ t[8][1] = "answer"
  BY <1>2
<1>4. t \in Seq(Steps)
  <2>1. /\ <<"modify", e>> \in Steps
      /\ <<"insert", e>> \in Steps
      /\ <<"commit", e>> \in Steps
      /\ <<"reopen", e>> \in Steps
      /\ <<"row", e>> \in Steps
      /\ <<"components", e>> \in Steps
      /\ <<"statuses", e>> \in Steps
      /\ <<"answer", e>> \in Steps
    BY DEF StepName, InsideTx, OutsideTx
  <2> QED BY <1>1, <2>1 DEF Reopening
<1>5. \A i, j \in 1..8 : t[i][1] = "commit" /\ t[j][1] = "commit" => i = j
  BY <1>3
<1>6. \A i \in 1..8 : t[i][1] \in InsideTx => \E j \in 1..8 : i < j /\ t[j][1] = "commit"
  BY <1>3 DEF InsideTx
<1>7. \A i, j \in 1..8 : t[i][1] \in OutsideTx /\ t[j][1] = "commit" => j < i
  BY <1>3 DEF OutsideTx
<1>8. \A i \in 1..8 : t[i][1] = "reopen" /\ i # 1 => t[i - 1][1] = "commit"
  BY <1>3
<1>9. \A i \in 1..8 : t[i][1] \in {"decide", "prepare", "extract"} => i = 8
  BY <1>3
<1> QED BY <1>1, <1>2, <1>4, <1>5, <1>6, <1>7, <1>8, <1>9 DEF Shape

LEMMA MovingShape ==
  ASSUME NEW e, {<<m, e>> : m \in StepName} \subseteq Steps, NEW f, {<<m, f>> : m \in StepName} \subseteq Steps
  PROVE  Shape(Moving(e, f))
<1>1. PICK t : t = Moving(e, f)
  OBVIOUS
<1>2. /\ DOMAIN t = 1..8 /\ Len(t) = 8
      /\ t[1] = <<"save", f>> /\ t[2] = <<"link", f>> /\ t[3] = <<"insert", f>>
      /\ t[4] = <<"save", e>> /\ t[5] = <<"link", e>> /\ t[6] = <<"insert", e>>
      /\ t[7] = <<"commit", e>> /\ t[8] = <<"done", e>>
  BY <1>1 DEF Moving
<1>3. /\ t[1][1] = "save" /\ t[2][1] = "link" /\ t[3][1] = "insert" /\ t[4][1] = "save"
      /\ t[5][1] = "link" /\ t[6][1] = "insert" /\ t[7][1] = "commit" /\ t[8][1] = "done"
  BY <1>2
<1>4. t \in Seq(Steps)
  <2>1. /\ <<"save", f>> \in Steps
      /\ <<"link", f>> \in Steps
      /\ <<"insert", f>> \in Steps
      /\ <<"save", e>> \in Steps
      /\ <<"link", e>> \in Steps
      /\ <<"insert", e>> \in Steps
      /\ <<"commit", e>> \in Steps
      /\ <<"done", e>> \in Steps
    BY DEF StepName, InsideTx, OutsideTx
  <2> QED BY <1>1, <2>1 DEF Moving
<1>5. \A i, j \in 1..8 : t[i][1] = "commit" /\ t[j][1] = "commit" => i = j
  BY <1>3
<1>6. \A i \in 1..8 : t[i][1] \in InsideTx => \E j \in 1..8 : i < j /\ t[j][1] = "commit"
  BY <1>3 DEF InsideTx
<1>7. \A i, j \in 1..8 : t[i][1] \in OutsideTx /\ t[j][1] = "commit" => j < i
  BY <1>3 DEF OutsideTx
<1>8. \A i \in 1..8 : t[i][1] = "reopen" /\ i # 1 => t[i - 1][1] = "commit"
  BY <1>3
<1>9. \A i \in 1..8 : t[i][1] \in {"decide", "prepare", "extract"} => i = 8
  BY <1>3
<1> QED BY <1>1, <1>2, <1>4, <1>5, <1>6, <1>7, <1>8, <1>9 DEF Shape

LEMMA MovingAwayShape ==
  ASSUME NEW e, {<<m, e>> : m \in StepName} \subseteq Steps, NEW f, {<<m, f>> : m \in StepName} \subseteq Steps
  PROVE  Shape(MovingAway(e, f))
<1>1. PICK t : t = MovingAway(e, f)
  OBVIOUS
<1>2. /\ DOMAIN t = 1..9 /\ Len(t) = 9
      /\ t[1] = <<"unlink", e>> /\ t[2] = <<"save", f>> /\ t[3] = <<"link", f>>
      /\ t[4] = <<"insert", f>> /\ t[5] = <<"save", e>> /\ t[6] = <<"link", e>>
      /\ t[7] = <<"insert", e>> /\ t[8] = <<"commit", e>> /\ t[9] = <<"done", e>>
  BY <1>1 DEF MovingAway
<1>3. /\ t[1][1] = "unlink" /\ t[2][1] = "save" /\ t[3][1] = "link" /\ t[4][1] = "insert"
      /\ t[5][1] = "save" /\ t[6][1] = "link" /\ t[7][1] = "insert" /\ t[8][1] = "commit"
      /\ t[9][1] = "done"
  BY <1>2
<1>4. t \in Seq(Steps)
  <2>1. /\ <<"unlink", e>> \in Steps
      /\ <<"save", f>> \in Steps
      /\ <<"link", f>> \in Steps
      /\ <<"insert", f>> \in Steps
      /\ <<"save", e>> \in Steps
      /\ <<"link", e>> \in Steps
      /\ <<"insert", e>> \in Steps
      /\ <<"commit", e>> \in Steps
      /\ <<"done", e>> \in Steps
    BY DEF StepName, InsideTx, OutsideTx
  <2> QED BY <1>1, <2>1 DEF MovingAway
<1>5. \A i, j \in 1..9 : t[i][1] = "commit" /\ t[j][1] = "commit" => i = j
  BY <1>3
<1>6. \A i \in 1..9 : t[i][1] \in InsideTx => \E j \in 1..9 : i < j /\ t[j][1] = "commit"
  BY <1>3 DEF InsideTx
<1>7. \A i, j \in 1..9 : t[i][1] \in OutsideTx /\ t[j][1] = "commit" => j < i
  BY <1>3 DEF OutsideTx
<1>8. \A i \in 1..9 : t[i][1] = "reopen" /\ i # 1 => t[i - 1][1] = "commit"
  BY <1>3
<1>9. \A i \in 1..9 : t[i][1] \in {"decide", "prepare", "extract"} => i = 9
  BY <1>3
<1> QED BY <1>1, <1>2, <1>4, <1>5, <1>6, <1>7, <1>8, <1>9 DEF Shape

-----------------------------------------------------------------------------
(* Steps of a session. *)

(* A session's record has these fields. *)
LEMMA IdleFields ==
  /\ DOMAIN Idle = {"todo", "req", "w", "copy", "version", "shown", "target", "auth", "reply"}
  /\ Idle.todo = <<>> /\ DOMAIN Idle.w = {} /\ DOMAIN Idle.copy = {} /\ Idle.reply = Null
  /\ Idle.shown = 0
BY DEF Idle

(* A step of one session leaves the others alone. *)
LEMMA SetSession ==
  ASSUME Sessions, NEW s \in Session, NEW x, ses' = [ses EXCEPT ![s] = x]
  PROVE  Others(s) /\ ses'[s] = x
BY DEF Sessions, Others

(* The handler goes on. *)
LEMMA ProceedIs ==
  ASSUME Sessions, NEW s \in Session, NEW r, DOMAIN r = DOMAIN Idle, Proceed(s, r)
  PROVE  /\ Others(s) /\ DOMAIN ses'[s] = DOMAIN Idle /\ ses'[s].todo = Tail(r.todo)
         /\ ses'[s].req = r.req /\ ses'[s].w = r.w /\ ses'[s].copy = r.copy /\ ses'[s].version = r.version
         /\ ses'[s].shown = r.shown /\ ses'[s].target = r.target /\ ses'[s].reply = r.reply
<1>1. PICK x : x = [r EXCEPT !.todo = Tail(@)]
  OBVIOUS
<1>2. Others(s) /\ ses'[s] = x
  BY <1>1, SetSession DEF Proceed
<1>3. /\ DOMAIN x = DOMAIN Idle /\ x.todo = Tail(r.todo)
      /\ x.req = r.req /\ x.w = r.w /\ x.copy = r.copy /\ x.version = r.version
      /\ x.shown = r.shown /\ x.target = r.target /\ x.reply = r.reply
  BY <1>1, IdleFields
<1> QED BY <1>2, <1>3

(* An answer, an error or a conflict ends the transaction. *)
LEMMA ReturnIs ==
  ASSUME Sessions, NEW s \in Session, NEW code, Return(s, code)
  PROVE  Answered(s) /\ db' = db /\ seq' = seq /\ cut' = cut
<1>1. PICK x : x = [Idle EXCEPT !.reply = [code |-> code, raw |-> "", history |-> {}, event |-> Null]]
  OBVIOUS
<1>2. Others(s) /\ ses'[s] = x
  BY <1>1, SetSession DEF Return, Rollback
<1>3. DOMAIN x = DOMAIN Idle /\ x.todo = <<>> /\ DOMAIN x.w = {} /\ DOMAIN x.copy = {} /\ x.reply.event = Null /\ x.shown = 0
  BY <1>1, IdleFields
<1> QED BY <1>2, <1>3 DEF Return, Rollback, Answered, Replied

(* The step at the head, and whether it is in the transaction. *)
LEMMA AtIs ==
  ASSUME Sessions, NEW s \in Session, NEW n, At(s, n)
  PROVE  /\ ses[s].todo # <<>> /\ ses[s].todo \in Seq(Steps) /\ Len(ses[s].todo) \in Nat \ {0}
         /\ DOMAIN ses[s].todo = 1..Len(ses[s].todo) /\ 1 \in DOMAIN ses[s].todo
         /\ ses[s].todo[1][1] = n /\ Event(s) = ses[s].todo[1][2]
         /\ n \in InsideTx => InTx(s)
         /\ n \in OutsideTx => ~InTx(s) /\ DOMAIN ses[s].w = {}
<1>1. PICK t : t = ses[s].todo
  OBVIOUS
<1>2. Shape(t) /\ t # <<>> /\ t \in Seq(Steps)
  BY <1>1 DEF At, Sessions, Shape
<1>3. Len(t) \in Nat \ {0} /\ DOMAIN t = 1..Len(t) /\ 1 \in DOMAIN t /\ Head(t) = t[1]
  BY <1>2, TailIs
<1>4. t[1][1] = n /\ Event(s) = t[1][2]
  BY <1>1, <1>3 DEF At, Event
<1>5. n \in InsideTx => InTx(s)
  BY <1>1, <1>2, <1>3, <1>4 DEF Shape, InTx
<1>6. ASSUME n \in OutsideTx PROVE ~InTx(s)
  <2>1. \A j \in DOMAIN t : t[j][1] = "commit" => j < 1
    BY <1>2, <1>3, <1>4, <1>6 DEF Shape
  <2>2. \A j \in DOMAIN t : ~(j < 1)
    BY <1>3
  <2> QED BY <1>1, <2>1, <2>2 DEF InTx
<1> QED BY <1>1, <1>2, <1>3, <1>4, <1>5, <1>6 DEF Sessions

(* A statement that writes. *)
LEMMA WritesIs ==
  ASSUME Sessions, NEW s \in Session, NEW r, DOMAIN r = DOMAIN Idle,
         NEW rows, NEW seqs, Writes(s, r, rows, seqs)
  PROVE  /\ Holders(s, DOMAIN rows) = {} /\ seq' = seqs /\ cut' = cut
         /\ Others(s) /\ DOMAIN ses'[s] = DOMAIN Idle /\ ses'[s].todo = Tail(r.todo)
         /\ ses'[s].req = r.req /\ ses'[s].copy = r.copy /\ ses'[s].version = r.version
         /\ ses'[s].shown = r.shown /\ ses'[s].target = r.target /\ ses'[s].reply = r.reply
         /\ InTx(s) => ses'[s].w = Over(rows, r.w) /\ db' = db
         /\ ~InTx(s) => ses'[s].w = r.w /\ db' = Overlay(db, rows)
<1>1. CASE InTx(s)
  <2>1. PICK x : x = [r EXCEPT !.w = Over(rows, @)]
    OBVIOUS
  <2>2. /\ DOMAIN x = DOMAIN Idle /\ x.todo = r.todo /\ x.w = Over(rows, r.w)
        /\ x.req = r.req /\ x.copy = r.copy /\ x.version = r.version
        /\ x.shown = r.shown /\ x.target = r.target /\ x.reply = r.reply
    BY <2>1, IdleFields
  <2>3. Proceed(s, x) /\ db' = db
    BY <1>1, <2>1 DEF Writes
  <2> QED BY <1>1, <2>2, <2>3, ProceedIs DEF Writes
<1>2. CASE ~InTx(s)
  BY <1>2, ProceedIs DEF Writes
<1> QED BY <1>1, <1>2

(* Uncommitted rows under the statement's. *)
LEMMA OverIs ==
  ASSUME NEW f, NEW g
  PROVE  /\ DOMAIN Over(f, g) = DOMAIN f \cup DOMAIN g
         /\ \A x \in DOMAIN f : Over(f, g)[x] = f[x]
         /\ \A x \in DOMAIN g \ DOMAIN f : Over(f, g)[x] = g[x]
BY DEF Over

(* One session's step keeps Sessions when its own record is in order. *)
LEMMA OneKeeps ==
  ASSUME Sessions, NEW s \in Session, Others(s), DOMAIN ses'[s] = DOMAIN Idle, Shape(ses'[s].todo),
         ses'[s].todo # <<>> => ses'[s].req \in Request,
         DOMAIN ses'[s].w # {} => \E i \in DOMAIN ses'[s].todo : ses'[s].todo[i][1] = "commit"
  PROVE  Sessions'
<1>1. ASSUME NEW t \in Session
      PROVE  /\ DOMAIN ses'[t] = DOMAIN Idle /\ Shape(ses'[t].todo)
             /\ (ses'[t].todo # <<>> => ses'[t].req \in Request) /\ (DOMAIN ses'[t].w # {} => InTx(t)')
  <2>1. CASE t = s
    BY <2>1 DEF InTx
  <2>2. CASE t # s
    BY <2>2 DEF Others, Sessions, InTx
  <2> QED BY <2>1, <2>2
<1> QED BY <1>1 DEF Sessions, Others, Idle, Shape

(* A step that is not a commit leaves the rest of the transaction to do. *)
LEMMA TailKeeps ==
  ASSUME Sessions, NEW s \in Session, NEW n, At(s, n), n # "commit",
         Others(s), DOMAIN ses'[s] = DOMAIN Idle, ses'[s].todo = Tail(ses[s].todo),
         ses'[s].req = ses[s].req, DOMAIN ses'[s].w # {} => InTx(s)
  PROVE  Sessions'
<1>1. PICK t : t = ses[s].todo
  OBVIOUS
<1>2. /\ t # <<>> /\ t \in Seq(Steps) /\ Len(t) \in Nat \ {0} /\ DOMAIN t = 1..Len(t)
      /\ t[1][1] = n /\ Shape(t)
  BY <1>1, AtIs DEF Sessions
<1>3. PICK u : u = Tail(t)
  OBVIOUS
<1>4. DOMAIN u = 1..(Len(t) - 1) /\ \A i \in DOMAIN u : u[i] = t[i + 1]
  BY <1>2, <1>3, TailIs
<1>5. Shape(u)
  BY <1>2, <1>3, ShapeTail
<1>6. ASSUME InTx(s) PROVE \E i \in DOMAIN u : u[i][1] = "commit"
  <2>1. PICK j \in DOMAIN t : t[j][1] = "commit"
    BY <1>1, <1>6 DEF InTx
  <2>2. j # 1
    BY <1>2, <2>1
  <2>3. j - 1 \in DOMAIN u /\ (j - 1) + 1 = j
    BY <1>2, <1>4, <2>1, <2>2
  <2> QED BY <1>4, <2>1, <2>3
<1>7. ses'[s].todo = u
  BY <1>1, <1>3
<1>8. ses'[s].req \in Request
  BY <1>1, <1>2 DEF Sessions
<1> QED BY <1>5, <1>6, <1>7, <1>8, OneKeeps

(* An answered request holds nothing. *)
LEMMA AnsweredKeeps ==
  ASSUME Sessions, NEW s \in Session, Answered(s)
  PROVE  Sessions'
<1>1. Shape(<<>>)
  <2>1. <<>> \in Seq(Steps) /\ DOMAIN <<>> = {}
    OBVIOUS
  <2> QED BY <2>1 DEF Shape
<1> QED BY <1>1, OneKeeps DEF Answered

-----------------------------------------------------------------------------
(* What each statement does to its session. *)

(* A read that remembers something of one event. *)
LEMMA ReadsCopy ==
  ASSUME Sessions, NEW s \in Session, NEW c, Reads(s, [ses[s] EXCEPT !.copy = c])
  PROVE  /\ Read(s) /\ ses'[s].copy = c
         /\ ses'[s].version = ses[s].version /\ ses'[s].shown = ses[s].shown
         /\ ses'[s].target = ses[s].target
<1>1. PICK r : r = [ses[s] EXCEPT !.copy = c]
  OBVIOUS
<1>2. /\ DOMAIN r = DOMAIN Idle /\ r.copy = c /\ r.todo = ses[s].todo /\ r.w = ses[s].w
      /\ r.req = ses[s].req /\ r.reply = ses[s].reply /\ r.version = ses[s].version
      /\ r.shown = ses[s].shown /\ r.target = ses[s].target
  BY <1>1, IdleFields DEF Sessions
<1>3. Proceed(s, r)
  BY <1>1 DEF Reads
<1> QED BY <1>2, <1>3, ProceedIs DEF Reads, Read, Same

LEMMA ReadRowIs ==
  ASSUME Sessions, NEW s \in Session, ReadRow(s)
  PROVE  /\ At(s, "row")
         /\ \/ Answered(s) /\ Same
            \/ /\ Event(s) \in Ids(View(s), "Incident") /\ Read(s)
               /\ ses'[s].copy = [ses[s].copy EXCEPT ![Event(s)].row =
                                    ReadBack("Incident", View(s)[<<"Incident", Event(s)>>])]
               /\ ses'[s].version = ses[s].version /\ ses'[s].shown = ses[s].shown
               /\ ses'[s].target = ses[s].target
<1> DEFINE c == [ses[s].copy EXCEPT ![Event(s)].row = ReadBack("Incident", View(s)[<<"Incident", Event(s)>>])]
<1>1. CASE First({Event(s)} \cap Ids(View(s), "Incident")) = NotFound
  <2>1. Return(s, 404)
    BY <1>1 DEF ReadRow
  <2> QED BY <2>1, ReturnIs DEF ReadRow, Same
<1>2. CASE First({Event(s)} \cap Ids(View(s), "Incident")) # NotFound
  <2>1. Reads(s, [ses[s] EXCEPT !.copy = c])
    BY <1>2 DEF ReadRow
  <2>2. Event(s) \in Ids(View(s), "Incident")
    BY <1>2 DEF First
  <2> HIDE DEF c
  <2>3. /\ Read(s) /\ ses'[s].copy = c
        /\ ses'[s].version = ses[s].version /\ ses'[s].shown = ses[s].shown
        /\ ses'[s].target = ses[s].target
    BY <2>1, ReadsCopy
  <2> QED BY <2>2, <2>3 DEF ReadRow, c
<1> QED BY <1>1, <1>2

LEMMA ReadComponentsIs ==
  ASSUME Sessions, NEW s \in Session, ReadComponents(s)
  PROVE  /\ At(s, "components") /\ Read(s)
         /\ ses'[s].copy = [ses[s].copy EXCEPT ![Event(s)].comps = Components(View(s), Event(s))]
         /\ ses'[s].version = ses[s].version /\ ses'[s].shown = ses[s].shown
         /\ ses'[s].target = ses[s].target
<1> DEFINE c == [ses[s].copy EXCEPT ![Event(s)].comps = Components(View(s), Event(s))]
<1>1. Reads(s, [ses[s] EXCEPT !.copy = c])
  BY DEF ReadComponents
<1> HIDE DEF c
<1>2. /\ Read(s) /\ ses'[s].copy = c
      /\ ses'[s].version = ses[s].version /\ ses'[s].shown = ses[s].shown
      /\ ses'[s].target = ses[s].target
  BY <1>1, ReadsCopy
<1> QED BY <1>2 DEF ReadComponents, c

LEMMA ReadStatusesIs ==
  ASSUME Sessions, NEW s \in Session, ReadStatuses(s)
  PROVE  /\ At(s, "statuses") /\ Read(s)
         /\ ses'[s].copy = [ses[s].copy EXCEPT ![Event(s)].statuses = StatusesByIncident(View(s), Event(s))]
         /\ ses'[s].version = ses[s].version /\ ses'[s].shown = ses[s].shown
         /\ ses'[s].target = ses[s].target
<1> DEFINE c == [ses[s].copy EXCEPT ![Event(s)].statuses = StatusesByIncident(View(s), Event(s))]
<1>1. Reads(s, [ses[s] EXCEPT !.copy = c])
  BY DEF ReadStatuses
<1> HIDE DEF c
<1>2. /\ Read(s) /\ ses'[s].copy = c
      /\ ses'[s].version = ses[s].version /\ ses'[s].shown = ses[s].shown
      /\ ses'[s].target = ses[s].target
  BY <1>1, ReadsCopy
<1> QED BY <1>2 DEF ReadStatuses, c

LEMMA AnswerIs ==
  ASSUME Sessions, NEW s \in Session, Answer(s)
  PROVE  At(s, "answer") /\ Answered(s) /\ Same
<1> DEFINE c == ses[s].copy[Event(s)]
<1>1. CASE HiddenFrom(ses[s].auth, c.row, c.statuses)
  <2>1. Return(s, 404)
    BY <1>1 DEF Answer
  <2> QED BY <2>1, ReturnIs DEF Answer, Same
<1>2. CASE ~HiddenFrom(ses[s].auth, c.row, c.statuses)
  <2>1. PICK y : y = [code |-> 200, raw |-> c.row.status,
                      history |-> {c.statuses[i].status : i \in DOMAIN c.statuses},
                      event |-> ToAPIEvent(c.row, c.statuses, c.comps, ses[s].auth)]
    OBVIOUS
  <2>2. ses' = [ses EXCEPT ![s] = [Idle EXCEPT !.reply = y]] /\ Same
    BY <1>2, <2>1 DEF Answer, Same
  <2>3. PICK x : x = [Idle EXCEPT !.reply = y]
    OBVIOUS
  <2>4. DOMAIN x = DOMAIN Idle /\ x.todo = <<>> /\ DOMAIN x.w = {} /\ DOMAIN x.copy = {} /\ x.reply = y /\ x.shown = 0
    BY <2>3, IdleFields
  <2>5. Others(s) /\ ses'[s] = x
    BY <2>2, <2>3, SetSession
  <2>6. y.raw = c.row.status /\ y.history = {c.statuses[i].status : i \in DOMAIN c.statuses}
    BY <2>1
  <2>7. At(s, "answer")
    BY DEF Answer
  <2>8. Replied(s)
    BY <2>4, <2>5, <2>6, <2>7 DEF Replied
  <2> QED BY <2>2, <2>4, <2>5, <2>7, <2>8 DEF Answered
<1> QED BY <1>1, <1>2

(* A write that changes the session's copies. *)
LEMMA WritesCopy ==
  ASSUME Sessions, NEW s \in Session, NEW n \in InsideTx, At(s, n), NEW c, NEW rows, NEW seqs,
         Writes(s, [ses[s] EXCEPT !.copy = c], rows, seqs)
  PROVE  /\ Wrote(s, rows) /\ seq' = seqs /\ ses'[s].copy = c
         /\ ses'[s].version = ses[s].version /\ ses'[s].shown = ses[s].shown
         /\ ses'[s].target = ses[s].target
<1>1. PICK r : r = [ses[s] EXCEPT !.copy = c]
  OBVIOUS
<1>2. /\ DOMAIN r = DOMAIN Idle /\ r.copy = c /\ r.todo = ses[s].todo /\ r.w = ses[s].w
      /\ r.req = ses[s].req /\ r.reply = ses[s].reply /\ r.version = ses[s].version
      /\ r.shown = ses[s].shown /\ r.target = ses[s].target
  BY <1>1, IdleFields DEF Sessions
<1>3. Writes(s, r, rows, seqs)
  BY <1>1
<1>4. InTx(s)
  BY AtIs
<1> HIDE DEF Writes
<1> QED BY <1>2, <1>3, <1>4, WritesIs DEF Wrote

(* A write that changes nothing else, in or outside a transaction. *)
LEMMA WritesPlain ==
  ASSUME Sessions, NEW s \in Session, NEW n, At(s, n), NEW rows, NEW seqs, Writes(s, ses[s], rows, seqs)
  PROVE  /\ n \in InsideTx =>
              /\ Wrote(s, rows) /\ seq' = seqs /\ ses'[s].copy = ses[s].copy
              /\ ses'[s].version = ses[s].version /\ ses'[s].shown = ses[s].shown
              /\ ses'[s].target = ses[s].target
         /\ n \in OutsideTx /\ seqs = seq => Stored1(s, rows)
<1>1. DOMAIN ses[s] = DOMAIN Idle
  BY DEF Sessions
<1>2. n \in InsideTx => InTx(s)
  BY AtIs
<1>3. n \in OutsideTx => ~InTx(s)
  BY AtIs
<1>4. PICK r : r = ses[s]
  OBVIOUS
<1>5. DOMAIN r = DOMAIN Idle /\ Writes(s, r, rows, seqs)
  BY <1>1, <1>4
<1>6. /\ Holders(s, DOMAIN rows) = {} /\ seq' = seqs /\ cut' = cut
      /\ Others(s) /\ DOMAIN ses'[s] = DOMAIN Idle /\ ses'[s].todo = Tail(r.todo)
      /\ ses'[s].req = r.req /\ ses'[s].copy = r.copy /\ ses'[s].version = r.version
      /\ ses'[s].shown = r.shown /\ ses'[s].target = r.target /\ ses'[s].reply = r.reply
      /\ InTx(s) => ses'[s].w = Over(rows, r.w) /\ db' = db
      /\ ~InTx(s) => ses'[s].w = r.w /\ db' = Overlay(db, rows)
  BY <1>5, WritesIs
<1> QED BY <1>2, <1>3, <1>4, <1>6 DEF Wrote, Stored1

(* Two sequences joined. *)
LEMMA JoinIs ==
  ASSUME NEW S, NEW a \in Seq(S), NEW b \in Seq(S)
  PROVE  /\ a \o b \in Seq(S) /\ Len(a \o b) = Len(a) + Len(b) /\ Len(a) \in Nat /\ Len(b) \in Nat
         /\ DOMAIN (a \o b) = 1..(Len(a) + Len(b))
         /\ \A i \in 1..Len(a) : (a \o b)[i] = a[i]
         /\ \A i \in 1..Len(b) : (a \o b)[i + Len(a)] = b[i]
OBVIOUS

(* A handler whose last check appends what it does next. *)
LEMMA LastStep ==
  ASSUME Sessions, NEW s \in Session, NEW n \in {"decide", "prepare", "extract"}, At(s, n), NEW p \in Seq(Steps)
  PROVE  Tail(ses[s].todo \o p) = p
<1>1. PICK t : t = ses[s].todo
  OBVIOUS
<1>2. t \in Seq(Steps) /\ 1 \in DOMAIN t /\ t[1][1] = n /\ Shape(t) /\ Len(t) \in Nat
  BY <1>1, AtIs DEF Sessions
<1>3. Len(t) = 1
  BY <1>2 DEF Shape
<1>4. PICK u : u = t \o p
  OBVIOUS
<1>5. u \in Seq(Steps) /\ Len(u) = 1 + Len(p) /\ Len(p) \in Nat /\ \A i \in 1..Len(p) : u[i + 1] = p[i]
  <2>1. /\ u \in Seq(Steps) /\ Len(u) = Len(t) + Len(p) /\ Len(p) \in Nat
        /\ \A i \in 1..Len(p) : u[i + Len(t)] = p[i]
    BY <1>2, <1>4, JoinIs
  <2> QED BY <1>3, <2>1
<1>6. u # <<>>
  BY <1>5
<1>7. Tail(u) \in Seq(Steps) /\ Len(Tail(u)) = Len(u) - 1
      /\ \A i \in 1..(Len(u) - 1) : Tail(u)[i] = u[i + 1]
  BY <1>5, <1>6
<1>8. Len(Tail(u)) = Len(p) /\ \A i \in 1..Len(Tail(u)) : Tail(u)[i] = p[i]
  BY <1>5, <1>7
<1>9. Tail(u) = p
  BY <1>7, <1>8, SeqEqual
<1> QED BY <1>1, <1>4, <1>9

(* The steps are about the events the requests name. *)
LEMMA ArgumentOf ==
  ASSUME Sessions, NEW s \in Session, NEW n, At(s, n)
  PROVE  {<<m, Event(s)>> : m \in StepName} \subseteq Steps
<1>1. ses[s].todo[1] \in Steps /\ Event(s) = ses[s].todo[1][2]
  BY AtIs, ElementOfSeq
<1> QED BY <1>1 DEF Steps

LEMMA RequestOf ==
  ASSUME NEW q \in Request
  PROVE  {<<m, q.e>> : m \in StepName} \subseteq Steps /\ {<<m, q.f>> : m \in StepName} \subseteq Steps
BY DEF Steps

LEMMA DecideIs ==
  ASSUME Sessions, NEW s \in Session, Decide(s)
  PROVE  /\ At(s, "decide")
         /\ \/ Answered(s) /\ Same
            \/ /\ CheckPatchData(ses[s].copy[Event(s)].row, ses[s].req.status)
               /\ Same /\ Others(s) /\ DOMAIN ses'[s] = DOMAIN Idle
               /\ ses'[s].todo = PatchSteps(Event(s), ses[s].req.status)
               /\ ses'[s].w = ses[s].w /\ ses'[s].req = ses[s].req /\ ses'[s].reply = ses[s].reply
               /\ ses'[s].version = ses[s].version /\ ses'[s].shown = ses[s].shown
               /\ ses'[s].target = ses[s].target
               /\ ses'[s].copy =
                    [ses[s].copy EXCEPT
                       ![Event(s)].row = [UpdateFields(ses[s].copy[Event(s)].row, ses[s].req.status) EXCEPT
                          !.version = IF ses[s].req.version # Null THEN ses[s].req.version ELSE @],
                       ![Event(s)].new = <<ses[s].req.status>>]
<1> DEFINE refused == \/ ses[s].copy[Event(s)].row.type = "maintenance" /\ ses[s].req.version = Null
                      \/ ~CheckPatchData(ses[s].copy[Event(s)].row, ses[s].req.status)
<1>1. CASE refused
  <2>1. Return(s, 400)
    BY <1>1 DEF Decide
  <2> QED BY <2>1, ReturnIs DEF Decide, Same
<1>2. CASE ~refused
  <2> DEFINE c == [ses[s].copy EXCEPT
                     ![Event(s)].row = [UpdateFields(ses[s].copy[Event(s)].row, ses[s].req.status) EXCEPT
                        !.version = IF ses[s].req.version # Null THEN ses[s].req.version ELSE @],
                     ![Event(s)].new = <<ses[s].req.status>>]
             p == PatchSteps(Event(s), ses[s].req.status)
             r == [ses[s] EXCEPT
                     !.copy[Event(s)].row = [UpdateFields(ses[s].copy[Event(s)].row, ses[s].req.status) EXCEPT
                        !.version = IF ses[s].req.version # Null THEN ses[s].req.version ELSE @],
                     !.copy[Event(s)].new = <<ses[s].req.status>>,
                     !.todo = @ \o p]
  <2>1. At(s, "decide") /\ Reads(s, r)
    <3>1. At(s, "decide")
      BY DEF Decide
    <3>3. Reads(s, r)
      BY <1>2 DEF Decide
    <3> QED BY <3>1, <3>3
  <2> HIDE DEF p
  <2>2. p \in Seq(Steps)
    <3>1. {<<m, Event(s)>> : m \in StepName} \subseteq Steps
      BY <2>1, ArgumentOf
    <3>2. PICK e : e = Event(s)
      OBVIOUS
    <3>3. Shape(Reopening(e)) /\ Shape(Patching(e))
      BY <3>1, <3>2, ReopeningShape, PatchingShape
    <3> QED BY <3>2, <3>3, PatchStepsIs DEF p, Shape
  <2>3. /\ DOMAIN r = DOMAIN Idle /\ r.copy = c /\ r.todo = ses[s].todo \o p /\ r.w = ses[s].w
        /\ r.req = ses[s].req /\ r.reply = ses[s].reply /\ r.version = ses[s].version
        /\ r.shown = ses[s].shown /\ r.target = ses[s].target
    BY IdleFields DEF Sessions
  <2>4. PICK x : x = r
    OBVIOUS
  <2>5. Proceed(s, x) /\ Same
    BY <2>1, <2>4 DEF Reads, Same
  <2>6. Tail(x.todo) = p
    BY <2>1, <2>2, <2>3, <2>4, LastStep
  <2>7. DOMAIN x = DOMAIN Idle
    BY <2>3, <2>4
  <2> HIDE DEF r
  <2>8. /\ Others(s) /\ DOMAIN ses'[s] = DOMAIN Idle /\ ses'[s].todo = Tail(x.todo)
        /\ ses'[s].req = x.req /\ ses'[s].w = x.w /\ ses'[s].copy = x.copy /\ ses'[s].version = x.version
        /\ ses'[s].shown = x.shown /\ ses'[s].target = x.target /\ ses'[s].reply = x.reply
    BY <2>5, <2>7, ProceedIs
  <2> QED BY <1>2, <2>1, <2>3, <2>4, <2>5, <2>6, <2>8 DEF c, p
<1> QED BY <1>1, <1>2

LEMMA ModifyIncidentIs ==
  ASSUME Sessions, NEW s \in Session, ModifyIncident(s)
  PROVE  /\ At(s, "modify")
         /\ \/ Answered(s) /\ Same
            \/ /\ Wrote(s, Entry(<<"Incident", Event(s)>>,
                                 UpdateRow("Incident", PatchMutation(ses[s].copy[Event(s)].row),
                                           View(s)[<<"Incident", Event(s)>>])))
               /\ seq' = seq
               /\ ses'[s].copy = [ses[s].copy EXCEPT ![Event(s)].row.version = @ + 1]
               /\ ses'[s].version = ses[s].version /\ ses'[s].shown = ses[s].shown
               /\ ses'[s].target = ses[s].target
<1> DEFINE key == <<"Incident", Event(s)>>
           row == ses[s].copy[Event(s)].row
           refused == row.type = "maintenance" /\ ~Selected({EQ(View(s)[key], "version", row.version)})
           rows == Entry(key, UpdateRow("Incident", PatchMutation(row), View(s)[key]))
           c == [ses[s].copy EXCEPT ![Event(s)].row.version = @ + 1]
<1>1. At(s, "modify") /\ "modify" \in InsideTx
  BY DEF ModifyIncident, InsideTx
<1>2. CASE refused
  <2>1. Return(s, 409)
    BY <1>2 DEF ModifyIncident
  <2> QED BY <1>1, <2>1, ReturnIs DEF Same
<1>3. CASE ~refused
  <2>1. Writes(s, [ses[s] EXCEPT !.copy = c], rows, seq)
    BY <1>3 DEF ModifyIncident, PatchMutation
  <2> HIDE DEF c, rows
  <2>2. /\ Wrote(s, rows) /\ seq' = seq /\ ses'[s].copy = c
        /\ ses'[s].version = ses[s].version /\ ses'[s].shown = ses[s].shown
        /\ ses'[s].target = ses[s].target
    BY <1>1, <2>1, WritesCopy
  <2> QED BY <1>1, <2>2 DEF c, rows
<1> QED BY <1>2, <1>3

LEMMA InsertStatusesIs ==
  ASSUME Sessions, NEW s \in Session, InsertStatuses(s)
  PROVE  /\ At(s, "insert")
         /\ Wrote(s, Entry(<<"IncidentStatus", seq["IncidentStatus"] + 1>>,
                           NewStatus(Event(s), Head(ses[s].copy[Event(s)].new))))
         /\ seq' = [seq EXCEPT !["IncidentStatus"] = seq["IncidentStatus"] + 1]
         /\ ses'[s].copy = [ses[s].copy EXCEPT ![Event(s)].new = <<>>]
         /\ ses'[s].version = ses[s].version /\ ses'[s].shown = ses[s].shown
         /\ ses'[s].target = ses[s].target
<1> DEFINE id == seq["IncidentStatus"] + 1
           rows == Entry(<<"IncidentStatus", id>>, NewStatus(Event(s), Head(ses[s].copy[Event(s)].new)))
           c == [ses[s].copy EXCEPT ![Event(s)].new = <<>>]
           seqs == [seq EXCEPT !["IncidentStatus"] = id]
<1>1. At(s, "insert") /\ "insert" \in InsideTx
  BY DEF InsertStatuses, InsideTx
<1>2. Writes(s, [ses[s] EXCEPT !.copy = c], rows, seqs)
  BY DEF InsertStatuses, NewStatus
<1> HIDE DEF c, rows, seqs
<1>3. /\ Wrote(s, rows) /\ seq' = seqs /\ ses'[s].copy = c
      /\ ses'[s].version = ses[s].version /\ ses'[s].shown = ses[s].shown
      /\ ses'[s].target = ses[s].target
  BY <1>1, <1>2, WritesCopy
<1> QED BY <1>1, <1>3 DEF c, rows, seqs

LEMMA CommitIs ==
  ASSUME Sessions, NEW s \in Session, Commit(s)
  PROVE  /\ At(s, "commit") /\ db' = Overlay(db, ses[s].w) /\ seq' = seq /\ cut' = cut
         /\ Others(s) /\ DOMAIN ses'[s] = DOMAIN Idle /\ ses'[s].todo = Tail(ses[s].todo)
         /\ DOMAIN ses'[s].w = {} /\ ses'[s].req = ses[s].req /\ ses'[s].reply = ses[s].reply
         /\ ses'[s].copy = ses[s].copy /\ ses'[s].version = ses[s].version
         /\ ses'[s].shown = ses[s].shown /\ ses'[s].target = ses[s].target
<1>1. PICK r : r = [ses[s] EXCEPT !.w = [k \in {} |-> 0]]
  OBVIOUS
<1>2. /\ DOMAIN r = DOMAIN Idle /\ r.copy = ses[s].copy /\ r.todo = ses[s].todo /\ DOMAIN r.w = {}
      /\ r.req = ses[s].req /\ r.reply = ses[s].reply /\ r.version = ses[s].version
      /\ r.shown = ses[s].shown /\ r.target = ses[s].target
  BY <1>1, IdleFields DEF Sessions
<1>3. Proceed(s, r)
  BY <1>1 DEF Commit
<1> QED BY <1>2, <1>3, ProceedIs DEF Commit

LEMMA ReOpenIncidentIs ==
  ASSUME Sessions, NEW s \in Session, ReOpenIncident(s)
  PROVE  /\ At(s, "reopen")
         /\ Stored1(s, Entry(<<"Incident", Event(s)>>,
                             UpdateRow("Incident", Build("Incident", <<Clear("end_date")>>),
                                       View(s)[<<"Incident", Event(s)>>])))
<1> DEFINE rows == Entry(<<"Incident", Event(s)>>,
                         UpdateRow("Incident", Build("Incident", <<Clear("end_date")>>),
                                   View(s)[<<"Incident", Event(s)>>]))
<1>1. At(s, "reopen") /\ "reopen" \in OutsideTx /\ Writes(s, ses[s], rows, seq)
  BY DEF ReOpenIncident, OutsideTx
<1> HIDE DEF rows
<1>2. Stored1(s, rows)
  BY <1>1, WritesPlain
<1> QED BY <1>1, <1>2 DEF rows

LEMMA PickUpdateIs ==
  ASSUME Sessions, NEW s \in Session, PickUpdate(s)
  PROVE  /\ At(s, "pick") /\ Read(s) /\ ses'[s].copy = ses[s].copy /\ ses'[s].target = ses[s].target
         /\ LET c == ses[s].copy[Event(s)]
                updates == ToAPIEvent(c.row, c.statuses, c.comps, TRUE).updates
            IN  \E n \in DOMAIN updates : ses'[s].version = n /\ ses'[s].shown = updates[n].row
<1> DEFINE c == ses[s].copy[Event(s)]
           updates == ToAPIEvent(c.row, c.statuses, c.comps, TRUE).updates
<1>1. PICK n \in DOMAIN updates : Reads(s, [ses[s] EXCEPT !.version = n, !.shown = updates[n].row])
  BY DEF PickUpdate
<1> HIDE DEF updates
<1>2. PICK r : r = [ses[s] EXCEPT !.version = n, !.shown = updates[n].row]
  OBVIOUS
<1>3. /\ DOMAIN r = DOMAIN Idle /\ r.copy = ses[s].copy /\ r.todo = ses[s].todo /\ r.w = ses[s].w
      /\ r.req = ses[s].req /\ r.reply = ses[s].reply /\ r.version = n
      /\ r.shown = updates[n].row /\ r.target = ses[s].target
  BY <1>2, IdleFields DEF Sessions
<1>4. Proceed(s, r) /\ Same
  BY <1>1, <1>2 DEF Reads, Same
<1>5. /\ Read(s) /\ ses'[s].copy = ses[s].copy /\ ses'[s].target = ses[s].target
      /\ ses'[s].version = n /\ ses'[s].shown = updates[n].row
  BY <1>3, <1>4, ProceedIs DEF Read
<1>6. At(s, "pick")
  BY DEF PickUpdate
<1> QED BY <1>5, <1>6 DEF updates

LEMMA FindUpdateIs ==
  ASSUME Sessions, NEW s \in Session, FindUpdate(s)
  PROVE  /\ At(s, "updates")
         /\ \/ Answered(s) /\ Same
            \/ /\ Read(s) /\ ses'[s].copy = ses[s].copy /\ ses'[s].version = ses[s].version
               /\ ses'[s].shown = ses[s].shown
               /\ ~(ses[s].version > Len(StatusIds(View(s), Event(s))))
               /\ ses'[s].target = StatusIds(View(s), Event(s))[ses[s].version]
<1> DEFINE ids == StatusIds(View(s), Event(s))
<1>1. At(s, "updates")
  BY DEF FindUpdate
<1>2. CASE ses[s].version > Len(ids)
  <2>1. Return(s, 404)
    BY <1>2 DEF FindUpdate, GetEventUpdates
  <2> QED BY <1>1, <2>1, ReturnIs DEF Same
<1>3. CASE ~(ses[s].version > Len(ids))
  <2>1. Reads(s, [ses[s] EXCEPT !.target = ids[ses[s].version]])
    BY <1>3 DEF FindUpdate, GetEventUpdates
  <2> HIDE DEF ids
  <2>2. PICK r : r = [ses[s] EXCEPT !.target = ids[ses[s].version]]
    OBVIOUS
  <2>3. /\ DOMAIN r = DOMAIN Idle /\ r.copy = ses[s].copy /\ r.todo = ses[s].todo /\ r.w = ses[s].w
        /\ r.req = ses[s].req /\ r.reply = ses[s].reply /\ r.version = ses[s].version
        /\ r.shown = ses[s].shown /\ r.target = ids[ses[s].version]
    BY <2>2, IdleFields DEF Sessions
  <2>4. Proceed(s, r) /\ Same
    BY <2>1, <2>2 DEF Reads, Same
  <2>5. /\ Read(s) /\ ses'[s].copy = ses[s].copy /\ ses'[s].version = ses[s].version
        /\ ses'[s].shown = ses[s].shown /\ ses'[s].target = ids[ses[s].version]
    BY <2>3, <2>4, ProceedIs DEF Read
  <2> QED BY <1>1, <1>3, <2>5 DEF ids
<1> QED BY <1>2, <1>3

LEMMA ModifyEventUpdateIs ==
  ASSUME Sessions, NEW s \in Session, ModifyEventUpdate(s)
  PROVE  /\ At(s, "text")
         /\ \/ Answered(s) /\ Same
            \/ /\ <<"IncidentStatus", ses[s].target>> \in DOMAIN View(s)
               /\ Stored1(s, Entry(<<"IncidentStatus", ses[s].target>>,
                                   UpdateRow("IncidentStatus", EditMutation,
                                             View(s)[<<"IncidentStatus", ses[s].target>>])))
<1> DEFINE key == <<"IncidentStatus", ses[s].target>>
           rows == Entry(key, UpdateRow("IncidentStatus", EditMutation, View(s)[key]))
           found == key \in DOMAIN View(s) /\ Selected({EQ(View(s)[key], "incident_id", Event(s))})
<1>1. At(s, "text") /\ "text" \in OutsideTx
  BY DEF ModifyEventUpdate, OutsideTx
<1>2. CASE ~found
  <2>1. Return(s, 500)
    BY <1>2 DEF ModifyEventUpdate
  <2> QED BY <1>1, <2>1, ReturnIs DEF Same
<1>3. CASE found
  <2>1. Writes(s, ses[s], rows, seq)
    BY <1>3 DEF ModifyEventUpdate, EditMutation
  <2> HIDE DEF rows
  <2>2. Stored1(s, rows)
    BY <1>1, <2>1, WritesPlain
  <2> QED BY <1>1, <1>3, <2>2 DEF rows
<1> QED BY <1>2, <1>3

LEMMA ReadUpdateIs ==
  ASSUME Sessions, NEW s \in Session, ReadUpdate(s)
  PROVE  At(s, "reread") /\ Answered(s) /\ Same
<1>1. PICK code : Return(s, code)
  BY DEF ReadUpdate
<1> QED BY <1>1, ReturnIs DEF ReadUpdate, Same

LEMMA MoveComponentIs ==
  ASSUME Sessions, NEW s \in Session, MoveComponent(s)
  PROVE  /\ At(s, "prepare")
         /\ \/ Answered(s) /\ Same
            \/ /\ ses[s].copy[ses[s].req.e].row.end_date = Null
               /\ ses[s].copy[ses[s].req.f].row.end_date = Null
               /\ ses[s].req.c \in ses[s].copy[ses[s].req.e].comps
               /\ ses[s].req.c \notin ses[s].copy[ses[s].req.f].comps
               /\ Same /\ Others(s) /\ DOMAIN ses'[s] = DOMAIN Idle
               /\ ses[s].req \in Request /\ ses'[s].todo = MoveSteps(ses[s].req)
               /\ ses'[s].w = ses[s].w /\ ses'[s].req = ses[s].req /\ ses'[s].reply = ses[s].reply
               /\ ses'[s].version = ses[s].version /\ ses'[s].shown = ses[s].shown
               /\ ses'[s].target = ses[s].target
               /\ ses'[s].copy = [ses[s].copy EXCEPT ![ses[s].req.f] = MovedTo(s),
                                                     ![ses[s].req.e] = MovedFrom(s)]
<1> DEFINE q == ses[s].req
           old == ses[s].copy[q.e]
           new == ses[s].copy[q.f]
           over == \/ old.row.end_date # Null \/ new.row.end_date # Null
                   \/ q.c \notin old.comps \/ q.c \in new.comps
<1>1. At(s, "prepare")
  BY DEF MoveComponent
<1>2. q \in Request
  BY <1>1, AtIs DEF Sessions
<1>3. CASE over
  <2>1. Return(s, 200)
    BY <1>3 DEF MoveComponent
  <2> QED BY <1>1, <2>1, ReturnIs DEF Same
<1>4. CASE ~over
  <2> DEFINE p == MoveSteps(q)
             c == [ses[s].copy EXCEPT ![q.f] = MovedTo(s), ![q.e] = MovedFrom(s)]
             r == [ses[s] EXCEPT !.copy[q.f] = MovedTo(s), !.copy[q.e] = MovedFrom(s), !.todo = @ \o p]
  <2>1. Reads(s, r)
    BY <1>4 DEF MoveComponent, MovedTo, MovedFrom
  <2> HIDE DEF p
  <2>2. p \in Seq(Steps)
    <3>1. PICK e, f : e = q.e /\ f = q.f
      OBVIOUS
    <3>2. {<<m, e>> : m \in StepName} \subseteq Steps /\ {<<m, f>> : m \in StepName} \subseteq Steps
      BY <1>2, <3>1, RequestOf
    <3>3. Shape(Moving(e, f)) /\ Shape(MovingAway(e, f))
      BY <3>2, MovingShape, MovingAwayShape
    <3> QED BY <3>1, <3>3, MoveStepsIs DEF p, Shape
  <2>3. /\ DOMAIN r = DOMAIN Idle /\ r.copy = c /\ r.todo = ses[s].todo \o p /\ r.w = ses[s].w
        /\ r.req = ses[s].req /\ r.reply = ses[s].reply /\ r.version = ses[s].version
        /\ r.shown = ses[s].shown /\ r.target = ses[s].target
    BY IdleFields DEF Sessions
  <2>4. PICK x : x = r
    OBVIOUS
  <2>5. Proceed(s, x) /\ Same
    BY <2>1, <2>4 DEF Reads, Same
  <2>6. Tail(x.todo) = p
    BY <1>1, <2>2, <2>3, <2>4, LastStep
  <2>7. DOMAIN x = DOMAIN Idle
    BY <2>3, <2>4
  <2> HIDE DEF r
  <2>8. /\ Others(s) /\ DOMAIN ses'[s] = DOMAIN Idle /\ ses'[s].todo = Tail(x.todo)
        /\ ses'[s].req = x.req /\ ses'[s].w = x.w /\ ses'[s].copy = x.copy /\ ses'[s].version = x.version
        /\ ses'[s].shown = x.shown /\ ses'[s].target = x.target /\ ses'[s].reply = x.reply
    BY <2>5, <2>7, ProceedIs
  <2> QED BY <1>1, <1>2, <1>4, <2>3, <2>4, <2>5, <2>6, <2>8 DEF p
<1> QED BY <1>3, <1>4

LEMMA ExtractComponentsIs ==
  ASSUME Sessions, NEW s \in Session, ExtractComponents(s)
  PROVE  /\ At(s, "extract")
         /\ \/ Answered(s) /\ Same
            \/ Extracted(s)
<1> DEFINE q == ses[s].req
           code == Extractable(Source(s), q.c)
<1>1. At(s, "extract")
  BY DEF ExtractComponents
<1>2. q \in Request
  BY <1>1, AtIs DEF Sessions
<1>3. CASE code # 200
  <2>1. Return(s, code)
    BY <1>3 DEF ExtractComponents, Source
  <2> QED BY <1>1, <2>1, ReturnIs DEF Same
<1>4. CASE code = 200
  <2> DEFINE p == MoveSteps(q)
             c == [ses[s].copy EXCEPT ![q.f] = ExtractedTo(s), ![q.e] = ExtractedFrom(s)]
             r == [ses[s] EXCEPT !.copy[q.f] = ExtractedTo(s), !.copy[q.e] = ExtractedFrom(s), !.todo = @ \o p]
  <2>1. /\ <<"Incident", q.f>> \notin DOMAIN db /\ db' = Overlay(db, NewRows(q.f, q.c, NewRow(s)))
        /\ seq' = seq /\ cut' = IF EndLeft(Source(s).row) THEN cut \cup {q.e} ELSE cut
        /\ Proceed(s, r)
    BY <1>4 DEF ExtractComponents, ExtractedTo, ExtractedFrom, NewRow, Source
  <2> HIDE DEF p
  <2>2. p \in Seq(Steps)
    <3>1. PICK e, f : e = q.e /\ f = q.f
      OBVIOUS
    <3>2. {<<m, e>> : m \in StepName} \subseteq Steps /\ {<<m, f>> : m \in StepName} \subseteq Steps
      BY <1>2, <3>1, RequestOf
    <3>3. Shape(Moving(e, f)) /\ Shape(MovingAway(e, f))
      BY <3>2, MovingShape, MovingAwayShape
    <3> QED BY <3>1, <3>3, MoveStepsIs DEF p, Shape
  <2>3. /\ DOMAIN r = DOMAIN Idle /\ r.copy = c /\ r.todo = ses[s].todo \o p /\ r.w = ses[s].w
        /\ r.req = ses[s].req /\ r.reply = ses[s].reply /\ r.version = ses[s].version
        /\ r.shown = ses[s].shown /\ r.target = ses[s].target
    BY IdleFields DEF Sessions
  <2>4. PICK x : x = r
    OBVIOUS
  <2>5. Proceed(s, x)
    BY <2>1, <2>4
  <2>6. Tail(x.todo) = p
    BY <1>1, <2>2, <2>3, <2>4, LastStep
  <2>7. DOMAIN x = DOMAIN Idle
    BY <2>3, <2>4
  <2> HIDE DEF r
  <2>8. /\ Others(s) /\ DOMAIN ses'[s] = DOMAIN Idle /\ ses'[s].todo = Tail(x.todo)
        /\ ses'[s].req = x.req /\ ses'[s].w = x.w /\ ses'[s].copy = x.copy /\ ses'[s].version = x.version
        /\ ses'[s].shown = x.shown /\ ses'[s].target = x.target /\ ses'[s].reply = x.reply
    BY <2>5, <2>7, ProceedIs
  <2>9. Extracted(s)
    BY <1>2, <2>1, <2>3, <2>4, <2>6, <2>8 DEF p, Extracted
  <2> QED BY <1>1, <2>9
<1> QED BY <1>3, <1>4

(* The rows of a new incident are added to the stored ones, ... *)
LEMMA NewRowsElse ==
  ASSUME NEW v, NEW x, NEW f, NEW c, NEW row, x = Overlay(v, NewRows(f, c, row)),
         NEW n, n \notin {"Incident", "Relation"}
  PROVE  Rows(x, n) = Rows(v, n) /\ \A k \in Rows(v, n) : x[k] = v[k]
<1>1. PICK w, a, b : w = NewRows(f, c, row) /\ a = <<"Incident", f>> /\ b = <<"Relation", <<f, c>>>>
  OBVIOUS
<1>2. DOMAIN w = {a, b} /\ a[1] = "Incident" /\ b[1] = "Relation"
  BY <1>1 DEF NewRows, Over, Entry
<1>3. x = Overlay(v, w)
  BY <1>1
<1> QED BY <1>2, <1>3 DEF Overlay, Rows

(* ... one incident and its join row. *)
LEMMA NewRowsAre ==
  ASSUME NEW v, NEW x, NEW f, NEW c, NEW row, x = Overlay(v, NewRows(f, c, row)), row # Gone
  PROVE  /\ <<"Incident", f>> \in DOMAIN x /\ x[<<"Incident", f>>] = row
         /\ DOMAIN v \subseteq DOMAIN x
         /\ \A k \in DOMAIN x : k[1] = "Incident" /\ k # <<"Incident", f>> => k \in DOMAIN v /\ x[k] = v[k]
<1>1. PICK w, a, b, j : /\ w = NewRows(f, c, row) /\ a = <<"Incident", f>> /\ b = <<"Relation", <<f, c>>>>
                        /\ j = [incident_id |-> f, component_id |-> c]
  OBVIOUS
<1>2. DOMAIN w = {a, b} /\ a[1] = "Incident" /\ b[1] = "Relation" /\ w[a] = row /\ w[b] = j /\ a # b
  BY <1>1 DEF NewRows, Over, Entry
<1>3. j # Gone
  <2>1. DOMAIN Gone = {} /\ "incident_id" \in DOMAIN j
    BY <1>1 DEF Gone
  <2> QED BY <2>1
<1>4. x = Overlay(v, w)
  BY <1>1
<1>5. DOMAIN x = DOMAIN v \cup {a, b} /\ x[a] = row /\ \A k \in DOMAIN x : k \notin {a, b} => x[k] = v[k]
  BY <1>2, <1>3, <1>4 DEF Overlay
<1> QED BY <1>1, <1>2, <1>5

LEMMA RemoveIncidentComponentIs ==
  ASSUME Sessions, NEW s \in Session, RemoveIncidentComponent(s)
  PROVE  /\ At(s, "unlink") /\ seq' = seq
         /\ \E gone : Wrote(s, [k \in {Relation(Event(s), c) : c \in gone} |-> Gone])
         /\ ses'[s].copy = [ses[s].copy EXCEPT ![Event(s)].comps = @ \ {ses[s].req.c}]
         /\ ses'[s].version = ses[s].version /\ ses'[s].shown = ses[s].shown
         /\ ses'[s].target = ses[s].target
<1> DEFINE m == Build("Incident", <<RemoveEdge("components", {ses[s].req.c})>>)
           gone == Components(View(s), Event(s)) \ EdgeAfter(m, "components", Components(View(s), Event(s)))
           rows == [k \in {Relation(Event(s), c) : c \in gone} |-> Gone]
           cp == [ses[s].copy EXCEPT ![Event(s)].comps = @ \ {ses[s].req.c}]
<1>1. At(s, "unlink") /\ "unlink" \in InsideTx
  BY DEF RemoveIncidentComponent, InsideTx
<1>2. Writes(s, [ses[s] EXCEPT !.copy = cp], rows, seq)
  BY DEF RemoveIncidentComponent, Relation
<1> HIDE DEF cp, gone
<1>3. PICK y : y = rows
  OBVIOUS
<1>4. /\ Wrote(s, y) /\ seq' = seq /\ ses'[s].copy = cp
      /\ ses'[s].version = ses[s].version /\ ses'[s].shown = ses[s].shown
      /\ ses'[s].target = ses[s].target
  BY <1>1, <1>2, <1>3, WritesCopy
<1> QED BY <1>1, <1>3, <1>4 DEF cp

LEMMA SaveIncidentFullIs ==
  ASSUME Sessions, NEW s \in Session, SaveIncidentFull(s)
  PROVE  /\ At(s, "save")
         /\ \/ Answered(s) /\ Same
            \/ /\ Wrote(s, Entry(<<"Incident", Event(s)>>,
                                 UpdateRow("Incident", SaveMutation(ses[s].copy[Event(s)].row),
                                           View(s)[<<"Incident", Event(s)>>])))
               /\ seq' = seq /\ ses'[s].copy = ses[s].copy
               /\ ses'[s].version = ses[s].version /\ ses'[s].shown = ses[s].shown
               /\ ses'[s].target = ses[s].target
<1> DEFINE m == SaveMutation(ses[s].copy[Event(s)].row)
           rows == Entry(<<"Incident", Event(s)>>, UpdateRow("Incident", m, View(s)[<<"Incident", Event(s)>>]))
<1>1. At(s, "save") /\ "save" \in InsideTx
  BY DEF SaveIncidentFull, InsideTx
<1>2. CASE ~UpdatePasses("Incident", m)
  <2>1. Return(s, 500)
    BY <1>2 DEF SaveIncidentFull, SaveMutation
  <2> QED BY <1>1, <2>1, ReturnIs DEF Same
<1>3. CASE UpdatePasses("Incident", m)
  <2>1. Writes(s, ses[s], rows, seq)
    BY <1>3 DEF SaveIncidentFull, SaveMutation
  <2> HIDE DEF rows
  <2>2. /\ Wrote(s, rows) /\ seq' = seq /\ ses'[s].copy = ses[s].copy
        /\ ses'[s].version = ses[s].version /\ ses'[s].shown = ses[s].shown
        /\ ses'[s].target = ses[s].target
    BY <1>1, <2>1, WritesPlain
  <2> QED BY <1>1, <2>2 DEF rows
<1> QED BY <1>2, <1>3

LEMMA ReconcileIs ==
  ASSUME Sessions, NEW s \in Session, ReconcileIncidentComponents(s)
  PROVE  /\ At(s, "link") /\ seq' = seq /\ ses'[s].copy = ses[s].copy
         /\ Wrote(s, Reconciled(s, Event(s)))
         /\ ses'[s].version = ses[s].version /\ ses'[s].shown = ses[s].shown
         /\ ses'[s].target = ses[s].target
<1>1. At(s, "link") /\ "link" \in InsideTx
  BY DEF ReconcileIncidentComponents, InsideTx
<1>2. PICK rows : rows = Reconciled(s, Event(s))
  OBVIOUS
<1>3. Writes(s, ses[s], rows, seq)
  BY <1>2 DEF ReconcileIncidentComponents
<1>4. /\ Wrote(s, rows) /\ seq' = seq /\ ses'[s].copy = ses[s].copy
      /\ ses'[s].version = ses[s].version /\ ses'[s].shown = ses[s].shown
      /\ ses'[s].target = ses[s].target
  BY <1>1, <1>3, WritesPlain
<1> QED BY <1>1, <1>2, <1>4

LEMMA DoneIs ==
  ASSUME Sessions, NEW s \in Session, Done(s)
  PROVE  At(s, "done") /\ Answered(s) /\ Same
BY ReturnIs DEF Done, Same

LEMMA ComponentExistsIs ==
  ASSUME Sessions, NEW s \in Session, ComponentExists(s)
  PROVE  /\ At(s, "exists")
         /\ \/ Answered(s) /\ Same
            \/ /\ Read(s) /\ ses'[s].copy = ses[s].copy /\ ses'[s].version = ses[s].version
               /\ ses'[s].shown = ses[s].shown /\ ses'[s].target = ses[s].target
<1>1. At(s, "exists")
  BY DEF ComponentExists
<1>2. Return(s, 400) \/ Reads(s, ses[s])
  BY DEF ComponentExists
<1>3. CASE Return(s, 400)
  BY <1>1, <1>3, ReturnIs DEF Same
<1>4. CASE Reads(s, ses[s])
  <2>1. DOMAIN ses[s] = DOMAIN Idle
    BY DEF Sessions
  <2>2. PICK r : r = ses[s]
    OBVIOUS
  <2>3. Proceed(s, r) /\ DOMAIN r = DOMAIN Idle /\ Same
    BY <1>4, <2>1, <2>2 DEF Reads, Same
  <2>4. /\ Others(s) /\ DOMAIN ses'[s] = DOMAIN Idle /\ ses'[s].todo = Tail(r.todo)
        /\ ses'[s].req = r.req /\ ses'[s].w = r.w /\ ses'[s].copy = r.copy /\ ses'[s].version = r.version
        /\ ses'[s].shown = r.shown /\ ses'[s].target = r.target /\ ses'[s].reply = r.reply
    BY <2>3, ProceedIs
  <2> QED BY <1>1, <2>2, <2>3, <2>4 DEF Read
<1> QED BY <1>2, <1>3, <1>4

LEMMA CreateComponentIs ==
  ASSUME Sessions, NEW s \in Session, CreateComponent(s)
  PROVE  /\ At(s, "component")
         /\ Wrote(s, Entry(<<"Component", seq["Component"] + 1>>,
                           CreateRow("Component", ComponentMutation(ses[s].req), Now)))
         /\ seq' = [seq EXCEPT !["Component"] = seq["Component"] + 1]
         /\ ses'[s].target = seq["Component"] + 1
         /\ ses'[s].copy = ses[s].copy /\ ses'[s].version = ses[s].version /\ ses'[s].shown = ses[s].shown
<1> DEFINE id == seq["Component"] + 1
           rows == Entry(<<"Component", id>>, CreateRow("Component", ComponentMutation(ses[s].req), Now))
           seqs == [seq EXCEPT !["Component"] = id]
<1>1. At(s, "component") /\ "component" \in InsideTx
  BY DEF CreateComponent, InsideTx
<1>2. Writes(s, [ses[s] EXCEPT !.target = id], rows, seqs)
  BY DEF CreateComponent, ComponentMutation
<1> HIDE DEF rows, seqs
<1>3. PICK r : r = [ses[s] EXCEPT !.target = id]
  OBVIOUS
<1>4. /\ DOMAIN r = DOMAIN Idle /\ r.copy = ses[s].copy /\ r.todo = ses[s].todo /\ r.w = ses[s].w
      /\ r.req = ses[s].req /\ r.reply = ses[s].reply /\ r.version = ses[s].version
      /\ r.shown = ses[s].shown /\ r.target = id
  BY <1>3, IdleFields DEF Sessions
<1>5. Writes(s, r, rows, seqs) /\ InTx(s)
  BY <1>1, <1>2, <1>3, AtIs
<1> HIDE DEF id
<1>6. Wrote(s, rows) /\ seq' = seqs /\ ses'[s].target = id /\ ses'[s].copy = ses[s].copy
      /\ ses'[s].version = ses[s].version /\ ses'[s].shown = ses[s].shown
  BY <1>4, <1>5, WritesIs DEF Wrote
<1> QED BY <1>1, <1>6 DEF rows, seqs, id

LEMMA CreateAttributeIs ==
  ASSUME Sessions, NEW s \in Session, CreateAttribute(s)
  PROVE  /\ At(s, "attribute")
         /\ Wrote(s, Entry(<<"ComponentAttr", seq["ComponentAttr"] + 1>>,
                           CreateRow("ComponentAttr",
                                     AttributeMutation(Attribute[Event(s)], ses[s].req, ses[s].target), Now)))
         /\ seq' = [seq EXCEPT !["ComponentAttr"] = seq["ComponentAttr"] + 1]
         /\ ses'[s].target = ses[s].target
         /\ ses'[s].copy = ses[s].copy /\ ses'[s].version = ses[s].version /\ ses'[s].shown = ses[s].shown
<1> DEFINE rows == Entry(<<"ComponentAttr", seq["ComponentAttr"] + 1>>,
                         CreateRow("ComponentAttr",
                                   AttributeMutation(Attribute[Event(s)], ses[s].req, ses[s].target), Now))
           seqs == [seq EXCEPT !["ComponentAttr"] = seq["ComponentAttr"] + 1]
<1>1. At(s, "attribute") /\ "attribute" \in InsideTx
  BY DEF CreateAttribute, InsideTx
<1>2. Writes(s, ses[s], rows, seqs)
  BY DEF CreateAttribute, AttributeMutation
<1> HIDE DEF rows, seqs
<1>3. /\ Wrote(s, rows) /\ seq' = seqs /\ ses'[s].copy = ses[s].copy
      /\ ses'[s].version = ses[s].version /\ ses'[s].shown = ses[s].shown
      /\ ses'[s].target = ses[s].target
  BY <1>1, <1>2, WritesPlain
<1> QED BY <1>1, <1>3 DEF rows, seqs

LEMMA CloseIs ==
  ASSUME Sessions, NEW s \in Session, Close(s)
  PROVE  Answered(s) /\ Same /\ ses[s].todo = <<>>
<1>1. ses' = [ses EXCEPT ![s] = Idle]
  BY DEF Close
<1>2. PICK x : x = Idle
  OBVIOUS
<1>3. Others(s) /\ ses'[s] = x
  BY <1>1, <1>2, SetSession
<1> QED BY <1>2, <1>3, IdleFields DEF Answered, Replied, Close, Same

LEMMA AbortIs ==
  ASSUME Sessions, NEW s \in Session, Abort(s)
  PROVE  /\ Answered(s) /\ Same /\ DOMAIN ses[s].w # {}
<1>1. Return(s, 500)
  BY DEF Abort
<1>2. PICK t \in Waits(s) : s \in Waits(t) \cup UNION {Waits(u) : u \in Waits(t)}
  BY DEF Abort
<1>3. PICK u : s \in Waits(u)
  BY <1>2
<1>4. DOMAIN ses[s].w # {}
  BY <1>3 DEF Waits, Holders
<1> QED BY <1>1, <1>4, ReturnIs DEF Same

LEMMA FailIs ==
  ASSUME Sessions, NEW s \in Session, Fail(s)
  PROVE  /\ Answered(s) /\ db' = db /\ seq' = seq
         /\ cut' = IF At(s, "reopen") THEN cut \cup {Event(s)} ELSE cut
<1>1. PICK x : x = [Idle EXCEPT !.reply = [code |-> 500, raw |-> "", history |-> {}, event |-> Null]]
  OBVIOUS
<1>2. Others(s) /\ ses'[s] = x
  BY <1>1, SetSession DEF Fail, Rollback
<1>3. DOMAIN x = DOMAIN Idle /\ x.todo = <<>> /\ DOMAIN x.w = {} /\ DOMAIN x.copy = {} /\ x.reply.event = Null /\ x.shown = 0
  BY <1>1, IdleFields
<1> QED BY <1>2, <1>3 DEF Fail, Rollback, Answered, Replied

LEMMA BeginIs ==
  ASSUME Sessions, NEW s \in Session, NEW q \in Request, Begin(s, q)
  PROVE  /\ Same /\ Others(s) /\ DOMAIN ses'[s] = DOMAIN Idle
         /\ ses'[s].todo = Program(q) /\ ses'[s].req = q /\ DOMAIN ses'[s].w = {}
         /\ ses'[s].copy = [e \in {q.e, q.f} \ {0} |-> Copy]
         /\ ses'[s].shown = 0 /\ ses'[s].target = 0 /\ ses'[s].reply = Null
<1> DEFINE p == Program(q)
           c == [e \in {q.e, q.f} \ {0} |-> Copy]
           a == q.op # "get"
           x == [Idle EXCEPT !.todo = p, !.req = q, !.auth = a, !.copy = c]
<1>1. ses' = [ses EXCEPT ![s] = x] /\ Same
  BY DEF Begin, Same
<1> HIDE DEF p, c, a
<1>2. /\ DOMAIN x = DOMAIN Idle /\ x.todo = p /\ x.req = q /\ DOMAIN x.w = {} /\ x.copy = c
      /\ x.shown = 0 /\ x.target = 0 /\ x.reply = Null
  BY DEF Idle
<1>3. PICK y : y = x
  OBVIOUS
<1> HIDE DEF x
<1>4. Others(s) /\ ses'[s] = y
  BY <1>1, <1>3, SetSession
<1> QED BY <1>1, <1>2, <1>3, <1>4 DEF p, c

-----------------------------------------------------------------------------
(* Every step keeps the sessions in order. *)

(* A new request has the shape. *)
LEMMA ProgramShape ==
  ASSUME NEW q \in Request
  PROVE  Shape(Program(q))
<1>1. PICK e, f : e = q.e /\ f = q.f
  OBVIOUS
<1>2. {<<m, e>> : m \in StepName} \subseteq Steps /\ {<<m, f>> : m \in StepName} \subseteq Steps
  BY <1>1, RequestOf
<1>3. /\ Shape(Getting(e)) /\ Shape(Checking(e)) /\ Shape(Editing(e)) /\ Shape(Preparing(e, f)) /\ Shape(Registering)
      /\ Shape(Extracting(e))
  BY <1>2, GettingShape, ExtractingShape, CheckingShape, EditingShape, PreparingShape, RegisteringShape
<1> QED BY <1>1, <1>3, ProgramIs

(* Reading and writing. *)
LEMMA ReadKeeps ==
  ASSUME Sessions, NEW s \in Session, NEW n, At(s, n), n # "commit", Read(s)
  PROVE  Sessions'
BY TailKeeps DEF Read, Sessions

LEMMA WroteKeeps ==
  ASSUME Sessions, NEW s \in Session, NEW n \in InsideTx, At(s, n), NEW rows, Wrote(s, rows)
  PROVE  Sessions'
<1>1. n # "commit" /\ InTx(s)
  BY AtIs DEF InsideTx
<1> QED BY <1>1, TailKeeps DEF Wrote

LEMMA StoredKeeps ==
  ASSUME Sessions, NEW s \in Session, NEW n \in OutsideTx, At(s, n), NEW rows, Stored1(s, rows)
  PROVE  Sessions'
<1>1. n # "commit" /\ DOMAIN ses[s].w = {}
  BY AtIs DEF OutsideTx
<1> QED BY <1>1, TailKeeps DEF Stored1

LEMMA StepSessions ==
  ASSUME Sessions, NEW s \in Session, Step(s)
  PROVE  Sessions'
<1>1. CASE ReadRow(s)
  BY <1>1, ReadRowIs, ReadKeeps, AnsweredKeeps
<1>2. CASE ReadComponents(s)
  BY <1>2, ReadComponentsIs, ReadKeeps
<1>3. CASE ReadStatuses(s)
  BY <1>3, ReadStatusesIs, ReadKeeps
<1>4. CASE Answer(s)
  BY <1>4, AnswerIs, AnsweredKeeps
<1>5. CASE Decide(s)
  <2>1. CASE Answered(s)
    BY <2>1, AnsweredKeeps
  <2>2. CASE ~Answered(s)
    <3>1. /\ At(s, "decide") /\ Others(s) /\ DOMAIN ses'[s] = DOMAIN Idle
          /\ ses'[s].todo = PatchSteps(Event(s), ses[s].req.status)
          /\ ses'[s].w = ses[s].w /\ ses'[s].req = ses[s].req
      BY <1>5, <2>2, DecideIs
    <3>2. DOMAIN ses[s].w = {} /\ ses[s].req \in Request
      BY <3>1, AtIs DEF OutsideTx, Sessions
    <3>3. PICK e, st : e = Event(s) /\ st = ses[s].req.status
      OBVIOUS
    <3>4. {<<m, e>> : m \in StepName} \subseteq Steps
      BY <3>1, <3>3, ArgumentOf
    <3>5. Shape(Reopening(e)) /\ Shape(Patching(e))
      BY <3>4, ReopeningShape, PatchingShape
    <3>6. Shape(PatchSteps(e, st))
      BY <3>5, PatchStepsIs
    <3>7. Shape(ses'[s].todo) /\ ses'[s].req \in Request /\ DOMAIN ses'[s].w = {}
      BY <3>1, <3>2, <3>3, <3>6
    <3> QED BY <3>1, <3>7, OneKeeps
  <2> QED BY <2>1, <2>2
<1>6. CASE ModifyIncident(s)
  <2>1. At(s, "modify") /\ "modify" \in InsideTx
    BY <1>6, ModifyIncidentIs DEF InsideTx
  <2>2. Answered(s) \/ \E rows : Wrote(s, rows)
    BY <1>6, ModifyIncidentIs
  <2> QED BY <2>1, <2>2, WroteKeeps, AnsweredKeeps
<1>7. CASE InsertStatuses(s)
  <2>1. At(s, "insert") /\ "insert" \in InsideTx
    BY <1>7, InsertStatusesIs DEF InsideTx
  <2>2. \E rows : Wrote(s, rows)
    BY <1>7, InsertStatusesIs
  <2> QED BY <2>1, <2>2, WroteKeeps
<1>8. CASE Commit(s)
  <2>1. /\ At(s, "commit") /\ Others(s) /\ DOMAIN ses'[s] = DOMAIN Idle
        /\ ses'[s].todo = Tail(ses[s].todo) /\ DOMAIN ses'[s].w = {} /\ ses'[s].req = ses[s].req
    BY <1>8, CommitIs
  <2>2. PICK t : t = ses[s].todo
    OBVIOUS
  <2>3. Shape(t) /\ t # <<>> /\ ses[s].req \in Request
    BY <2>1, <2>2, AtIs DEF Sessions
  <2>4. Shape(Tail(t))
    BY <2>3, ShapeTail
  <2> QED BY <2>1, <2>2, <2>3, <2>4, OneKeeps
<1>9. CASE ReOpenIncident(s)
  <2>1. At(s, "reopen") /\ "reopen" \in OutsideTx
    BY <1>9, ReOpenIncidentIs DEF OutsideTx
  <2>2. \E rows : Stored1(s, rows)
    BY <1>9, ReOpenIncidentIs
  <2> QED BY <2>1, <2>2, StoredKeeps
<1>10. CASE PickUpdate(s)
  BY <1>10, PickUpdateIs, ReadKeeps
<1>11. CASE FindUpdate(s)
  BY <1>11, FindUpdateIs, ReadKeeps, AnsweredKeeps
<1>12. CASE ModifyEventUpdate(s)
  <2>1. At(s, "text") /\ "text" \in OutsideTx
    BY <1>12, ModifyEventUpdateIs DEF OutsideTx
  <2>2. Answered(s) \/ \E rows : Stored1(s, rows)
    BY <1>12, ModifyEventUpdateIs
  <2> QED BY <2>1, <2>2, StoredKeeps, AnsweredKeeps
<1>13. CASE ReadUpdate(s)
  BY <1>13, ReadUpdateIs, AnsweredKeeps
<1>14. CASE MoveComponent(s)
  <2>1. CASE Answered(s)
    BY <2>1, AnsweredKeeps
  <2>2. CASE ~Answered(s)
    <3>1. /\ At(s, "prepare") /\ Others(s) /\ DOMAIN ses'[s] = DOMAIN Idle
          /\ ses'[s].todo = MoveSteps(ses[s].req) /\ ses[s].req \in Request
          /\ ses'[s].w = ses[s].w /\ ses'[s].req = ses[s].req
      BY <1>14, <2>2, MoveComponentIs
    <3>2. DOMAIN ses[s].w = {}
      BY <3>1, AtIs DEF OutsideTx
    <3>3. PICK q, e, f : q = ses[s].req /\ e = q.e /\ f = q.f
      OBVIOUS
    <3>4. {<<m, e>> : m \in StepName} \subseteq Steps /\ {<<m, f>> : m \in StepName} \subseteq Steps
      BY <3>1, <3>3, RequestOf
    <3>5. Shape(Moving(e, f)) /\ Shape(MovingAway(e, f))
      BY <3>4, MovingShape, MovingAwayShape
    <3>6. Shape(MoveSteps(q))
      BY <3>3, <3>5, MoveStepsIs
    <3> QED BY <3>1, <3>2, <3>3, <3>6, OneKeeps
  <2> QED BY <2>1, <2>2
<1>24. CASE ExtractComponents(s)
  <2>1. CASE Answered(s)
    BY <2>1, AnsweredKeeps
  <2>2. CASE ~Answered(s)
    <3>1. /\ At(s, "extract") /\ Others(s) /\ DOMAIN ses'[s] = DOMAIN Idle
          /\ ses'[s].todo = MoveSteps(ses[s].req) /\ ses[s].req \in Request
          /\ ses'[s].w = ses[s].w /\ ses'[s].req = ses[s].req
      BY <1>24, <2>2, ExtractComponentsIs DEF Extracted
    <3>2. DOMAIN ses[s].w = {}
      BY <3>1, AtIs DEF OutsideTx
    <3>3. PICK q, e, f : q = ses[s].req /\ e = q.e /\ f = q.f
      OBVIOUS
    <3>4. {<<m, e>> : m \in StepName} \subseteq Steps /\ {<<m, f>> : m \in StepName} \subseteq Steps
      BY <3>1, <3>3, RequestOf
    <3>5. Shape(Moving(e, f)) /\ Shape(MovingAway(e, f))
      BY <3>4, MovingShape, MovingAwayShape
    <3>6. Shape(MoveSteps(q))
      BY <3>3, <3>5, MoveStepsIs
    <3> QED BY <3>1, <3>2, <3>3, <3>6, OneKeeps
  <2> QED BY <2>1, <2>2
<1>15. CASE RemoveIncidentComponent(s)
  <2>1. At(s, "unlink") /\ "unlink" \in InsideTx
    BY <1>15, RemoveIncidentComponentIs DEF InsideTx
  <2>2. \E rows : Wrote(s, rows)
    BY <1>15, RemoveIncidentComponentIs
  <2> QED BY <2>1, <2>2, WroteKeeps
<1>16. CASE SaveIncidentFull(s)
  <2>1. At(s, "save") /\ "save" \in InsideTx
    BY <1>16, SaveIncidentFullIs DEF InsideTx
  <2>2. Answered(s) \/ \E rows : Wrote(s, rows)
    BY <1>16, SaveIncidentFullIs
  <2> QED BY <2>1, <2>2, WroteKeeps, AnsweredKeeps
<1>17. CASE ReconcileIncidentComponents(s)
  <2>1. At(s, "link") /\ "link" \in InsideTx
    BY <1>17, ReconcileIs DEF InsideTx
  <2>2. \E rows : Wrote(s, rows)
    BY <1>17, ReconcileIs
  <2> QED BY <2>1, <2>2, WroteKeeps
<1>18. CASE Done(s)
  BY <1>18, DoneIs, AnsweredKeeps
<1>19. CASE ComponentExists(s)
  BY <1>19, ComponentExistsIs, ReadKeeps, AnsweredKeeps
<1>20. CASE CreateComponent(s)
  <2>1. At(s, "component") /\ "component" \in InsideTx
    BY <1>20, CreateComponentIs DEF InsideTx
  <2>2. \E rows : Wrote(s, rows)
    BY <1>20, CreateComponentIs
  <2> QED BY <2>1, <2>2, WroteKeeps
<1>21. CASE CreateAttribute(s)
  <2>1. At(s, "attribute") /\ "attribute" \in InsideTx
    BY <1>21, CreateAttributeIs DEF InsideTx
  <2>2. \E rows : Wrote(s, rows)
    BY <1>21, CreateAttributeIs
  <2> QED BY <2>1, <2>2, WroteKeeps
<1>22. CASE Close(s)
  BY <1>22, CloseIs, AnsweredKeeps
<1>23. CASE Abort(s)
  BY <1>23, AbortIs, AnsweredKeeps
<1> QED BY <1>1, <1>2, <1>3, <1>4, <1>5, <1>6, <1>7, <1>8, <1>9, <1>10, <1>11, <1>12, <1>13, <1>14, <1>15,
           <1>16, <1>17, <1>18, <1>19, <1>20, <1>21, <1>22, <1>23, <1>24 DEF Step

(* A step of the system is one of a session, a request, or a failure. *)
LEMMA SessionsKept ==
  ASSUME Sessions, [Next]_vars
  PROVE  Sessions'
<1>1. ASSUME NEW s \in Session, NEW q \in Request, Begin(s, q) PROVE Sessions'
  <2>1. /\ Others(s) /\ DOMAIN ses'[s] = DOMAIN Idle /\ ses'[s].todo = Program(q)
        /\ ses'[s].req = q /\ DOMAIN ses'[s].w = {}
    BY <1>1, BeginIs
  <2> QED BY <2>1, ProgramShape, OneKeeps
<1>2. ASSUME NEW s \in Session, Fail(s) PROVE Sessions'
  BY <1>2, FailIs, AnsweredKeeps
<1>3. CASE UNCHANGED vars \/ Exhausted
  <2>1. ses' = ses
    BY <1>3 DEF vars, Exhausted
  <2> QED BY <2>1 DEF Sessions, InTx, Shape, Idle
<1> QED BY <1>1, <1>2, <1>3, StepSessions DEF Next

LEMMA SessionsInit == Init => Sessions
<1> SUFFICES ASSUME Init PROVE Sessions
  OBVIOUS
<1>1. Shape(<<>>)
  <2>1. <<>> \in Seq(Steps) /\ DOMAIN <<>> = {}
    OBVIOUS
  <2> QED BY <2>1 DEF Shape
<1> QED BY <1>1, IdleFields DEF Init, Sessions

(* Uncommitted writes belong to a transaction that is still to be          *)
(* committed, whatever answer, error, conflict or failure ends a request.  *)
THEOREM SessionsSound == Spec => []Sessions
BY SessionsInit, SessionsKept, PTL DEF Spec

(* WaitsForTheRunning: a statement waits only for a request that is still  *)
(* running; the rollbacks of WithTx and execWithTx leave no lock behind.   *)
THEOREM NoLockLeftBehind == Spec => []WaitsForTheRunning
<1>1. Sessions => WaitsForTheRunning
  <2> SUFFICES ASSUME Sessions, NEW s \in Session, NEW t \in Waits(s) PROVE ses[t].todo # <<>>
    BY DEF WaitsForTheRunning
  <2>1. t \in Session /\ DOMAIN ses[t].w # {}
    BY DEF Waits, Holders
  <2>2. \E i \in DOMAIN ses[t].todo : TRUE
    BY <2>1 DEF Sessions, InTx
  <2>3. DOMAIN <<>> = {}
    OBVIOUS
  <2> QED BY <2>2, <2>3
<1> QED BY <1>1, SessionsSound, PTL

-----------------------------------------------------------------------------
(* What the calls on a builder leave in its mutation *)

(* A set of naturals that holds 0 and the successor of each member holds them all. *)
LEMMA Induction ==
  ASSUME NEW P \in SUBSET Nat, 0 \in P, \A n \in P : n + 1 \in P
  PROVE  P = Nat
<1> SUFFICES ASSUME Nat \ P # {} PROVE FALSE
  OBVIOUS
<1>1. IsWellFoundedOn(LessNat, Nat)
  BY NatLessThanWellFounded DEF OpToRel, LessNat
<1>2. PICK n \in Nat \ P : \A m \in Nat \ P : ~(<<m, n>> \in LessNat)
  BY <1>1, WFMin
<1>3. \A m \in Nat \ P : ~(m < n)
  BY <1>2 DEF LessNat
<1>4. n # 0 /\ n - 1 \in Nat /\ n - 1 \in P
  BY <1>3
<1>5. (n - 1) + 1 = n
  OBVIOUS
<1> QED BY <1>2, <1>4, <1>5

LEMMA MaxOf ==
  ASSUME NEW n \in Nat, NEW s \in SUBSET (1..(n + 1)), n + 1 \in s
  PROVE  Max(s) = n + 1
<1>1. n + 1 \in s /\ \A y \in s : n + 1 >= y
  OBVIOUS
<1>2. Max(s) \in s /\ \A y \in s : Max(s) >= y
  BY <1>1 DEF Max
<1>3. Max(s) >= n + 1 /\ Max(s) \in 1..(n + 1)
  BY <1>1, <1>2
<1> QED BY <1>3

(* The calls can be made one after the other. *)
LEMMA GathersExists ==
  ASSUME NEW e, NEW calls
  PROVE  \A n \in Nat : \E g : Gathers(g, e, calls, n)
<1> DEFINE P == {n \in Nat : \E g : Gathers(g, e, calls, n)}
<1>1. 0 \in P
  <2> DEFINE g == [s \in SUBSET (1..0) |-> NewMutation(e)]
  <2>1. \A s \in SUBSET (1..0) : s = {}
    OBVIOUS
  <2>2. Gathers(g, e, calls, 0)
    BY <2>1 DEF Gathers
  <2> QED BY <2>2
<1>2. ASSUME NEW n \in P PROVE n + 1 \in P
  <2>1. PICK g : Gathers(g, e, calls, n)
    OBVIOUS
  <2> DEFINE h == [s \in SUBSET (1..(n + 1)) |->
                     IF s = {} THEN NewMutation(e) ELSE Call(e, g[s \ {Max(s)}], calls[Max(s)])]
  <2>2. ASSUME NEW s \in SUBSET (1..n) PROVE s \in SUBSET (1..(n + 1)) /\ h[s] = g[s]
    <3>1. s \in SUBSET (1..(n + 1))
      OBVIOUS
    <3> QED BY <2>1, <3>1 DEF Gathers
  <2>3. ASSUME NEW s \in SUBSET (1..(n + 1)), s # {} PROVE s \ {Max(s)} \in SUBSET (1..n)
    <3>1. CASE n + 1 \in s
      <4>1. Max(s) = n + 1
        BY <3>1, MaxOf
      <4> QED BY <4>1
    <3>2. CASE n + 1 \notin s
      <4>1. n \in Nat
        OBVIOUS
      <4>2. s \in SUBSET (1..n)
        BY <3>2, <4>1
      <4> QED BY <4>2
    <3> QED BY <3>1, <3>2
  <2>4. \A s \in SUBSET (1..(n + 1)) :
          h[s] = IF s = {} THEN NewMutation(e) ELSE Call(e, h[s \ {Max(s)}], calls[Max(s)])
    BY <2>2, <2>3
  <2>5. Gathers(h, e, calls, n + 1)
    BY <2>4 DEF Gathers
  <2> QED BY <2>5
<1>3. P = Nat
  <2>1. P \in SUBSET Nat
    OBVIOUS
  <2> HIDE DEF P
  <2> QED BY <1>1, <1>2, <2>1, Induction
<1> QED BY <1>3

LEMMA BuildGathers ==
  ASSUME NEW e, NEW n \in Nat, NEW calls, DOMAIN calls = 1..n
  PROVE  \E g : Gathers(g, e, calls, n) /\ Build(e, calls) = g[1..n]
<1> DEFINE G == CHOOSE g : g = [s \in SUBSET (1..n) |->
                     IF s = {} THEN NewMutation(e) ELSE Call(e, g[s \ {Max(s)}], calls[Max(s)])]
<1>1. \E g : g = [s \in SUBSET (1..n) |->
                     IF s = {} THEN NewMutation(e) ELSE Call(e, g[s \ {Max(s)}], calls[Max(s)])]
  <2>1. PICK g : Gathers(g, e, calls, n)
    BY GathersExists
  <2> QED BY <2>1 DEF Gathers
<1>2. G = [s \in SUBSET (1..n) |->
                     IF s = {} THEN NewMutation(e) ELSE Call(e, G[s \ {Max(s)}], calls[Max(s)])]
  BY <1>1
<1>3. Build(e, calls) = G[1..n]
  BY DEF Build, FoldLeft, MapThenFoldSet
<1> HIDE DEF G
<1> QED BY <1>2, <1>3 DEF Gathers

LEMMA SetCall ==
  ASSUME NEW e, NEW m, Plain(m), NEW c, c.do = "Set"
  PROVE  Plain(Call(e, m, c)) /\ Call(e, m, c).set = Over(Entry(c.on, c.with), m.set)
<1>1. PICK x : x = SetField(m, c.on, c.with)
  OBVIOUS
<1>2. Call(e, m, c) = x
  BY <1>1 DEF Call
<1>3. /\ DOMAIN x = DOMAIN m /\ x.set = Over(Entry(c.on, c.with), m.set) /\ x.add = Without(m.add, c.on)
      /\ x.cleared = m.cleared /\ x.clearedEdges = m.clearedEdges
  BY <1>1 DEF SetField, With, Plain
<1>4. x.add = m.add
  BY <1>3 DEF Without, Plain
<1> QED BY <1>2, <1>3, <1>4 DEF Plain

LEMMA OneMoreSet ==
  ASSUME NEW e, NEW k \in Nat, NEW calls, NEW m, Plain(m), FieldsSet(m, calls, k), calls[k + 1].do = "Set"
  PROVE  Plain(Call(e, m, calls[k + 1])) /\ FieldsSet(Call(e, m, calls[k + 1]), calls, k + 1)
<1>1. PICK c, x : c = calls[k + 1] /\ x = Call(e, m, c)
  OBVIOUS
<1>2. Plain(x) /\ x.set = Over(Entry(c.on, c.with), m.set)
  BY <1>1, SetCall
<1>3. /\ DOMAIN x.set = {c.on} \cup DOMAIN m.set /\ x.set[c.on] = c.with
      /\ \A f \in DOMAIN m.set \ {c.on} : x.set[f] = m.set[f]
  BY <1>2 DEF Over, Entry
<1>4. DOMAIN x.set = {calls[j].on : j \in 1..(k + 1)}
  <2>1. \A j \in 1..(k + 1) : j \in 1..k \/ j = k + 1
    OBVIOUS
  <2>2. \A j \in 1..k : j \in 1..(k + 1)
    OBVIOUS
  <2>3. k + 1 \in 1..(k + 1)
    OBVIOUS
  <2> QED BY <1>1, <1>3, <2>1, <2>2, <2>3 DEF FieldsSet
<1>5. ASSUME NEW j \in 1..(k + 1), \A i \in 1..(k + 1) : calls[i].on = calls[j].on => i <= j
      PROVE  x.set[calls[j].on] = calls[j].with
  <2>1. CASE j = k + 1
    BY <1>1, <1>3, <2>1
  <2>2. CASE j # k + 1
    <3>1. j \in 1..k /\ k + 1 \in 1..(k + 1) /\ ~(k + 1 <= j)
      BY <2>2
    <3>2. calls[j].on # c.on
      BY <1>1, <1>5, <3>1
    <3>3. \A i \in 1..k : i \in 1..(k + 1)
      OBVIOUS
    <3>4. m.set[calls[j].on] = calls[j].with /\ calls[j].on \in DOMAIN m.set
      BY <1>5, <3>1, <3>3 DEF FieldsSet
    <3> QED BY <1>3, <3>2, <3>4
  <2> QED BY <2>1, <2>2
<1> QED BY <1>1, <1>2, <1>4, <1>5 DEF FieldsSet

(* A builder on which only setters were called holds their values, the last one of each field. *)
LEMMA SetsBuild ==
  ASSUME NEW e, NEW n \in Nat, NEW calls, DOMAIN calls = 1..n, \A k \in 1..n : calls[k].do = "Set"
  PROVE  Plain(Build(e, calls)) /\ FieldsSet(Build(e, calls), calls, n)
<1>1. PICK g : Gathers(g, e, calls, n) /\ Build(e, calls) = g[1..n]
  BY BuildGathers
<1> DEFINE P == {k \in Nat : k <= n => Plain(g[1..k]) /\ FieldsSet(g[1..k], calls, k)}
<1>2. 0 \in P
  <2>1. 1..0 = {} /\ {} \in SUBSET (1..n)
    OBVIOUS
  <2>2. g[1..0] = NewMutation(e)
    BY <1>1, <2>1 DEF Gathers
  <2>3. Plain(NewMutation(e)) /\ DOMAIN NewMutation(e).set = {}
    BY DEF Plain, NewMutation
  <2>4. FieldsSet(NewMutation(e), calls, 0)
    BY <2>1, <2>3 DEF FieldsSet
  <2> QED BY <2>2, <2>3, <2>4
<1>3. ASSUME NEW k \in P PROVE k + 1 \in P
  <2> SUFFICES ASSUME k + 1 <= n PROVE Plain(g[1..(k + 1)]) /\ FieldsSet(g[1..(k + 1)], calls, k + 1)
    OBVIOUS
  <2>1. k \in Nat /\ k <= n /\ k + 1 \in 1..n
    OBVIOUS
  <2>2. Plain(g[1..k]) /\ FieldsSet(g[1..k], calls, k)
    BY <2>1
  <2>3. PICK s : s = 1..(k + 1)
    OBVIOUS
  <2>4. s \in SUBSET (1..n) /\ s # {} /\ s \ {k + 1} = 1..k /\ Max(s) = k + 1
    <3>1. s \in SUBSET (1..(k + 1)) /\ k + 1 \in s
      BY <2>1, <2>3
    <3>2. Max(s) = k + 1
      BY <2>1, <3>1, MaxOf
    <3>3. s \in SUBSET (1..n) /\ s # {} /\ s \ {k + 1} = 1..k
      BY <2>1, <2>3
    <3> QED BY <3>2, <3>3
  <2>5. g[s] = Call(e, g[1..k], calls[k + 1])
    BY <1>1, <2>4 DEF Gathers
  <2>6. PICK m : m = g[1..k]
    OBVIOUS
  <2>7. Plain(Call(e, m, calls[k + 1])) /\ FieldsSet(Call(e, m, calls[k + 1]), calls, k + 1)
    BY <2>1, <2>2, <2>6, OneMoreSet
  <2> QED BY <2>3, <2>5, <2>6, <2>7
<1>4. P = Nat
  <2>1. P \in SUBSET Nat
    OBVIOUS
  <2> HIDE DEF P
  <2> QED BY <1>2, <1>3, <2>1, Induction
<1> QED BY <1>1, <1>4

(* A new row of a history belongs to the incident it was made for, with the status. *)
LEMMA NewStatusIs ==
  ASSUME NEW e, NEW status
  PROVE  /\ "incident_id" \in DOMAIN NewStatus(e, status) /\ NewStatus(e, status).incident_id = e
         /\ "status" \in DOMAIN NewStatus(e, status) /\ NewStatus(e, status).status = status
<1>0. PICK c1, c2, c3, c4, c5, c6 :
        /\ c1 = Set("incident_id", e) /\ c2 = Set("status", status) /\ c3 = Set("text", "by system")
        /\ c4 = Set("timestamp", Now) /\ c5 = Set("created_at", Now) /\ c6 = Set("modified_at", Now)
  OBVIOUS
<1>a. /\ c1.do = "Set" /\ c2.do = "Set" /\ c3.do = "Set" /\ c4.do = "Set" /\ c5.do = "Set" /\ c6.do = "Set"
      /\ c1.on = "incident_id" /\ c1.with = e /\ c2.on # "incident_id" /\ c3.on # "incident_id"
      /\ c4.on # "incident_id" /\ c5.on # "incident_id" /\ c6.on # "incident_id"
      /\ c2.on = "status" /\ c2.with = status /\ c3.on # "status" /\ c4.on # "status" /\ c5.on # "status"
      /\ c6.on # "status"
  BY <1>0 DEF Set
<1>b. PICK calls : calls = <<c1, c2, c3, c4, c5, c6>>
  OBVIOUS
<1>c. /\ DOMAIN calls = 1..6 /\ calls[1] = c1 /\ calls[2] = c2 /\ calls[3] = c3
      /\ calls[4] = c4 /\ calls[5] = c5 /\ calls[6] = c6
  BY <1>b
<1>1. \A k \in 1..6 : calls[k].do = "Set"
  BY <1>a, <1>c
<1>2. /\ calls[1].on = "incident_id" /\ calls[1].with = e /\ \A k \in 2..6 : calls[k].on # "incident_id"
      /\ calls[2].on = "status" /\ calls[2].with = status /\ \A k \in 3..6 : calls[k].on # "status"
  BY <1>a, <1>c
<1>3. PICK m : m = InsertIncidentStatus(e, status)
  OBVIOUS
<1>4. m = Build("IncidentStatus", calls)
  BY <1>0, <1>b, <1>3 DEF InsertIncidentStatus
<1>5. Plain(m) /\ FieldsSet(m, calls, 6)
  BY <1>1, <1>c, <1>4, SetsBuild
<1>6. "incident_id" \in DOMAIN m.set /\ m.set["incident_id"] = e
  <2>1. 1 \in 1..6 /\ \A i \in 1..6 : calls[i].on = "incident_id" => i <= 1
    BY <1>2
  <2> QED BY <1>2, <1>5, <2>1 DEF FieldsSet
<1>d. "status" \in DOMAIN m.set /\ m.set["status"] = status
  <2>1. 2 \in 1..6 /\ \A i \in 1..6 : calls[i].on = "status" => i <= 2
    BY <1>2
  <2> QED BY <1>2, <1>5, <2>1 DEF FieldsSet
<1>7. /\ {"incident_id", "status"} \subseteq Schema["IncidentStatus"].table.columns
      /\ {"incident_id", "status"} \subseteq CreateColumns("IncidentStatus")
  BY DEF Schema, IncidentStatusTable, CreateColumns, IncidentStatusCreateSpec
<1>8. /\ {"incident_id", "status"} \subseteq DOMAIN Values("IncidentStatus", m)
      /\ Values("IncidentStatus", m)["incident_id"] = e /\ Values("IncidentStatus", m)["status"] = status
  BY <1>6, <1>d DEF Values, Over
<1> QED BY <1>3, <1>7, <1>8 DEF NewStatus, CreateRow, Inserted

(* An edit leaves an update with its incident. *)
LEMMA EditIs ==
  ASSUME NEW row, "incident_id" \in DOMAIN row
  PROVE  /\ "incident_id" \in DOMAIN UpdateRow("IncidentStatus", EditMutation, row)
         /\ UpdateRow("IncidentStatus", EditMutation, row).incident_id = row.incident_id
<1> DEFINE calls == <<Set("text", "edited"), Set("modified_at", Now)>>
<1>1. DOMAIN calls = 1..2 /\ \A k \in 1..2 : calls[k].do = "Set" /\ calls[k].on # "incident_id"
  BY DEF Set
<1>2. PICK m : m = EditMutation
  OBVIOUS
<1>3. m = Build("IncidentStatus", calls)
  BY <1>2 DEF EditMutation
<1> HIDE DEF calls
<1>4. Plain(m) /\ FieldsSet(m, calls, 2)
  BY <1>1, <1>3, SetsBuild
<1>5. "incident_id" \notin SetColumns("IncidentStatus", m)
  BY <1>1, <1>4 DEF SetColumns, FieldsSet
<1>6. AddColumns("IncidentStatus", m) = {} /\ ClearedColumns("IncidentStatus", m) = {}
  BY <1>4 DEF AddColumns, ClearedColumns, Plain
<1> QED BY <1>2, <1>5, <1>6 DEF UpdateRow

-----------------------------------------------------------------------------
(* The history of an event grows at its end *)

LEMMA AppendInvIs ==
  AppendInv <=> /\ "IncidentStatus" \in DOMAIN seq
                /\ seq["IncidentStatus"] \in Nat /\ Numbered(db, seq["IncidentStatus"]) /\ LocksExclude
                /\ \A s \in Session : Appends(ses[s], db, seq["IncidentStatus"])
BY DEF AppendInv, Appends

(* A larger last id changes nothing. *)
LEMMA NumberedMore ==
  ASSUME NEW f, NEW m \in Nat, NEW n \in Nat, m <= n, Numbered(f, m)
  PROVE  Numbered(f, n)
<1>1. \A i \in 1..m : i \in 1..n
  OBVIOUS
<1> QED BY <1>1 DEF Numbered

(* A session that has written nothing. *)
LEMMA NothingWritten ==
  ASSUME NEW w, DOMAIN w = {}, NEW v, NEW n
  PROVE  Numbered(w, n) /\ Follows(w, v)
BY DEF Numbered, Follows, StatusRows

(* The order of writing and inserting is kept by each step. *)
LEMMA LockedTail ==
  ASSUME NEW t \in Seq(Steps), t # <<>>, NEW K, NEW L, K \subseteq L, LockedFirst(t, K),
         t[1][1] \in {"modify", "save"} => <<"Incident", t[1][2]>> \in L
  PROVE  LockedFirst(Tail(t), L)
<1>1. PICK u : u = Tail(t)
  OBVIOUS
<1>2. /\ DOMAIN u = 1..(Len(t) - 1) /\ Len(t) \in Nat \ {0} /\ DOMAIN t = 1..Len(t)
      /\ \A i \in DOMAIN u : u[i] = t[i + 1]
  BY <1>1, TailIs
<1> SUFFICES ASSUME NEW i \in DOMAIN u, u[i][1] = "insert", <<"Incident", u[i][2]>> \notin L
             PROVE  \E j \in 1..(i - 1) : u[j][1] \in {"modify", "save"} /\ u[j][2] = u[i][2]
  BY <1>1 DEF LockedFirst
<1>3. i + 1 \in DOMAIN t /\ t[i + 1] = u[i] /\ i \in Nat /\ (i + 1) - 1 = i
  BY <1>2
<1>4. PICK j \in 1..i : t[j][1] \in {"modify", "save"} /\ t[j][2] = u[i][2]
  BY <1>3 DEF LockedFirst
<1>5. j # 1
  BY <1>4
<1>6. j - 1 \in 1..(i - 1) /\ j - 1 \in DOMAIN u /\ (j - 1) + 1 = j
  BY <1>2, <1>3, <1>4, <1>5
<1>7. u[j - 1] = t[j]
  BY <1>2, <1>6
<1> QED BY <1>4, <1>6, <1>7

(* Nothing is inserted after the transaction. *)
LEMMA LockedAfterCommit ==
  ASSUME NEW t, Shape(t), t # <<>>, t[1][1] = "commit", NEW K
  PROVE  LockedFirst(Tail(t), K)
<1>1. PICK u : u = Tail(t)
  OBVIOUS
<1>2. /\ DOMAIN u = 1..(Len(t) - 1) /\ Len(t) \in Nat \ {0} /\ DOMAIN t = 1..Len(t)
      /\ \A i \in DOMAIN u : u[i] = t[i + 1]
  BY <1>1, TailIs DEF Shape
<1> SUFFICES ASSUME NEW i \in DOMAIN u, u[i][1] = "insert" PROVE FALSE
  BY <1>1 DEF LockedFirst
<1>3. i + 1 \in DOMAIN t /\ t[i + 1] = u[i] /\ i \in Nat \ {0} /\ 1 \in DOMAIN t
  BY <1>2
<1>4. PICK j \in DOMAIN t : i + 1 < j /\ t[j][1] = "commit"
  BY <1>3 DEF Shape, InsideTx
<1>5. j = 1
  BY <1>3, <1>4 DEF Shape
<1> QED BY <1>3, <1>4, <1>5

LEMMA NoInserts ==
  ASSUME NEW t, \A i \in DOMAIN t : t[i][1] # "insert", NEW K
  PROVE  LockedFirst(t, K)
BY DEF LockedFirst

LEMMA LockedPatching ==
  ASSUME NEW e, NEW K
  PROVE  LockedFirst(Patching(e), K)
<1>1. PICK t : t = Patching(e)
  OBVIOUS
<1>2. /\ DOMAIN t = 1..7
      /\ t[1] = <<"modify", e>> /\ t[2] = <<"insert", e>> /\ t[3] = <<"commit", e>>
      /\ t[4] = <<"row", e>> /\ t[5] = <<"components", e>> /\ t[6] = <<"statuses", e>>
      /\ t[7] = <<"answer", e>>
  BY <1>1 DEF Patching
<1>3. /\ t[1][1] = "modify" /\ t[1][2] = e /\ t[2][2] = e /\ t[3][1] = "commit" /\ t[4][1] = "row"
      /\ t[5][1] = "components" /\ t[6][1] = "statuses" /\ t[7][1] = "answer"
  BY <1>2
<1>4. \A i \in DOMAIN t : t[i][1] = "insert" => i = 2
  BY <1>2, <1>3
<1>5. 1 \in 1..(2 - 1)
  OBVIOUS
<1> QED BY <1>1, <1>3, <1>4, <1>5 DEF LockedFirst

LEMMA LockedReopening ==
  ASSUME NEW e, NEW K
  PROVE  LockedFirst(Reopening(e), K)
<1>1. PICK t : t = Reopening(e)
  OBVIOUS
<1>2. /\ DOMAIN t = 1..8
      /\ t[1] = <<"modify", e>> /\ t[2] = <<"insert", e>> /\ t[3] = <<"commit", e>>
      /\ t[4] = <<"reopen", e>> /\ t[5] = <<"row", e>> /\ t[6] = <<"components", e>>
      /\ t[7] = <<"statuses", e>> /\ t[8] = <<"answer", e>>
  BY <1>1 DEF Reopening
<1>3. /\ t[1][1] = "modify" /\ t[1][2] = e /\ t[2][2] = e /\ t[3][1] = "commit" /\ t[4][1] = "reopen"
      /\ t[5][1] = "row" /\ t[6][1] = "components" /\ t[7][1] = "statuses" /\ t[8][1] = "answer"
  BY <1>2
<1>4. \A i \in DOMAIN t : t[i][1] = "insert" => i = 2
  BY <1>2, <1>3
<1>5. 1 \in 1..(2 - 1)
  OBVIOUS
<1> QED BY <1>1, <1>3, <1>4, <1>5 DEF LockedFirst

LEMMA LockedMoving ==
  ASSUME NEW e, NEW f, NEW K
  PROVE  LockedFirst(Moving(e, f), K)
<1>1. PICK t : t = Moving(e, f)
  OBVIOUS
<1>2. /\ DOMAIN t = 1..8
      /\ t[1] = <<"save", f>> /\ t[2] = <<"link", f>> /\ t[3] = <<"insert", f>>
      /\ t[4] = <<"save", e>> /\ t[5] = <<"link", e>> /\ t[6] = <<"insert", e>>
      /\ t[7] = <<"commit", e>> /\ t[8] = <<"done", e>>
  BY <1>1 DEF Moving
<1>3. /\ t[1][1] = "save" /\ t[1][2] = f /\ t[2][1] = "link" /\ t[3][2] = f /\ t[4][1] = "save"
      /\ t[4][2] = e /\ t[6][2] = e /\ t[5][1] = "link" /\ t[7][1] = "commit" /\ t[8][1] = "done"
  BY <1>2
<1>4. \A i \in DOMAIN t : t[i][1] = "insert" => i = 3 \/ i = 6
  BY <1>2, <1>3
<1>5. 1 \in 1..(3 - 1) /\ 4 \in 1..(6 - 1)
  OBVIOUS
<1> QED BY <1>1, <1>3, <1>4, <1>5 DEF LockedFirst

LEMMA LockedMovingAway ==
  ASSUME NEW e, NEW f, NEW K
  PROVE  LockedFirst(MovingAway(e, f), K)
<1>1. PICK t : t = MovingAway(e, f)
  OBVIOUS
<1>2. /\ DOMAIN t = 1..9
      /\ t[1] = <<"unlink", e>> /\ t[2] = <<"save", f>> /\ t[3] = <<"link", f>>
      /\ t[4] = <<"insert", f>> /\ t[5] = <<"save", e>> /\ t[6] = <<"link", e>>
      /\ t[7] = <<"insert", e>> /\ t[8] = <<"commit", e>> /\ t[9] = <<"done", e>>
  BY <1>1 DEF MovingAway
<1>3. /\ t[1][1] = "unlink" /\ t[2][1] = "save" /\ t[2][2] = f /\ t[3][1] = "link" /\ t[4][2] = f
      /\ t[5][1] = "save" /\ t[5][2] = e /\ t[7][2] = e /\ t[6][1] = "link" /\ t[8][1] = "commit"
      /\ t[9][1] = "done"
  BY <1>2
<1>4. \A i \in DOMAIN t : t[i][1] = "insert" => i = 4 \/ i = 7
  BY <1>2, <1>3
<1>5. 2 \in 1..(4 - 1) /\ 5 \in 1..(7 - 1)
  OBVIOUS
<1> QED BY <1>1, <1>3, <1>4, <1>5 DEF LockedFirst

(* What a request begins with inserts nothing. *)
LEMMA LockedProgram ==
  ASSUME NEW q \in Request, NEW K
  PROVE  LockedFirst(Program(q), K)
<1>1. PICK t, e, f : t = Program(q) /\ e = q.e /\ f = q.f
  OBVIOUS
<1>2. CASE t = Getting(e)
  <2>1. /\ DOMAIN t = 1..4 /\ t[1] = <<"row", e>> /\ t[2] = <<"components", e>> /\ t[3] = <<"statuses", e>>
        /\ t[4] = <<"answer", e>>
    BY <1>2 DEF Getting
  <2>2. t[1][1] = "row" /\ t[2][1] = "components" /\ t[3][1] = "statuses" /\ t[4][1] = "answer"
    BY <2>1
  <2> QED BY <1>1, <2>1, <2>2, NoInserts
<1>3. CASE t = Checking(e)
  <2>1. /\ DOMAIN t = 1..4 /\ t[1] = <<"row", e>> /\ t[2] = <<"components", e>> /\ t[3] = <<"statuses", e>>
        /\ t[4] = <<"decide", e>>
    BY <1>3 DEF Checking
  <2>2. t[1][1] = "row" /\ t[2][1] = "components" /\ t[3][1] = "statuses" /\ t[4][1] = "decide"
    BY <2>1
  <2> QED BY <1>1, <2>1, <2>2, NoInserts
<1>4. CASE t = Editing(e)
  <2>1. /\ DOMAIN t = 1..7 /\ t[1] = <<"row", e>> /\ t[2] = <<"components", e>> /\ t[3] = <<"statuses", e>>
        /\ t[4] = <<"pick", e>> /\ t[5] = <<"updates", e>> /\ t[6] = <<"text", e>> /\ t[7] = <<"reread", e>>
    BY <1>4 DEF Editing
  <2>2. /\ t[1][1] = "row" /\ t[2][1] = "components" /\ t[3][1] = "statuses" /\ t[4][1] = "pick"
        /\ t[5][1] = "updates" /\ t[6][1] = "text" /\ t[7][1] = "reread"
    BY <2>1
  <2> QED BY <1>1, <2>1, <2>2, NoInserts
<1>5. CASE t = Preparing(e, f)
  <2>1. /\ DOMAIN t = 1..7 /\ t[1] = <<"row", e>> /\ t[2] = <<"components", e>> /\ t[3] = <<"statuses", e>>
        /\ t[4] = <<"row", f>> /\ t[5] = <<"components", f>> /\ t[6] = <<"statuses", f>>
        /\ t[7] = <<"prepare", e>>
    BY <1>5 DEF Preparing
  <2>2. /\ t[1][1] = "row" /\ t[2][1] = "components" /\ t[3][1] = "statuses" /\ t[4][1] = "row"
        /\ t[5][1] = "components" /\ t[6][1] = "statuses" /\ t[7][1] = "prepare"
    BY <2>1
  <2> QED BY <1>1, <2>1, <2>2, NoInserts
<1>6. CASE t = Registering
  <2>1. /\ DOMAIN t = 1..7 /\ t[1] = <<"exists", 0>> /\ t[2] = <<"component", 0>> /\ t[3] = <<"attribute", 1>>
        /\ t[4] = <<"attribute", 2>> /\ t[5] = <<"attribute", 3>> /\ t[6] = <<"commit", 0>>
        /\ t[7] = <<"done", 0>>
    BY <1>6 DEF Registering
  <2>2. /\ t[1][1] = "exists" /\ t[2][1] = "component" /\ t[3][1] = "attribute" /\ t[4][1] = "attribute"
        /\ t[5][1] = "attribute" /\ t[6][1] = "commit" /\ t[7][1] = "done"
    BY <2>1
  <2> QED BY <1>1, <2>1, <2>2, NoInserts
<1>7. CASE t = Extracting(e)
  <2>1. /\ DOMAIN t = 1..4 /\ t[1] = <<"row", e>> /\ t[2] = <<"components", e>> /\ t[3] = <<"statuses", e>>
        /\ t[4] = <<"extract", e>>
    BY <1>7 DEF Extracting
  <2>2. t[1][1] = "row" /\ t[2][1] = "components" /\ t[3][1] = "statuses" /\ t[4][1] = "extract"
    BY <2>1
  <2> QED BY <1>1, <2>1, <2>2, NoInserts
<1> QED BY <1>1, <1>2, <1>3, <1>4, <1>5, <1>6, <1>7, ProgramIs

(* A step that commits nothing, of a session whose own part is in order. *)
LEMMA AppendOne ==
  ASSUME AppendInv, NEW s \in Session, Others(s), db' = db, DOMAIN seq' = DOMAIN seq,
         seq'["IncidentStatus"] \in Nat, seq["IncidentStatus"] <= seq'["IncidentStatus"],
         Appends(ses'[s], db', seq'["IncidentStatus"]),
         NEW D, Holders(s, D) = {}, DOMAIN ses'[s].w \subseteq DOMAIN ses[s].w \cup D
  PROVE  AppendInv'
<1>1. PICK m, n : m = seq["IncidentStatus"] /\ n = seq'["IncidentStatus"]
  OBVIOUS
<1>2. /\ m \in Nat /\ n \in Nat /\ m <= n /\ Numbered(db, m) /\ LocksExclude
      /\ \A t \in Session : Appends(ses[t], db, m)
  BY <1>1, AppendInvIs
<1>3. Numbered(db', n)
  BY <1>2, NumberedMore
<1>4. ASSUME NEW t \in Session PROVE Appends(ses'[t], db', n)
  <2>1. CASE t = s
    BY <1>1, <2>1
  <2>2. CASE t # s
    <3>1. ses'[t] = ses[t]
      BY <2>2 DEF Others
    <3>2. PICK w : w = ses[t].w
      OBVIOUS
    <3>3. Numbered(w, n)
      BY <1>2, <3>2, NumberedMore DEF Appends
    <3> QED BY <1>2, <3>1, <3>2, <3>3 DEF Appends
  <2> QED BY <2>1, <2>2
<1>5. LocksExclude'
  <2>1. ASSUME NEW t \in Session, t # s PROVE DOMAIN ses'[s].w \cap DOMAIN ses'[t].w = {}
    <3>1. ses'[t] = ses[t] /\ DOMAIN ses[t].w \cap D = {} /\ DOMAIN ses[s].w \cap DOMAIN ses[t].w = {}
      BY <1>2, <2>1 DEF Others, Holders, LocksExclude
    <3> QED BY <3>1
  <2>2. ASSUME NEW t \in Session, NEW u \in Session, t # s, u # s, t # u
        PROVE  DOMAIN ses'[t].w \cap DOMAIN ses'[u].w = {}
    BY <1>2, <2>2 DEF Others, LocksExclude
  <2> QED BY <2>1, <2>2 DEF LocksExclude
<1>6. "IncidentStatus" \in DOMAIN seq'
  BY AppendInvIs
<1> QED BY <1>1, <1>2, <1>3, <1>4, <1>5, <1>6 DEF AppendInv, Appends

(* A session without writes that inserts nothing before it locks. *)
LEMMA AppendIdle ==
  ASSUME AppendInv, NEW s \in Session, Others(s), db' = db, seq' = seq, DOMAIN ses'[s].w = {},
         LockedFirst(ses'[s].todo, {})
  PROVE  AppendInv'
<1>1. PICK x : x = ses'[s]
  OBVIOUS
<1>2. Appends(x, db', seq'["IncidentStatus"])
  BY <1>1, NothingWritten DEF Appends
<1>3. seq'["IncidentStatus"] \in Nat /\ seq["IncidentStatus"] <= seq'["IncidentStatus"]
  BY AppendInvIs
<1>4. Holders(s, {}) = {} /\ DOMAIN ses'[s].w \subseteq DOMAIN ses[s].w \cup {}
  BY DEF Holders
<1> QED BY <1>1, <1>2, <1>3, <1>4, AppendOne

LEMMA AppendAnswered ==
  ASSUME AppendInv, NEW s \in Session, Answered(s), db' = db, seq' = seq
  PROVE  AppendInv'
<1>1. DOMAIN <<>> = {}
  OBVIOUS
<1>2. LockedFirst(<<>>, {})
  BY <1>1 DEF LockedFirst
<1> QED BY <1>2, AppendIdle DEF Answered

(* Rows other than updates. *)
LEMMA OverStatus ==
  ASSUME NEW rows, NEW w, \A k \in DOMAIN rows : k[1] # "IncidentStatus"
  PROVE  StatusRows(Over(rows, w)) = StatusRows(w) /\ \A k \in StatusRows(w) : Over(rows, w)[k] = w[k]
<1>1. PICK x : x = Over(rows, w)
  OBVIOUS
<1>2. /\ DOMAIN x = DOMAIN rows \cup DOMAIN w
      /\ \A k \in DOMAIN w \ DOMAIN rows : x[k] = w[k]
  BY <1>1 DEF Over
<1>3. StatusRows(x) = StatusRows(w)
  BY <1>2 DEF StatusRows
<1>4. \A k \in StatusRows(w) : x[k] = w[k]
  BY <1>2 DEF StatusRows
<1> QED BY <1>1, <1>3, <1>4

LEMMA AppendWrote ==
  ASSUME Sessions, AppendInv, NEW s \in Session, NEW n, At(s, n), NEW rows, Wrote(s, rows),
         seq'["IncidentStatus"] = seq["IncidentStatus"], DOMAIN seq' = DOMAIN seq, \A k \in DOMAIN rows : k[1] # "IncidentStatus",
         n \in {"modify", "save"} => <<"Incident", Event(s)>> \in DOMAIN rows
  PROVE  AppendInv'
<1>1. PICK w, x, t, m : w = ses[s].w /\ x = Over(rows, w) /\ t = ses[s].todo /\ m = seq["IncidentStatus"]
  OBVIOUS
<1>2. /\ Others(s) /\ ses'[s].w = x /\ ses'[s].todo = Tail(t) /\ db' = db /\ Holders(s, DOMAIN rows) = {}
  BY <1>1 DEF Wrote
<1>3. m \in Nat /\ Numbered(w, m) /\ Follows(w, db) /\ LockedFirst(t, DOMAIN w)
  BY <1>1, AppendInvIs DEF Appends
<1>4. StatusRows(x) = StatusRows(w) /\ (\A k \in StatusRows(w) : x[k] = w[k]) /\ DOMAIN x = DOMAIN rows \cup DOMAIN w
  <2>1. DOMAIN x = DOMAIN rows \cup DOMAIN w
    BY <1>1, OverIs
  <2>2. StatusRows(x) = StatusRows(w) /\ \A k \in StatusRows(w) : x[k] = w[k]
    BY <1>1, OverStatus
  <2> QED BY <2>1, <2>2
<1>5. Numbered(x, m) /\ Follows(x, db)
  BY <1>3, <1>4 DEF Numbered, Follows
<1>6. t \in Seq(Steps) /\ t # <<>> /\ t[1][1] = n /\ Event(s) = t[1][2]
  BY <1>1, AtIs
<1>7. LockedFirst(Tail(t), DOMAIN x)
  BY <1>3, <1>4, <1>6, LockedTail
<1>8. Appends(ses'[s], db', seq'["IncidentStatus"])
  BY <1>1, <1>2, <1>5, <1>7 DEF Appends
<1>9. seq'["IncidentStatus"] \in Nat /\ seq["IncidentStatus"] <= seq'["IncidentStatus"]
  BY <1>1, <1>3
<1>10. DOMAIN ses'[s].w \subseteq DOMAIN ses[s].w \cup DOMAIN rows
  BY <1>1, <1>2, <1>4
<1> QED BY <1>2, <1>8, <1>9, <1>10, AppendOne

LEMMA AppendRead ==
  ASSUME Sessions, AppendInv, NEW s \in Session, NEW n, At(s, n), n \notin {"modify", "save"}, Read(s)
  PROVE  AppendInv'
<1>1. PICK w, t, m : w = ses[s].w /\ t = ses[s].todo /\ m = seq["IncidentStatus"]
  OBVIOUS
<1>2. Others(s) /\ ses'[s].w = w /\ ses'[s].todo = Tail(t) /\ db' = db /\ seq' = seq
  BY <1>1 DEF Read, Same
<1>3. m \in Nat /\ Numbered(w, m) /\ Follows(w, db) /\ LockedFirst(t, DOMAIN w)
  BY <1>1, AppendInvIs DEF Appends
<1>4. t \in Seq(Steps) /\ t # <<>> /\ t[1][1] = n
  BY <1>1, AtIs
<1>5. LockedFirst(Tail(t), DOMAIN w)
  BY <1>3, <1>4, LockedTail
<1>6. Appends(ses'[s], db', seq'["IncidentStatus"])
  BY <1>1, <1>2, <1>3, <1>5 DEF Appends
<1>7. seq'["IncidentStatus"] \in Nat /\ seq["IncidentStatus"] <= seq'["IncidentStatus"]
  BY <1>1, <1>2, <1>3
<1>8. Holders(s, {}) = {} /\ DOMAIN ses'[s].w \subseteq DOMAIN ses[s].w \cup {}
  BY <1>1, <1>2 DEF Holders
<1> QED BY <1>2, <1>6, <1>7, <1>8, AppendOne

(* A new update has an id above all others. *)
LEMMA AppendInsert ==
  ASSUME Sessions, AppendInv, NEW s \in Session, InsertStatuses(s)
  PROVE  AppendInv'
<1>1. PICK w, t, m, e, row, key, x :
        /\ w = ses[s].w /\ t = ses[s].todo /\ m = seq["IncidentStatus"] /\ e = Event(s)
        /\ row = NewStatus(e, Head(ses[s].copy[Event(s)].new))
        /\ key = <<"IncidentStatus", m + 1>> /\ x = Over(Entry(key, row), w)
  OBVIOUS
<1>2. /\ At(s, "insert") /\ Wrote(s, Entry(key, row))
      /\ seq' = [seq EXCEPT !["IncidentStatus"] = m + 1]
  BY <1>1, InsertStatusesIs
<1>3. /\ Others(s) /\ ses'[s].w = x /\ ses'[s].todo = Tail(t) /\ db' = db /\ Holders(s, DOMAIN Entry(key, row)) = {}
  BY <1>1, <1>2 DEF Wrote
<1>4. /\ m \in Nat /\ Numbered(w, m) /\ Follows(w, db) /\ LockedFirst(t, DOMAIN w) /\ Numbered(db, m)
      /\ "IncidentStatus" \in DOMAIN seq
  BY <1>1, AppendInvIs DEF Appends
<1>5. seq'["IncidentStatus"] = m + 1 /\ DOMAIN seq' = DOMAIN seq
  BY <1>2, <1>4
<1>6. t \in Seq(Steps) /\ t # <<>> /\ t[1][1] = "insert" /\ e = t[1][2] /\ 1 \in DOMAIN t
  BY <1>1, <1>2, AtIs
<1>7. <<"Incident", e>> \in DOMAIN w
  <2>1. \A j \in 1..(1 - 1) : FALSE
    OBVIOUS
  <2> QED BY <1>4, <1>6, <2>1 DEF LockedFirst
<1>8. "incident_id" \in DOMAIN row /\ row.incident_id = e
  BY <1>1, NewStatusIs
<1>9. key[1] = "IncidentStatus" /\ key[2] = m + 1 /\ key = <<"IncidentStatus", key[2]>>
  BY <1>1
<1>10. DOMAIN x = {key} \cup DOMAIN w /\ x[key] = row /\ \A k \in DOMAIN w \ {key} : x[k] = w[k]
  BY <1>1 DEF Over, Entry
<1>11. ~(m + 1 \in 1..m)
  BY <1>4
<1>12. key \notin DOMAIN w /\ key \notin DOMAIN db
  BY <1>4, <1>9, <1>11 DEF Numbered, StatusRows
<1>13. \A k \in StatusRows(x) : k = key \/ (k \in StatusRows(w) /\ x[k] = w[k])
  BY <1>10, <1>12 DEF StatusRows
<1>14. Numbered(x, m + 1)
  <2>1. Numbered(w, m + 1) /\ m + 1 \in 1..(m + 1)
    BY <1>4, NumberedMore
  <2> QED BY <1>8, <1>9, <1>10, <1>13, <2>1 DEF Numbered
<1>15. Follows(x, db)
  <2>1. \A i \in UpdateIds(db, e) : i < m + 1
    <3> SUFFICES ASSUME NEW k \in DOMAIN db, k[1] = "IncidentStatus" PROVE k[2] < m + 1
      BY DEF UpdateIds
    <3>1. k[2] \in 1..m
      BY <1>4 DEF Numbered, StatusRows
    <3> QED BY <1>4, <3>1
  <2>2. \A k \in StatusRows(w) : /\ k \notin DOMAIN db /\ <<"Incident", w[k].incident_id>> \in DOMAIN x
                                 /\ \A i \in UpdateIds(db, w[k].incident_id) : i < k[2]
    BY <1>4, <1>10 DEF Follows
  <2>3. <<"Incident", row.incident_id>> \in DOMAIN x
    BY <1>7, <1>8, <1>10
  <2>4. \A i \in UpdateIds(db, row.incident_id) : i < key[2]
    BY <1>8, <1>9, <2>1
  <2>5. ASSUME NEW k \in StatusRows(x)
        PROVE  /\ k \notin DOMAIN db /\ <<"Incident", x[k].incident_id>> \in DOMAIN x
               /\ \A i \in UpdateIds(db, x[k].incident_id) : i < k[2]
    <3>1. CASE k = key
      BY <1>10, <1>12, <2>3, <2>4, <3>1
    <3>2. CASE k # key
      BY <1>13, <2>2, <3>2
    <3> QED BY <3>1, <3>2
  <2> QED BY <2>5 DEF Follows
<1>16. LockedFirst(Tail(t), DOMAIN x)
  BY <1>4, <1>6, <1>10, LockedTail
<1>17. Appends(ses'[s], db', seq'["IncidentStatus"])
  BY <1>3, <1>5, <1>14, <1>15, <1>16 DEF Appends
<1>18. seq'["IncidentStatus"] \in Nat /\ seq["IncidentStatus"] <= seq'["IncidentStatus"]
  BY <1>1, <1>4, <1>5
<1>19. PICK D : D = DOMAIN Entry(key, row)
  OBVIOUS
<1>20. D = {key} /\ Holders(s, D) = {} /\ DOMAIN ses'[s].w \subseteq DOMAIN ses[s].w \cup D
  BY <1>1, <1>3, <1>10, <1>19 DEF Entry
<1> QED BY <1>3, <1>5, <1>17, <1>18, <1>20, AppendOne

LEMMA SameIds ==
  ASSUME NEW v, NEW x, SameUpdates(v, x)
  PROVE  (\A e : UpdateIds(x, e) = UpdateIds(v, e)) /\ Longer(v, x)
<1>1. ASSUME NEW e PROVE UpdateIds(x, e) = UpdateIds(v, e)
  <2>1. {k \in DOMAIN x : k[1] = "IncidentStatus" /\ x[k].incident_id = e}
          = {k \in DOMAIN v : k[1] = "IncidentStatus" /\ v[k].incident_id = e}
    BY DEF SameUpdates, StatusRows
  <2> QED BY <2>1 DEF UpdateIds
<1>2. Longer(v, x)
  BY <1>1 DEF Longer
<1> QED BY <1>1, <1>2

LEMMA SameFollows ==
  ASSUME NEW v, NEW x, SameUpdates(v, x), NEW w, Follows(w, v)
  PROVE  Follows(w, x)
<1>1. \A e : UpdateIds(x, e) = UpdateIds(v, e)
  BY SameIds
<1>2. \A k \in StatusRows(w) : k \notin DOMAIN x
  BY DEF Follows, SameUpdates, StatusRows
<1> QED BY <1>1, <1>2 DEF Follows

(* A statement outside a transaction that leaves the histories as they are. *)
LEMMA AppendStored ==
  ASSUME Sessions, AppendInv, NEW s \in Session, NEW n \in OutsideTx, At(s, n), NEW rows, Stored1(s, rows),
         SameUpdates(db, db')
  PROVE  AppendInv'
<1>1. PICK m, t, w : m = seq["IncidentStatus"] /\ t = ses[s].todo /\ w = ses[s].w
  OBVIOUS
<1>2. /\ m \in Nat /\ Numbered(db, m) /\ LocksExclude /\ "IncidentStatus" \in DOMAIN seq
      /\ \A u \in Session : Appends(ses[u], db, m)
  BY <1>1, AppendInvIs
<1>3. Others(s) /\ seq' = seq /\ ses'[s].w = w /\ ses'[s].todo = Tail(t)
  BY <1>1 DEF Stored1
<1>4. Numbered(db', m)
  BY <1>2 DEF Numbered, SameUpdates
<1>5. t \in Seq(Steps) /\ t # <<>> /\ t[1][1] = n
  BY <1>1, AtIs
<1>6. n \notin {"modify", "save"}
  BY DEF OutsideTx
<1>7. LockedFirst(Tail(t), DOMAIN w)
  <2>1. LockedFirst(t, DOMAIN w)
    BY <1>1, <1>2 DEF Appends
  <2> QED BY <1>5, <1>6, <2>1, LockedTail
<1>8. ASSUME NEW u \in Session PROVE Appends(ses'[u], db', m)
  <2>1. ses'[u].w = ses[u].w
    BY <1>1, <1>3 DEF Others
  <2>2. Follows(ses[u].w, db) /\ Numbered(ses[u].w, m)
    BY <1>2 DEF Appends
  <2>3. PICK y : y = ses[u].w
    OBVIOUS
  <2>4. Follows(y, db')
    BY <2>2, <2>3, SameFollows
  <2>5. LockedFirst(ses'[u].todo, DOMAIN ses'[u].w)
    <3>1. CASE u = s
      BY <1>3, <1>7, <3>1
    <3>2. CASE u # s
      <4>1. ses'[u] = ses[u]
        BY <1>3, <3>2 DEF Others
      <4> QED BY <1>2, <4>1 DEF Appends
    <3> QED BY <3>1, <3>2
  <2> QED BY <2>1, <2>2, <2>3, <2>4, <2>5 DEF Appends
<1>9. LocksExclude'
  <2>1. \A u \in Session : ses'[u].w = ses[u].w
    BY <1>1, <1>3 DEF Others
  <2> QED BY <1>2, <2>1 DEF LocksExclude
<1> QED BY <1>1, <1>2, <1>3, <1>4, <1>8, <1>9 DEF AppendInv, Appends

LEMMA GoneIs == \A r : "incident_id" \in DOMAIN r => r # Gone
<1>1. DOMAIN Gone = {}
  BY DEF Gone
<1> QED BY <1>1

(* Reopening writes an incident only, ... *)
LEMMA ReOpenSame ==
  ASSUME Sessions, AppendInv, NEW s \in Session, ReOpenIncident(s)
  PROVE  SameUpdates(db, db')
<1>1. PICK key, row : /\ key = <<"Incident", Event(s)>>
                      /\ row = UpdateRow("Incident", Build("Incident", <<Clear("end_date")>>),
                                         View(s)[<<"Incident", Event(s)>>])
  OBVIOUS
<1>2. db' = Overlay(db, Entry(key, row))
  BY <1>1, ReOpenIncidentIs DEF Stored1
<1>3. key[1] # "IncidentStatus"
  BY <1>1
<1>4. StatusRows(db') = StatusRows(db) /\ \A k \in StatusRows(db) : db'[k] = db[k]
  BY <1>2, <1>3 DEF Overlay, Entry, StatusRows
<1>5. \A k \in StatusRows(db) : "incident_id" \in DOMAIN db[k]
  BY AppendInvIs DEF Numbered
<1> QED BY <1>4, <1>5 DEF SameUpdates

(* ... and an edit keeps an update's incident. *)
LEMMA EditSame ==
  ASSUME Sessions, AppendInv, NEW s \in Session, ModifyEventUpdate(s), ~(Answered(s) /\ Same)
  PROVE  SameUpdates(db, db')
<1>1. PICK key, old, row :
        /\ key = <<"IncidentStatus", ses[s].target>> /\ old = View(s)[<<"IncidentStatus", ses[s].target>>]
        /\ row = UpdateRow("IncidentStatus", EditMutation, old)
  OBVIOUS
<1>2. At(s, "text") /\ key \in DOMAIN View(s) /\ db' = Overlay(db, Entry(key, row))
  BY <1>1, ModifyEventUpdateIs DEF Stored1
<1>3. DOMAIN ses[s].w = {}
  BY <1>2, AtIs DEF OutsideTx
<1>4. key \in DOMAIN db /\ old = db[key] /\ key[1] = "IncidentStatus"
  BY <1>1, <1>2, <1>3 DEF View, Overlay
<1>5. \A k \in StatusRows(db) : "incident_id" \in DOMAIN db[k]
  BY AppendInvIs DEF Numbered
<1>6. "incident_id" \in DOMAIN row /\ row.incident_id = old.incident_id
  <2>1. "incident_id" \in DOMAIN old
    BY <1>4, <1>5 DEF StatusRows
  <2> QED BY <1>1, <2>1, EditIs
<1>7. row # Gone
  BY <1>6, GoneIs
<1>8. DOMAIN db' = DOMAIN db /\ db'[key] = row /\ \A k \in DOMAIN db \ {key} : db'[k] = db[k]
  BY <1>2, <1>4, <1>7 DEF Overlay, Entry
<1> QED BY <1>4, <1>5, <1>6, <1>8 DEF SameUpdates, StatusRows

(* An extraction stores an incident and writes it with its transaction. *)
LEMMA ExtractSame ==
  ASSUME Sessions, AppendInv, NEW s \in Session, Extracted(s)
  PROVE  SameUpdates(db, db')
<1>1. PICK f, c, row : f = ses[s].req.f /\ c = ses[s].req.c /\ row = NewRow(s)
  OBVIOUS
<1>2. PICK v, x : v = db /\ x = db'
  OBVIOUS
<1>3. x = Overlay(v, NewRows(f, c, row))
  BY <1>1, <1>2 DEF Extracted
<1>4. StatusRows(x) = StatusRows(v) /\ \A k \in StatusRows(v) : x[k] = v[k]
  <2>1. PICK n : n = "IncidentStatus"
    OBVIOUS
  <2>2. n \notin {"Incident", "Relation"}
    BY <2>1
  <2>3. Rows(x, n) = Rows(v, n) /\ \A k \in Rows(v, n) : x[k] = v[k]
    BY <1>3, <2>2, NewRowsElse
  <2> QED BY <2>1, <2>3 DEF StatusRows, Rows
<1>5. \A k \in StatusRows(v) : "incident_id" \in DOMAIN v[k]
  BY <1>2, AppendInvIs DEF Numbered
<1> QED BY <1>2, <1>4, <1>5 DEF SameUpdates

LEMMA AppendExtract ==
  ASSUME Sessions, AppendInv, NEW s \in Session, At(s, "extract"), Extracted(s)
  PROVE  AppendInv' /\ Longer(db, db')
<1>1. PICK m, t, w : m = seq["IncidentStatus"] /\ t = MoveSteps(ses[s].req) /\ w = ses[s].w
  OBVIOUS
<1>2. /\ m \in Nat /\ Numbered(db, m) /\ LocksExclude /\ "IncidentStatus" \in DOMAIN seq
      /\ \A u \in Session : Appends(ses[u], db, m)
  BY <1>1, AppendInvIs
<1>3. Others(s) /\ seq' = seq /\ ses'[s].w = w /\ ses'[s].todo = t
  BY <1>1 DEF Extracted
<1>4. SameUpdates(db, db')
  BY ExtractSame
<1>5. Numbered(db', m)
  BY <1>2, <1>4 DEF Numbered, SameUpdates
<1>6. LockedFirst(t, DOMAIN w)
  <2>1. PICK q, e, f : q = ses[s].req /\ e = q.e /\ f = q.f
    OBVIOUS
  <2>2. LockedFirst(Moving(e, f), DOMAIN w) /\ LockedFirst(MovingAway(e, f), DOMAIN w)
    BY LockedMoving, LockedMovingAway
  <2> QED BY <1>1, <2>1, <2>2, MoveStepsIs
<1>8. ASSUME NEW u \in Session PROVE Appends(ses'[u], db', m)
  <2>1. ses'[u].w = ses[u].w
    BY <1>1, <1>3 DEF Others
  <2>2. Follows(ses[u].w, db) /\ Numbered(ses[u].w, m)
    BY <1>2 DEF Appends
  <2>3. PICK y : y = ses[u].w
    OBVIOUS
  <2>4. Follows(y, db')
    BY <1>4, <2>2, <2>3, SameFollows
  <2>5. LockedFirst(ses'[u].todo, DOMAIN ses'[u].w)
    <3>1. CASE u = s
      BY <1>3, <1>6, <3>1
    <3>2. CASE u # s
      <4>1. ses'[u] = ses[u]
        BY <1>3, <3>2 DEF Others
      <4> QED BY <1>2, <4>1 DEF Appends
    <3> QED BY <3>1, <3>2
  <2> QED BY <2>1, <2>2, <2>3, <2>4, <2>5 DEF Appends
<1>9. LocksExclude'
  <2>1. \A u \in Session : ses'[u].w = ses[u].w
    BY <1>1, <1>3 DEF Others
  <2> QED BY <1>2, <2>1 DEF LocksExclude
<1>10. Longer(db, db')
  BY <1>4, SameIds
<1> QED BY <1>1, <1>2, <1>3, <1>5, <1>8, <1>9, <1>10 DEF AppendInv, Appends

(* The updates of a transaction become part of the histories. *)
LEMMA Committed ==
  ASSUME NEW v, NEW w, NEW m, Numbered(v, m), Numbered(w, m), Follows(w, v)
  PROVE  /\ StatusRows(Overlay(v, w)) = StatusRows(v) \cup StatusRows(w)
         /\ \A k \in StatusRows(w) : Overlay(v, w)[k] = w[k]
         /\ \A k \in StatusRows(v) : Overlay(v, w)[k] = v[k]
         /\ DOMAIN Overlay(v, w) \subseteq DOMAIN v \cup DOMAIN w
<1>1. PICK x : x = Overlay(v, w)
  OBVIOUS
<1>2. /\ DOMAIN x = {k \in DOMAIN v \cup DOMAIN w : k \in DOMAIN w => w[k] # Gone}
      /\ \A k \in DOMAIN x : x[k] = IF k \in DOMAIN w THEN w[k] ELSE v[k]
  BY <1>1 DEF Overlay
<1>3. \A k \in StatusRows(w) : w[k] # Gone /\ k \in DOMAIN w /\ k \notin DOMAIN v
  BY GoneIs DEF Numbered, Follows, StatusRows
<1>4. \A k \in StatusRows(v) : k \in DOMAIN v /\ k \notin DOMAIN w
  BY <1>3 DEF StatusRows
<1>5. \A k : k \in StatusRows(x) <=> (k \in StatusRows(v) \/ k \in StatusRows(w))
  BY <1>2, <1>3, <1>4 DEF StatusRows
<1>6. StatusRows(x) = StatusRows(v) \cup StatusRows(w)
  BY <1>5
<1>7. (\A k \in StatusRows(w) : x[k] = w[k]) /\ (\A k \in StatusRows(v) : x[k] = v[k])
  BY <1>2, <1>3, <1>4
<1> QED BY <1>1, <1>2, <1>6, <1>7

LEMMA CommittedIds ==
  ASSUME NEW v, NEW w, NEW m, Numbered(v, m), Numbered(w, m), Follows(w, v), NEW e, NEW i
  PROVE  i \in UpdateIds(Overlay(v, w), e)
           <=> (i \in UpdateIds(v, e) \/ \E k \in StatusRows(w) : w[k].incident_id = e /\ i = k[2])
<1>1. PICK x : x = Overlay(v, w)
  OBVIOUS
<1>2. /\ StatusRows(x) = StatusRows(v) \cup StatusRows(w)
      /\ (\A k \in StatusRows(w) : x[k] = w[k]) /\ (\A k \in StatusRows(v) : x[k] = v[k])
  BY <1>1, Committed
<1>3. \A f, d : d \in UpdateIds(f, e) <=> \E k \in StatusRows(f) : f[k].incident_id = e /\ d = k[2]
  BY DEF UpdateIds, StatusRows
<1>4. i \in UpdateIds(x, e) <=> \E k \in StatusRows(x) : x[k].incident_id = e /\ i = k[2]
  BY <1>3
<1>5. i \in UpdateIds(v, e) <=> \E k \in StatusRows(v) : v[k].incident_id = e /\ i = k[2]
  BY <1>3
<1> QED BY <1>1, <1>2, <1>4, <1>5

LEMMA CommitLonger ==
  ASSUME NEW v, NEW w, NEW m, Numbered(v, m), Numbered(w, m), Follows(w, v)
  PROVE  Longer(v, Overlay(v, w))
<1>1. PICK x : x = Overlay(v, w)
  OBVIOUS
<1>2. \A e, i : i \in UpdateIds(x, e)
           <=> (i \in UpdateIds(v, e) \/ \E k \in StatusRows(w) : w[k].incident_id = e /\ i = k[2])
  BY <1>1, CommittedIds
<1>3. ASSUME NEW e, NEW i \in UpdateIds(v, e), NEW j \in UpdateIds(x, e) \ UpdateIds(v, e) PROVE i < j
  <2>1. PICK k \in StatusRows(w) : w[k].incident_id = e /\ j = k[2]
    BY <1>2
  <2> QED BY <2>1 DEF Follows
<1> QED BY <1>1, <1>2, <1>3 DEF Longer

LEMMA AppendCommit ==
  ASSUME Sessions, AppendInv, NEW s \in Session, Commit(s)
  PROVE  AppendInv' /\ Longer(db, db')
<1>1. PICK m, t, w : m = seq["IncidentStatus"] /\ t = ses[s].todo /\ w = ses[s].w
  OBVIOUS
<1>2. /\ m \in Nat /\ Numbered(db, m) /\ LocksExclude /\ "IncidentStatus" \in DOMAIN seq
      /\ \A u \in Session : Appends(ses[u], db, m)
  BY <1>1, AppendInvIs
<1>3. /\ At(s, "commit") /\ db' = Overlay(db, w) /\ seq' = seq /\ Others(s) /\ ses'[s].todo = Tail(t)
      /\ DOMAIN ses'[s].w = {}
  BY <1>1, CommitIs
<1>4. Numbered(w, m) /\ Follows(w, db)
  BY <1>1, <1>2 DEF Appends
<1>5. Longer(db, db')
  BY <1>2, <1>3, <1>4, CommitLonger
<1>6. /\ StatusRows(db') = StatusRows(db) \cup StatusRows(w)
      /\ (\A k \in StatusRows(w) : db'[k] = w[k]) /\ (\A k \in StatusRows(db) : db'[k] = db[k])
      /\ DOMAIN db' \subseteq DOMAIN db \cup DOMAIN w
  BY <1>2, <1>3, <1>4, Committed
<1>7. Numbered(db', m)
  BY <1>2, <1>4, <1>6 DEF Numbered
<1>8. ASSUME NEW u \in Session PROVE Appends(ses'[u], db', m)
  <2>1. CASE u = s
    <3>1. Shape(t) /\ t # <<>> /\ t[1][1] = "commit"
      BY <1>1, <1>3, AtIs DEF Sessions
    <3>2. LockedFirst(Tail(t), {})
      BY <3>1, LockedAfterCommit
    <3>3. PICK y : y = ses'[s].w
      OBVIOUS
    <3>4. Numbered(y, m) /\ Follows(y, db')
      BY <1>3, <3>3, NothingWritten
    <3> QED BY <1>3, <2>1, <3>2, <3>3, <3>4 DEF Appends
  <2>2. CASE u # s
    <3>1. PICK y : y = ses[u].w
      OBVIOUS
    <3>2. ses'[u] = ses[u] /\ Numbered(y, m) /\ Follows(y, db) /\ DOMAIN y \cap DOMAIN w = {}
      BY <1>1, <1>2, <1>3, <2>2, <3>1 DEF Others, Appends, LocksExclude
    <3>3. ASSUME NEW k \in StatusRows(y)
          PROVE  /\ k \notin DOMAIN db' /\ <<"Incident", y[k].incident_id>> \in DOMAIN y
                 /\ \A i \in UpdateIds(db', y[k].incident_id) : i < k[2]
      <4>1. PICK e : e = y[k].incident_id
        OBVIOUS
      <4>2. /\ k \in DOMAIN y /\ k \notin DOMAIN db /\ <<"Incident", e>> \in DOMAIN y
            /\ \A i \in UpdateIds(db, e) : i < k[2]
        BY <3>2, <4>1 DEF Follows, StatusRows
      <4>3. k \notin DOMAIN db'
        BY <1>6, <3>2, <4>2
      <4>4. \A h \in StatusRows(w) : w[h].incident_id # e
        BY <1>4, <3>2, <4>2 DEF Follows
      <4>5. ASSUME NEW i \in UpdateIds(db', e) PROVE i < k[2]
        <5>1. i \in UpdateIds(db, e) \/ \E h \in StatusRows(w) : w[h].incident_id = e /\ i = h[2]
          BY <1>2, <1>3, <1>4, CommittedIds
        <5> QED BY <4>2, <4>4, <5>1
      <4> QED BY <4>1, <4>2, <4>3, <4>5
    <3>4. Follows(y, db')
      BY <3>3 DEF Follows
    <3>5. LockedFirst(ses[u].todo, DOMAIN ses[u].w)
      BY <1>2 DEF Appends
    <3> QED BY <3>1, <3>2, <3>4, <3>5 DEF Appends
  <2> QED BY <2>1, <2>2
<1>9. LocksExclude'
  <2>1. \A u \in Session : DOMAIN ses'[u].w \subseteq DOMAIN ses[u].w
    <3> SUFFICES ASSUME NEW u \in Session PROVE DOMAIN ses'[u].w \subseteq DOMAIN ses[u].w
      OBVIOUS
    <3>1. CASE u = s
      BY <1>3, <3>1
    <3>2. CASE u # s
      BY <1>3, <3>2 DEF Others
    <3> QED BY <3>1, <3>2
  <2> QED BY <1>2, <2>1 DEF LocksExclude
<1> QED BY <1>1, <1>2, <1>3, <1>5, <1>7, <1>8, <1>9 DEF AppendInv, Appends

(* Every other statement writes no update. *)
LEMMA EntryKeys ==
  ASSUME NEW n, NEW i, NEW row, n # "IncidentStatus"
  PROVE  (\A k \in DOMAIN Entry(<<n, i>>, row) : k[1] # "IncidentStatus") /\ <<n, i>> \in DOMAIN Entry(<<n, i>>, row)
BY DEF Entry

LEMMA StepAppends ==
  ASSUME Sessions, AppendInv, NEW s \in Session, Step(s)
  PROVE  AppendInv' /\ (db' = db \/ Longer(db, db'))
<1>0. PICK ev : ev = Event(s)
  OBVIOUS
<1>1. CASE ReadRow(s)
  <2>1. At(s, "row") /\ ((Answered(s) /\ Same) \/ Read(s))
    BY <1>1, ReadRowIs
  <2> QED BY <2>1, AppendRead, AppendAnswered DEF Same, Read
<1>2. CASE ReadComponents(s)
  <2>1. At(s, "components") /\ Read(s)
    BY <1>2, ReadComponentsIs
  <2> QED BY <2>1, AppendRead DEF Same, Read
<1>3. CASE ReadStatuses(s)
  <2>1. At(s, "statuses") /\ Read(s)
    BY <1>3, ReadStatusesIs
  <2> QED BY <2>1, AppendRead DEF Same, Read
<1>4. CASE Answer(s)
  BY <1>4, AnswerIs, AppendAnswered DEF Same
<1>5. CASE Decide(s)
  <2>1. CASE Answered(s)
    BY <1>5, <2>1, DecideIs, AppendAnswered DEF Same
  <2>2. CASE ~Answered(s)
    <3>1. PICK st : st = ses[s].req.status
      OBVIOUS
    <3>2. /\ At(s, "decide") /\ Same /\ Others(s) /\ ses'[s].todo = PatchSteps(ev, st)
          /\ ses'[s].w = ses[s].w
      BY <1>0, <1>5, <2>2, <3>1, DecideIs
    <3>3. DOMAIN ses[s].w = {}
      BY <3>2, AtIs DEF OutsideTx
    <3>4. LockedFirst(PatchSteps(ev, st), {})
      BY PatchStepsIs, LockedPatching, LockedReopening
    <3> QED BY <3>2, <3>3, <3>4, AppendIdle DEF Same
  <2> QED BY <2>1, <2>2
<1>6. CASE ModifyIncident(s)
  <2>1. CASE Answered(s) /\ Same
    BY <2>1, AppendAnswered DEF Same
  <2>2. CASE ~(Answered(s) /\ Same)
    <3>1. PICK row : /\ At(s, "modify") /\ seq' = seq /\ Wrote(s, Entry(<<"Incident", ev>>, row))
      BY <1>0, <1>6, <2>2, ModifyIncidentIs
    <3>2. PICK rows : rows = Entry(<<"Incident", ev>>, row)
      OBVIOUS
    <3>3. (\A k \in DOMAIN rows : k[1] # "IncidentStatus") /\ <<"Incident", ev>> \in DOMAIN rows
      BY <3>2, EntryKeys
    <3>4. Wrote(s, rows)
      BY <3>1, <3>2
    <3>5. AppendInv'
      BY <1>0, <3>1, <3>3, <3>4, AppendWrote
    <3> QED BY <3>4, <3>5 DEF Wrote
  <2> QED BY <2>1, <2>2
<1>7. CASE InsertStatuses(s)
  BY <1>7, AppendInsert, InsertStatusesIs DEF Wrote
<1>8. CASE Commit(s)
  BY <1>8, AppendCommit
<1>9. CASE ReOpenIncident(s)
  <2>1. At(s, "reopen") /\ "reopen" \in OutsideTx /\ \E rows : Stored1(s, rows)
    BY <1>9, ReOpenIncidentIs DEF OutsideTx
  <2>2. SameUpdates(db, db')
    BY <1>9, ReOpenSame
  <2>3. AppendInv'
    BY <2>1, <2>2, AppendStored
  <2>4. Longer(db, db')
    BY <2>2, SameIds
  <2> QED BY <2>3, <2>4
<1>10. CASE PickUpdate(s)
  <2>1. At(s, "pick") /\ Read(s)
    BY <1>10, PickUpdateIs
  <2> QED BY <2>1, AppendRead DEF Same, Read
<1>11. CASE FindUpdate(s)
  <2>1. At(s, "updates") /\ ((Answered(s) /\ Same) \/ Read(s))
    BY <1>11, FindUpdateIs
  <2> QED BY <2>1, AppendRead, AppendAnswered DEF Same, Read
<1>12. CASE ModifyEventUpdate(s)
  <2>1. CASE Answered(s) /\ Same
    BY <2>1, AppendAnswered DEF Same
  <2>2. CASE ~(Answered(s) /\ Same)
    <3>1. At(s, "text") /\ "text" \in OutsideTx /\ \E rows : Stored1(s, rows)
      BY <1>12, <2>2, ModifyEventUpdateIs DEF OutsideTx
    <3>2. SameUpdates(db, db')
      BY <1>12, <2>2, EditSame
    <3>3. AppendInv'
      BY <3>1, <3>2, AppendStored
    <3>4. Longer(db, db')
      BY <3>2, SameIds
    <3> QED BY <3>3, <3>4
  <2> QED BY <2>1, <2>2
<1>13. CASE ReadUpdate(s)
  BY <1>13, ReadUpdateIs, AppendAnswered DEF Same
<1>14. CASE MoveComponent(s)
  <2>1. CASE Answered(s)
    BY <1>14, <2>1, MoveComponentIs, AppendAnswered DEF Same
  <2>2. CASE ~Answered(s)
    <3>1. PICK q : q = ses[s].req
      OBVIOUS
    <3>2. /\ At(s, "prepare") /\ Same /\ Others(s) /\ ses'[s].todo = MoveSteps(q)
          /\ ses'[s].w = ses[s].w
      BY <1>14, <2>2, <3>1, MoveComponentIs
    <3>3. DOMAIN ses[s].w = {}
      BY <3>2, AtIs DEF OutsideTx
    <3>4. PICK e, f : e = q.e /\ f = q.f
      OBVIOUS
    <3>5. LockedFirst(Moving(e, f), {}) /\ LockedFirst(MovingAway(e, f), {})
      BY LockedMoving, LockedMovingAway
    <3>6. LockedFirst(MoveSteps(q), {})
      BY <3>4, <3>5, MoveStepsIs
    <3> QED BY <3>2, <3>3, <3>6, AppendIdle DEF Same
  <2> QED BY <2>1, <2>2
<1>24. CASE ExtractComponents(s)
  <2>1. At(s, "extract") /\ ((Answered(s) /\ Same) \/ Extracted(s))
    BY <1>24, ExtractComponentsIs
  <2> QED BY <2>1, AppendExtract, AppendAnswered DEF Same
<1>15. CASE RemoveIncidentComponent(s)
  <2>1. PICK gone : Wrote(s, [k \in {Relation(Event(s), c) : c \in gone} |-> Gone])
    BY <1>15, RemoveIncidentComponentIs
  <2>2. PICK rows : rows = [k \in {Relation(Event(s), c) : c \in gone} |-> Gone]
    OBVIOUS
  <2>3. At(s, "unlink") /\ seq' = seq /\ Wrote(s, rows)
    BY <1>15, <2>1, <2>2, RemoveIncidentComponentIs
  <2>4. \A k \in DOMAIN rows : k[1] # "IncidentStatus"
    BY <2>2 DEF Relation
  <2>5. seq'["IncidentStatus"] = seq["IncidentStatus"] /\ DOMAIN seq' = DOMAIN seq
    BY <2>3
  <2>6. "unlink" \notin {"modify", "save"}
    OBVIOUS
  <2>7. AppendInv'
    BY <2>3, <2>4, <2>5, <2>6, AppendWrote
  <2> QED BY <2>3, <2>7 DEF Wrote
<1>16. CASE SaveIncidentFull(s)
  <2>1. CASE Answered(s) /\ Same
    BY <2>1, AppendAnswered DEF Same
  <2>2. CASE ~(Answered(s) /\ Same)
    <3>1. PICK row : /\ At(s, "save") /\ seq' = seq /\ Wrote(s, Entry(<<"Incident", ev>>, row))
      BY <1>0, <1>16, <2>2, SaveIncidentFullIs
    <3>2. PICK rows : rows = Entry(<<"Incident", ev>>, row)
      OBVIOUS
    <3>3. (\A k \in DOMAIN rows : k[1] # "IncidentStatus") /\ <<"Incident", ev>> \in DOMAIN rows
      BY <3>2, EntryKeys
    <3>4. Wrote(s, rows)
      BY <3>1, <3>2
    <3>5. AppendInv'
      BY <1>0, <3>1, <3>3, <3>4, AppendWrote
    <3> QED BY <3>4, <3>5 DEF Wrote
  <2> QED BY <2>1, <2>2
<1>17. CASE ReconcileIncidentComponents(s)
  <2>1. PICK rows : rows = Reconciled(s, Event(s))
    OBVIOUS
  <2>2. At(s, "link") /\ seq' = seq /\ Wrote(s, rows)
    BY <1>17, <2>1, ReconcileIs
  <2>3. \A k \in DOMAIN rows : k[1] # "IncidentStatus"
    BY <2>1 DEF Reconciled
  <2>4. seq'["IncidentStatus"] = seq["IncidentStatus"] /\ DOMAIN seq' = DOMAIN seq
    BY <2>2
  <2>5. "link" \notin {"modify", "save"}
    OBVIOUS
  <2>6. AppendInv'
    BY <2>2, <2>3, <2>4, <2>5, AppendWrote
  <2> QED BY <2>2, <2>6 DEF Wrote
<1>18. CASE Done(s)
  BY <1>18, DoneIs, AppendAnswered DEF Same
<1>19. CASE ComponentExists(s)
  <2>1. At(s, "exists") /\ ((Answered(s) /\ Same) \/ Read(s))
    BY <1>19, ComponentExistsIs
  <2> QED BY <2>1, AppendRead, AppendAnswered DEF Same, Read
<1>20. CASE CreateComponent(s)
  <2>1. PICK rows, id, row : /\ rows = Entry(<<"Component", id>>, row) /\ At(s, "component") /\ Wrote(s, rows)
                             /\ seq' = [seq EXCEPT !["Component"] = id]
    BY <1>20, CreateComponentIs
  <2>2. \A k \in DOMAIN rows : k[1] # "IncidentStatus"
    BY <2>1, EntryKeys
  <2>3. seq'["IncidentStatus"] = seq["IncidentStatus"] /\ DOMAIN seq' = DOMAIN seq
    BY <2>1, AppendInvIs
  <2>4. "component" \notin {"modify", "save"}
    OBVIOUS
  <2>5. AppendInv'
    BY <2>1, <2>2, <2>3, <2>4, AppendWrote
  <2> QED BY <2>1, <2>5 DEF Wrote
<1>21. CASE CreateAttribute(s)
  <2>1. PICK rows, id, row : /\ rows = Entry(<<"ComponentAttr", id>>, row) /\ At(s, "attribute") /\ Wrote(s, rows)
                             /\ seq' = [seq EXCEPT !["ComponentAttr"] = id]
    BY <1>21, CreateAttributeIs
  <2>2. \A k \in DOMAIN rows : k[1] # "IncidentStatus"
    BY <2>1, EntryKeys
  <2>3. seq'["IncidentStatus"] = seq["IncidentStatus"] /\ DOMAIN seq' = DOMAIN seq
    BY <2>1, AppendInvIs
  <2>4. "attribute" \notin {"modify", "save"}
    OBVIOUS
  <2>5. AppendInv'
    BY <2>1, <2>2, <2>3, <2>4, AppendWrote
  <2> QED BY <2>1, <2>5 DEF Wrote
<1>22. CASE Close(s)
  BY <1>22, CloseIs, AppendAnswered DEF Same
<1>23. CASE Abort(s)
  BY <1>23, AbortIs, AppendAnswered DEF Same
<1> QED BY <1>1, <1>2, <1>3, <1>4, <1>5, <1>6, <1>7, <1>8, <1>9, <1>10, <1>11, <1>12, <1>13, <1>14, <1>15,
           <1>16, <1>17, <1>18, <1>19, <1>20, <1>21, <1>22, <1>23, <1>24 DEF Step

LEMMA AppendKept ==
  ASSUME Sessions, AppendInv, [Next]_vars
  PROVE  AppendInv' /\ (db' = db \/ Longer(db, db'))
<1>1. ASSUME NEW s \in Session, NEW q \in Request, Begin(s, q) PROVE AppendInv' /\ db' = db
  <2>1. /\ Others(s) /\ ses'[s].todo = Program(q) /\ DOMAIN ses'[s].w = {} /\ db' = db /\ seq' = seq
    BY <1>1, BeginIs DEF Begin
  <2>2. LockedFirst(Program(q), {})
    BY LockedProgram
  <2> QED BY <2>1, <2>2, AppendIdle
<1>2. ASSUME NEW s \in Session, Fail(s) PROVE AppendInv' /\ db' = db
  <2>1. Answered(s) /\ db' = db /\ seq' = seq
    BY <1>2, FailIs DEF Fail, Rollback
  <2> QED BY <2>1, AppendAnswered
<1>3. CASE UNCHANGED vars \/ Exhausted
  <2>1. ses' = ses /\ db' = db /\ seq' = seq
    BY <1>3 DEF vars, Exhausted
  <2> QED BY <2>1 DEF AppendInv, LocksExclude
<1> QED BY <1>1, <1>2, <1>3, StepAppends DEF Next

LEMMA AppendInit == Init => AppendInv
<1> SUFFICES ASSUME Init PROVE AppendInv
  OBVIOUS
<1> DEFINE keys == {k \in DOMAIN Stored : k[1] = "IncidentStatus"}
           ids == {0} \cup {k[2] : k \in keys}
<1>1. /\ \A k \in keys : k = <<"IncidentStatus", k[2]>> /\ k[2] \in Nat \ {0} /\ "incident_id" \in DOMAIN Stored[k]
      /\ \E top \in ids : \A k \in keys : k[2] <= top
  BY StoredAssumption
<1>2. "IncidentStatus" \in DOMAIN seq /\ seq["IncidentStatus"] = Max(ids)
  BY DEF Init
<1>3. ids \subseteq Nat
  BY <1>1
<1>4. Max(ids) \in ids /\ \A i \in ids : Max(ids) >= i
  <2>1. PICK top \in ids : \A k \in keys : k[2] <= top
    BY <1>1
  <2>2. \A i \in ids : top >= i
    BY <1>3, <2>1
  <2> HIDE DEF ids
  <2> QED BY <2>2 DEF Max
<1>5. PICK m : m = Max(ids)
  OBVIOUS
<1>6. Numbered(db, m)
  <2>1. db = Stored /\ StatusRows(db) = keys
    BY DEF Init, StatusRows
  <2>2. \A k \in keys : k[2] \in 1..m
    BY <1>1, <1>3, <1>4, <1>5
  <2> QED BY <1>1, <2>1, <2>2 DEF Numbered
<1>7. ASSUME NEW s \in Session PROVE DOMAIN ses[s].w = {} /\ ses[s].todo = <<>>
  BY IdleFields DEF Init
<1>8. LockedFirst(<<>>, {})
  <2>1. DOMAIN <<>> = {}
    OBVIOUS
  <2> QED BY <2>1 DEF LockedFirst
<1>9. ASSUME NEW s \in Session PROVE Appends(ses[s], db, m)
  <2>1. PICK w : w = ses[s].w
    OBVIOUS
  <2>2. Numbered(w, m) /\ Follows(w, db)
    BY <1>7, <2>1, NothingWritten
  <2> QED BY <1>7, <1>8, <2>1, <2>2 DEF Appends
<1>10. LocksExclude
  BY <1>7 DEF LocksExclude
<1>11. m \in Nat
  BY <1>3, <1>4, <1>5
<1> HIDE DEF ids
<1> QED BY <1>2, <1>5, <1>6, <1>9, <1>10, <1>11, AppendInvIs

(* A writer holds the row of the incident before it numbers an update of it, *)
(* so that an uncommitted update follows every committed one of its incident. *)
THEOREM AppendsSound == Spec => []AppendInv
BY AppendInit, AppendKept, SessionsSound, PTL DEF Spec

(* UpdatesAppended: the history of an event grows at its end only, for any *)
(* number of sessions that patch, edit, move, reopen, fail and roll back.  *)
THEOREM HistoryOnlyGrows == Spec => UpdatesAppended
<1>1. Longer(db, db') => \A e \in Ids(db, "Incident") :
        /\ UpdateIds(db, e) \subseteq UpdateIds(db', e)
        /\ \A i \in UpdateIds(db, e), j \in UpdateIds(db', e) \ UpdateIds(db, e) : i < j
  BY DEF Longer
<1>2. db' = db => \A e \in Ids(db, "Incident") :
        /\ UpdateIds(db, e) \subseteq UpdateIds(db', e)
        /\ \A i \in UpdateIds(db, e), j \in UpdateIds(db', e) \ UpdateIds(db, e) : i < j
  OBVIOUS
<1>3. Sessions /\ AppendInv /\ [Next]_vars =>
        [\A e \in Ids(db, "Incident") :
           /\ UpdateIds(db, e) \subseteq UpdateIds(db', e)
           /\ \A i \in UpdateIds(db, e), j \in UpdateIds(db', e) \ UpdateIds(db, e) : i < j]_vars
  BY <1>1, <1>2, AppendKept
<1> QED BY <1>3, SessionsSound, AppendsSound, PTL DEF Spec, UpdatesAppended

-----------------------------------------------------------------------------
(* A component is committed with its attributes *)

LEMMA GoneEmpty == \A r : DOMAIN r # {} => r # Gone
<1>1. DOMAIN Gone = {}
  BY DEF Gone
<1> QED BY <1>1

(* A new attribute has its name and its component. *)
LEMMA NewAttributeIs ==
  ASSUME NEW name, NEW q, NEW c, NEW row, row = CreateRow("ComponentAttr", AttributeMutation(name, q, c), Now)
  PROVE  {"name", "component_id"} \subseteq DOMAIN row /\ row.name = name /\ row.component_id = c
<1>1. PICK c1, c2, c3 : /\ c1 = Set("name", name) /\ c2 = Set("value", IF name = "region" THEN q.region ELSE name)
                        /\ c3 = Set("component_id", c)
  OBVIOUS
<1>2. /\ c1.do = "Set" /\ c2.do = "Set" /\ c3.do = "Set" /\ c1.on = "name" /\ c2.on = "value"
      /\ c3.on = "component_id" /\ c1.with = name /\ c3.with = c
  BY <1>1 DEF Set
<1>3. PICK calls : calls = <<c1, c2, c3>>
  OBVIOUS
<1>4. DOMAIN calls = 1..3 /\ calls[1] = c1 /\ calls[2] = c2 /\ calls[3] = c3
  BY <1>3
<1>5. PICK m : m = AttributeMutation(name, q, c)
  OBVIOUS
<1>6. m = Build("ComponentAttr", calls)
  BY <1>1, <1>3, <1>5 DEF AttributeMutation
<1>7. \A k \in 1..3 : calls[k].do = "Set"
  BY <1>2, <1>4
<1>8. FieldsSet(m, calls, 3)
  BY <1>4, <1>6, <1>7, SetsBuild
<1>9. "name" \in DOMAIN m.set /\ m.set["name"] = name
  <2>1. 1 \in 1..3 /\ calls[1].on = "name" /\ \A i \in 1..3 : calls[i].on = calls[1].on => i <= 1
    BY <1>2, <1>4
  <2> QED BY <1>2, <1>4, <1>8, <2>1 DEF FieldsSet
<1>10. "component_id" \in DOMAIN m.set /\ m.set["component_id"] = c
  <2>1. 3 \in 1..3 /\ calls[3].on = "component_id" /\ \A i \in 1..3 : calls[i].on = calls[3].on => i <= 3
    BY <1>2, <1>4
  <2> QED BY <1>2, <1>4, <1>8, <2>1 DEF FieldsSet
<1>11. /\ {"name", "component_id"} \subseteq Schema["ComponentAttr"].table.columns
       /\ {"name", "component_id"} \subseteq CreateColumns("ComponentAttr")
  <2>1. PICK sc : sc = Schema["ComponentAttr"]
    OBVIOUS
  <2>2. /\ sc.table = ComponentAttributeTable /\ sc.create = ComponentAttrCreateSpec
    BY <2>1 DEF Schema
  <2>3. sc.table.columns = {"name", "value", "component_id"} /\ sc.create.fields = {"name", "value"}
    BY <2>2 DEF ComponentAttributeTable, ComponentAttrCreateSpec
  <2>4. PICK ed : ed = sc.create.edges
    OBVIOUS
  <2>5. ed = [component |-> <<"M2O", "Component", "component_id">>]
    BY <2>2, <2>4 DEF ComponentAttrCreateSpec
  <2>6. "component" \in DOMAIN ed /\ ed["component"][1] = "M2O" /\ ed["component"][3] = "component_id"
    BY <2>5
  <2>7. CreateColumns("ComponentAttr") = sc.create.fields \cup {ed[g][3] : g \in {g \in DOMAIN ed : ed[g][1] = "M2O"}}
    BY <2>1, <2>4 DEF CreateColumns
  <2>8. "component_id" \in {ed[g][3] : g \in {g \in DOMAIN ed : ed[g][1] = "M2O"}}
    BY <2>6
  <2> QED BY <2>1, <2>3, <2>7, <2>8
<1>12. /\ {"name", "component_id"} \subseteq DOMAIN Values("ComponentAttr", m)
       /\ Values("ComponentAttr", m)["name"] = name /\ Values("ComponentAttr", m)["component_id"] = c
  BY <1>9, <1>10 DEF Values, Over
<1> QED BY <1>5, <1>11, <1>12 DEF CreateRow, Inserted

LEMMA NewComponentIs ==
  ASSUME NEW m
  PROVE  CreateRow("Component", m, Now) # Gone
<1>1. "name" \in Schema["Component"].table.columns
  BY DEF Schema, ComponentTable
<1>2. "name" \in DOMAIN CreateRow("Component", m, Now)
  BY <1>1 DEF CreateRow
<1> QED BY <1>2, GoneEmpty

LEMMA RegisteredIs ==
  ASSUME NEW x
  PROVE  Registered(x) <=> \/ NoneRegistered(x.w) /\ Elsewhere(x.todo)
                           \/ NoneRegistered(x.w) /\ \E j \in 1..2 : Registers(x.todo, j)
                           \/ \E j \in 3..6 : Registers(x.todo, j) /\ PartOf(x, j)
BY DEF Registered, Elsewhere

(* The attributes of a component, by key and by id. *)
LEMMA AttributesIs ==
  ASSUME NEW v, NEW c, NEW a, Counted(v, c, a)
  PROVE  \A x : {v[<<"ComponentAttr", i>>].name :
                   i \in {i \in Ids(v, "ComponentAttr") : v[<<"ComponentAttr", i>>].component_id = x}}
                  = Attributes(v, x)
<1> SUFFICES ASSUME NEW x
             PROVE {v[<<"ComponentAttr", i>>].name :
                   i \in {i \in Ids(v, "ComponentAttr") : v[<<"ComponentAttr", i>>].component_id = x}}
                  = Attributes(v, x)
  OBVIOUS
<1>1. \A k \in Rows(v, "ComponentAttr") : k = <<"ComponentAttr", k[2]>>
  BY DEF Counted
<1>2. \A i \in Ids(v, "ComponentAttr") : <<"ComponentAttr", i>> \in Rows(v, "ComponentAttr")
  BY <1>1 DEF Ids, Rows
<1>3. \A k \in Rows(v, "ComponentAttr") : k[2] \in Ids(v, "ComponentAttr")
  BY DEF Ids, Rows
<1> QED BY <1>1, <1>2, <1>3 DEF Attributes

LEMMA WholeIs ==
  ASSUME NEW c, NEW a
  PROVE  /\ Counted(db, c, a) => (ComponentWhole <=> Whole(db))
         /\ Counted(db', c, a) => (ComponentWhole' <=> Whole(db'))
<1>1. ASSUME Counted(db, c, a) PROVE ComponentWhole <=> Whole(db)
  BY <1>1, AttributesIs DEF ComponentWhole, Whole
<1>2. ASSUME Counted(db', c, a) PROVE ComponentWhole' <=> Whole(db')
  BY <1>2, AttributesIs DEF ComponentWhole, Whole
<1> QED BY <1>1, <1>2

LEMMA WholeInvIs ==
  ASSUME NEW c, NEW a, c = seq["Component"], a = seq["ComponentAttr"]
  PROVE  WholeInv <=> /\ {"Component", "ComponentAttr"} \subseteq DOMAIN seq
                      /\ c \in Nat /\ a \in Nat /\ Counted(db, c, a) /\ Whole(db)
                      /\ \A s \in Session : Parts(ses[s], db, c, a)
BY WholeIs DEF WholeInv, Parts

LEMMA WholeInvNext ==
  ASSUME NEW c, NEW a, c = seq'["Component"], a = seq'["ComponentAttr"]
  PROVE  WholeInv' <=> /\ {"Component", "ComponentAttr"} \subseteq DOMAIN seq'
                       /\ c \in Nat /\ a \in Nat /\ Counted(db', c, a) /\ Whole(db')
                       /\ \A s \in Session : Parts(ses'[s], db', c, a)
BY WholeIs DEF WholeInv, Parts

LEMMA CountedMore ==
  ASSUME NEW f, NEW c \in Nat, NEW d \in Nat, c <= d, NEW a \in Nat, NEW b \in Nat, a <= b, Counted(f, c, a)
  PROVE  Counted(f, d, b)
<1>1. (\A i \in 1..c : i \in 1..d) /\ (\A i \in 1..a : i \in 1..b)
  OBVIOUS
<1> QED BY <1>1 DEF Counted

(* The steps of SaveComponent. *)
LEMMA RegisteringIs ==
  /\ DOMAIN Registering = 1..7
  /\ Registering[1] = <<"exists", 0>> /\ Registering[2] = <<"component", 0>>
  /\ Registering[3] = <<"attribute", 1>> /\ Registering[4] = <<"attribute", 2>>
  /\ Registering[5] = <<"attribute", 3>> /\ Registering[6] = <<"commit", 0>> /\ Registering[7] = <<"done", 0>>
BY DEF Registering

LEMMA RegistersTail ==
  ASSUME NEW t \in Seq(Steps), t # <<>>, NEW j \in 1..6, Registers(t, j)
  PROVE  Registers(Tail(t), j + 1) /\ t[1] = Registering[j]
<1>1. PICK u : u = Tail(t)
  OBVIOUS
<1>2. /\ Len(u) = Len(t) - 1 /\ DOMAIN u = 1..(Len(t) - 1) /\ Len(t) \in Nat \ {0}
      /\ \A i \in DOMAIN u : u[i] = t[i + 1]
  BY <1>1, TailIs
<1>3. Len(t) = 8 - j /\ \A i \in 1..(8 - j) : t[i] = Registering[i + j - 1]
  BY DEF Registers
<1>4. Len(u) = 8 - (j + 1)
  BY <1>2, <1>3
<1>5. ASSUME NEW i \in 1..(8 - (j + 1)) PROVE u[i] = Registering[i + (j + 1) - 1]
  <2>1. i \in DOMAIN u /\ i + 1 \in 1..(8 - j) /\ (i + 1) + j - 1 = i + (j + 1) - 1
    BY <1>2, <1>3
  <2> QED BY <1>2, <1>3, <2>1
<1>6. 1 \in 1..(8 - j) /\ 1 + j - 1 = j
  OBVIOUS
<1> QED BY <1>1, <1>3, <1>4, <1>5, <1>6 DEF Registers

LEMMA ElsewhereTail ==
  ASSUME NEW t \in Seq(Steps), t # <<>>, Elsewhere(t)
  PROVE  Elsewhere(Tail(t))
<1>1. PICK u : u = Tail(t)
  OBVIOUS
<1>2. /\ DOMAIN u = 1..(Len(t) - 1) /\ Len(t) \in Nat \ {0} /\ DOMAIN t = 1..Len(t)
      /\ \A i \in DOMAIN u : u[i] = t[i + 1]
  BY <1>1, TailIs
<1>3. \A i \in DOMAIN u : i + 1 \in DOMAIN t
  BY <1>2
<1> QED BY <1>1, <1>2, <1>3 DEF Elsewhere

(* Where the session is tells which part it has. *)
LEMMA PartAt ==
  ASSUME Sessions, NEW s \in Session, NEW n, At(s, n), Registered(ses[s]), NEW t, t = ses[s].todo
  PROVE  /\ t \in Seq(Steps) /\ t # <<>> /\ t[1][1] = n /\ Event(s) = t[1][2]
         /\ \/ NoneRegistered(ses[s].w) /\ Elsewhere(t) /\ n \notin {"component", "attribute"}
            \/ NoneRegistered(ses[s].w) /\ Registers(t, 1) /\ n = "exists"
            \/ NoneRegistered(ses[s].w) /\ Registers(t, 2) /\ n = "component"
            \/ \E j \in 3..5 : Registers(t, j) /\ PartOf(ses[s], j) /\ n = "attribute" /\ t[1][2] = j - 2
            \/ Registers(t, 6) /\ PartOf(ses[s], 6) /\ n = "commit"
<1>1. t \in Seq(Steps) /\ t # <<>> /\ 1 \in DOMAIN t /\ t[1][1] = n /\ Event(s) = t[1][2]
  BY AtIs
<1>2. CASE NoneRegistered(ses[s].w) /\ Elsewhere(t)
  BY <1>1, <1>2 DEF Elsewhere
<1>3. ASSUME NEW j \in 1..6, Registers(t, j)
      PROVE  /\ j = 1 => n = "exists"
             /\ j = 2 => n = "component"
             /\ j \in 3..5 => n = "attribute" /\ t[1][2] = j - 2
             /\ j = 6 => n = "commit"
  <2>1. t[1] = Registering[j]
    BY <1>1, <1>3, RegistersTail
  <2>2. CASE j = 1
    BY <1>1, <2>1, <2>2, RegisteringIs
  <2>3. CASE j = 2
    BY <1>1, <2>1, <2>3, RegisteringIs
  <2>4. CASE j = 3
    BY <1>1, <2>1, <2>4, RegisteringIs
  <2>5. CASE j = 4
    BY <1>1, <2>1, <2>5, RegisteringIs
  <2>6. CASE j = 5
    BY <1>1, <2>1, <2>6, RegisteringIs
  <2>7. CASE j = 6
    BY <1>1, <2>1, <2>7, RegisteringIs
  <2> QED BY <2>2, <2>3, <2>4, <2>5, <2>6, <2>7
<1>4. CASE NoneRegistered(ses[s].w) /\ \E j \in 1..2 : Registers(t, j)
  <2>1. PICK j \in 1..2 : Registers(t, j)
    BY <1>4
  <2>2. j \in 1..6 /\ (j = 1 \/ j = 2)
    OBVIOUS
  <2> QED BY <1>1, <1>3, <1>4, <2>1, <2>2
<1>5. CASE \E j \in 3..6 : Registers(t, j) /\ PartOf(ses[s], j)
  <2>1. PICK j \in 3..6 : Registers(t, j) /\ PartOf(ses[s], j)
    BY <1>5
  <2>2. j \in 1..6 /\ (j \in 3..5 \/ j = 6)
    OBVIOUS
  <2>3. CASE j \in 3..5
    BY <1>1, <1>3, <2>1, <2>2, <2>3
  <2>4. CASE j = 6
    BY <1>1, <1>3, <2>1, <2>2, <2>4
  <2> QED BY <2>2, <2>3, <2>4
<1>6. PICK x : x = ses[s]
  OBVIOUS
<1>7. Registered(x) /\ t = x.todo
  BY <1>6
<1>8. \/ NoneRegistered(x.w) /\ Elsewhere(t)
      \/ NoneRegistered(x.w) /\ \E j \in 1..2 : Registers(t, j)
      \/ \E j \in 3..6 : Registers(t, j) /\ PartOf(x, j)
  BY <1>7, RegisteredIs
<1> QED BY <1>2, <1>4, <1>5, <1>6, <1>8

(* What a handler does for an event registers nothing. *)
LEMMA ElsewherePatch ==
  ASSUME NEW e
  PROVE  Elsewhere(Patching(e)) /\ Elsewhere(Reopening(e))
<1>1. PICK t : t = Patching(e)
  OBVIOUS
<1>2. /\ DOMAIN t = 1..7
      /\ t[1] = <<"modify", e>> /\ t[2] = <<"insert", e>> /\ t[3] = <<"commit", e>>
      /\ t[4] = <<"row", e>> /\ t[5] = <<"components", e>> /\ t[6] = <<"statuses", e>>
      /\ t[7] = <<"answer", e>>
  BY <1>1 DEF Patching
<1>3. /\ t[1][1] = "modify" /\ t[2][1] = "insert" /\ t[3][1] = "commit" /\ t[4][1] = "row"
      /\ t[5][1] = "components" /\ t[6][1] = "statuses" /\ t[7][1] = "answer"
  BY <1>2
<1>4. Elsewhere(t)
  BY <1>2, <1>3 DEF Elsewhere
<1>5. PICK u : u = Reopening(e)
  OBVIOUS
<1>6. /\ DOMAIN u = 1..8
      /\ u[1] = <<"modify", e>> /\ u[2] = <<"insert", e>> /\ u[3] = <<"commit", e>>
      /\ u[4] = <<"reopen", e>> /\ u[5] = <<"row", e>> /\ u[6] = <<"components", e>>
      /\ u[7] = <<"statuses", e>> /\ u[8] = <<"answer", e>>
  BY <1>5 DEF Reopening
<1>7. /\ u[1][1] = "modify" /\ u[2][1] = "insert" /\ u[3][1] = "commit" /\ u[4][1] = "reopen"
      /\ u[5][1] = "row" /\ u[6][1] = "components" /\ u[7][1] = "statuses" /\ u[8][1] = "answer"
  BY <1>6
<1>8. Elsewhere(u)
  BY <1>6, <1>7 DEF Elsewhere
<1> QED BY <1>1, <1>4, <1>5, <1>8

LEMMA ElsewhereMove ==
  ASSUME NEW e, NEW f
  PROVE  Elsewhere(Moving(e, f)) /\ Elsewhere(MovingAway(e, f))
<1>1. PICK t : t = Moving(e, f)
  OBVIOUS
<1>2. /\ DOMAIN t = 1..8
      /\ t[1] = <<"save", f>> /\ t[2] = <<"link", f>> /\ t[3] = <<"insert", f>> /\ t[4] = <<"save", e>>
      /\ t[5] = <<"link", e>> /\ t[6] = <<"insert", e>> /\ t[7] = <<"commit", e>> /\ t[8] = <<"done", e>>
  BY <1>1 DEF Moving
<1>3. /\ t[1][1] = "save" /\ t[2][1] = "link" /\ t[3][1] = "insert" /\ t[4][1] = "save"
      /\ t[5][1] = "link" /\ t[6][1] = "insert" /\ t[7][1] = "commit" /\ t[8][1] = "done"
  BY <1>2
<1>4. Elsewhere(t)
  BY <1>2, <1>3 DEF Elsewhere
<1>5. PICK u : u = MovingAway(e, f)
  OBVIOUS
<1>6. /\ DOMAIN u = 1..9
      /\ u[1] = <<"unlink", e>> /\ u[2] = <<"save", f>> /\ u[3] = <<"link", f>>
      /\ u[4] = <<"insert", f>> /\ u[5] = <<"save", e>> /\ u[6] = <<"link", e>>
      /\ u[7] = <<"insert", e>> /\ u[8] = <<"commit", e>> /\ u[9] = <<"done", e>>
  BY <1>5 DEF MovingAway
<1>7. /\ u[1][1] = "unlink" /\ u[2][1] = "save" /\ u[3][1] = "link" /\ u[4][1] = "insert"
      /\ u[5][1] = "save" /\ u[6][1] = "link" /\ u[7][1] = "insert" /\ u[8][1] = "commit"
      /\ u[9][1] = "done"
  BY <1>6
<1>8. Elsewhere(u)
  BY <1>6, <1>7 DEF Elsewhere
<1> QED BY <1>1, <1>4, <1>5, <1>8

LEMMA ElsewhereProgram ==
  ASSUME NEW q \in Request
  PROVE  Elsewhere(Program(q)) \/ Registers(Program(q), 1)
<1>1. PICK t, e, f : t = Program(q) /\ e = q.e /\ f = q.f
  OBVIOUS
<1>2. CASE t = Getting(e)
  <2>1. /\ DOMAIN t = 1..4 /\ t[1] = <<"row", e>> /\ t[2] = <<"components", e>> /\ t[3] = <<"statuses", e>>
        /\ t[4] = <<"answer", e>>
    BY <1>2 DEF Getting
  <2>2. t[1][1] = "row" /\ t[2][1] = "components" /\ t[3][1] = "statuses" /\ t[4][1] = "answer"
    BY <2>1
  <2> QED BY <1>1, <2>1, <2>2 DEF Elsewhere
<1>3. CASE t = Checking(e)
  <2>1. /\ DOMAIN t = 1..4 /\ t[1] = <<"row", e>> /\ t[2] = <<"components", e>> /\ t[3] = <<"statuses", e>>
        /\ t[4] = <<"decide", e>>
    BY <1>3 DEF Checking
  <2>2. t[1][1] = "row" /\ t[2][1] = "components" /\ t[3][1] = "statuses" /\ t[4][1] = "decide"
    BY <2>1
  <2> QED BY <1>1, <2>1, <2>2 DEF Elsewhere
<1>4. CASE t = Editing(e)
  <2>1. /\ DOMAIN t = 1..7 /\ t[1] = <<"row", e>> /\ t[2] = <<"components", e>> /\ t[3] = <<"statuses", e>>
        /\ t[4] = <<"pick", e>> /\ t[5] = <<"updates", e>> /\ t[6] = <<"text", e>> /\ t[7] = <<"reread", e>>
    BY <1>4 DEF Editing
  <2>2. /\ t[1][1] = "row" /\ t[2][1] = "components" /\ t[3][1] = "statuses" /\ t[4][1] = "pick"
        /\ t[5][1] = "updates" /\ t[6][1] = "text" /\ t[7][1] = "reread"
    BY <2>1
  <2> QED BY <1>1, <2>1, <2>2 DEF Elsewhere
<1>5. CASE t = Preparing(e, f)
  <2>1. /\ DOMAIN t = 1..7 /\ t[1] = <<"row", e>> /\ t[2] = <<"components", e>> /\ t[3] = <<"statuses", e>>
        /\ t[4] = <<"row", f>> /\ t[5] = <<"components", f>> /\ t[6] = <<"statuses", f>>
        /\ t[7] = <<"prepare", e>>
    BY <1>5 DEF Preparing
  <2>2. /\ t[1][1] = "row" /\ t[2][1] = "components" /\ t[3][1] = "statuses" /\ t[4][1] = "row"
        /\ t[5][1] = "components" /\ t[6][1] = "statuses" /\ t[7][1] = "prepare"
    BY <2>1
  <2> QED BY <1>1, <2>1, <2>2 DEF Elsewhere
<1>6. CASE t = Registering
  <2>1. Len(t) = 7
    BY <1>6 DEF Registering
  <2>2. \A i \in 1..(8 - 1) : i + 1 - 1 = i
    OBVIOUS
  <2> QED BY <1>1, <1>6, <2>1, <2>2 DEF Registers
<1>7. CASE t = Extracting(e)
  <2>1. /\ DOMAIN t = 1..4 /\ t[1] = <<"row", e>> /\ t[2] = <<"components", e>> /\ t[3] = <<"statuses", e>>
        /\ t[4] = <<"extract", e>>
    BY <1>7 DEF Extracting
  <2>2. t[1][1] = "row" /\ t[2][1] = "components" /\ t[3][1] = "statuses" /\ t[4][1] = "extract"
    BY <2>1
  <2> QED BY <1>1, <2>1, <2>2 DEF Elsewhere
<1> QED BY <1>1, <1>2, <1>3, <1>4, <1>5, <1>6, <1>7, ProgramIs

(* A step that commits nothing, of a session whose own part is in order. *)
LEMMA WholeOne ==
  ASSUME WholeInv, NEW s \in Session, Others(s), db' = db, DOMAIN seq' = DOMAIN seq,
         seq'["Component"] \in Nat, seq["Component"] <= seq'["Component"],
         seq'["ComponentAttr"] \in Nat, seq["ComponentAttr"] <= seq'["ComponentAttr"],
         Parts(ses'[s], db', seq'["Component"], seq'["ComponentAttr"])
  PROVE  WholeInv'
<1>1. PICK c, a, d, b : c = seq["Component"] /\ a = seq["ComponentAttr"] /\ d = seq'["Component"] /\ b = seq'["ComponentAttr"]
  OBVIOUS
<1>2. /\ {"Component", "ComponentAttr"} \subseteq DOMAIN seq
      /\ c \in Nat /\ a \in Nat /\ Counted(db, c, a) /\ Whole(db)
      /\ \A t \in Session : Parts(ses[t], db, c, a)
  BY <1>1, WholeInvIs
<1>3. d \in Nat /\ b \in Nat /\ c <= d /\ a <= b /\ Parts(ses'[s], db', d, b)
  BY <1>1
<1>4. Counted(db', d, b) /\ Whole(db')
  BY <1>2, <1>3, CountedMore
<1>5. ASSUME NEW t \in Session PROVE Parts(ses'[t], db', d, b)
  <2>1. CASE t = s
    BY <1>3, <2>1
  <2>2. CASE t # s
    <3>1. ses'[t] = ses[t]
      BY <2>2 DEF Others
    <3>2. PICK w : w = ses[t].w
      OBVIOUS
    <3>3. Counted(w, d, b)
      BY <1>2, <1>3, <3>2, CountedMore DEF Parts
    <3> QED BY <1>2, <3>1, <3>2, <3>3 DEF Parts
  <2> QED BY <2>1, <2>2
<1> QED BY <1>1, <1>2, <1>3, <1>4, <1>5, WholeInvNext

LEMMA NonePart ==
  ASSUME NEW x, NoneRegistered(x.w), NEW v, NEW c, NEW a,
         Elsewhere(x.todo) \/ Registers(x.todo, 1) \/ Registers(x.todo, 2)
  PROVE  Parts(x, v, c, a)
<1>1. Registered(x)
  <2>1. 1 \in 1..2 /\ 2 \in 1..2
    OBVIOUS
  <2> QED BY <2>1, RegisteredIs
<1>2. Counted(x.w, c, a)
  BY DEF NoneRegistered, Counted
<1>3. Apart(x.w, v)
  BY DEF NoneRegistered, Apart, Rows
<1> QED BY <1>1, <1>2, <1>3 DEF Parts

(* A session without a component under way. *)
LEMMA WholeNone ==
  ASSUME WholeInv, NEW s \in Session, Others(s), db' = db, DOMAIN seq' = DOMAIN seq,
         seq'["Component"] = seq["Component"], seq'["ComponentAttr"] = seq["ComponentAttr"],
         NoneRegistered(ses'[s].w),
         Elsewhere(ses'[s].todo) \/ Registers(ses'[s].todo, 1) \/ Registers(ses'[s].todo, 2)
  PROVE  WholeInv'
<1>1. PICK x : x = ses'[s]
  OBVIOUS
<1>2. Parts(x, db', seq'["Component"], seq'["ComponentAttr"])
  BY <1>1, NonePart
<1>3. seq["Component"] \in Nat /\ seq["ComponentAttr"] \in Nat
  BY DEF WholeInv
<1>4. /\ seq'["Component"] \in Nat /\ seq["Component"] <= seq'["Component"]
      /\ seq'["ComponentAttr"] \in Nat /\ seq["ComponentAttr"] <= seq'["ComponentAttr"]
  BY <1>3
<1> QED BY <1>1, <1>2, <1>4, WholeOne

LEMMA WholeAnswered ==
  ASSUME WholeInv, NEW s \in Session, Answered(s), db' = db, seq' = seq
  PROVE  WholeInv'
<1>1. DOMAIN <<>> = {}
  OBVIOUS
<1>2. Elsewhere(<<>>)
  BY <1>1 DEF Elsewhere
<1>3. NoneRegistered(ses'[s].w)
  BY DEF Answered, NoneRegistered, Rows
<1> QED BY <1>2, <1>3, WholeNone DEF Answered

LEMMA WholeRead ==
  ASSUME Sessions, WholeInv, NEW s \in Session, NEW n, At(s, n),
         n \notin {"component", "attribute", "commit"}, Read(s)
  PROVE  WholeInv'
<1>1. PICK t : t = ses[s].todo
  OBVIOUS
<1>2. Registered(ses[s])
  BY DEF WholeInv
<1>3. /\ t \in Seq(Steps) /\ t # <<>> /\ NoneRegistered(ses[s].w)
      /\ Elsewhere(t) \/ Registers(t, 1)
  BY <1>1, <1>2, PartAt
<1>4. Elsewhere(Tail(t)) \/ Registers(Tail(t), 2)
  <2>1. CASE Elsewhere(t)
    BY <1>3, <2>1, ElsewhereTail
  <2>2. CASE Registers(t, 1)
    <3>1. 1 \in 1..6 /\ 1 + 1 = 2
      OBVIOUS
    <3> QED BY <1>3, <2>2, <3>1, RegistersTail
  <2> QED BY <1>3, <2>1, <2>2
<1>5. ses'[s].todo = Tail(t) /\ ses'[s].w = ses[s].w /\ Others(s) /\ db' = db /\ seq' = seq
  BY <1>1 DEF Read, Same
<1> QED BY <1>3, <1>4, <1>5, WholeNone

(* Rows of other tables. *)
LEMMA WholeWrote ==
  ASSUME Sessions, WholeInv, NEW s \in Session, NEW n, At(s, n),
         n \notin {"exists", "component", "attribute", "commit"}, NEW rows, Wrote(s, rows),
         \A k \in DOMAIN rows : k[1] \notin {"Component", "ComponentAttr"}, DOMAIN seq' = DOMAIN seq,
         seq'["Component"] = seq["Component"], seq'["ComponentAttr"] = seq["ComponentAttr"]
  PROVE  WholeInv'
<1>1. PICK t, w, x : t = ses[s].todo /\ w = ses[s].w /\ x = Over(rows, w)
  OBVIOUS
<1>2. Registered(ses[s])
  BY DEF WholeInv
<1>3. t \in Seq(Steps) /\ t # <<>> /\ NoneRegistered(w) /\ Elsewhere(t)
  BY <1>1, <1>2, PartAt
<1>4. Elsewhere(Tail(t))
  BY <1>3, ElsewhereTail
<1>5. ses'[s].todo = Tail(t) /\ ses'[s].w = x /\ Others(s) /\ db' = db
  BY <1>1 DEF Wrote
<1>6. DOMAIN x = DOMAIN rows \cup DOMAIN w
  BY <1>1, OverIs
<1>7. NoneRegistered(x)
  BY <1>3, <1>6 DEF NoneRegistered, Rows
<1> QED BY <1>4, <1>5, <1>7, WholeNone

(* INSERT of the component ... *)
LEMMA WholeCreate ==
  ASSUME Sessions, WholeInv, NEW s \in Session, CreateComponent(s)
  PROVE  WholeInv'
<1>1. PICK c, a, t, w, row, key, rows, x, y :
        /\ c = seq["Component"] /\ a = seq["ComponentAttr"] /\ t = ses[s].todo /\ w = ses[s].w
        /\ row = CreateRow("Component", ComponentMutation(ses[s].req), Now)
        /\ key = <<"Component", c + 1>> /\ rows = Entry(key, row) /\ x = Over(rows, w) /\ y = ses'[s]
  OBVIOUS
<1>2. At(s, "component") /\ Wrote(s, rows) /\ seq' = [seq EXCEPT !["Component"] = c + 1] /\ y.target = c + 1
  BY <1>1, CreateComponentIs
<1>3. Others(s) /\ db' = db /\ y.todo = Tail(t) /\ y.w = x
  BY <1>1, <1>2 DEF Wrote
<1>4. /\ {"Component", "ComponentAttr"} \subseteq DOMAIN seq /\ c \in Nat /\ a \in Nat
      /\ Counted(db, c, a) /\ Registered(ses[s])
  BY <1>1, WholeInvIs DEF Parts
<1>5. t \in Seq(Steps) /\ t # <<>> /\ NoneRegistered(w) /\ Registers(t, 2)
  BY <1>1, <1>2, <1>4, PartAt
<1>6. Registers(y.todo, 3)
  <2>1. 2 \in 1..6 /\ 2 + 1 = 3
    OBVIOUS
  <2> QED BY <1>3, <1>5, <2>1, RegistersTail
<1>7. seq'["Component"] = c + 1 /\ seq'["ComponentAttr"] = a /\ DOMAIN seq' = DOMAIN seq
  BY <1>1, <1>2, <1>4
<1>8. DOMAIN x = {key} \cup DOMAIN w /\ x[key] = row /\ row # Gone
  BY <1>1, NewComponentIs DEF Over, Entry
<1>9. key[1] = "Component" /\ key[2] = c + 1 /\ key = <<"Component", key[2]>>
  BY <1>1
<1>10. Rows(x, "Component") = {key} /\ Rows(x, "ComponentAttr") = {}
  BY <1>5, <1>8, <1>9 DEF NoneRegistered, Rows
<1>11. PartOf(y, 3)
  <2>1. key = <<"Component", y.target>>
    BY <1>1, <1>2
  <2>2. {Attribute[i] : i \in 1..(3 - 3)} = {}
    OBVIOUS
  <2>3. Attributes(x, y.target) = {}
    BY <1>10 DEF Attributes
  <2> QED BY <1>3, <1>8, <1>10, <2>1, <2>2, <2>3 DEF PartOf
<1>12. Registered(y)
  <2>1. 3 \in 3..6
    OBVIOUS
  <2> QED BY <1>6, <1>11, <2>1, RegisteredIs
<1>13. c + 1 \in 1..(c + 1) /\ c + 1 \notin 1..c /\ c + 1 \in Nat /\ c <= c + 1
  BY <1>4
<1>14. Counted(x, c + 1, a)
  BY <1>9, <1>10, <1>13 DEF Counted
<1>15. Apart(x, db)
  <2>1. key \notin DOMAIN db
    BY <1>4, <1>9, <1>13 DEF Counted, Rows
  <2>2. ASSUME NEW k \in Rows(db, "ComponentAttr") PROVE <<"Component", db[k].component_id>> \notin DOMAIN x
    <3>1. PICK i : i = db[k].component_id
      OBVIOUS
    <3>2. i \in 1..c
      BY <1>4, <3>1 DEF Counted
    <3>3. <<"Component", i>> # key /\ <<"Component", i>>[1] = "Component"
      BY <1>9, <1>13, <3>2
    <3>4. <<"Component", i>> \notin DOMAIN w
      BY <1>5, <3>3 DEF NoneRegistered, Rows
    <3> QED BY <1>8, <3>1, <3>3, <3>4
  <2> QED BY <1>10, <2>1, <2>2 DEF Apart
<1>16. Parts(y, db', seq'["Component"], seq'["ComponentAttr"])
  BY <1>3, <1>7, <1>12, <1>14, <1>15 DEF Parts
<1>17. /\ seq'["Component"] \in Nat /\ seq["Component"] <= seq'["Component"]
       /\ seq'["ComponentAttr"] \in Nat /\ seq["ComponentAttr"] <= seq'["ComponentAttr"]
  BY <1>1, <1>4, <1>7, <1>13
<1> QED BY <1>1, <1>3, <1>7, <1>16, <1>17, WholeOne

(* ... and of each attribute. *)
LEMMA WholeAttribute ==
  ASSUME Sessions, WholeInv, NEW s \in Session, CreateAttribute(s)
  PROVE  WholeInv'
<1>1. PICK c, a, t, w, name, row, key, rows, x, y, own :
        /\ c = seq["Component"] /\ a = seq["ComponentAttr"] /\ t = ses[s].todo /\ w = ses[s].w
        /\ name = Attribute[Event(s)]
        /\ row = CreateRow("ComponentAttr", AttributeMutation(name, ses[s].req, ses[s].target), Now)
        /\ key = <<"ComponentAttr", a + 1>> /\ rows = Entry(key, row) /\ x = Over(rows, w) /\ y = ses'[s]
        /\ own = ses[s].target
  OBVIOUS
<1>2. /\ At(s, "attribute") /\ Wrote(s, rows) /\ seq' = [seq EXCEPT !["ComponentAttr"] = a + 1]
      /\ y.target = own
  BY <1>1, CreateAttributeIs
<1>3. Others(s) /\ db' = db /\ y.todo = Tail(t) /\ y.w = x
  BY <1>1, <1>2 DEF Wrote
<1>4. /\ {"Component", "ComponentAttr"} \subseteq DOMAIN seq /\ c \in Nat /\ a \in Nat
      /\ Counted(db, c, a) /\ Registered(ses[s]) /\ Counted(w, c, a) /\ Apart(w, db)
  BY <1>1, WholeInvIs DEF Parts
<1>5. /\ t \in Seq(Steps) /\ t # <<>> /\ Event(s) = t[1][2]
      /\ \E j \in 3..5 : Registers(t, j) /\ PartOf(ses[s], j) /\ t[1][2] = j - 2
  BY <1>1, <1>2, <1>4, PartAt
<1>6. PICK j \in 3..5 : Registers(t, j) /\ PartOf(ses[s], j) /\ t[1][2] = j - 2
  BY <1>5
<1>7. name = Attribute[j - 2]
  BY <1>1, <1>5, <1>6
<1>8. PICK ck : ck = <<"Component", own>>
  OBVIOUS
<1>9. /\ Rows(w, "Component") = {ck} /\ w[ck] # Gone
      /\ \A k \in Rows(w, "ComponentAttr") : w[k].component_id = own
      /\ Attributes(w, own) = {Attribute[i] : i \in 1..(j - 3)}
  BY <1>1, <1>6, <1>8 DEF PartOf
<1>10. {"name", "component_id"} \subseteq DOMAIN row /\ row.name = name /\ row.component_id = own
  BY <1>1, NewAttributeIs
<1>11. Registers(y.todo, j + 1)
  <2>1. j \in 1..6
    OBVIOUS
  <2> QED BY <1>3, <1>5, <1>6, <2>1, RegistersTail
<1>12. seq'["Component"] = c /\ seq'["ComponentAttr"] = a + 1 /\ DOMAIN seq' = DOMAIN seq
  BY <1>1, <1>2, <1>4
<1>13. key[1] = "ComponentAttr" /\ key[2] = a + 1 /\ key = <<"ComponentAttr", key[2]>>
  BY <1>1
<1>14. a + 1 \in 1..(a + 1) /\ a + 1 \notin 1..a /\ a + 1 \in Nat /\ a <= a + 1
  BY <1>4
<1>15. key \notin DOMAIN w /\ key \notin DOMAIN db
  BY <1>4, <1>13, <1>14 DEF Counted, Rows
<1>16. DOMAIN x = {key} \cup DOMAIN w /\ x[key] = row /\ \A k \in DOMAIN w : x[k] = w[k]
  BY <1>1, <1>15 DEF Over, Entry
<1>17. Rows(x, "Component") = {ck} /\ Rows(x, "ComponentAttr") = {key} \cup Rows(w, "ComponentAttr")
  BY <1>9, <1>13, <1>16 DEF Rows
<1>18. ck \in DOMAIN w /\ x[ck] # Gone /\ own \in 1..c
  <2>1. ck \in DOMAIN w /\ ck[2] = own
    BY <1>8, <1>9 DEF Rows
  <2>2. own \in 1..c
    BY <1>4, <1>9, <2>1 DEF Counted
  <2> QED BY <1>9, <1>16, <2>1, <2>2
<1>19. \A k \in Rows(w, "ComponentAttr") : x[k] = w[k]
  BY <1>16 DEF Rows
<1>20. \A k \in Rows(x, "ComponentAttr") : x[k].component_id = own
  BY <1>9, <1>10, <1>16, <1>17, <1>19
<1>21. Attributes(x, own) = {Attribute[i] : i \in 1..((j + 1) - 3)}
  <2>1. Attributes(x, own) = {name} \cup Attributes(w, own)
    <3>1. Attributes(x, own) = {x[k].name : k \in {key} \cup Rows(w, "ComponentAttr")}
      BY <1>17, <1>20 DEF Attributes
    <3>2. Attributes(w, own) = {w[k].name : k \in Rows(w, "ComponentAttr")}
      BY <1>9 DEF Attributes
    <3>3. x[key].name = name
      BY <1>10, <1>16
    <3> QED BY <1>19, <3>1, <3>2, <3>3
  <2>2. 1..((j + 1) - 3) = {j - 2} \cup 1..(j - 3)
    OBVIOUS
  <2> QED BY <1>7, <1>9, <2>1, <2>2
<1>22. PartOf(y, j + 1)
  BY <1>2, <1>3, <1>8, <1>17, <1>18, <1>20, <1>21 DEF PartOf
<1>23. Registered(y)
  <2>1. PICK i \in 3..6 : i = j + 1
    OBVIOUS
  <2> QED BY <1>11, <1>22, <2>1, RegisteredIs
<1>24. Counted(x, c, a + 1)
  <2>1. Counted(w, c, a + 1)
    <3>1. c <= c
      BY <1>4
    <3> QED BY <1>4, <1>14, <3>1, CountedMore
  <2>2. ASSUME NEW k \in Rows(x, "Component") PROVE k = <<"Component", k[2]>> /\ k[2] \in 1..c
    BY <1>9, <1>17, <2>1 DEF Counted
  <2>3. ASSUME NEW k \in Rows(x, "ComponentAttr")
        PROVE  /\ k = <<"ComponentAttr", k[2]>> /\ k[2] \in 1..(a + 1)
               /\ {"name", "component_id"} \subseteq DOMAIN x[k] /\ x[k].component_id \in 1..c
    <3>1. CASE k = key
      BY <1>10, <1>13, <1>14, <1>16, <1>18, <3>1
    <3>2. CASE k # key
      <4>1. k \in Rows(w, "ComponentAttr") /\ x[k] = w[k]
        BY <1>17, <1>19, <3>2
      <4> QED BY <2>1, <4>1 DEF Counted
    <3> QED BY <3>1, <3>2
  <2> QED BY <2>2, <2>3 DEF Counted
<1>25. Apart(x, db)
  <2>1. \A k \in Rows(x, "Component") \cup Rows(x, "ComponentAttr") : k \notin DOMAIN db
    BY <1>4, <1>9, <1>15, <1>17 DEF Apart
  <2>2. ASSUME NEW k \in Rows(db, "ComponentAttr") PROVE <<"Component", db[k].component_id>> \notin DOMAIN x
    <3>1. PICK i : i = <<"Component", db[k].component_id>>
      OBVIOUS
    <3>2. i \notin DOMAIN w /\ i[1] = "Component"
      BY <1>4, <3>1 DEF Apart
    <3> QED BY <1>13, <1>16, <3>1, <3>2
  <2> QED BY <2>1, <2>2 DEF Apart
<1>26. Parts(y, db', seq'["Component"], seq'["ComponentAttr"])
  BY <1>3, <1>12, <1>23, <1>24, <1>25 DEF Parts
<1>27. /\ seq'["Component"] \in Nat /\ seq["Component"] <= seq'["Component"]
       /\ seq'["ComponentAttr"] \in Nat /\ seq["ComponentAttr"] <= seq'["ComponentAttr"]
  BY <1>1, <1>4, <1>12, <1>14
<1> QED BY <1>1, <1>3, <1>12, <1>26, <1>27, WholeOne

LEMMA OverlaySame ==
  ASSUME NEW v, NEW rows, \A k \in DOMAIN rows : k[1] \notin {"Component", "ComponentAttr"}
  PROVE  SameRegistry(v, Overlay(v, rows))
<1>1. PICK x : x = Overlay(v, rows)
  OBVIOUS
<1>2. /\ \A k \in DOMAIN x : k \in DOMAIN v \/ k \in DOMAIN rows
      /\ \A k \in DOMAIN v \ DOMAIN rows : k \in DOMAIN x /\ x[k] = v[k]
  BY <1>1 DEF Overlay
<1>3. ASSUME NEW n \in {"Component", "ComponentAttr"}
      PROVE  Rows(x, n) = Rows(v, n) /\ \A k \in Rows(v, n) : x[k] = v[k]
  <2>1. \A k \in Rows(v, n) : k \in DOMAIN v \ DOMAIN rows
    BY <1>3 DEF Rows
  <2>2. \A k \in Rows(x, n) : k \in DOMAIN v
    BY <1>2, <1>3 DEF Rows
  <2> QED BY <1>2, <2>1, <2>2 DEF Rows
<1> QED BY <1>1, <1>3 DEF SameRegistry

LEMMA WholeStored ==
  ASSUME WholeInv, NEW s \in Session, Others(s), seq' = seq, SameRegistry(db, db'),
         NoneRegistered(ses'[s].w), Elsewhere(ses'[s].todo)
  PROVE  WholeInv'
<1>1. PICK c, a : c = seq["Component"] /\ a = seq["ComponentAttr"]
  OBVIOUS
<1>2. /\ {"Component", "ComponentAttr"} \subseteq DOMAIN seq /\ c \in Nat /\ a \in Nat
      /\ Counted(db, c, a) /\ Whole(db) /\ \A t \in Session : Parts(ses[t], db, c, a)
  BY <1>1, WholeInvIs
<1>3. /\ Rows(db', "Component") = Rows(db, "Component") /\ Rows(db', "ComponentAttr") = Rows(db, "ComponentAttr")
      /\ \A k \in Rows(db, "ComponentAttr") : db'[k] = db[k]
  BY DEF SameRegistry
<1>4. Counted(db', c, a)
  BY <1>2, <1>3 DEF Counted
<1>5. Whole(db')
  <2>1. Ids(db', "Component") = Ids(db, "Component")
    BY <1>3 DEF Ids, Rows
  <2>2. \A i : Attributes(db', i) = Attributes(db, i)
    BY <1>3 DEF Attributes
  <2> QED BY <1>2, <2>1, <2>2 DEF Whole
<1>6. ASSUME NEW t \in Session PROVE Parts(ses'[t], db', c, a)
  <2>1. CASE t = s
    <3>1. PICK y : y = ses'[s]
      OBVIOUS
    <3> QED BY <2>1, <3>1, NonePart
  <2>2. CASE t # s
    <3>1. ses'[t] = ses[t] /\ Parts(ses[t], db, c, a)
      BY <1>2, <2>2 DEF Others
    <3>2. PICK w : w = ses[t].w
      OBVIOUS
    <3>3. Apart(w, db)
      BY <3>1, <3>2 DEF Parts
    <3>4. Apart(w, db')
      BY <1>3, <3>3 DEF Apart, Rows
    <3> QED BY <3>1, <3>2, <3>4 DEF Parts
  <2> QED BY <2>1, <2>2
<1> QED BY <1>1, <1>2, <1>4, <1>5, <1>6, WholeInvNext

(* The commit of a component adds it with the three attributes. *)
LEMMA WholeCommitted ==
  ASSUME NEW v, NEW c, NEW a, Counted(v, c, a), Whole(v), NEW x, Counted(x.w, c, a), Apart(x.w, v), PartOf(x, 6)
  PROVE  /\ Counted(Overlay(v, x.w), c, a) /\ Whole(Overlay(v, x.w))
         /\ \A n \in {"Component", "ComponentAttr"} : Rows(Overlay(v, x.w), n) = Rows(v, n) \cup Rows(x.w, n)
         /\ \A k \in Rows(v, "ComponentAttr") : Overlay(v, x.w)[k] = v[k]
         /\ \A k \in Rows(x.w, "ComponentAttr") : Overlay(v, x.w)[k].component_id = x.target
<1>1. PICK w, z, own, key : w = x.w /\ z = Overlay(v, w) /\ own = x.target /\ key = <<"Component", own>>
  OBVIOUS
<1>2. /\ Rows(w, "Component") = {key} /\ w[key] # Gone
      /\ \A k \in Rows(w, "ComponentAttr") : w[k].component_id = own
      /\ Attributes(w, own) = {Attribute[i] : i \in 1..(6 - 3)}
  BY <1>1 DEF PartOf
<1>3. Counted(w, c, a) /\ Apart(w, v)
  BY <1>1
<1>4. \A k \in Rows(w, "ComponentAttr") : w[k] # Gone
  BY <1>3, GoneEmpty DEF Counted
<1>5. /\ DOMAIN z = {k \in DOMAIN v \cup DOMAIN w : k \in DOMAIN w => w[k] # Gone}
      /\ \A k \in DOMAIN z : z[k] = IF k \in DOMAIN w THEN w[k] ELSE v[k]
  BY <1>1 DEF Overlay
<1>6. \A k \in Rows(v, "Component") \cup Rows(v, "ComponentAttr") : k \notin DOMAIN w
  BY <1>3 DEF Apart, Rows
<1>7. Rows(z, "Component") = Rows(v, "Component") \cup Rows(w, "Component")
  <2>1. \A k \in Rows(z, "Component") : k \in Rows(v, "Component") \cup Rows(w, "Component")
    BY <1>5 DEF Rows
  <2>2. \A k \in Rows(v, "Component") : k \in DOMAIN z
    BY <1>5, <1>6 DEF Rows
  <2>3. \A k \in Rows(w, "Component") : k \in DOMAIN z
    BY <1>2, <1>5 DEF Rows
  <2> QED BY <2>1, <2>2, <2>3 DEF Rows
<1>8. Rows(z, "ComponentAttr") = Rows(v, "ComponentAttr") \cup Rows(w, "ComponentAttr")
  <2>1. \A k \in Rows(z, "ComponentAttr") : k \in Rows(v, "ComponentAttr") \cup Rows(w, "ComponentAttr")
    BY <1>5 DEF Rows
  <2>2. \A k \in Rows(v, "ComponentAttr") : k \in DOMAIN z
    BY <1>5, <1>6 DEF Rows
  <2>3. \A k \in Rows(w, "ComponentAttr") : k \in DOMAIN z
    BY <1>4, <1>5 DEF Rows
  <2> QED BY <2>1, <2>2, <2>3 DEF Rows
<1>9. \A k \in Rows(v, "ComponentAttr") : z[k] = v[k]
  BY <1>5, <1>6, <1>8 DEF Rows
<1>10. \A k \in Rows(w, "ComponentAttr") : z[k] = w[k]
  BY <1>5, <1>8 DEF Rows
<1>11. Counted(z, c, a)
  <2>1. \A k \in Rows(z, "Component") : k = <<"Component", k[2]>> /\ k[2] \in 1..c
    BY <1>3, <1>7 DEF Counted
  <2>2. ASSUME NEW k \in Rows(z, "ComponentAttr")
        PROVE  /\ k = <<"ComponentAttr", k[2]>> /\ k[2] \in 1..a
               /\ {"name", "component_id"} \subseteq DOMAIN z[k] /\ z[k].component_id \in 1..c
    <3>1. CASE k \in Rows(v, "ComponentAttr")
      BY <1>9, <3>1 DEF Counted
    <3>2. CASE k \in Rows(w, "ComponentAttr")
      BY <1>3, <1>10, <3>2 DEF Counted
    <3> QED BY <1>8, <3>1, <3>2
  <2> QED BY <2>1, <2>2 DEF Counted
<1>12. ASSUME NEW i \in Ids(z, "Component") PROVE Attributes(z, i) = Range(Attribute)
  <2>1. PICK k \in Rows(z, "Component") : k[2] = i
    BY DEF Ids, Rows
  <2>2. CASE k \in Rows(v, "Component")
    <3>1. i \in Ids(v, "Component") /\ k = <<"Component", i>>
      BY <2>1, <2>2 DEF Ids, Rows, Counted
    <3>2. i # own
      BY <1>1, <1>2, <1>3, <2>2, <3>1 DEF Apart, Rows
    <3>3. \A h \in Rows(w, "ComponentAttr") : z[h].component_id # i
      BY <1>2, <1>10, <3>2
    <3>4. Attributes(z, i) = Attributes(v, i)
      BY <1>8, <1>9, <3>3 DEF Attributes
    <3> QED BY <3>1, <3>4 DEF Whole
  <2>3. CASE k \in Rows(w, "Component")
    <3>1. i = own
      BY <1>1, <1>2, <2>1, <2>3
    <3>2. \A h \in Rows(v, "ComponentAttr") : z[h].component_id # i
      <4>1. key \in DOMAIN w
        BY <1>2 DEF Rows
      <4> QED BY <1>1, <1>3, <1>9, <3>1, <4>1 DEF Apart
    <3>3. Attributes(z, i) = Attributes(w, i)
      BY <1>8, <1>10, <3>2 DEF Attributes
    <3>4. Range(Attribute) = {Attribute[n] : n \in 1..(6 - 3)}
      <4>1. DOMAIN Attribute = 1..(6 - 3)
        BY DEF Attribute
      <4> QED BY <4>1 DEF Range
    <3> QED BY <1>2, <3>1, <3>3, <3>4
  <2> QED BY <1>7, <2>1, <2>2, <2>3
<1>13. \A k \in Rows(w, "ComponentAttr") : z[k].component_id = own
  BY <1>2, <1>10
<1> QED BY <1>1, <1>7, <1>8, <1>9, <1>11, <1>12, <1>13 DEF Whole

LEMMA WholeCommit ==
  ASSUME Sessions, LocksExclude, WholeInv, NEW s \in Session, Commit(s)
  PROVE  WholeInv'
<1>1. PICK c, a, x, t, w : /\ c = seq["Component"] /\ a = seq["ComponentAttr"] /\ x = ses[s] /\ t = ses[s].todo
                           /\ w = ses[s].w
  OBVIOUS
<1>2. /\ At(s, "commit") /\ db' = Overlay(db, w) /\ seq' = seq /\ Others(s) /\ ses'[s].todo = Tail(t)
      /\ DOMAIN ses'[s].w = {}
  BY <1>1, CommitIs
<1>3. /\ {"Component", "ComponentAttr"} \subseteq DOMAIN seq /\ c \in Nat /\ a \in Nat
      /\ Counted(db, c, a) /\ Whole(db) /\ \A u \in Session : Parts(ses[u], db, c, a)
  BY <1>1, WholeInvIs
<1>4. Counted(w, c, a) /\ Apart(w, db) /\ Registered(ses[s])
  BY <1>1, <1>3 DEF Parts
<1>5. NoneRegistered(ses'[s].w)
  BY <1>2 DEF NoneRegistered, Rows
<1>6. /\ t \in Seq(Steps) /\ t # <<>>
      /\ \/ NoneRegistered(w) /\ Elsewhere(t)
         \/ Registers(t, 6) /\ PartOf(x, 6)
  BY <1>1, <1>2, <1>4, PartAt
<1>7. CASE NoneRegistered(w) /\ Elsewhere(t)
  <2>1. \A k \in DOMAIN w : k[1] \notin {"Component", "ComponentAttr"}
    BY <1>7 DEF NoneRegistered, Rows
  <2>2. SameRegistry(db, db')
    BY <1>2, <2>1, OverlaySame
  <2>3. Elsewhere(Tail(t))
    BY <1>6, <1>7, ElsewhereTail
  <2> QED BY <1>2, <1>5, <2>2, <2>3, WholeStored
<1>8. CASE Registers(t, 6) /\ PartOf(x, 6)
  <2>0. Counted(x.w, c, a) /\ Apart(x.w, db) /\ db' = Overlay(db, x.w) /\ w = x.w
    BY <1>1, <1>2, <1>4
  <2>1. /\ Counted(db', c, a) /\ Whole(db')
        /\ \A n \in {"Component", "ComponentAttr"} : Rows(db', n) = Rows(db, n) \cup Rows(w, n)
        /\ \A k \in Rows(db, "ComponentAttr") : db'[k] = db[k]
        /\ \A k \in Rows(w, "ComponentAttr") : db'[k].component_id = x.target
    BY <1>3, <1>8, <2>0, WholeCommitted
  <2>2. <<"Component", x.target>> \in DOMAIN w
    BY <1>8, <2>0 DEF PartOf, Rows
  <2>3. Elsewhere(Tail(t))
    <3>1. Registers(Tail(t), 7)
      <4>1. 6 \in 1..6 /\ 6 + 1 = 7
        OBVIOUS
      <4> QED BY <1>6, <1>8, <4>1, RegistersTail
    <3>2. PICK y : y = Tail(t)
      OBVIOUS
    <3>3. Len(y) = 1 /\ DOMAIN y = 1..Len(y)
      BY <1>6, <3>1, <3>2, TailIs DEF Registers
    <3>4. y[1] = <<"done", 0>>
      <4>1. 1 \in 1..(8 - 7) /\ 1 + 7 - 1 = 7
        OBVIOUS
      <4> QED BY <3>1, <3>2, <4>1, RegisteringIs DEF Registers
    <3>5. \A i \in DOMAIN y : y[i][1] = "done"
      BY <3>3, <3>4
    <3> QED BY <3>2, <3>5 DEF Elsewhere
  <2>4. ASSUME NEW u \in Session PROVE Parts(ses'[u], db', c, a)
    <3>1. CASE u = s
      <4>1. PICK y : y = ses'[s]
        OBVIOUS
      <4> QED BY <1>2, <1>5, <2>3, <3>1, <4>1, NonePart
    <3>2. CASE u # s
      <4>1. PICK y : y = ses[u].w
        OBVIOUS
      <4>2. /\ ses'[u] = ses[u] /\ Parts(ses[u], db, c, a) /\ Apart(y, db)
            /\ DOMAIN y \cap DOMAIN w = {}
        BY <1>1, <1>2, <1>3, <3>2, <4>1 DEF Others, Parts, LocksExclude
      <4>3. \A k \in Rows(y, "Component") : k \notin DOMAIN db'
        BY <2>1, <4>2 DEF Apart, Rows
      <4>4. \A k \in Rows(y, "ComponentAttr") : k \notin DOMAIN db'
        BY <2>1, <4>2 DEF Apart, Rows
      <4>5. ASSUME NEW k \in Rows(db', "ComponentAttr")
            PROVE  <<"Component", db'[k].component_id>> \notin DOMAIN y
        <5>1. CASE k \in Rows(db, "ComponentAttr")
          BY <2>1, <4>2, <5>1 DEF Apart
        <5>2. CASE k \in Rows(w, "ComponentAttr")
          BY <2>1, <2>2, <4>2, <5>2
        <5> QED BY <2>1, <5>1, <5>2
      <4>6. Apart(y, db')
        BY <4>3, <4>4, <4>5 DEF Apart
      <4> QED BY <4>1, <4>2, <4>6 DEF Parts
    <3> QED BY <3>1, <3>2
  <2> QED BY <1>1, <1>2, <1>3, <2>1, <2>4, WholeInvNext
<1> QED BY <1>6, <1>7, <1>8

(* Statements that commit at once write incidents and updates only. *)
LEMMA WholeAtOnce ==
  ASSUME Sessions, WholeInv, NEW s \in Session, NEW n \in {"reopen", "text"}, At(s, n), NEW m, NEW i, NEW row,
         Stored1(s, Entry(<<m, i>>, row)), m \notin {"Component", "ComponentAttr"}
  PROVE  WholeInv'
<1>1. PICK t, rows : t = ses[s].todo /\ rows = Entry(<<m, i>>, row)
  OBVIOUS
<1>2. \A k \in DOMAIN rows : k[1] \notin {"Component", "ComponentAttr"}
  BY <1>1 DEF Entry
<1>3. db' = Overlay(db, rows) /\ seq' = seq /\ Others(s) /\ ses'[s].todo = Tail(t) /\ ses'[s].w = ses[s].w
  BY <1>1 DEF Stored1
<1>4. SameRegistry(db, db')
  BY <1>2, <1>3, OverlaySame
<1>5. Registered(ses[s])
  BY DEF WholeInv
<1>6. t \in Seq(Steps) /\ t # <<>> /\ NoneRegistered(ses[s].w) /\ Elsewhere(t)
  BY <1>1, <1>5, PartAt
<1>7. Elsewhere(Tail(t))
  BY <1>6, ElsewhereTail
<1> QED BY <1>3, <1>4, <1>6, <1>7, WholeStored

LEMMA StepWhole ==
  ASSUME Sessions, LocksExclude, WholeInv, NEW s \in Session, Step(s)
  PROVE  WholeInv'
<1>0. PICK ev : ev = Event(s)
  OBVIOUS
<1>1. CASE ReadRow(s)
  <2>1. At(s, "row") /\ ((Answered(s) /\ Same) \/ Read(s))
    BY <1>1, ReadRowIs
  <2> QED BY <2>1, WholeRead, WholeAnswered DEF Same
<1>2. CASE ReadComponents(s)
  <2>1. At(s, "components") /\ Read(s)
    BY <1>2, ReadComponentsIs
  <2> QED BY <2>1, WholeRead
<1>3. CASE ReadStatuses(s)
  <2>1. At(s, "statuses") /\ Read(s)
    BY <1>3, ReadStatusesIs
  <2> QED BY <2>1, WholeRead
<1>4. CASE Answer(s)
  BY <1>4, AnswerIs, WholeAnswered DEF Same
<1>5. CASE Decide(s)
  <2>1. CASE Answered(s)
    BY <1>5, <2>1, DecideIs, WholeAnswered DEF Same
  <2>2. CASE ~Answered(s)
    <3>1. PICK st : st = ses[s].req.status
      OBVIOUS
    <3>2. /\ At(s, "decide") /\ Same /\ Others(s) /\ ses'[s].todo = PatchSteps(ev, st)
          /\ ses'[s].w = ses[s].w
      BY <1>0, <1>5, <2>2, <3>1, DecideIs
    <3>3. NoneRegistered(ses'[s].w)
      BY <3>2, AtIs DEF OutsideTx, NoneRegistered, Rows
    <3>4. Elsewhere(PatchSteps(ev, st))
      BY PatchStepsIs, ElsewherePatch
    <3> QED BY <3>2, <3>3, <3>4, WholeNone DEF Same
  <2> QED BY <2>1, <2>2
<1>6. CASE ModifyIncident(s)
  <2>1. CASE Answered(s) /\ Same
    BY <2>1, WholeAnswered DEF Same
  <2>2. CASE ~(Answered(s) /\ Same)
    <3>1. PICK row : At(s, "modify") /\ seq' = seq /\ Wrote(s, Entry(<<"Incident", ev>>, row))
      BY <1>0, <1>6, <2>2, ModifyIncidentIs
    <3>2. PICK rows : rows = Entry(<<"Incident", ev>>, row)
      OBVIOUS
    <3>3. (\A k \in DOMAIN rows : k[1] \notin {"Component", "ComponentAttr"}) /\ Wrote(s, rows)
      BY <3>1, <3>2 DEF Entry
    <3> QED BY <3>1, <3>3, WholeWrote
  <2> QED BY <2>1, <2>2
<1>7. CASE InsertStatuses(s)
  <2>1. PICK rows, id, row : /\ rows = Entry(<<"IncidentStatus", id>>, row) /\ At(s, "insert") /\ Wrote(s, rows)
                             /\ seq' = [seq EXCEPT !["IncidentStatus"] = id]
    BY <1>7, InsertStatusesIs
  <2>2. \A k \in DOMAIN rows : k[1] \notin {"Component", "ComponentAttr"}
    BY <2>1 DEF Entry
  <2>3. /\ seq'["Component"] = seq["Component"] /\ seq'["ComponentAttr"] = seq["ComponentAttr"]
        /\ DOMAIN seq' = DOMAIN seq
    BY <2>1 DEF WholeInv
  <2> QED BY <2>1, <2>2, <2>3, WholeWrote
<1>8. CASE Commit(s)
  BY <1>8, WholeCommit
<1>9. CASE ReOpenIncident(s)
  <2>1. PICK row : At(s, "reopen") /\ Stored1(s, Entry(<<"Incident", ev>>, row))
    BY <1>0, <1>9, ReOpenIncidentIs
  <2> QED BY <2>1, WholeAtOnce
<1>10. CASE PickUpdate(s)
  <2>1. At(s, "pick") /\ Read(s)
    BY <1>10, PickUpdateIs
  <2> QED BY <2>1, WholeRead
<1>11. CASE FindUpdate(s)
  <2>1. At(s, "updates") /\ ((Answered(s) /\ Same) \/ Read(s))
    BY <1>11, FindUpdateIs
  <2> QED BY <2>1, WholeRead, WholeAnswered DEF Same
<1>12. CASE ModifyEventUpdate(s)
  <2>1. CASE Answered(s) /\ Same
    BY <2>1, WholeAnswered DEF Same
  <2>2. CASE ~(Answered(s) /\ Same)
    <3>1. PICK i, row : At(s, "text") /\ Stored1(s, Entry(<<"IncidentStatus", i>>, row))
      BY <1>12, <2>2, ModifyEventUpdateIs
    <3> QED BY <3>1, WholeAtOnce
  <2> QED BY <2>1, <2>2
<1>13. CASE ReadUpdate(s)
  BY <1>13, ReadUpdateIs, WholeAnswered DEF Same
<1>14. CASE MoveComponent(s)
  <2>1. CASE Answered(s)
    BY <1>14, <2>1, MoveComponentIs, WholeAnswered DEF Same
  <2>2. CASE ~Answered(s)
    <3>1. PICK q, e, f : q = ses[s].req /\ e = q.e /\ f = q.f
      OBVIOUS
    <3>2. /\ At(s, "prepare") /\ Same /\ Others(s) /\ ses'[s].todo = MoveSteps(q)
          /\ ses'[s].w = ses[s].w
      BY <1>14, <2>2, <3>1, MoveComponentIs
    <3>3. NoneRegistered(ses'[s].w)
      BY <3>2, AtIs DEF OutsideTx, NoneRegistered, Rows
    <3>4. Elsewhere(Moving(e, f)) /\ Elsewhere(MovingAway(e, f))
      BY ElsewhereMove
    <3>5. Elsewhere(MoveSteps(q))
      BY <3>1, <3>4, MoveStepsIs
    <3> QED BY <3>2, <3>3, <3>5, WholeNone DEF Same
  <2> QED BY <2>1, <2>2
<1>24. CASE ExtractComponents(s)
  <2>1. At(s, "extract") /\ ((Answered(s) /\ Same) \/ Extracted(s))
    BY <1>24, ExtractComponentsIs
  <2>2. ASSUME Extracted(s) PROVE WholeInv'
    <3>1. PICK q, e, f : q = ses[s].req /\ e = q.e /\ f = q.f
      OBVIOUS
    <3>2. Others(s) /\ seq' = seq /\ ses'[s].todo = MoveSteps(q) /\ ses'[s].w = ses[s].w
      BY <2>2, <3>1 DEF Extracted
    <3>3. NoneRegistered(ses'[s].w)
      BY <2>1, <3>2, AtIs DEF OutsideTx, NoneRegistered, Rows
    <3>4. Elsewhere(Moving(e, f)) /\ Elsewhere(MovingAway(e, f))
      BY ElsewhereMove
    <3>5. Elsewhere(MoveSteps(q))
      BY <3>1, <3>4, MoveStepsIs
    <3>6. PICK rows, g, c, row : rows = NewRows(g, c, row) /\ g = ses[s].req.f /\ c = ses[s].req.c /\ row = NewRow(s)
      OBVIOUS
    <3>7. db' = Overlay(db, rows) /\ \A k \in DOMAIN rows : k[1] \notin {"Component", "ComponentAttr"}
      <4>1. db' = Overlay(db, rows)
        BY <2>2, <3>6 DEF Extracted
      <4>2. \A k \in DOMAIN rows : k[1] \notin {"Component", "ComponentAttr"}
        BY <3>6 DEF NewRows, Over, Entry
      <4> QED BY <4>1, <4>2
    <3>8. SameRegistry(db, db')
      BY <3>7, OverlaySame
    <3> QED BY <3>2, <3>3, <3>5, <3>8, WholeStored
  <2> QED BY <2>1, <2>2, WholeAnswered DEF Same
<1>15. CASE RemoveIncidentComponent(s)
  <2>1. PICK gone : Wrote(s, [k \in {Relation(Event(s), c) : c \in gone} |-> Gone])
    BY <1>15, RemoveIncidentComponentIs
  <2>2. PICK rows : rows = [k \in {Relation(Event(s), c) : c \in gone} |-> Gone]
    OBVIOUS
  <2>3. At(s, "unlink") /\ seq' = seq /\ Wrote(s, rows)
    BY <1>15, <2>1, <2>2, RemoveIncidentComponentIs
  <2>4. \A k \in DOMAIN rows : k[1] \notin {"Component", "ComponentAttr"}
    BY <2>2 DEF Relation
  <2> QED BY <2>3, <2>4, WholeWrote
<1>16. CASE SaveIncidentFull(s)
  <2>1. CASE Answered(s) /\ Same
    BY <2>1, WholeAnswered DEF Same
  <2>2. CASE ~(Answered(s) /\ Same)
    <3>1. PICK row : At(s, "save") /\ seq' = seq /\ Wrote(s, Entry(<<"Incident", ev>>, row))
      BY <1>0, <1>16, <2>2, SaveIncidentFullIs
    <3>2. PICK rows : rows = Entry(<<"Incident", ev>>, row)
      OBVIOUS
    <3>3. (\A k \in DOMAIN rows : k[1] \notin {"Component", "ComponentAttr"}) /\ Wrote(s, rows)
      BY <3>1, <3>2 DEF Entry
    <3> QED BY <3>1, <3>3, WholeWrote
  <2> QED BY <2>1, <2>2
<1>17. CASE ReconcileIncidentComponents(s)
  <2>1. PICK rows : rows = Reconciled(s, Event(s))
    OBVIOUS
  <2>2. At(s, "link") /\ seq' = seq /\ Wrote(s, rows)
    BY <1>17, <2>1, ReconcileIs
  <2>3. \A k \in DOMAIN rows : k[1] \notin {"Component", "ComponentAttr"}
    BY <2>1 DEF Reconciled
  <2> QED BY <2>2, <2>3, WholeWrote
<1>18. CASE Done(s)
  BY <1>18, DoneIs, WholeAnswered DEF Same
<1>19. CASE ComponentExists(s)
  <2>1. At(s, "exists") /\ ((Answered(s) /\ Same) \/ Read(s))
    BY <1>19, ComponentExistsIs
  <2> QED BY <2>1, WholeRead, WholeAnswered DEF Same
<1>20. CASE CreateComponent(s)
  BY <1>20, WholeCreate
<1>21. CASE CreateAttribute(s)
  BY <1>21, WholeAttribute
<1>22. CASE Close(s)
  BY <1>22, CloseIs, WholeAnswered DEF Same
<1>23. CASE Abort(s)
  BY <1>23, AbortIs, WholeAnswered DEF Same
<1> QED BY <1>1, <1>2, <1>3, <1>4, <1>5, <1>6, <1>7, <1>8, <1>9, <1>10, <1>11, <1>12, <1>13, <1>14, <1>15,
           <1>16, <1>17, <1>18, <1>19, <1>20, <1>21, <1>22, <1>23, <1>24 DEF Step

LEMMA WholeKept ==
  ASSUME Sessions, AppendInv, WholeInv, [Next]_vars
  PROVE  WholeInv'
<1>0. LocksExclude
  BY AppendInvIs
<1>1. ASSUME NEW s \in Session, NEW q \in Request, Begin(s, q) PROVE WholeInv'
  <2>1. /\ Others(s) /\ ses'[s].todo = Program(q) /\ DOMAIN ses'[s].w = {} /\ db' = db /\ seq' = seq
    BY <1>1, BeginIs DEF Begin
  <2>2. Elsewhere(Program(q)) \/ Registers(Program(q), 1)
    BY ElsewhereProgram
  <2>3. NoneRegistered(ses'[s].w)
    BY <2>1 DEF NoneRegistered, Rows
  <2> QED BY <2>1, <2>2, <2>3, WholeNone
<1>2. ASSUME NEW s \in Session, Fail(s) PROVE WholeInv'
  <2>1. Answered(s) /\ db' = db /\ seq' = seq
    BY <1>2, FailIs DEF Fail, Rollback
  <2> QED BY <2>1, WholeAnswered
<1>3. CASE UNCHANGED vars \/ Exhausted
  <2>1. ses' = ses /\ db' = db /\ seq' = seq
    BY <1>3 DEF vars, Exhausted
  <2> QED BY <2>1 DEF WholeInv, ComponentWhole
<1> QED BY <1>0, <1>1, <1>2, <1>3, StepWhole DEF Next

(* The last id of a table of the stored rows. *)
LEMMA LastStored ==
  ASSUME NEW n \in {"IncidentStatus", "Component", "ComponentAttr"}, NEW m,
         m = Max({0} \cup {k[2] : k \in {k \in DOMAIN Stored : k[1] = n}})
  PROVE  m \in Nat /\ \A k \in Rows(Stored, n) : k = <<n, k[2]>> /\ k[2] \in 1..m
<1> DEFINE keys == {k \in DOMAIN Stored : k[1] = n}
           ids == {0} \cup {k[2] : k \in keys}
<1>1. /\ \A k \in keys : k = <<n, k[2]>> /\ k[2] \in Nat \ {0}
      /\ \E top \in ids : \A k \in keys : k[2] <= top
  BY StoredAssumption
<1>2. ids \subseteq Nat
  BY <1>1
<1>3. Max(ids) \in ids /\ \A i \in ids : Max(ids) >= i
  <2>1. PICK top \in ids : \A k \in keys : k[2] <= top
    BY <1>1
  <2>2. \A i \in ids : top >= i
    BY <1>2, <2>1
  <2> HIDE DEF ids
  <2> QED BY <2>2 DEF Max
<1>4. m \in Nat /\ \A k \in keys : k[2] \in 1..m
  BY <1>1, <1>2, <1>3
<1> QED BY <1>1, <1>4 DEF Rows

LEMMA WholeInit == Init => WholeInv
<1> SUFFICES ASSUME Init PROVE WholeInv
  OBVIOUS
<1>1. PICK c, a : c = seq["Component"] /\ a = seq["ComponentAttr"]
  OBVIOUS
<1>2. /\ {"Component", "ComponentAttr"} \subseteq DOMAIN seq /\ db = Stored
      /\ c = Max({0} \cup {k[2] : k \in {k \in DOMAIN Stored : k[1] = "Component"}})
      /\ a = Max({0} \cup {k[2] : k \in {k \in DOMAIN Stored : k[1] = "ComponentAttr"}})
  BY <1>1 DEF Init
<1>3. c \in Nat /\ \A k \in Rows(Stored, "Component") : k = <<"Component", k[2]>> /\ k[2] \in 1..c
  BY <1>2, LastStored
<1>4. a \in Nat /\ \A k \in Rows(Stored, "ComponentAttr") : k = <<"ComponentAttr", k[2]>> /\ k[2] \in 1..a
  BY <1>2, LastStored
<1>5. /\ \A k \in Rows(Stored, "ComponentAttr") :
           /\ {"name", "component_id"} \subseteq DOMAIN Stored[k]
           /\ <<"Component", Stored[k].component_id>> \in DOMAIN Stored
      /\ \A k \in Rows(Stored, "Component") : Attributes(Stored, k[2]) = Range(Attribute)
  BY ComponentsAssumption DEF Rows, Attributes
<1>6. Counted(db, c, a)
  <2>1. ASSUME NEW k \in Rows(Stored, "ComponentAttr") PROVE Stored[k].component_id \in 1..c
    <3>1. PICK h : h = <<"Component", Stored[k].component_id>>
      OBVIOUS
    <3>2. h \in Rows(Stored, "Component") /\ h[2] = Stored[k].component_id
      BY <1>5, <3>1 DEF Rows
    <3> QED BY <1>3, <3>2
  <2> QED BY <1>2, <1>3, <1>4, <1>5, <2>1 DEF Counted
<1>7. Whole(db)
  BY <1>2, <1>5 DEF Whole, Ids, Rows
<1>8. ASSUME NEW s \in Session PROVE Parts(ses[s], db, c, a)
  <2>1. PICK x : x = ses[s]
    OBVIOUS
  <2>2. DOMAIN x.w = {} /\ x.todo = <<>>
    BY <2>1, IdleFields DEF Init
  <2>3. DOMAIN <<>> = {}
    OBVIOUS
  <2>4. Elsewhere(x.todo) /\ NoneRegistered(x.w)
    BY <2>2, <2>3 DEF Elsewhere, NoneRegistered, Rows
  <2> QED BY <2>1, <2>4, NonePart
<1> QED BY <1>1, <1>2, <1>3, <1>4, <1>6, <1>7, <1>8, WholeInvIs

(* Until its commit a component and its attributes are seen by the session *)
(* that inserts them only, and no committed attribute names it.            *)
THEOREM RegistersSound == Spec => []WholeInv
BY WholeInit, WholeKept, SessionsSound, AppendsSound, PTL DEF Spec

(* ComponentWhole: SaveComponent leaves a component with its three attributes *)
(* or none at all, whichever statement of whichever session fails.            *)
THEOREM ComponentsComeWhole == Spec => []ComponentWhole
<1>1. WholeInv => ComponentWhole
  BY DEF WholeInv
<1> QED BY <1>1, RegistersSound, PTL

-----------------------------------------------------------------------------
(* Statuses in rows and copies *)

LEMMA OneMoreCall ==
  ASSUME NEW e, NEW k \in Nat, NEW calls, NEW m, Leaves(m, calls, k), calls[k + 1].do \in {"Set", "Clear"}
  PROVE  Leaves(Call(e, m, calls[k + 1]), calls, k + 1)
<1>1. PICK c, x : c = calls[k + 1] /\ x = Call(e, m, c)
  OBVIOUS
<1>0. k + 1 \in 1..(k + 1) /\ \A j \in 1..k : j \in 1..(k + 1)
  OBVIOUS
<1>2. CASE c.do = "Set"
  <2>1. x = SetField(m, c.on, c.with)
    BY <1>1, <1>2 DEF Call
  <2>2. /\ DOMAIN x = DOMAIN m /\ x.set = Over(Entry(c.on, c.with), m.set) /\ x.add = Without(m.add, c.on)
        /\ x.cleared = m.cleared /\ x.clearedEdges = m.clearedEdges
    BY <2>1 DEF SetField, With, Leaves
  <2>3. x.add = m.add
    BY <2>2 DEF Without, Leaves
  <2>4. /\ DOMAIN x.set = {c.on} \cup DOMAIN m.set /\ x.set[c.on] = c.with
        /\ \A f \in DOMAIN m.set \ {c.on} : x.set[f] = m.set[f]
    BY <2>2 DEF Over, Entry
  <2>5. \A f \in DOMAIN x.set : \E j \in 1..(k + 1) :
          calls[j].do = "Set" /\ calls[j].on = f /\ calls[j].with = x.set[f]
    BY <1>0, <1>1, <1>2, <2>4 DEF Leaves
  <2>6. \A f \in x.cleared : \E j \in 1..(k + 1) : calls[j].do = "Clear" /\ calls[j].on = f
    BY <1>0, <2>2 DEF Leaves
  <2> QED BY <1>1, <2>2, <2>3, <2>5, <2>6 DEF Leaves
<1>3. CASE c.do = "Clear"
  <2>1. x = ClearField(m, c.on)
    BY <1>1, <1>3 DEF Call
  <2>2. /\ DOMAIN x = DOMAIN m /\ x.set = Without(m.set, c.on) /\ x.add = Without(m.add, c.on)
        /\ x.cleared = m.cleared \cup {c.on} /\ x.clearedEdges = m.clearedEdges
    BY <2>1 DEF ClearField, Leaves
  <2>3. x.add = m.add
    BY <2>2 DEF Without, Leaves
  <2>4. DOMAIN x.set \subseteq DOMAIN m.set /\ \A f \in DOMAIN x.set : x.set[f] = m.set[f]
    BY <2>2 DEF Without
  <2>5. \A f \in DOMAIN x.set : \E j \in 1..(k + 1) :
          calls[j].do = "Set" /\ calls[j].on = f /\ calls[j].with = x.set[f]
    BY <1>0, <2>4 DEF Leaves
  <2>6. \A f \in x.cleared : \E j \in 1..(k + 1) : calls[j].do = "Clear" /\ calls[j].on = f
    BY <1>0, <1>1, <1>3, <2>2 DEF Leaves
  <2> QED BY <1>1, <2>2, <2>3, <2>5, <2>6 DEF Leaves
<1> QED BY <1>1, <1>2, <1>3

(* What a builder holds after calls that set or clear a field each. *)
LEMMA CallsLeave ==
  ASSUME NEW e, NEW n \in Nat, NEW calls, DOMAIN calls = 1..n, \A k \in 1..n : calls[k].do \in {"Set", "Clear"}
  PROVE  Leaves(Build(e, calls), calls, n)
<1>1. PICK g : Gathers(g, e, calls, n) /\ Build(e, calls) = g[1..n]
  BY BuildGathers
<1> DEFINE P == {k \in Nat : k <= n => Leaves(g[1..k], calls, k)}
<1>2. 0 \in P
  <2>1. 1..0 = {} /\ {} \in SUBSET (1..n)
    OBVIOUS
  <2>2. g[1..0] = NewMutation(e)
    BY <1>1, <2>1 DEF Gathers
  <2>3. Leaves(NewMutation(e), calls, 0)
    BY DEF Leaves, NewMutation
  <2> QED BY <2>2, <2>3
<1>3. ASSUME NEW k \in P PROVE k + 1 \in P
  <2> SUFFICES ASSUME k + 1 <= n PROVE Leaves(g[1..(k + 1)], calls, k + 1)
    OBVIOUS
  <2>1. k \in Nat /\ k <= n /\ k + 1 \in 1..n
    OBVIOUS
  <2>2. Leaves(g[1..k], calls, k)
    BY <2>1
  <2>3. PICK s : s = 1..(k + 1)
    OBVIOUS
  <2>4. s \in SUBSET (1..n) /\ s # {} /\ s \ {k + 1} = 1..k /\ Max(s) = k + 1
    <3>1. s \in SUBSET (1..(k + 1)) /\ k + 1 \in s
      BY <2>1, <2>3
    <3>2. Max(s) = k + 1
      BY <2>1, <3>1, MaxOf
    <3>3. \A i \in 1..(k + 1) : i \in 1..n /\ (i # k + 1 => i \in 1..k)
      BY <2>1
    <3>4. \A i \in 1..k : i \in 1..(k + 1) /\ i # k + 1
      BY <2>1
    <3>5. s \in SUBSET (1..n) /\ s # {} /\ s \ {k + 1} = 1..k
      BY <2>3, <3>1, <3>3, <3>4
    <3> QED BY <3>2, <3>5
  <2>5. g[s] = Call(e, g[1..k], calls[k + 1])
    BY <1>1, <2>4 DEF Gathers
  <2>6. PICK m : m = g[1..k]
    OBVIOUS
  <2>7. Leaves(Call(e, m, calls[k + 1]), calls, k + 1)
    BY <2>1, <2>2, <2>6, OneMoreCall
  <2> QED BY <2>3, <2>5, <2>6, <2>7
<1>4. P = Nat
  <2>1. P \in SUBSET Nat
    OBVIOUS
  <2> HIDE DEF P
  <2> QED BY <1>2, <1>3, <2>1, Induction
<1> QED BY <1>1, <1>4

(* An UPDATE that does not clear a column leaves it or gives it a value that was set. *)
LEMMA UpdatedColumn ==
  ASSUME NEW e, NEW n \in Nat, NEW calls, NEW f, Setting(calls, n, f),
         NEW row, f \in DOMAIN row, NEW m, m = Build(e, calls), NEW z, z = UpdateRow(e, m, row)
  PROVE  SetOrLeft(z, row, f, calls, n)
<1>2. Leaves(m, calls, n)
  BY CallsLeave DEF Setting
<1>3. AddColumns(e, m) = {} /\ f \notin ClearedColumns(e, m)
  BY <1>2 DEF AddColumns, ClearedColumns, Leaves, Setting
<1>4. f \in SetColumns(e, m) => f \in DOMAIN m.set
  BY DEF SetColumns
<1>6. f \in DOMAIN z /\ z[f] = IF f \in SetColumns(e, m) THEN m.set[f] ELSE row[f]
  BY <1>3 DEF UpdateRow
<1>7. CASE f \in SetColumns(e, m)
  <2>1. PICK k \in 1..n : calls[k].on = f /\ calls[k].with = m.set[f]
    BY <1>2, <1>4, <1>7 DEF Leaves
  <2> QED BY <1>6, <1>7, <2>1 DEF SetOrLeft
<1> QED BY <1>6, <1>7 DEF SetOrLeft

(* Both entities read a status back alike, and once. *)
LEMMA StatusRead ==
  ASSUME NEW n \in {"Incident", "IncidentStatus"}, NEW row, "status" \in DOMAIN row
  PROVE  "status" \in DOMAIN ReadBack(n, row) /\ ReadBack(n, row).status = AsRead(row.status)
<1>1. "status" \notin Schema[n].nillable /\ Schema[n].field["status"] = "string"
  BY DEF Schema, IncidentNillable, IncidentStatusNillable, IncidentField, IncidentStatusField
<1>2. Zero(Schema[n].field["status"]) = ""
  BY <1>1 DEF Zero
<1> QED BY <1>1, <1>2 DEF ReadBack, AsRead

LEMMA ReadOnce == \A x : AsRead(AsRead(x)) = AsRead(x)
BY DEF AsRead

(* Calls made one after the other. *)
LEMMA JoinCalls ==
  ASSUME NEW m \in Nat, NEW n \in Nat, NEW a, NEW b, Calls(a, m), Calls(b, n), NEW c, Joins(a, b, c)
  PROVE  Joined(a, m, b, n, c)
<1> DEFINE S == {a[i] : i \in 1..m} \cup {b[i] : i \in 1..n}
<1>1. a \in [1..m -> S] /\ b \in [1..n -> S]
  BY DEF Calls
<1> HIDE DEF S
<1>2. a \in Seq(S) /\ b \in Seq(S)
  BY <1>1, SeqDef
<1>3. Len(a) = m /\ Len(b) = n
  <2>1. DOMAIN a = 1..m /\ DOMAIN b = 1..n
    BY <1>1
  <2> QED BY <1>2, <2>1, LenProperties
<1>4. /\ c \in Seq(S) /\ Len(c) = Len(a) + Len(b)
      /\ \A i \in 1..(Len(a) + Len(b)) : c[i] = IF i <= Len(a) THEN a[i] ELSE b[i - Len(a)]
  BY <1>2, ConcatProperties DEF Joins
<1>5. c \in [1..(m + n) -> S] /\ \A i \in 1..(m + n) : c[i] = IF i <= m THEN a[i] ELSE b[i - m]
  BY <1>3, <1>4, LenProperties
<1>6. \A i \in 1..(m + n) : IF i <= m THEN i \in 1..m ELSE i - m \in 1..n
  OBVIOUS
<1>7. DOMAIN c = 1..(m + n) /\ Calls(c, m + n)
  BY <1>5 DEF Calls
<1>8. ASSUME NEW i \in 1..(m + n) PROVE (i \in 1..m /\ c[i] = a[i]) \/ (i - m \in 1..n /\ c[i] = b[i - m])
  <2>1. CASE i <= m
    BY <1>5, <1>6, <2>1
  <2>2. CASE ~(i <= m)
    BY <1>5, <1>6, <2>2
  <2> QED BY <2>1, <2>2
<1> QED BY <1>7, <1>8 DEF Joined

(* Every id is at some position of the ascending list. *)
LEMMA AscendingHas ==
  ASSUME NEW m \in Nat, NEW ids \in SUBSET (1..m), NEW x \in ids
  PROVE  \E n \in DOMAIN Ascending(ids) : Ascending(ids)[n] = x
<1> DEFINE below(i) == {j \in ids : j < i}
           n == Cardinality(below(x)) + 1
<1>1. IsFiniteSet(ids) /\ Cardinality(ids) \in Nat /\ ids \subseteq Int
  <2>1. IsFiniteSet(1..m)
    BY FS_Interval
  <2>2. IsFiniteSet(ids)
    BY <2>1, FS_Subset
  <2>3. Cardinality(ids) \in Nat
    BY <2>2, FS_CardinalityType
  <2> QED BY <2>2, <2>3
<1>2. \A i \in ids : /\ below(i) \subseteq ids /\ i \notin below(i) /\ IsFiniteSet(below(i))
                     /\ Cardinality(below(i)) \in Nat /\ Cardinality(below(i)) < Cardinality(ids)
  <2> SUFFICES ASSUME NEW i \in ids
               PROVE  /\ below(i) \subseteq ids /\ i \notin below(i) /\ IsFiniteSet(below(i))
                      /\ Cardinality(below(i)) \in Nat /\ Cardinality(below(i)) < Cardinality(ids)
    OBVIOUS
  <2>1. below(i) \subseteq ids /\ i \notin below(i)
    BY <1>1
  <2>2. PICK b : b = below(i)
    OBVIOUS
  <2>3. b \subseteq ids /\ b # ids
    BY <2>1, <2>2
  <2>4. IsFiniteSet(b) /\ Cardinality(b) <= Cardinality(ids) /\ Cardinality(b) # Cardinality(ids)
    BY <1>1, <2>3, FS_Subset
  <2>5. Cardinality(b) \in Nat
    BY <2>4, FS_CardinalityType
  <2> QED BY <1>1, <2>1, <2>2, <2>4, <2>5
<1>3. ASSUME NEW i \in ids, NEW k \in ids, i < k PROVE Cardinality(below(i)) < Cardinality(below(k))
  <2>1. PICK b, c : b = below(i) /\ c = below(k)
    OBVIOUS
  <2>2. b \subseteq c /\ b # c
    <3>1. \A j \in ids : j < i => j < k
      BY <1>1, <1>3
    <3>2. i \in c /\ i \notin b
      BY <1>1, <1>3, <2>1
    <3> QED BY <2>1, <3>1, <3>2
  <2>3. IsFiniteSet(c) /\ Cardinality(b) \in Nat /\ Cardinality(c) \in Nat
    BY <1>2, <2>1
  <2>4. Cardinality(b) <= Cardinality(c) /\ Cardinality(b) # Cardinality(c)
    BY <2>2, <2>3, FS_Subset
  <2> QED BY <2>1, <2>3, <2>4
<1>4. n \in 1..Cardinality(ids) /\ Cardinality(below(x)) = n - 1
  BY <1>1, <1>2
<1>5. \A i \in ids : Cardinality(below(i)) = n - 1 => i = x
  <2> SUFFICES ASSUME NEW i \in ids, Cardinality(below(i)) = n - 1, i # x PROVE FALSE
    OBVIOUS
  <2>1. i < x \/ x < i
    BY <1>1
  <2>2. Cardinality(below(i)) = Cardinality(below(x)) /\ Cardinality(below(x)) \in Nat
    BY <1>2, <1>4
  <2> HIDE DEF below
  <2> QED BY <1>3, <2>1, <2>2
<1>6. (CHOOSE i \in ids : Cardinality({j \in ids : j < i}) = n - 1) = x
  BY <1>4, <1>5
<1> HIDE DEF n
<1>7. n \in DOMAIN Ascending(ids) /\ Ascending(ids)[n] = x
  BY <1>4, <1>6 DEF Ascending
<1> QED BY <1>7

(* One more call, of the kind that the earlier ones are. *)
LEMMA OneMoreReached ==
  ASSUME NEW e, NEW k \in Nat, NEW calls, NEW m, Leaves(m, calls, k), NEW f, NEW d \in {"Set", "Clear"},
         calls[k + 1].do \in {"Set", "Clear"}, calls[k + 1].on = f => calls[k + 1].do = d,
         Called(calls, k, f) => Reached(m, f, d), Called(calls, k + 1, f)
  PROVE  Reached(Call(e, m, calls[k + 1]), f, d)
<1>1. PICK c, x : c = calls[k + 1] /\ x = Call(e, m, c)
  OBVIOUS
<1>2. \A j \in 1..(k + 1) : j \in 1..k \/ j = k + 1
  OBVIOUS
<1>3. c.on = f \/ Reached(m, f, d)
  BY <1>1, <1>2 DEF Called
<1>4. CASE c.do = "Set"
  <2>1. x = SetField(m, c.on, c.with)
    BY <1>1, <1>4 DEF Call
  <2>2. x.set = Over(Entry(c.on, c.with), m.set) /\ x.cleared = m.cleared
    BY <2>1 DEF SetField, With, Leaves
  <2>3. DOMAIN x.set = {c.on} \cup DOMAIN m.set
    BY <2>2 DEF Over, Entry
  <2> QED BY <1>1, <1>3, <1>4, <2>2, <2>3 DEF Reached
<1>5. CASE c.do = "Clear"
  <2>1. x = ClearField(m, c.on)
    BY <1>1, <1>5 DEF Call
  <2>2. x.set = Without(m.set, c.on) /\ x.cleared = m.cleared \cup {c.on}
    BY <2>1 DEF ClearField, Leaves
  <2>3. DOMAIN x.set = DOMAIN m.set \ {c.on}
    BY <2>2 DEF Without
  <2> QED BY <1>1, <1>3, <1>5, <2>2, <2>3 DEF Reached
<1> QED BY <1>1, <1>4, <1>5

(* A field that was only set is set, and one that was only cleared is cleared. *)
LEMMA CallsReach ==
  ASSUME NEW e, NEW n \in Nat, NEW calls, NEW f, NEW d \in {"Set", "Clear"}, OneKind(calls, n, f, d),
         Called(calls, n, f)
  PROVE  Reached(Build(e, calls), f, d)
<1>1. PICK g : Gathers(g, e, calls, n) /\ Build(e, calls) = g[1..n]
  BY BuildGathers DEF OneKind
<1> DEFINE Q(k) == Leaves(g[1..k], calls, k) /\ (Called(calls, k, f) => Reached(g[1..k], f, d))
           P == {k \in Nat : k <= n => Q(k)}
<1>2. 0 \in P
  <2>1. 1..0 = {} /\ {} \in SUBSET (1..n)
    OBVIOUS
  <2>2. g[1..0] = NewMutation(e)
    BY <1>1, <2>1 DEF Gathers
  <2>3. Leaves(NewMutation(e), calls, 0)
    BY DEF Leaves, NewMutation
  <2>4. ~Called(calls, 0, f)
    BY <2>1 DEF Called
  <2> QED BY <2>2, <2>3, <2>4
<1>3. ASSUME NEW k \in P PROVE k + 1 \in P
  <2> SUFFICES ASSUME k + 1 <= n PROVE Q(k + 1)
    OBVIOUS
  <2>1. k \in Nat /\ k <= n /\ k + 1 \in 1..n
    OBVIOUS
  <2>3. PICK s : s = 1..(k + 1)
    OBVIOUS
  <2>4. s \in SUBSET (1..n) /\ s # {} /\ s \ {k + 1} = 1..k /\ Max(s) = k + 1
    <3>1. s \in SUBSET (1..(k + 1)) /\ k + 1 \in s
      BY <2>1, <2>3
    <3>2. Max(s) = k + 1
      BY <2>1, <3>1, MaxOf
    <3>3. \A i \in 1..(k + 1) : i \in 1..n /\ (i # k + 1 => i \in 1..k)
      BY <2>1
    <3>4. \A i \in 1..k : i \in 1..(k + 1) /\ i # k + 1
      BY <2>1
    <3>5. s \in SUBSET (1..n) /\ s # {} /\ s \ {k + 1} = 1..k
      BY <2>3, <3>1, <3>3, <3>4
    <3> QED BY <3>2, <3>5
  <2>5. g[s] = Call(e, g[1..k], calls[k + 1])
    BY <1>1, <2>4 DEF Gathers
  <2>6. PICK m : m = g[1..k]
    OBVIOUS
  <2>2. Leaves(m, calls, k) /\ (Called(calls, k, f) => Reached(m, f, d))
    BY <2>1, <2>6
  <2>8. calls[k + 1].do \in {"Set", "Clear"} /\ (calls[k + 1].on = f => calls[k + 1].do = d)
    BY <2>1 DEF OneKind
  <2>7. Leaves(Call(e, m, calls[k + 1]), calls, k + 1)
    BY <2>1, <2>2, <2>8, OneMoreCall
  <2>9. Called(calls, k + 1, f) => Reached(Call(e, m, calls[k + 1]), f, d)
    BY <2>1, <2>2, <2>8, OneMoreReached
  <2> QED BY <2>3, <2>5, <2>6, <2>7, <2>9
<1>4. P = Nat
  <2>1. P \in SUBSET Nat
    OBVIOUS
  <2> HIDE DEF P
  <2> QED BY <1>2, <1>3, <2>1, Induction
<1> QED BY <1>1, <1>4

(* An UPDATE gives a column a value that was set, when it was set and not cleared ... *)
LEMMA SetColumn ==
  ASSUME NEW e, NEW n \in Nat, NEW calls, NEW f, OneKind(calls, n, f, "Set"), Called(calls, n, f),
         Settable(e, f),
         NEW row, f \in DOMAIN row, NEW m, m = Build(e, calls), NEW z, z = UpdateRow(e, m, row)
  PROVE  Given(z, f, calls, n)
<1>2. Leaves(m, calls, n)
  BY CallsLeave DEF OneKind
<1>3. f \in DOMAIN m.set
  <2>1. Reached(m, f, "Set")
    BY CallsReach
  <2> QED BY <2>1 DEF Reached
<1>4. f \notin ClearedColumns(e, m)
  BY <1>2 DEF ClearedColumns, Leaves, OneKind
<1>5. f \in SetColumns(e, m)
  BY <1>3 DEF SetColumns, Settable
<1>6. f \in DOMAIN z /\ z[f] = m.set[f]
  BY <1>4, <1>5 DEF UpdateRow
<1>7. PICK k \in 1..n : calls[k].on = f /\ calls[k].with = m.set[f]
  BY <1>2, <1>3 DEF Leaves
<1> QED BY <1>6, <1>7 DEF Given

(* ... and empties it when it was cleared. *)
LEMMA ClearColumn ==
  ASSUME NEW e, NEW n \in Nat, NEW calls, NEW f, OneKind(calls, n, f, "Clear"), Called(calls, n, f),
         Clearable(e, f),
         NEW row, f \in DOMAIN row, NEW m, m = Build(e, calls), NEW z, z = UpdateRow(e, m, row)
  PROVE  f \in DOMAIN z /\ z[f] = Null
<1>3. f \in m.cleared
  <2>1. Reached(m, f, "Clear")
    BY CallsReach
  <2> QED BY <2>1 DEF Reached
<1>4. f \in ClearedColumns(e, m)
  BY <1>3 DEF ClearedColumns, Clearable
<1> QED BY <1>4 DEF UpdateRow

(* Calls joined to others come first. *)
LEMMA FirstCalls ==
  ASSUME NEW m \in Nat, NEW n \in Nat, NEW a, NEW b, Calls(a, m), Calls(b, n), NEW c, Joins(a, b, c)
  PROVE  \A i \in 1..m : c[i] = a[i]
<1> DEFINE S == {a[i] : i \in 1..m} \cup {b[i] : i \in 1..n}
<1>1. a \in [1..m -> S] /\ b \in [1..n -> S]
  BY DEF Calls
<1> HIDE DEF S
<1>2. a \in Seq(S) /\ b \in Seq(S)
  BY <1>1, SeqDef
<1>3. Len(a) = m /\ Len(b) = n
  <2>1. DOMAIN a = 1..m /\ DOMAIN b = 1..n
    BY <1>1
  <2> QED BY <1>2, <2>1, LenProperties
<1>4. \A i \in 1..Len(a) : (a \o b)[i] = a[i]
  BY <1>2, JoinIs
<1> QED BY <1>3, <1>4 DEF Joins

(* A PATCH leaves the stored status or gives the copy's, if the copy has one. *)
LEMMA PatchedStatus ==
  ASSUME NEW row, NEW stored, "status" \in DOMAIN stored, NEW z, z = UpdateRow("Incident", PatchMutation(row), stored)
  PROVE  /\ "status" \in DOMAIN z /\ z.status \in {stored.status, row.status}
         /\ row.status \notin {Null, ""} => z.status = row.status
<1> DEFINE column == <<"text", "description", "start_date", "end_date", "impact", "status", "system",
                       "type", "created_at", "created_by", "contact_email">>
           Named(f) == row[f] # Null /\ (f = "status" => row[f] # "") /\ (f = "system" => row[f])
           set == {i \in DOMAIN column : Named(column[i])}
           filled == Ascending(set)
           a == [n \in DOMAIN filled |-> Set(column[filled[n]], row[column[filled[n]]])]
           b == <<Set("version", row.version + 1), Set("modified_at", Now)>>
<1>d. DOMAIN column = 1..11
  OBVIOUS
<1>h. 6 \in 1..11
  OBVIOUS
<1>f. column[6] = "status"
  OBVIOUS
<1>1. PICK n : n = Cardinality(set)
  OBVIOUS
<1>2. n \in Nat
  <2> HIDE DEF column, Named
  <2>2. set \subseteq 1..11 /\ 11 \in Int /\ 1 \in Int
    BY <1>d
  <2> HIDE DEF set
  <2>3. IsFiniteSet(1..11)
    BY <2>2, FS_Interval
  <2> QED BY <1>1, <2>2, <2>3, FS_Subset, FS_CardinalityType
<1>3. DOMAIN filled = 1..n
  BY <1>1 DEF Ascending
<1>e. row.status \notin {Null, ""} => \E i \in 1..n : filled[i] = 6
  <2> SUFFICES ASSUME row.status \notin {Null, ""} PROVE \E i \in 1..n : filled[i] = 6
    OBVIOUS
  <2>2. Named("status")
    <3>1. "status" # "system"
      OBVIOUS
    <3> QED BY <3>1, Zenon
  <2> HIDE DEF column, Named
  <2>3. 6 \in set /\ set \in SUBSET (1..11)
    BY <1>d, <1>f, <1>h, <2>2
  <2> HIDE DEF set
  <2>4. PICK ids : ids = set
    OBVIOUS
  <2>5. \E i \in DOMAIN Ascending(ids) : Ascending(ids)[i] = 6
    BY <2>3, <2>4, AscendingHas
  <2> QED BY <1>3, <2>4, <2>5
<1> HIDE DEF set, column, filled
<1>4. /\ Calls(a, n)
      /\ \A i \in 1..n : a[i].do = "Set" /\ (a[i].on = "status" => a[i].with = row.status)
  BY <1>3 DEF Set, Calls
<1>g. row.status \notin {Null, ""} => \E i \in 1..n : a[i].on = "status"
  <2> SUFFICES ASSUME row.status \notin {Null, ""} PROVE \E i \in 1..n : a[i].on = "status"
    OBVIOUS
  <2>1. PICK i \in 1..n : filled[i] = 6
    BY <1>e
  <2>2. PICK c : c = Set("status", row["status"])
    OBVIOUS
  <2>3. a[i] = c
    BY <1>3, <1>f, <2>1, <2>2
  <2>4. c.on = "status"
    BY <2>2 DEF Set
  <2> HIDE DEF a
  <2> QED BY <2>3, <2>4
<1>5. Calls(b, 2) /\ \A i \in 1..2 : b[i].do = "Set" /\ b[i].on # "status"
  BY DEF Set, Calls
<1>6. PICK calls : calls = a \o b
  OBVIOUS
<1>c. Joins(a, b, calls)
  BY <1>6 DEF Joins
<1>7. PatchMutation(row) = Build("Incident", calls)
  BY <1>6 DEF PatchMutation, ApplyIncidentPatch, column, filled, set
<1> HIDE DEF a, b
<1>8. /\ DOMAIN calls = 1..(n + 2)
      /\ \A i \in 1..(n + 2) : (i \in 1..n /\ calls[i] = a[i]) \/ (i - n \in 1..2 /\ calls[i] = b[i - n])
      /\ \A i \in 1..n : calls[i] = a[i]
  <2>1. Calls(a, n) /\ Calls(b, 2)
    BY <1>4, <1>5
  <2>2. Joined(a, n, b, 2, calls)
    BY <1>2, <1>c, <2>1, JoinCalls
  <2>3. \A i \in 1..n : calls[i] = a[i]
    BY <1>2, <1>c, <2>1, FirstCalls
  <2> QED BY <2>2, <2>3 DEF Joined
<1>9. \A i \in 1..(n + 2) : calls[i].do = "Set" /\ (calls[i].on = "status" => calls[i].with = row.status)
  BY <1>4, <1>5, <1>8
<1>10. PICK k : k = n + 2 /\ k \in Nat
  BY <1>2
<1>b. Setting(calls, k, "status")
  BY <1>8, <1>9, <1>10 DEF Setting
<1>11. SetOrLeft(z, stored, "status", calls, k)
  BY <1>b, <1>7, <1>10, UpdatedColumn
<1>12. ASSUME row.status \notin {Null, ""} PROVE z.status = row.status
  <2>1. PICK i \in 1..n : a[i].on = "status"
    BY <1>g, <1>12
  <2>2. i \in 1..k /\ calls[i].on = "status"
    BY <1>2, <1>8, <1>10, <2>1
  <2>3. Called(calls, k, "status")
    BY <2>2 DEF Called
  <2>4. OneKind(calls, k, "status", "Set")
    BY <1>8, <1>9, <1>10 DEF OneKind
  <2>5. Settable("Incident", "status")
    BY DEF Settable, Schema, IncidentUpdateSpec
  <2>6. Given(z, "status", calls, k)
    BY <1>7, <1>10, <2>3, <2>4, <2>5, SetColumn
  <2> QED BY <1>9, <1>10, <2>6 DEF Given
<1> QED BY <1>9, <1>10, <1>11, <1>12 DEF SetOrLeft

(* A full save gives the copy's status, and no end where the copy has none. *)
LEMMA SavedStatus ==
  ASSUME NEW row, NEW stored, "status" \in DOMAIN stored, NEW z, z = UpdateRow("Incident", SaveMutation(row), stored)
  PROVE  /\ "status" \in DOMAIN z /\ z.status = row.status
         /\ "end_date" \in DOMAIN stored =>
              "end_date" \in DOMAIN z /\ (row.end_date = Null => z.end_date = Null)
<1> DEFINE always == <<"text", "start_date", "impact", "system", "type", "status", "version">>
           optional == <<"description", "end_date", "deleted_at", "created_by", "contact_email">>
           a == [i \in DOMAIN always |-> Set(always[i], row[always[i]])]
           b == <<Set("created_at", IF row.created_at # Null THEN row.created_at ELSE Now), Set("modified_at", Now)>>
           c == [i \in DOMAIN optional |-> LET f == optional[i] IN
                   IF row[f] # Null THEN Set(f, row[f]) ELSE Clear(f)]
<1>1. DOMAIN always = 1..7 /\ DOMAIN optional = 1..5 /\ \A i \in 1..5 : optional[i] # "status"
  OBVIOUS
<1>d. /\ always[6] = "status" /\ optional[2] = "end_date" /\ \A i \in 1..7 : always[i] # "end_date"
      /\ \A i \in 1..5 : optional[i] = "end_date" => i = 2
  OBVIOUS
<1> HIDE DEF always, optional
<1>2. /\ Calls(a, 7)
      /\ \A i \in 1..7 : a[i].do = "Set" /\ (a[i].on = "status" => a[i].with = row.status)
  BY <1>1 DEF Set, Calls
<1>e. a[6].on = "status" /\ \A i \in 1..7 : a[i].on # "end_date"
  BY <1>1, <1>d DEF Set
<1>3. Calls(b, 2) /\ \A i \in 1..2 : b[i].do = "Set" /\ b[i].on # "status" /\ b[i].on # "end_date"
  BY DEF Set, Calls
<1>4. /\ Calls(c, 5)
      /\ \A i \in 1..5 : c[i].do \in {"Set", "Clear"} /\ c[i].on # "status"
  BY <1>1 DEF Set, Clear, Calls
<1>f. c[2].on = "end_date" /\ (row.end_date = Null => \A i \in 1..5 : c[i].on = "end_date" => c[i].do = "Clear")
  <2>1. c[2].on = "end_date"
    BY <1>1, <1>d DEF Set, Clear
  <2>2. \A i \in 1..5 : c[i].on = optional[i]
    BY <1>1 DEF Set, Clear
  <2>3. row.end_date = Null => c[2].do = "Clear"
    BY <1>1, <1>d DEF Clear
  <2> HIDE DEF c
  <2> QED BY <1>d, <2>1, <2>2, <2>3
<1>5. PICK d, calls : d = a \o b /\ calls = d \o c
  OBVIOUS
<1>c. Joins(a, b, d) /\ Joins(d, c, calls)
  BY <1>5 DEF Joins
<1>6. SaveMutation(row) = Build("Incident", calls)
  BY <1>5 DEF SaveMutation, always, optional
<1> HIDE DEF a, b, c
<1>7. /\ DOMAIN d = 1..(7 + 2) /\ Calls(d, 7 + 2)
      /\ \A i \in 1..(7 + 2) : (i \in 1..7 /\ d[i] = a[i]) \/ (i - 7 \in 1..2 /\ d[i] = b[i - 7])
      /\ \A i \in 1..7 : d[i] = a[i]
  <2>1. Calls(a, 7) /\ Calls(b, 2)
    BY <1>2, <1>3
  <2>2. Joined(a, 7, b, 2, d)
    BY <1>c, <2>1, JoinCalls
  <2>3. \A i \in 1..7 : d[i] = a[i]
    BY <1>c, <2>1, FirstCalls
  <2> QED BY <2>2, <2>3 DEF Joined
<1>8. Calls(d, 9) /\ \A i \in 1..9 : d[i].do = "Set" /\ (d[i].on = "status" => d[i].with = row.status)
                                            /\ d[i].on # "end_date"
  BY <1>2, <1>3, <1>7, <1>e
<1>a. 7 + 2 = 9
  OBVIOUS
<1>9. /\ DOMAIN calls = 1..(9 + 5)
      /\ \A i \in 1..(9 + 5) : (i \in 1..9 /\ calls[i] = d[i]) \/ (i - 9 \in 1..5 /\ calls[i] = c[i - 9])
      /\ \A i \in 1..9 : calls[i] = d[i]
      /\ calls[11] = c[2]
  <2>1. Calls(d, 9) /\ Calls(c, 5)
    BY <1>4, <1>8
  <2>2. Joined(d, 9, c, 5, calls)
    BY <1>c, <2>1, JoinCalls
  <2>3. \A i \in 1..9 : calls[i] = d[i]
    BY <1>c, <2>1, FirstCalls
  <2>4. calls[11] = c[2]
    <3>1. (11 \in 1..9 /\ calls[11] = d[11]) \/ (11 - 9 \in 1..5 /\ calls[11] = c[11 - 9])
      BY <2>2 DEF Joined
    <3> QED BY <3>1
  <2> QED BY <2>2, <2>3, <2>4 DEF Joined
<1>10. /\ DOMAIN calls = 1..14
       /\ \A i \in 1..14 : calls[i].do \in {"Set", "Clear"}
                         /\ (calls[i].on = "status" => calls[i].do = "Set" /\ calls[i].with = row.status)
  BY <1>4, <1>8, <1>9
<1>b. OneKind(calls, 14, "status", "Set") /\ Called(calls, 14, "status")
  <2>1. 6 \in 1..7 /\ 6 \in 1..9 /\ 6 \in 1..14
    OBVIOUS
  <2>2. calls[6] = a[6]
    BY <1>7, <1>9, <2>1
  <2>3. Called(calls, 14, "status")
    BY <1>e, <2>1, <2>2 DEF Called
  <2> QED BY <1>10, <2>3 DEF OneKind
<1>11. Settable("Incident", "status") /\ Clearable("Incident", "end_date")
  BY DEF Settable, Clearable, Schema, IncidentUpdateSpec
<1>12. Given(z, "status", calls, 14)
  BY <1>b, <1>6, <1>11, SetColumn
<1>13. ASSUME "end_date" \in DOMAIN stored PROVE "end_date" \in DOMAIN z
  BY <1>13 DEF UpdateRow
<1>14. ASSUME "end_date" \in DOMAIN stored, row.end_date = Null PROVE z.end_date = Null
  <2>1. \A i \in 1..14 : calls[i].on = "end_date" => calls[i].do = "Clear"
    BY <1>8, <1>9, <1>14, <1>f
  <2>2. 11 \in 1..14
    OBVIOUS
  <2>3. Called(calls, 14, "end_date")
    BY <1>9, <1>f, <2>2 DEF Called
  <2>4. OneKind(calls, 14, "end_date", "Clear")
    BY <1>10, <2>1 DEF OneKind
  <2> QED BY <1>6, <1>11, <1>14, <2>3, <2>4, ClearColumn
<1> QED BY <1>10, <1>12, <1>13, <1>14 DEF Given

(* Reopening and editing leave a status. *)
LEMMA ReopenedStatus ==
  ASSUME NEW stored, "status" \in DOMAIN stored, NEW z,
         z = UpdateRow("Incident", Build("Incident", <<Clear("end_date")>>), stored)
  PROVE  "status" \in DOMAIN z /\ z.status = stored.status
<1>1. PICK c, calls : c = Clear("end_date") /\ calls = <<c>>
  OBVIOUS
<1>2. DOMAIN calls = 1..1 /\ \A k \in 1..1 : calls[k].do \in {"Set", "Clear"} /\ calls[k].on # "status"
  BY <1>1 DEF Clear
<1>b. Setting(calls, 1, "status")
  BY <1>2 DEF Setting
<1>3. SetOrLeft(z, stored, "status", calls, 1)
  BY <1>1, <1>b, UpdatedColumn
<1> QED BY <1>2, <1>3 DEF SetOrLeft

LEMMA EditedStatus ==
  ASSUME NEW stored, "status" \in DOMAIN stored, NEW z, z = UpdateRow("IncidentStatus", EditMutation, stored)
  PROVE  "status" \in DOMAIN z /\ z.status = stored.status
<1>1. PICK c, d, calls : c = Set("text", "edited") /\ d = Set("modified_at", Now) /\ calls = <<c, d>>
  OBVIOUS
<1>2. DOMAIN calls = 1..2 /\ \A k \in 1..2 : calls[k].do \in {"Set", "Clear"} /\ calls[k].on # "status"
  BY <1>1 DEF Set
<1>m. EditMutation = Build("IncidentStatus", calls)
  BY <1>1 DEF EditMutation
<1>b. Setting(calls, 2, "status")
  BY <1>2 DEF Setting
<1>3. SetOrLeft(z, stored, "status", calls, 2)
  BY <1>b, <1>m, UpdatedColumn
<1> QED BY <1>2, <1>3 DEF SetOrLeft

(* The updates read from the tables hold every status of the history. *)
LEMMA StatusesRead ==
  ASSUME NEW m \in Nat, NEW v, Numbered(v, m), \A k \in StatusRows(v) : "status" \in DOMAIN v[k],
         NEW e, NEW st \in Statuses(v, e), NEW c, c = StatusesByIncident(v, e)
  PROVE  st = "SYSTEM" \/ \E n \in DOMAIN c : c[n].status = st
<1> SUFFICES ASSUME st # "SYSTEM" PROVE \E n \in DOMAIN c : c[n].status = st
  OBVIOUS
<1>1. PICK k \in StatusRows(v) : v[k].incident_id = e /\ st = AsRead(v[k].status)
  BY DEF Statuses
<1>2. k = <<"IncidentStatus", k[2]>> /\ k[2] \in 1..m /\ k[1] = "IncidentStatus" /\ k \in DOMAIN v
  BY DEF Numbered, StatusRows
<1>3. PICK ids, x : ids = UpdateIds(v, e) /\ x = k[2]
  OBVIOUS
<1>4. ids \in SUBSET (1..m)
  BY <1>3 DEF UpdateIds, Numbered, StatusRows
<1>5. x \in ids
  BY <1>1, <1>2, <1>3 DEF UpdateIds
<1>6. PICK n \in DOMAIN Ascending(ids) : Ascending(ids)[n] = x
  BY <1>4, <1>5, AscendingHas
<1>7. PICK as : as = Ascending(ids)
  OBVIOUS
<1>8. StatusIds(v, e) = as /\ n \in DOMAIN as /\ as[n] = x
  BY <1>3, <1>6, <1>7 DEF StatusIds
<1>9. PICK row : row = v[<<"IncidentStatus", x>>]
  OBVIOUS
<1>10. row = v[k] /\ "status" \in DOMAIN row
  BY <1>2, <1>3, <1>9
<1>11. ReadBack("IncidentStatus", row).status = AsRead(row.status)
  BY <1>10, StatusRead
<1>12. n \in DOMAIN c /\ c[n].status = ReadBack("IncidentStatus", row).status
  BY <1>8, <1>9 DEF StatusesByIncident
<1> QED BY <1>1, <1>10, <1>11, <1>12

-----------------------------------------------------------------------------
(* Every status is explained by the history *)

LEMMA ExplainInvIs ==
  /\ ExplainInv <=> Recorded(db) /\ \A s \in Session : Told(db, ses[s])
  /\ ExplainInv' <=> Recorded(db') /\ \A s \in Session : Told(db', ses'[s])
<1>1. ExplainInv <=> Recorded(db) /\ \A s \in Session : Told(db, ses[s])
  BY DEF ExplainInv, Told, Truthful
<1>2. ExplainInv' <=> Recorded(db') /\ \A s \in Session : Told(db', ses'[s])
  BY DEF ExplainInv, Told, Truthful
<1> QED BY <1>1, <1>2

LEMMA ToldMore ==
  ASSUME NEW v, NEW u, NEW x, Told(v, x), Grown(v, u)
  PROVE  Told(u, x)
<1>1. \A e : Explained(v, x, e) \subseteq Explained(u, x, e)
  BY DEF Explained, Grown
<1>2. Recording(u, x)
  <2>1. Recording(v, x)
    BY DEF Told
  <2> QED BY <1>1, <2>1 DEF Recording, Rows, Grown
<1>3. \A e : Loaded(v, x, e) => Loaded(u, x, e)
  <2>1. \A e : <<"Incident", e>> \in DOMAIN v => <<"Incident", e>> \in DOMAIN u
    BY DEF Grown
  <2> QED BY <1>1, <2>1 DEF Loaded
<1>4. LoadedFirst(u, x)
  BY <1>3 DEF LoadedFirst, Told
<1>5. Answers(u, x)
  <2>1. Answers(v, x)
    BY DEF Told
  <2> QED BY <2>1 DEF Answers, Grown
<1> QED BY <1>2, <1>4, <1>5 DEF Told

(* A step of one session. *)
LEMMA ExplainOne ==
  ASSUME ExplainInv, NEW s \in Session, Others(s), Recorded(db'), Grown(db, db'), Told(db', ses'[s])
  PROVE  ExplainInv'
<1>1. \A t \in Session : Told(db, ses[t])
  BY ExplainInvIs
<1>2. ASSUME NEW t \in Session PROVE Told(db', ses'[t])
  <2>1. CASE t = s
    BY <2>1
  <2>2. CASE t # s
    <3>1. ses'[t] = ses[t]
      BY <2>2 DEF Others
    <3>2. Told(db', ses[t])
      BY <1>1, ToldMore
    <3> QED BY <3>1, <3>2
  <2> QED BY <2>1, <2>2
<1> QED BY <1>2, ExplainInvIs

LEMMA GrownSame == \A v : Grown(v, v)
BY DEF Grown

(* A handler that answers. *)
LEMMA ExplainAnswered ==
  ASSUME Sessions, ExplainInv, NEW s \in Session, Answered(s), db' = db
  PROVE  ExplainInv'
<1>1. PICK x, y : x = ses[s] /\ y = ses'[s]
  OBVIOUS
<1>2. y.todo = <<>> /\ DOMAIN y.w = {} /\ DOMAIN y.copy = {} /\ Others(s)
  BY <1>1 DEF Answered
<1>3. DOMAIN <<>> = {}
  OBVIOUS
<1>4. Recording(db, y) /\ LoadedFirst(db, y) /\ Copies(y) /\ Answers(db, y)
  BY <1>2, <1>3 DEF Recording, LoadedFirst, Copies, Answers, StatusRows, Rows
<1>5. ASSUME y.reply # Null, y.reply.event # Null PROVE y.reply.raw \in y.reply.history \cup {"SYSTEM"}
  <2>1. PICK c : c = x.copy[Event(s)]
    OBVIOUS
  <2>2. /\ At(s, "answer") /\ y.reply.raw = c.row.status
        /\ y.reply.history = {c.statuses[i].status : i \in DOMAIN c.statuses}
    BY <1>1, <1>5, <2>1 DEF Answered, Replied
  <2>3. 1 \in DOMAIN x.todo /\ x.todo[1][1] = "answer" /\ x.todo[1][2] = Event(s)
    BY <1>1, <2>2, AtIs
  <2>4. Answers(db, x)
    BY <1>1, ExplainInvIs DEF Told
  <2>5. c.row.status \in Accounts(c)
    BY <2>1, <2>3, <2>4 DEF Answers
  <2> QED BY <2>2, <2>5 DEF Accounts
<1>6. Told(db, y)
  BY <1>4, <1>5 DEF Told, Truthful
<1>7. Recorded(db)
  BY ExplainInvIs
<1> QED BY <1>1, <1>2, <1>6, <1>7, ExplainOne, GrownSame

-----------------------------------------------------------------------------
(* The next step of a handler *)

LEMMA CopiesCarried ==
  ASSUME NEW v, NEW x, NEW u, NEW y, Carries(v, x, u, y), Copies(x)
  PROVE  Copies(y)
<1>1. PICK t, r : t = x.todo /\ r = y.todo
  OBVIOUS
<1>2. t \in Seq(Steps) /\ t # <<>> /\ r = Tail(t)
  BY <1>1 DEF Carries
<1>3. /\ DOMAIN r = 1..(Len(t) - 1) /\ Len(t) \in Nat \ {0} /\ DOMAIN t = 1..Len(t)
      /\ \A i \in DOMAIN r : r[i] = t[i + 1]
  BY <1>2, TailIs
<1>4. \A i \in DOMAIN r : i + 1 \in DOMAIN t
  BY <1>3
<1>5. /\ \A i \in DOMAIN t :
           /\ t[i][1] \in {"prepare", "extract"} => {x.req.e, x.req.f} \subseteq DOMAIN x.copy
           /\ t[i][1] \notin {"exists", "component", "attribute", "commit", "done"} => t[i][2] \in DOMAIN x.copy
      /\ \A e \in DOMAIN x.copy : DOMAIN x.copy[e] = DOMAIN Copy
  BY <1>1 DEF Copies
<1>6. y.req = x.req /\ DOMAIN y.copy = DOMAIN x.copy /\ \A e \in DOMAIN x.copy : DOMAIN y.copy[e] = DOMAIN x.copy[e]
  BY DEF Carries
<1>7. /\ \A i \in DOMAIN r :
           /\ r[i][1] \in {"prepare", "extract"} => {y.req.e, y.req.f} \subseteq DOMAIN y.copy
           /\ r[i][1] \notin {"exists", "component", "attribute", "commit", "done"} => r[i][2] \in DOMAIN y.copy
  BY <1>3, <1>4, <1>5, <1>6
<1>8. \A e \in DOMAIN y.copy : DOMAIN y.copy[e] = DOMAIN Copy
  BY <1>5, <1>6
<1> QED BY <1>1, <1>7, <1>8 DEF Copies

(* What was explained stays so. *)
LEMMA ExplainedCarried ==
  ASSUME NEW v, NEW x, NEW u, NEW y, Carries(v, x, u, y), Copies(x), NEW e
  PROVE  Explained(v, x, e) \subseteq Explained(u, y, e)
<1>1. PICK t, r : t = x.todo /\ r = y.todo
  OBVIOUS
<1>2. t \in Seq(Steps) /\ t # <<>> /\ r = Tail(t)
  BY <1>1 DEF Carries
<1>3. /\ DOMAIN r = 1..(Len(t) - 1) /\ Len(t) \in Nat \ {0} /\ DOMAIN t = 1..Len(t)
      /\ \A i \in DOMAIN r : r[i] = t[i + 1]
  BY <1>2, TailIs
<1>4. ASSUME NEW z \in Explained(v, x, e) PROVE z \in Explained(u, y, e)
  <2>1. CASE z \in Statuses(v, e) \cup Statuses(x.w, e)
    BY <2>1 DEF Explained, Carries
  <2>2. CASE z \notin Statuses(v, e) \cup Statuses(x.w, e)
    <3>1. PICK i \in DOMAIN t : t[i] = <<"insert", e>> /\ z = AsRead(Head(x.copy[e].new))
      BY <1>1, <2>2 DEF Explained
    <3>2. CASE t[1] = <<"insert", e>>
      BY <1>1, <3>1, <3>2 DEF Explained, Carries
    <3>3. CASE t[1] # <<"insert", e>>
      <4>1. t[i][1] = "insert" /\ t[i][2] = e
        BY <3>1
      <4>2. e \in DOMAIN x.copy
        BY <1>1, <4>1 DEF Copies
      <4>3. y.copy[e].new = x.copy[e].new
        BY <1>1, <3>3, <4>2 DEF Carries
      <4>4. i # 1
        BY <3>1, <3>3
      <4>5. i - 1 \in DOMAIN r /\ (i - 1) + 1 = i
        BY <1>3, <4>4
      <4>6. r[i - 1] = <<"insert", e>>
        BY <1>3, <3>1, <4>5
      <4> QED BY <1>1, <3>1, <4>3, <4>5, <4>6 DEF Explained
    <3> QED BY <3>2, <3>3
  <2> QED BY <2>1, <2>2
<1> QED BY <1>4

LEMMA LoadedCarried ==
  ASSUME NEW v, NEW x, NEW u, NEW y, Carries(v, x, u, y), RowsCarried(v, x, u, y), Copies(x), LoadedFirst(v, x)
  PROVE  LoadedFirst(u, y)
<1>1. PICK t, r : t = x.todo /\ r = y.todo
  OBVIOUS
<1>2. t \in Seq(Steps) /\ t # <<>> /\ r = Tail(t) /\ y.req = x.req
  BY <1>1 DEF Carries
<1>3. /\ DOMAIN r = 1..(Len(t) - 1) /\ Len(t) \in Nat \ {0} /\ DOMAIN t = 1..Len(t)
      /\ \A i \in DOMAIN r : r[i] = t[i + 1]
  BY <1>2, TailIs
<1>4. \A e : Explained(v, x, e) \subseteq Explained(u, y, e)
  BY ExplainedCarried
<1>5. ASSUME NEW i \in DOMAIN r, NEW e \in Uses(y, i)
      PROVE  (\E j \in 1..(i - 1) : r[j] = <<"row", e>>) \/ Loaded(u, y, e)
  <2>0. i \in Nat /\ i + 1 \in DOMAIN t /\ (i + 1) - 1 = i /\ y.todo[i] = x.todo[i + 1]
    BY <1>1, <1>3
  <2>1. e \in Uses(x, i + 1)
    BY <1>2, <2>0 DEF Uses
  <2>2. e \in DOMAIN x.copy
    BY <1>1, <2>0, <2>1 DEF Uses, Copies
  <2>3. CASE t[1] = <<"row", e>>
    BY <1>1, <2>3 DEF RowsCarried
  <2>4. CASE t[1] # <<"row", e>> /\ Loaded(v, x, e)
    BY <1>1, <1>4, <2>2, <2>4 DEF RowsCarried, Loaded
  <2>5. CASE t[1] # <<"row", e>> /\ ~Loaded(v, x, e)
    <3>1. PICK j \in 1..((i + 1) - 1) : t[j] = <<"row", e>>
      BY <1>1, <2>0, <2>1, <2>5 DEF LoadedFirst
    <3>2. j # 1
      BY <2>5, <3>1
    <3>3. j - 1 \in 1..(i - 1) /\ j - 1 \in DOMAIN r /\ (j - 1) + 1 = j
      BY <1>3, <2>0, <3>2
    <3>4. r[j - 1] = <<"row", e>>
      BY <1>3, <3>1, <3>3
    <3> QED BY <3>3, <3>4
  <2> QED BY <2>3, <2>4, <2>5
<1> QED BY <1>1, <1>5 DEF LoadedFirst

LEMMA LoadIs ==
  ASSUME NEW e
  PROVE  Load(e)[1] = <<"row", e>> /\ Load(e)[2] = <<"components", e>> /\ Load(e)[3] = <<"statuses", e>>
BY DEF Load

LEMMA AnswersCarried ==
  ASSUME NEW v, NEW x, NEW u, NEW y, Carries(v, x, u, y), ReadsCarried(v, x, u, y), Answers(v, x)
  PROVE  Answers(u, y)
<1>1. PICK t, r : t = x.todo /\ r = y.todo
  OBVIOUS
<1>2. t \in Seq(Steps) /\ t # <<>> /\ r = Tail(t)
  BY <1>1 DEF Carries
<1>3. /\ DOMAIN r = 1..(Len(t) - 1) /\ Len(r) = Len(t) - 1 /\ Len(t) \in Nat \ {0} /\ DOMAIN t = 1..Len(t)
      /\ \A i \in DOMAIN r : r[i] = t[i + 1]
  BY <1>2, TailIs
<1>4. ASSUME NEW i \in DOMAIN r, r[i][1] = "answer", NEW e, e = r[i][2]
      PROVE  /\ i = Len(r) /\ \A j \in 1..3 : j < i => r[i - j] = Load(e)[4 - j]
             /\ i \in 2..3 => y.copy[e].row.status \in Statuses(u, e)
             /\ i = 1 => y.copy[e].row.status \in Accounts(y.copy[e])
  <2>1. PICK k : k = i + 1
    OBVIOUS
  <2>2. k \in DOMAIN t /\ t[k] = r[i] /\ i \in Nat \ {0}
    BY <1>3, <2>1
  <2>3. /\ k = Len(t) /\ \A j \in 1..3 : j < k => t[k - j] = Load(e)[4 - j]
        /\ k \in 2..3 => x.copy[e].row.status \in Statuses(v, e)
    BY <1>1, <1>4, <2>2 DEF Answers
  <2>4. i = Len(r)
    BY <1>3, <2>1, <2>2, <2>3
  <2>5. ASSUME NEW j \in 1..3, j < i PROVE r[i - j] = Load(e)[4 - j]
    <3>1. i - j \in DOMAIN r /\ (i - j) + 1 = k - j /\ j < k
      BY <1>3, <2>1, <2>2, <2>5
    <3> QED BY <1>3, <2>3, <3>1
  <2>6. ASSUME NEW j \in 1..3, i = j PROVE t[1] = Load(e)[4 - j]
    <3>1. j < k /\ k - j = 1
      BY <2>1, <2>6
    <3> QED BY <2>3, <3>1
  <2>7. CASE i = 3
    <3>1. t[1] = <<"row", e>>
      <4>1. 4 - 3 = 1 /\ 3 \in 1..3
        OBVIOUS
      <4>2. t[1] = Load(e)[4 - 3]
        BY <2>6, <2>7, <4>1
      <4> QED BY <4>1, <4>2, LoadIs
    <3>2. y.copy[e].row.status \in Statuses(u, e)
      BY <1>1, <3>1 DEF ReadsCarried
    <3> QED BY <2>4, <2>5, <2>7, <3>2
  <2>8. CASE i = 2
    <3>1. t[1] = <<"components", e>>
      <4>1. 4 - 2 = 2 /\ 2 \in 1..3
        OBVIOUS
      <4>2. t[1] = Load(e)[4 - 2]
        BY <2>6, <2>8, <4>1
      <4> QED BY <4>1, <4>2, LoadIs
    <3>2. x.copy[e].row.status \in Statuses(v, e)
      BY <2>1, <2>3, <2>8
    <3>3. y.copy[e].row.status \in Statuses(u, e)
      BY <1>1, <3>1, <3>2 DEF ReadsCarried
    <3> QED BY <2>4, <2>5, <2>8, <3>3
  <2>9. CASE i = 1
    <3>1. t[1] = <<"statuses", e>>
      <4>1. 4 - 1 = 3 /\ 1 \in 1..3
        OBVIOUS
      <4>2. t[1] = Load(e)[4 - 1]
        BY <2>6, <2>9, <4>1
      <4> QED BY <4>1, <4>2, LoadIs
    <3>2. x.copy[e].row.status \in Statuses(v, e)
      BY <2>1, <2>3, <2>9
    <3>3. y.copy[e].row.status \in Accounts(y.copy[e])
      BY <1>1, <3>1, <3>2 DEF ReadsCarried
    <3> QED BY <2>4, <2>5, <2>9, <3>3
  <2>10. CASE i \notin 1..3
    BY <2>4, <2>5, <2>10
  <2>11. i \in 1..3 => i = 1 \/ i = 2 \/ i = 3
    OBVIOUS
  <2> QED BY <2>7, <2>8, <2>9, <2>10, <2>11
<1>5. ASSUME NEW i \in DOMAIN r, r[i][1] = "answer"
      PROVE  LET e == r[i][2]
                 c == y.copy[e]
             IN  /\ i = Len(r) /\ \A j \in 1..3 : j < i => r[i - j] = Load(e)[4 - j]
                 /\ i \in 2..3 => c.row.status \in Statuses(u, e)
                 /\ i = 1 => c.row.status \in Accounts(c)
  <2>1. PICK e : e = r[i][2]
    OBVIOUS
  <2>2. PICK c : c = y.copy[e]
    OBVIOUS
  <2>3. /\ i = Len(r) /\ \A j \in 1..3 : j < i => r[i - j] = Load(e)[4 - j]
        /\ i \in 2..3 => c.row.status \in Statuses(u, e)
        /\ i = 1 => c.row.status \in Accounts(c)
    BY <1>4, <1>5, <2>1, <2>2
  <2> QED BY <2>1, <2>2, <2>3
<1> QED BY <1>1, <1>5, Zenon DEF Answers

LEMMA ToldCarried ==
  ASSUME NEW v, NEW x, NEW u, NEW y, Told(v, x), Carries(v, x, u, y), RowsCarried(v, x, u, y),
         ReadsCarried(v, x, u, y), WritesCarried(x, u, y), y.reply = x.reply
  PROVE  Told(u, y)
<1>1. Copies(x) /\ LoadedFirst(v, x) /\ Answers(v, x) /\ Recording(v, x) /\ Truthful(x)
  BY DEF Told
<1>2. Copies(y) /\ LoadedFirst(u, y) /\ Answers(u, y)
  BY <1>1, CopiesCarried, LoadedCarried, AnswersCarried
<1>3. Recording(u, y)
  <2>1. \A e : Explained(v, x, e) \subseteq Explained(u, y, e)
    BY <1>1, ExplainedCarried
  <2>2. ASSUME NEW k \in Rows(y.w, "Incident")
        PROVE  /\ k = <<"Incident", k[2]>> /\ k \in DOMAIN u /\ k[2] \in DOMAIN y.copy
               /\ "status" \in DOMAIN y.w[k] /\ AsRead(y.w[k].status) \in Explained(u, y, k[2])
    <3>1. CASE k \in Rows(x.w, "Incident") /\ y.w[k] = x.w[k]
      <4>1. /\ k = <<"Incident", k[2]>> /\ k \in DOMAIN v /\ k[2] \in DOMAIN x.copy
            /\ "status" \in DOMAIN x.w[k] /\ AsRead(x.w[k].status) \in Explained(v, x, k[2])
        BY <1>1, <3>1 DEF Recording
      <4>2. k \in DOMAIN u
        BY <4>1 DEF RowsCarried
      <4>3. k[2] \in DOMAIN y.copy
        BY <4>1 DEF Carries
      <4> QED BY <2>1, <3>1, <4>1, <4>2, <4>3
    <3>2. CASE ~(k \in Rows(x.w, "Incident") /\ y.w[k] = x.w[k])
      BY <3>2 DEF WritesCarried
    <3> QED BY <3>1, <3>2
  <2> QED BY <2>2 DEF Recording, WritesCarried
<1>4. Truthful(y)
  BY <1>1 DEF Truthful
<1> QED BY <1>2, <1>3, <1>4 DEF Told

LEMMA SilentReads ==
  ASSUME NEW v, NEW x, NEW u, NEW y, NEW n, x.todo[1][1] = n, Silent(n)
  PROVE  /\ ReadsCarried(v, x, u, y)
         /\ \A e : x.todo[1] # <<"row", e>> /\ x.todo[1] # <<"insert", e>>
<1>1. \A e, m : x.todo[1] = <<m, e>> => m = n
  OBVIOUS
<1> QED BY <1>1 DEF ReadsCarried, Silent

(* A statement that reads, or only writes rows that are neither incidents nor updates. *)
LEMMA ExplainElsewhere ==
  ASSUME Sessions, ExplainInv, NEW s \in Session, NEW n, At(s, n), Silent(n), Others(s), db' = db,
         ses'[s].todo = Tail(ses[s].todo), ses'[s].req = ses[s].req, ses'[s].reply = ses[s].reply,
         DOMAIN ses'[s].copy = DOMAIN ses[s].copy,
         \A e \in DOMAIN ses[s].copy : /\ DOMAIN ses'[s].copy[e] = DOMAIN ses[s].copy[e]
                                       /\ ses'[s].copy[e].new = ses[s].copy[e].new
                                       /\ ses'[s].copy[e].row = ses[s].copy[e].row,
         NEW rows, ses'[s].w = Over(rows, ses[s].w), \A k \in DOMAIN rows : k[1] \notin {"Incident", "IncidentStatus"}
  PROVE  ExplainInv'
<1>1. PICK x, y, w, z : x = ses[s] /\ y = ses'[s] /\ w = x.w /\ z = y.w
  OBVIOUS
<1>2. Told(db, x) /\ Recorded(db)
  BY <1>1, ExplainInvIs
<1>3. x.todo \in Seq(Steps) /\ x.todo # <<>> /\ x.todo[1][1] = n
  BY <1>1, AtIs
<1>4. ReadsCarried(db, x, db, y) /\ \A e : x.todo[1] # <<"row", e>> /\ x.todo[1] # <<"insert", e>>
  BY <1>3, SilentReads
<1>5. /\ DOMAIN z = DOMAIN rows \cup DOMAIN w
      /\ \A k \in DOMAIN w \ DOMAIN rows : z[k] = w[k]
  <2>1. z = Over(rows, w)
    BY <1>1
  <2> QED BY <2>1 DEF Over
<1>6. StatusRows(z) = StatusRows(w) /\ (\A k \in StatusRows(w) : z[k] = w[k])
  BY <1>5 DEF StatusRows
<1>7. Rows(z, "Incident") = Rows(w, "Incident") /\ (\A k \in Rows(w, "Incident") : z[k] = w[k])
  BY <1>5 DEF Rows
<1>8. \A e : Statuses(z, e) = Statuses(w, e)
  BY <1>6 DEF Statuses
<1>9. Carries(db, x, db, y)
  BY <1>1, <1>3, <1>4, <1>8 DEF Carries
<1>10. RowsCarried(db, x, db, y)
  BY <1>1, <1>4 DEF RowsCarried
<1>11. WritesCarried(x, db, y)
  <2>1. Recording(db, x)
    BY <1>2 DEF Told
  <2> QED BY <1>1, <1>6, <1>7, <2>1 DEF WritesCarried, Recording
<1>12. y.reply = x.reply
  BY <1>1
<1>13. Told(db, y)
  BY <1>2, <1>4, <1>9, <1>10, <1>11, <1>12, ToldCarried
<1> QED BY <1>1, <1>2, <1>13, ExplainOne, GrownSame

(* Outside a transaction a session sees what is committed. *)
LEMMA ViewOutside ==
  ASSUME NEW s, DOMAIN ses[s].w = {}, NEW v, v = View(s)
  PROVE  DOMAIN v = DOMAIN db /\ \A k \in DOMAIN db : v[k] = db[k]
BY DEF View, Overlay

LEMMA RefreshedIs ==
  ASSUME NEW c, NEW e \in DOMAIN c, \A g \in DOMAIN c : DOMAIN c[g] = DOMAIN Copy, NEW z, NEW d
  PROVE  /\ d = [c EXCEPT ![e].row = z] => Refreshed(c, d, e, "row") /\ d[e].row = z
         /\ d = [c EXCEPT ![e].comps = z] => Refreshed(c, d, e, "comps") /\ d[e].comps = z
         /\ d = [c EXCEPT ![e].statuses = z] => Refreshed(c, d, e, "statuses") /\ d[e].statuses = z
<1>1. DOMAIN c[e] = {"row", "comps", "statuses", "new"}
  BY DEF Copy
<1> QED BY <1>1 DEF Refreshed

LEMMA CopyOf ==
  ASSUME Sessions, NEW s \in Session, NEW n, At(s, n), n \notin {"exists", "component", "attribute", "commit", "done"},
         NEW x, x = ses[s], Copies(x)
  PROVE  Event(s) \in DOMAIN x.copy /\ \A g \in DOMAIN x.copy : DOMAIN x.copy[g] = DOMAIN Copy
<1>1. 1 \in DOMAIN x.todo /\ x.todo[1][1] = n /\ Event(s) = x.todo[1][2]
  BY AtIs
<1> QED BY <1>1 DEF Copies

(* The step at the head, as a pair. *)
LEMMA HeadIs ==
  ASSUME Sessions, NEW s \in Session, NEW n, At(s, n)
  PROVE  ses[s].todo[1] = <<n, Event(s)>>
<1>1. PICK t : t = ses[s].todo
  OBVIOUS
<1>2. t \in Seq(Steps) /\ 1 \in DOMAIN t /\ t[1][1] = n /\ Event(s) = t[1][2]
  BY <1>1, AtIs
<1>3. t[1] \in Steps
  BY <1>2
<1>4. t[1] = <<t[1][1], t[1][2]>>
  BY <1>3 DEF Steps
<1> QED BY <1>1, <1>2, <1>4

LEMMA ExplainReads ==
  ASSUME Sessions, ExplainInv, NEW s \in Session, NEW n \in {"row", "components", "statuses"}, At(s, n), Read(s),
         NEW f, Refreshed(ses[s].copy, ses'[s].copy, Event(s), f), f = "row" => n = "row",
         n = "row" => Loaded(db, ses'[s], Event(s)),
         n \in {"row", "components"} => ReadsCarried(db, ses[s], db, ses'[s]),
         n = "statuses" => ReadsCarried(db, ses[s], db, ses'[s])
  PROVE  ExplainInv'
<1>1. PICK x, y, e : x = ses[s] /\ y = ses'[s] /\ e = Event(s)
  OBVIOUS
<1>2. Told(db, x) /\ Recorded(db)
  BY <1>1, ExplainInvIs
<1>3. x.todo \in Seq(Steps) /\ x.todo # <<>> /\ x.todo[1] = <<n, e>> /\ DOMAIN x.w = {}
  BY <1>1, AtIs, HeadIs DEF OutsideTx
<1>4. y.todo = Tail(x.todo) /\ y.req = x.req /\ y.reply = x.reply /\ y.w = x.w /\ db' = db /\ Others(s)
  BY <1>1 DEF Read, Same
<1>5. Refreshed(x.copy, y.copy, e, f) /\ (n = "row" => Loaded(db, y, e)) /\ ReadsCarried(db, x, db, y)
  BY <1>1
<1>6. \A g : /\ x.todo[1] # <<"insert", g>>
             /\ x.todo[1] = <<"row", g>> => n = "row" /\ g = e
             /\ x.todo[1] # <<"row", g>> => n # "row" \/ g # e
  BY <1>3
<1>7. Carries(db, x, db, y)
  BY <1>3, <1>4, <1>5, <1>6 DEF Carries, Refreshed
<1>8. RowsCarried(db, x, db, y)
  <2>1. ASSUME NEW g \in DOMAIN x.copy, x.todo[1] # <<"row", g>> PROVE y.copy[g].row = x.copy[g].row
    <3>1. CASE g # e
      BY <1>5, <3>1 DEF Refreshed
    <3>2. CASE g = e
      BY <1>5, <1>6, <2>1, <3>2 DEF Refreshed
    <3> QED BY <3>1, <3>2
  <2> QED BY <1>5, <1>6, <2>1 DEF RowsCarried
<1>9. WritesCarried(x, db, y)
  BY <1>3, <1>4 DEF WritesCarried, StatusRows, Rows
<1>10. Told(db, y)
  BY <1>2, <1>4, <1>5, <1>7, <1>8, <1>9, ToldCarried
<1> QED BY <1>1, <1>2, <1>4, <1>10, ExplainOne, GrownSame

LEMMA ExplainReadRow ==
  ASSUME Sessions, ExplainInv, NEW s \in Session, ReadRow(s), ~(Answered(s) /\ Same)
  PROVE  ExplainInv'
<1>1. PICK x, y, e, v, rb : /\ x = ses[s] /\ y = ses'[s] /\ e = Event(s) /\ v = View(s)
                            /\ rb = ReadBack("Incident", v[<<"Incident", e>>])
  OBVIOUS
<1>2. At(s, "row") /\ e \in Ids(v, "Incident") /\ Read(s) /\ y.copy = [x.copy EXCEPT ![e].row = rb]
  BY <1>1, ReadRowIs
<1>3. Told(db, x) /\ Recorded(db)
  BY <1>1, ExplainInvIs
<1>4. e \in DOMAIN x.copy /\ \A g \in DOMAIN x.copy : DOMAIN x.copy[g] = DOMAIN Copy
  BY <1>1, <1>2, <1>3, CopyOf DEF Told
<1>5. Refreshed(x.copy, y.copy, e, "row") /\ y.copy[e].row = rb
  <2>1. PICK c, d : c = x.copy /\ d = y.copy
    OBVIOUS
  <2>2. e \in DOMAIN c /\ (\A g \in DOMAIN c : DOMAIN c[g] = DOMAIN Copy) /\ d = [c EXCEPT ![e].row = rb]
    BY <1>2, <1>4, <2>1
  <2>3. Refreshed(c, d, e, "row")
    BY <2>2, RefreshedIs
  <2>4. "row" \in DOMAIN c[e]
    BY <2>2 DEF Copy
  <2>5. d[e].row = rb
    BY <2>2, <2>4
  <2> QED BY <2>1, <2>3, <2>5
<1>6. DOMAIN v = DOMAIN db /\ \A k \in DOMAIN db : v[k] = db[k]
  <2>1. DOMAIN ses[s].w = {}
    BY <1>2, AtIs DEF OutsideTx
  <2> QED BY <1>1, <2>1, ViewOutside
<1>7. PICK k \in Rows(db, "Incident") : k[2] = e
  BY <1>2, <1>6 DEF Ids, Rows
<1>8. k = <<"Incident", e>> /\ "status" \in DOMAIN db[k] /\ AsRead(db[k].status) \in Statuses(db, e) /\ k \in DOMAIN db
  BY <1>3, <1>7 DEF Recorded, Rows
<1>9. PICK row : row = db[k]
  OBVIOUS
<1>10. rb = ReadBack("Incident", row) /\ "status" \in DOMAIN row
  BY <1>1, <1>6, <1>8, <1>9
<1>11. "status" \in DOMAIN rb /\ rb.status = AsRead(row.status)
  BY <1>10, StatusRead
<1>12. rb.status \in Statuses(db, e) /\ AsRead(rb.status) \in Statuses(db, e)
  BY <1>8, <1>9, <1>11, ReadOnce
<1>13. Loaded(db, y, e)
  BY <1>5, <1>8, <1>11, <1>12 DEF Loaded, Explained
<1>14. ReadsCarried(db, x, db, y)
  <2>1. x.todo[1] = <<"row", e>>
    BY <1>1, <1>2, HeadIs
  <2>2. \A g : x.todo[1] # <<"components", g>> /\ x.todo[1] # <<"statuses", g>>
    BY <2>1
  <2>3. \A g : x.todo[1] = <<"row", g>> => g = e
    BY <2>1
  <2> QED BY <1>5, <1>12, <2>2, <2>3 DEF ReadsCarried
<1> QED BY <1>1, <1>2, <1>5, <1>13, <1>14, ExplainReads

LEMMA ExplainReadComponents ==
  ASSUME Sessions, ExplainInv, NEW s \in Session, ReadComponents(s)
  PROVE  ExplainInv'
<1>1. PICK x, y, e, z : x = ses[s] /\ y = ses'[s] /\ e = Event(s) /\ z = Components(View(s), Event(s))
  OBVIOUS
<1>2. At(s, "components") /\ Read(s) /\ y.copy = [x.copy EXCEPT ![e].comps = z]
  BY <1>1, ReadComponentsIs
<1>3. Told(db, x) /\ Recorded(db)
  BY <1>1, ExplainInvIs
<1>4. e \in DOMAIN x.copy /\ \A g \in DOMAIN x.copy : DOMAIN x.copy[g] = DOMAIN Copy
  BY <1>1, <1>2, <1>3, CopyOf DEF Told
<1>5. Refreshed(x.copy, y.copy, e, "comps")
  <2>1. PICK c, d : c = x.copy /\ d = y.copy
    OBVIOUS
  <2>2. e \in DOMAIN c /\ (\A g \in DOMAIN c : DOMAIN c[g] = DOMAIN Copy) /\ d = [c EXCEPT ![e].comps = z]
    BY <1>2, <1>4, <2>1
  <2>3. Refreshed(c, d, e, "comps")
    BY <2>2, RefreshedIs
  <2> QED BY <2>1, <2>3
<1>6. ReadsCarried(db, x, db, y)
  <2>1. x.todo[1] = <<"components", e>>
    BY <1>1, <1>2, HeadIs
  <2>2. \A g : x.todo[1] # <<"row", g>> /\ x.todo[1] # <<"statuses", g>>
    BY <2>1
  <2>3. \A g : x.todo[1] = <<"components", g>> => g = e
    BY <2>1
  <2>4. y.copy[e].row = x.copy[e].row
    BY <1>5 DEF Refreshed
  <2> QED BY <2>2, <2>3, <2>4 DEF ReadsCarried
<1> QED BY <1>1, <1>2, <1>5, <1>6, ExplainReads

LEMMA ExplainReadStatuses ==
  ASSUME Sessions, AppendInv, ExplainInv, NEW s \in Session, ReadStatuses(s)
  PROVE  ExplainInv'
<1>1. PICK x, y, e, v, z, m : /\ x = ses[s] /\ y = ses'[s] /\ e = Event(s) /\ v = View(s)
                              /\ z = StatusesByIncident(v, e) /\ m = seq["IncidentStatus"]
  OBVIOUS
<1>2. At(s, "statuses") /\ Read(s) /\ y.copy = [x.copy EXCEPT ![e].statuses = z]
  BY <1>1, ReadStatusesIs
<1>3. Told(db, x) /\ Recorded(db)
  BY <1>1, ExplainInvIs
<1>4. e \in DOMAIN x.copy /\ \A g \in DOMAIN x.copy : DOMAIN x.copy[g] = DOMAIN Copy
  BY <1>1, <1>2, <1>3, CopyOf DEF Told
<1>5. Refreshed(x.copy, y.copy, e, "statuses") /\ y.copy[e].statuses = z
  <2>1. PICK c, d : c = x.copy /\ d = y.copy
    OBVIOUS
  <2>2. e \in DOMAIN c /\ (\A g \in DOMAIN c : DOMAIN c[g] = DOMAIN Copy) /\ d = [c EXCEPT ![e].statuses = z]
    BY <1>2, <1>4, <2>1
  <2>3. Refreshed(c, d, e, "statuses")
    BY <2>2, RefreshedIs
  <2>4. "statuses" \in DOMAIN c[e]
    BY <2>2 DEF Copy
  <2>5. d[e].statuses = z
    BY <2>2, <2>4
  <2> QED BY <2>1, <2>3, <2>5
<1>6. DOMAIN v = DOMAIN db /\ \A k \in DOMAIN db : v[k] = db[k]
  <2>1. DOMAIN ses[s].w = {}
    BY <1>2, AtIs DEF OutsideTx
  <2> QED BY <1>1, <2>1, ViewOutside
<1>7. StatusRows(v) = StatusRows(db) /\ \A k \in StatusRows(db) : v[k] = db[k]
  BY <1>6 DEF StatusRows
<1>8. m \in Nat /\ Numbered(v, m)
  BY <1>1, <1>7, AppendInvIs DEF Numbered
<1>9. (\A k \in StatusRows(v) : "status" \in DOMAIN v[k]) /\ Statuses(v, e) = Statuses(db, e)
  BY <1>3, <1>7 DEF Recorded, Statuses
<1>10. ASSUME NEW st \in Statuses(db, e) PROVE st = "SYSTEM" \/ \E n \in DOMAIN z : z[n].status = st
  BY <1>1, <1>8, <1>9, StatusesRead
<1>11. ReadsCarried(db, x, db, y)
  <2>1. x.todo[1] = <<"statuses", e>>
    BY <1>1, <1>2, HeadIs
  <2>2. \A g : x.todo[1] # <<"row", g>> /\ x.todo[1] # <<"components", g>>
    BY <2>1
  <2>3. \A g : x.todo[1] = <<"statuses", g>> => g = e
    BY <2>1
  <2>4. y.copy[e].row = x.copy[e].row
    BY <1>5 DEF Refreshed
  <2> QED BY <1>5, <1>10, <2>2, <2>3, <2>4 DEF ReadsCarried, Accounts
<1> QED BY <1>1, <1>2, <1>5, <1>11, ExplainReads

(* The event of a step that works on its copy is loaded. *)
LEMMA LoadedAt ==
  ASSUME Sessions, NEW s \in Session, NEW n \in {"decide", "modify", "save", "reopen"}, At(s, n),
         NEW x, x = ses[s], NEW v, LoadedFirst(v, x)
  PROVE  Loaded(v, x, Event(s))
<1>1. 1 \in DOMAIN x.todo /\ x.todo[1][1] = n /\ Event(s) = x.todo[1][2]
  BY AtIs
<1>2. Event(s) \in Uses(x, 1)
  BY <1>1 DEF Uses
<1>3. \A j \in 1..(1 - 1) : FALSE
  OBVIOUS
<1> QED BY <1>1, <1>2, <1>3 DEF LoadedFirst

LEMMA GoneStatus == \A r : "status" \in DOMAIN r => r # Gone
BY GoneEmpty

(* The status an UPDATE finds is explained. *)
LEMMA FoundStatus ==
  ASSUME ExplainInv, NEW s \in Session, NEW e, <<"Incident", e>> \in DOMAIN db, NEW z, z = View(s)[<<"Incident", e>>]
  PROVE  "status" \in DOMAIN z /\ AsRead(z.status) \in Explained(db, ses[s], e)
<1>1. PICK x, w, k : x = ses[s] /\ w = ses[s].w /\ k = <<"Incident", e>>
  OBVIOUS
<1>2. Recorded(db) /\ Recording(db, x)
  BY <1>1, ExplainInvIs DEF Told
<1>3. k[1] = "Incident" /\ k[2] = e
  BY <1>1
<1>4. CASE k \in DOMAIN w
  <2>1. "status" \in DOMAIN w[k] /\ AsRead(w[k].status) \in Explained(db, x, e)
    BY <1>1, <1>2, <1>3, <1>4 DEF Recording, Rows
  <2>2. w[k] # Gone
    BY <2>1, GoneStatus
  <2>3. z = w[k]
    BY <1>1, <1>4, <2>2 DEF View, Overlay
  <2> QED BY <1>1, <2>1, <2>3
<1>5. CASE k \notin DOMAIN w
  <2>1. "status" \in DOMAIN db[k] /\ AsRead(db[k].status) \in Statuses(db, e)
    BY <1>1, <1>2, <1>3 DEF Recorded, Rows
  <2>2. z = db[k]
    BY <1>1, <1>5 DEF View, Overlay
  <2> QED BY <1>1, <2>1, <2>2 DEF Explained
<1> QED BY <1>4, <1>5

(* An incident is written in a transaction. *)
LEMMA ExplainSaved ==
  ASSUME Sessions, ExplainInv, NEW s \in Session, NEW n \in {"modify", "save"}, At(s, n),
         NEW z, Wrote(s, Entry(<<"Incident", Event(s)>>, z)), CopiesKept(ses[s].copy, ses'[s].copy),
         "status" \in DOMAIN z, AsRead(z.status) \in Explained(db, ses[s], Event(s))
  PROVE  ExplainInv'
<1>1. PICK x, y, e, w, r, k : x = ses[s] /\ y = ses'[s] /\ e = Event(s) /\ w = x.w /\ r = y.w /\ k = <<"Incident", e>>
  OBVIOUS
<1>2. Told(db, x) /\ Recorded(db)
  BY <1>1, ExplainInvIs
<1>3. x.todo \in Seq(Steps) /\ x.todo # <<>> /\ x.todo[1][1] = n
  BY <1>1, AtIs
<1>4. ReadsCarried(db, x, db, y) /\ \A g : x.todo[1] # <<"row", g>> /\ x.todo[1] # <<"insert", g>>
  <2>1. Silent(n)
    BY DEF Silent
  <2> QED BY <1>3, <2>1, SilentReads
<1>5. /\ y.todo = Tail(x.todo) /\ y.req = x.req /\ y.reply = x.reply /\ db' = db /\ Others(s)
      /\ r = Over(Entry(k, z), w)
  BY <1>1 DEF Wrote
<1>6. DOMAIN r = {k} \cup DOMAIN w /\ r[k] = z /\ \A h \in DOMAIN w \ {k} : r[h] = w[h]
  BY <1>5 DEF Over, Entry
<1>7. k[1] = "Incident" /\ k[2] = e
  BY <1>1
<1>8. StatusRows(r) = StatusRows(w) /\ (\A h \in StatusRows(w) : r[h] = w[h])
  BY <1>6, <1>7 DEF StatusRows
<1>9. \A g : Statuses(r, g) = Statuses(w, g)
  BY <1>8 DEF Statuses
<1>10. CopiesKept(x.copy, y.copy)
  BY <1>1
<1>11. Carries(db, x, db, y)
  BY <1>1, <1>3, <1>4, <1>5, <1>9, <1>10 DEF Carries, CopiesKept
<1>12. RowsCarried(db, x, db, y)
  BY <1>4, <1>10 DEF RowsCarried, CopiesKept
<1>13. Copies(x) /\ Recording(db, x) /\ LoadedFirst(db, x)
  BY <1>2 DEF Told
<1>14. WritesCarried(x, db, y)
  <2>1. \A h \in StatusRows(r) : "status" \in DOMAIN r[h]
    BY <1>1, <1>8, <1>13 DEF Recording
  <2>2. AsRead(z.status) \in Explained(db, y, e)
    <3>1. Explained(db, x, e) \subseteq Explained(db, y, e)
      BY <1>11, <1>13, ExplainedCarried
    <3> QED BY <1>1, <3>1
  <2>3. k \in DOMAIN db
    BY <1>1, <1>13, LoadedAt DEF Loaded
  <2>4. e \in DOMAIN y.copy
    <3>1. e \in DOMAIN x.copy
      BY <1>1, <1>13, CopyOf
    <3> QED BY <1>10, <3>1 DEF CopiesKept
  <2>5. ASSUME NEW h \in Rows(r, "Incident")
        PROVE  \/ h \in Rows(w, "Incident") /\ r[h] = w[h]
               \/ /\ h = <<"Incident", h[2]>> /\ h \in DOMAIN db /\ h[2] \in DOMAIN y.copy
                  /\ "status" \in DOMAIN r[h] /\ AsRead(r[h].status) \in Explained(db, y, h[2])
    <3>1. CASE h = k
      BY <1>1, <1>6, <1>7, <2>2, <2>3, <2>4, <3>1
    <3>2. CASE h # k
      BY <1>6, <3>2 DEF Rows
    <3> QED BY <3>1, <3>2
  <2> QED BY <1>1, <2>1, <2>5 DEF WritesCarried
<1>15. Told(db, y)
  BY <1>2, <1>4, <1>5, <1>11, <1>12, <1>14, ToldCarried
<1> QED BY <1>1, <1>2, <1>5, <1>15, ExplainOne, GrownSame

LEMMA ExplainModify ==
  ASSUME Sessions, ExplainInv, NEW s \in Session, ModifyIncident(s), ~(Answered(s) /\ Same)
  PROVE  ExplainInv'
<1>1. PICK x, e, row, stored, z :
        /\ x = ses[s] /\ e = Event(s) /\ row = x.copy[e].row /\ stored = View(s)[<<"Incident", e>>]
        /\ z = UpdateRow("Incident", PatchMutation(row), stored)
  OBVIOUS
<1>2. At(s, "modify") /\ Wrote(s, Entry(<<"Incident", e>>, z)) /\ ses'[s].copy = [x.copy EXCEPT ![e].row.version = @ + 1]
  BY <1>1, ModifyIncidentIs
<1>3. Told(db, x)
  BY <1>1, ExplainInvIs
<1>4. Copies(x) /\ Loaded(db, x, e)
  <2>1. Copies(x) /\ LoadedFirst(db, x)
    BY <1>3 DEF Told
  <2> QED BY <1>1, <1>2, <2>1, LoadedAt
<1>5. "status" \in DOMAIN stored /\ AsRead(stored.status) \in Explained(db, x, e)
  BY <1>1, <1>4, FoundStatus DEF Loaded
<1>6. "status" \in DOMAIN z /\ z.status \in {stored.status, row.status}
  BY <1>1, <1>5, PatchedStatus
<1>7. AsRead(z.status) \in Explained(db, x, e)
  BY <1>1, <1>4, <1>5, <1>6 DEF Loaded
<1>8. CopiesKept(x.copy, ses'[s].copy)
  <2>1. PICK c, d : c = x.copy /\ d = ses'[s].copy
    OBVIOUS
  <2>2. d = [c EXCEPT ![e].row.version = @ + 1]
    BY <1>2, <2>1
  <2>3. e \in DOMAIN c /\ \A g \in DOMAIN c : DOMAIN c[g] = DOMAIN Copy
    BY <1>1, <1>2, <1>4, <2>1, CopyOf
  <2>4. DOMAIN c[e] = {"row", "comps", "statuses", "new"}
    BY <2>3 DEF Copy
  <2>5. DOMAIN d = DOMAIN c /\ \A g \in DOMAIN c \ {e} : d[g] = c[g]
    BY <2>2
  <2>6. DOMAIN d[e] = DOMAIN c[e] /\ d[e].new = c[e].new /\ d[e].row = [c[e].row EXCEPT !.version = @ + 1]
    BY <2>2, <2>3, <2>4
  <2>7. "status" \in DOMAIN c[e].row => "status" \in DOMAIN d[e].row /\ d[e].row.status = c[e].row.status
    BY <2>6
  <2>8. CopiesKept(c, d)
    BY <2>5, <2>6, <2>7 DEF CopiesKept
  <2> QED BY <2>1, <2>8
<1> QED BY <1>1, <1>2, <1>6, <1>7, <1>8, ExplainSaved

LEMMA ExplainSave ==
  ASSUME Sessions, ExplainInv, NEW s \in Session, SaveIncidentFull(s), ~(Answered(s) /\ Same)
  PROVE  ExplainInv'
<1>1. PICK x, e, row, stored, z :
        /\ x = ses[s] /\ e = Event(s) /\ row = x.copy[e].row /\ stored = View(s)[<<"Incident", e>>]
        /\ z = UpdateRow("Incident", SaveMutation(row), stored)
  OBVIOUS
<1>2. At(s, "save") /\ Wrote(s, Entry(<<"Incident", e>>, z)) /\ ses'[s].copy = x.copy
  BY <1>1, SaveIncidentFullIs
<1>3. Told(db, x)
  BY <1>1, ExplainInvIs
<1>4. Copies(x) /\ Loaded(db, x, e)
  <2>1. Copies(x) /\ LoadedFirst(db, x)
    BY <1>3 DEF Told
  <2> QED BY <1>1, <1>2, <2>1, LoadedAt
<1>5. "status" \in DOMAIN stored /\ AsRead(stored.status) \in Explained(db, x, e)
  BY <1>1, <1>4, FoundStatus DEF Loaded
<1>6. "status" \in DOMAIN z /\ z.status \in {stored.status, row.status}
  BY <1>1, <1>5, SavedStatus
<1>7. AsRead(z.status) \in Explained(db, x, e)
  BY <1>1, <1>4, <1>5, <1>6 DEF Loaded
<1>8. CopiesKept(x.copy, ses'[s].copy)
  BY <1>2 DEF CopiesKept
<1> QED BY <1>1, <1>2, <1>6, <1>7, <1>8, ExplainSaved

(* An update is inserted. *)
LEMMA ExplainInsert ==
  ASSUME Sessions, AppendInv, ExplainInv, NEW s \in Session, InsertStatuses(s)
  PROVE  ExplainInv'
<1>1. PICK x, y, e, w, r, m, st :
        /\ x = ses[s] /\ y = ses'[s] /\ e = Event(s) /\ w = x.w /\ r = y.w /\ m = seq["IncidentStatus"]
        /\ st = Head(x.copy[e].new)
  OBVIOUS
<1>2. PICK k, z : k = <<"IncidentStatus", m + 1>> /\ z = NewStatus(e, st)
  OBVIOUS
<1>3. At(s, "insert") /\ Wrote(s, Entry(k, z)) /\ y.copy = [x.copy EXCEPT ![e].new = <<>>]
  BY <1>1, <1>2, InsertStatusesIs
<1>4. Told(db, x) /\ Recorded(db)
  BY <1>1, ExplainInvIs
<1>5. Copies(x) /\ Recording(db, x)
  BY <1>4 DEF Told
<1>6. x.todo \in Seq(Steps) /\ x.todo # <<>> /\ x.todo[1] = <<"insert", e>>
  BY <1>1, <1>3, AtIs, HeadIs
<1>7. /\ y.todo = Tail(x.todo) /\ y.req = x.req /\ y.reply = x.reply /\ db' = db /\ Others(s)
      /\ r = Over(Entry(k, z), w)
  BY <1>1, <1>3 DEF Wrote
<1>8. k \notin DOMAIN w /\ k[1] = "IncidentStatus"
  <2>1. m \in Nat /\ Numbered(w, m)
    BY <1>1, AppendInvIs DEF Appends
  <2>2. k[1] = "IncidentStatus" /\ k[2] = m + 1 /\ m + 1 \notin 1..m
    BY <1>2, <2>1
  <2> QED BY <2>1, <2>2 DEF Numbered, StatusRows
<1>9. DOMAIN r = {k} \cup DOMAIN w /\ r[k] = z /\ \A h \in DOMAIN w : r[h] = w[h]
  BY <1>7, <1>8 DEF Over, Entry
<1>10. StatusRows(r) = {k} \cup StatusRows(w)
  BY <1>8, <1>9 DEF StatusRows
<1>11. z.incident_id = e /\ "status" \in DOMAIN z /\ z.status = st
  BY <1>2, NewStatusIs
<1>12. \A g : Statuses(w, g) \subseteq Statuses(r, g)
  BY <1>9, <1>10 DEF Statuses, StatusRows
<1>13. AsRead(st) \in Statuses(r, e)
  BY <1>9, <1>10, <1>11 DEF Statuses
<1>14. \A g, n : x.todo[1] = <<n, g>> => n = "insert" /\ g = e
  BY <1>6
<1>15. /\ DOMAIN y.copy = DOMAIN x.copy
       /\ \A g \in DOMAIN x.copy : /\ DOMAIN y.copy[g] = DOMAIN x.copy[g] /\ y.copy[g].row = x.copy[g].row
                                   /\ g # e => y.copy[g].new = x.copy[g].new
  <2>1. e \in DOMAIN x.copy /\ \A g \in DOMAIN x.copy : DOMAIN x.copy[g] = DOMAIN Copy
    BY <1>1, <1>3, <1>5, CopyOf
  <2>2. "row" \in DOMAIN x.copy[e]
    BY <2>1 DEF Copy
  <2> QED BY <1>3, <2>1, <2>2
<1>16. Carries(db, x, db, y)
  BY <1>1, <1>6, <1>7, <1>12, <1>13, <1>14, <1>15 DEF Carries
<1>17. RowsCarried(db, x, db, y) /\ ReadsCarried(db, x, db, y)
  BY <1>14, <1>15 DEF RowsCarried, ReadsCarried
<1>18. WritesCarried(x, db, y)
  <2>1. \A h \in StatusRows(r) : "status" \in DOMAIN r[h]
    BY <1>1, <1>5, <1>9, <1>10, <1>11 DEF Recording, StatusRows
  <2>2. \A h \in Rows(r, "Incident") : h \in Rows(w, "Incident") /\ r[h] = w[h]
    BY <1>8, <1>9 DEF Rows
  <2> QED BY <1>1, <2>1, <2>2 DEF WritesCarried
<1>19. Told(db, y)
  BY <1>4, <1>7, <1>16, <1>17, <1>18, ToldCarried
<1> QED BY <1>1, <1>4, <1>7, <1>19, ExplainOne, GrownSame

(* A statement that commits. *)
LEMMA ExplainStored ==
  ASSUME Sessions, ExplainInv, NEW s \in Session, NEW n, At(s, n), Silent(n), Others(s),
         ses'[s].todo = Tail(ses[s].todo), ses'[s].req = ses[s].req, ses'[s].reply = ses[s].reply,
         ses'[s].copy = ses[s].copy, DOMAIN ses'[s].w = {},
         Recorded(db'), Grown(db, db'), \A e : Statuses(ses[s].w, e) \subseteq Statuses(db', e)
  PROVE  ExplainInv'
<1>1. PICK x, y : x = ses[s] /\ y = ses'[s]
  OBVIOUS
<1>2. Told(db, x)
  BY <1>1, ExplainInvIs
<1>3. x.todo \in Seq(Steps) /\ x.todo # <<>> /\ x.todo[1][1] = n
  BY <1>1, AtIs
<1>4. ReadsCarried(db, x, db', y) /\ \A e : x.todo[1] # <<"row", e>> /\ x.todo[1] # <<"insert", e>>
  BY <1>3, SilentReads
<1>5. Carries(db, x, db', y)
  BY <1>1, <1>3, <1>4 DEF Carries, Grown
<1>6. RowsCarried(db, x, db', y)
  <2>1. \A e : <<"Incident", e>> \in DOMAIN db => <<"Incident", e>> \in DOMAIN db'
    BY DEF Grown
  <2> QED BY <1>1, <1>4, <2>1 DEF RowsCarried
<1>7. WritesCarried(x, db', y)
  BY <1>1 DEF WritesCarried, StatusRows, Rows
<1>8. y.reply = x.reply
  BY <1>1
<1>9. Told(db', y)
  BY <1>2, <1>4, <1>5, <1>6, <1>7, <1>8, ToldCarried
<1> QED BY <1>1, <1>9, ExplainOne

(* At its commit a transaction has inserted every update. *)
LEMMA NothingToInsert ==
  ASSUME Sessions, NEW s \in Session, At(s, "commit"), NEW t, t = ses[s].todo
  PROVE  \A i \in DOMAIN t : t[i][1] # "insert"
<1>1. Shape(t) /\ t \in Seq(Steps) /\ DOMAIN t = 1..Len(t) /\ 1 \in DOMAIN t /\ t[1][1] = "commit"
  BY AtIs DEF Sessions
<1> SUFFICES ASSUME NEW i \in DOMAIN t, t[i][1] = "insert" PROVE FALSE
  OBVIOUS
<1>2. PICK j \in DOMAIN t : i < j /\ t[j][1] = "commit"
  BY <1>1 DEF Shape, InsideTx
<1>3. j = 1
  BY <1>1, <1>2 DEF Shape
<1> QED BY <1>1, <1>2, <1>3

LEMMA ExplainCommit ==
  ASSUME Sessions, AppendInv, ExplainInv, NEW s \in Session, Commit(s)
  PROVE  ExplainInv'
<1>1. PICK x, w, m, v, u : x = ses[s] /\ w = ses[s].w /\ m = seq["IncidentStatus"] /\ v = db /\ u = db'
  OBVIOUS
<1>2. /\ At(s, "commit") /\ u = Overlay(v, w) /\ Others(s) /\ ses'[s].todo = Tail(ses[s].todo)
      /\ DOMAIN ses'[s].w = {} /\ ses'[s].req = ses[s].req /\ ses'[s].reply = ses[s].reply
      /\ ses'[s].copy = ses[s].copy
  BY <1>1, CommitIs
<1>3. Recorded(v) /\ Recording(v, x)
  BY <1>1, ExplainInvIs DEF Told
<1>4. Numbered(v, m) /\ Numbered(w, m) /\ Follows(w, v)
  BY <1>1, AppendInvIs DEF Appends
<1>5. /\ StatusRows(u) = StatusRows(v) \cup StatusRows(w)
      /\ \A k \in StatusRows(w) : u[k] = w[k]
      /\ \A k \in StatusRows(v) : u[k] = v[k]
      /\ DOMAIN u \subseteq DOMAIN v \cup DOMAIN w
  BY <1>2, <1>4, Committed
<1>6. \A e : Statuses(u, e) = Statuses(v, e) \cup Statuses(w, e)
  BY <1>5 DEF Statuses
<1>7. \A k \in StatusRows(u) : "status" \in DOMAIN u[k]
  BY <1>1, <1>3, <1>5 DEF Recorded, Recording
<1>8. \A i \in DOMAIN x.todo : x.todo[i][1] # "insert"
  BY <1>1, <1>2, NothingToInsert
<1>9. \A e : Explained(v, x, e) \subseteq Statuses(u, e)
  <2>1. \A e : \A i \in DOMAIN x.todo : x.todo[i] # <<"insert", e>>
    BY <1>8
  <2> QED BY <1>1, <1>6, <2>1 DEF Explained
<1>10. ASSUME NEW k \in Rows(w, "Incident")
       PROVE  /\ k = <<"Incident", k[2]>> /\ k \in DOMAIN v /\ "status" \in DOMAIN w[k]
              /\ AsRead(w[k].status) \in Statuses(u, k[2]) /\ w[k] # Gone
  <2>1. /\ k = <<"Incident", k[2]>> /\ k \in DOMAIN v /\ "status" \in DOMAIN w[k]
        /\ AsRead(w[k].status) \in Explained(v, x, k[2])
    BY <1>1, <1>3 DEF Recording
  <2> QED BY <1>9, <2>1, GoneStatus
<1>11. ASSUME NEW k \in Rows(u, "Incident")
       PROVE  k = <<"Incident", k[2]>> /\ "status" \in DOMAIN u[k] /\ AsRead(u[k].status) \in Statuses(u, k[2])
  <2>1. CASE k \in DOMAIN w
    <3>1. k \in Rows(w, "Incident") /\ u[k] = w[k]
      BY <1>2, <2>1 DEF Rows, Overlay
    <3> QED BY <1>10, <3>1
  <2>2. CASE k \notin DOMAIN w
    <3>1. k \in Rows(v, "Incident") /\ u[k] = v[k]
      BY <1>2, <2>2 DEF Rows, Overlay
    <3>2. k = <<"Incident", k[2]>> /\ "status" \in DOMAIN v[k] /\ AsRead(v[k].status) \in Statuses(v, k[2])
      BY <1>3, <3>1 DEF Recorded
    <3> QED BY <1>6, <3>1, <3>2
  <2> QED BY <2>1, <2>2
<1>12. Recorded(u)
  BY <1>7, <1>11 DEF Recorded
<1>13. Grown(v, u)
  <2>1. ASSUME NEW k \in DOMAIN v, k[1] = "Incident" PROVE k \in DOMAIN u
    <3>1. k \in DOMAIN w => w[k] # Gone
      BY <1>10, <2>1 DEF Rows
    <3> QED BY <1>2, <3>1 DEF Overlay
  <2> QED BY <1>6, <2>1 DEF Grown
<1>14. Silent("commit")
  BY DEF Silent
<1> QED BY <1>1, <1>2, <1>6, <1>12, <1>13, <1>14, ExplainStored

(* One row is written in place. *)
LEMMA OverlayOne ==
  ASSUME NEW v, NEW k \in DOMAIN v, NEW z, "status" \in DOMAIN z, NEW u, u = Overlay(v, Entry(k, z))
  PROVE  DOMAIN u = DOMAIN v /\ u[k] = z /\ \A h \in DOMAIN v \ {k} : u[h] = v[h]
<1>1. z # Gone
  BY GoneStatus
<1> QED BY <1>1 DEF Overlay, Entry

LEMMA ExplainReopen ==
  ASSUME Sessions, ExplainInv, NEW s \in Session, ReOpenIncident(s)
  PROVE  ExplainInv'
<1>1. PICK x, e, k, stored, z, v, u :
        /\ x = ses[s] /\ e = Event(s) /\ k = <<"Incident", e>> /\ stored = View(s)[k] /\ v = db /\ u = db'
        /\ z = UpdateRow("Incident", Build("Incident", <<Clear("end_date")>>), stored)
  OBVIOUS
<1>2. At(s, "reopen") /\ Stored1(s, Entry(k, z))
  BY <1>1, ReOpenIncidentIs
<1>3. Recorded(v) /\ LoadedFirst(v, x)
  BY <1>1, ExplainInvIs DEF Told
<1>4. k \in DOMAIN v /\ k[1] = "Incident" /\ k[2] = e
  BY <1>1, <1>2, <1>3, LoadedAt DEF Loaded
<1>5. DOMAIN ses[s].w = {}
  BY <1>2, AtIs DEF OutsideTx
<1>6. stored = v[k]
  <2>1. PICK f : f = View(s)
    OBVIOUS
  <2>2. DOMAIN f = DOMAIN db /\ \A h \in DOMAIN db : f[h] = db[h]
    BY <1>5, <2>1, ViewOutside
  <2> QED BY <1>1, <1>4, <2>1, <2>2
<1>7. "status" \in DOMAIN v[k] /\ AsRead(v[k].status) \in Statuses(v, e)
  BY <1>3, <1>4 DEF Recorded, Rows
<1>8. "status" \in DOMAIN z /\ z.status = v[k].status
  BY <1>1, <1>6, <1>7, ReopenedStatus
<1>9. u = Overlay(v, Entry(k, z))
  BY <1>1, <1>2 DEF Stored1
<1>10. DOMAIN u = DOMAIN v /\ u[k] = z /\ \A h \in DOMAIN v \ {k} : u[h] = v[h]
  BY <1>4, <1>8, <1>9, OverlayOne
<1>11. StatusRows(u) = StatusRows(v) /\ \A h \in StatusRows(v) : u[h] = v[h]
  BY <1>4, <1>10 DEF StatusRows
<1>12. \A g : Statuses(u, g) = Statuses(v, g)
  BY <1>11 DEF Statuses
<1>13. Grown(v, u)
  BY <1>10, <1>12 DEF Grown
<1>14. Recorded(u)
  <2>1. ASSUME NEW h \in Rows(u, "Incident")
        PROVE  h = <<"Incident", h[2]>> /\ "status" \in DOMAIN u[h] /\ AsRead(u[h].status) \in Statuses(u, h[2])
    <3>1. h \in Rows(v, "Incident")
      BY <1>10 DEF Rows
    <3>2. h = <<"Incident", h[2]>> /\ "status" \in DOMAIN v[h] /\ AsRead(v[h].status) \in Statuses(v, h[2])
      BY <1>3, <3>1 DEF Recorded
    <3>3. CASE h = k
      BY <1>8, <1>10, <1>12, <3>2, <3>3
    <3>4. CASE h # k
      <4>1. u[h] = v[h]
        BY <1>10, <3>1, <3>4 DEF Rows
      <4> QED BY <1>12, <3>2, <4>1
    <3> QED BY <3>3, <3>4
  <2> QED BY <1>3, <1>11, <2>1 DEF Recorded
<1>15. \A g : Statuses(ses[s].w, g) \subseteq Statuses(u, g)
  BY <1>5 DEF Statuses, StatusRows
<1>16. Silent("reopen")
  BY DEF Silent
<1>17. /\ Others(s) /\ ses'[s].todo = Tail(ses[s].todo) /\ DOMAIN ses'[s].w = {} /\ ses'[s].req = ses[s].req
       /\ ses'[s].reply = ses[s].reply /\ ses'[s].copy = ses[s].copy
  BY <1>2, <1>5 DEF Stored1
<1> QED BY <1>1, <1>2, <1>13, <1>14, <1>15, <1>16, <1>17, ExplainStored

LEMMA ExplainEdit ==
  ASSUME Sessions, AppendInv, ExplainInv, NEW s \in Session, ModifyEventUpdate(s), ~(Answered(s) /\ Same)
  PROVE  ExplainInv'
<1>1. PICK i, k, stored, z, v, u :
        /\ i = ses[s].target /\ k = <<"IncidentStatus", i>> /\ stored = View(s)[k] /\ v = db /\ u = db'
        /\ z = UpdateRow("IncidentStatus", EditMutation, stored)
  OBVIOUS
<1>2. At(s, "text") /\ k \in DOMAIN View(s) /\ Stored1(s, Entry(k, z))
  BY <1>1, ModifyEventUpdateIs
<1>3. Recorded(v)
  BY <1>1, ExplainInvIs
<1>5. DOMAIN ses[s].w = {}
  BY <1>2, AtIs DEF OutsideTx
<1>6. k \in DOMAIN v /\ stored = v[k] /\ k[1] = "IncidentStatus"
  <2>1. PICK f : f = View(s)
    OBVIOUS
  <2>2. DOMAIN f = DOMAIN db /\ \A h \in DOMAIN db : f[h] = db[h]
    BY <1>5, <2>1, ViewOutside
  <2> QED BY <1>1, <1>2, <2>1, <2>2
<1>7. "status" \in DOMAIN stored /\ "incident_id" \in DOMAIN stored
  <2>1. Numbered(v, seq["IncidentStatus"])
    BY <1>1, AppendInvIs
  <2> QED BY <1>3, <1>6, <2>1 DEF Recorded, Numbered, StatusRows
<1>8. "status" \in DOMAIN z /\ z.status = v[k].status /\ z.incident_id = v[k].incident_id
  <2>1. "status" \in DOMAIN z /\ z.status = stored.status
    BY <1>1, <1>7, EditedStatus
  <2>2. z.incident_id = stored.incident_id
    BY <1>1, <1>7, EditIs
  <2> QED BY <1>6, <2>1, <2>2
<1>9. u = Overlay(v, Entry(k, z))
  BY <1>1, <1>2 DEF Stored1
<1>10. DOMAIN u = DOMAIN v /\ u[k] = z /\ \A h \in DOMAIN v \ {k} : u[h] = v[h]
  BY <1>6, <1>8, <1>9, OverlayOne
<1>11. /\ StatusRows(u) = StatusRows(v)
       /\ \A h \in StatusRows(v) : u[h].status = v[h].status /\ u[h].incident_id = v[h].incident_id
  BY <1>8, <1>10 DEF StatusRows
<1>12. \A g : Statuses(u, g) = Statuses(v, g)
  BY <1>11 DEF Statuses
<1>13. Grown(v, u)
  BY <1>10, <1>12 DEF Grown
<1>14. Recorded(u)
  <2>1. \A h \in Rows(u, "Incident") : h \in Rows(v, "Incident") /\ u[h] = v[h]
    BY <1>6, <1>10 DEF Rows
  <2>2. \A h \in StatusRows(u) : "status" \in DOMAIN u[h]
    BY <1>3, <1>8, <1>10, <1>11 DEF Recorded, StatusRows
  <2> QED BY <1>3, <1>12, <2>1, <2>2 DEF Recorded
<1>15. \A g : Statuses(ses[s].w, g) \subseteq Statuses(u, g)
  BY <1>5 DEF Statuses, StatusRows
<1>16. Silent("text")
  BY DEF Silent
<1>17. /\ Others(s) /\ ses'[s].todo = Tail(ses[s].todo) /\ DOMAIN ses'[s].w = {} /\ ses'[s].req = ses[s].req
       /\ ses'[s].reply = ses[s].reply /\ ses'[s].copy = ses[s].copy
  BY <1>2, <1>5 DEF Stored1
<1> QED BY <1>1, <1>2, <1>13, <1>14, <1>15, <1>16, <1>17, ExplainStored

-----------------------------------------------------------------------------
(* What handlers set out to do *)

LEMMA AnswersLater ==
  ASSUME NEW v, NEW y, NEW t, t = y.todo, AnswerLast(t), DOMAIN t \subseteq Nat
  PROVE  Answers(v, y)
<1>1. ASSUME NEW i \in DOMAIN t, t[i][1] = "answer"
      PROVE  LET e == t[i][2]
                 c == y.copy[e]
             IN  /\ i = Len(t) /\ \A j \in 1..3 : j < i => t[i - j] = Load(e)[4 - j]
                 /\ i \in 2..3 => c.row.status \in Statuses(v, e)
                 /\ i = 1 => c.row.status \in Accounts(c)
  <2>1. i = Len(t) /\ i > 3 /\ i \in Nat /\ \A j \in 1..3 : t[i - j] = Load(t[i][2])[4 - j]
    BY <1>1 DEF AnswerLast
  <2>2. i \notin 2..3 /\ i # 1
    BY <2>1
  <2> QED BY <2>1, <2>2
<1> QED BY <1>1, Zenon DEF Answers

LEMMA PatchPlan ==
  ASSUME NEW e, NEW t, t = Patching(e) \/ t = Reopening(e)
  PROVE  /\ AnswerLast(t) /\ DOMAIN t \subseteq Nat /\ 2 \in DOMAIN t /\ t[2] = <<"insert", e>>
         /\ \A i \in DOMAIN t : t[i][1] \notin {"prepare", "extract"} /\ t[i][2] = e
<1>1. CASE t = Patching(e)
  <2>1. /\ DOMAIN t = 1..7 /\ Len(t) = 7
        /\ t[1] = <<"modify", e>> /\ t[2] = <<"insert", e>> /\ t[3] = <<"commit", e>>
        /\ t[4] = <<"row", e>> /\ t[5] = <<"components", e>> /\ t[6] = <<"statuses", e>>
        /\ t[7] = <<"answer", e>>
    BY <1>1 DEF Patching
  <2>2. /\ t[1][1] = "modify" /\ t[2][1] = "insert" /\ t[3][1] = "commit" /\ t[4][1] = "row"
        /\ t[5][1] = "components" /\ t[6][1] = "statuses" /\ t[7][1] = "answer"
    BY <2>1
  <2>3. \A i \in 1..7 : t[i][1] \notin {"prepare", "extract"} /\ t[i][2] = e
    BY <2>1
  <2>4. \A i \in 1..7 : t[i][1] = "answer" => i = 7
    BY <2>2
  <2>5. ASSUME NEW j \in 1..3 PROVE t[7 - j] = Load(e)[4 - j]
    <3>1. 7 - 1 = 6 /\ 7 - 2 = 5 /\ 7 - 3 = 4 /\ 4 - 1 = 3 /\ 4 - 2 = 2 /\ 4 - 3 = 1
      OBVIOUS
    <3>2. j = 1 \/ j = 2 \/ j = 3
      OBVIOUS
    <3> QED BY <2>1, <3>1, <3>2, LoadIs
  <2>6. AnswerLast(t)
    BY <2>1, <2>4, <2>5 DEF AnswerLast
  <2> QED BY <2>1, <2>3, <2>6
<1>2. CASE t = Reopening(e)
  <2>1. /\ DOMAIN t = 1..8 /\ Len(t) = 8
        /\ t[1] = <<"modify", e>> /\ t[2] = <<"insert", e>> /\ t[3] = <<"commit", e>>
        /\ t[4] = <<"reopen", e>> /\ t[5] = <<"row", e>> /\ t[6] = <<"components", e>>
        /\ t[7] = <<"statuses", e>> /\ t[8] = <<"answer", e>>
    BY <1>2 DEF Reopening
  <2>2. /\ t[1][1] = "modify" /\ t[2][1] = "insert" /\ t[3][1] = "commit" /\ t[4][1] = "reopen"
        /\ t[5][1] = "row" /\ t[6][1] = "components" /\ t[7][1] = "statuses" /\ t[8][1] = "answer"
    BY <2>1
  <2>3. \A i \in 1..8 : t[i][1] \notin {"prepare", "extract"} /\ t[i][2] = e
    BY <2>1
  <2>4. \A i \in 1..8 : t[i][1] = "answer" => i = 8
    BY <2>2
  <2>5. ASSUME NEW j \in 1..3 PROVE t[8 - j] = Load(e)[4 - j]
    <3>1. 8 - 1 = 7 /\ 8 - 2 = 6 /\ 8 - 3 = 5 /\ 4 - 1 = 3 /\ 4 - 2 = 2 /\ 4 - 3 = 1
      OBVIOUS
    <3>2. j = 1 \/ j = 2 \/ j = 3
      OBVIOUS
    <3> QED BY <2>1, <3>1, <3>2, LoadIs
  <2>6. AnswerLast(t)
    BY <2>1, <2>4, <2>5 DEF AnswerLast
  <2> QED BY <2>1, <2>3, <2>6
<1> QED BY <1>1, <1>2

LEMMA MovePlan ==
  ASSUME NEW e, NEW f, NEW t, t = Moving(e, f) \/ t = MovingAway(e, f)
  PROVE  MovePlanned(t, e, f)
<1>1. CASE t = Moving(e, f)
  <2>1. /\ DOMAIN t = 1..8
        /\ t[1] = <<"save", f>> /\ t[2] = <<"link", f>> /\ t[3] = <<"insert", f>> /\ t[4] = <<"save", e>>
        /\ t[5] = <<"link", e>> /\ t[6] = <<"insert", e>> /\ t[7] = <<"commit", e>> /\ t[8] = <<"done", e>>
    BY <1>1 DEF Moving
  <2>2. /\ t[1][1] = "save" /\ t[2][1] = "link" /\ t[3][1] = "insert" /\ t[4][1] = "save"
        /\ t[5][1] = "link" /\ t[6][1] = "insert" /\ t[7][1] = "commit" /\ t[8][1] = "done"
    BY <2>1
  <2>3. \A i \in 1..8 : t[i][1] \notin {"prepare", "extract"} /\ t[i][1] # "answer" /\ t[i][2] \in {e, f}
    BY <2>1
  <2> QED BY <2>1, <2>3 DEF MovePlanned, AnswerLast
<1>2. CASE t = MovingAway(e, f)
  <2>1. /\ DOMAIN t = 1..9
        /\ t[1] = <<"unlink", e>> /\ t[2] = <<"save", f>> /\ t[3] = <<"link", f>>
        /\ t[4] = <<"insert", f>> /\ t[5] = <<"save", e>> /\ t[6] = <<"link", e>>
        /\ t[7] = <<"insert", e>> /\ t[8] = <<"commit", e>> /\ t[9] = <<"done", e>>
    BY <1>2 DEF MovingAway
  <2>3. \A i \in 1..9 : t[i][1] \notin {"prepare", "extract"} /\ t[i][1] # "answer" /\ t[i][2] \in {e, f}
    BY <2>1
  <2> QED BY <2>1, <2>3 DEF MovePlanned, AnswerLast
<1> QED BY <1>1, <1>2

LEMMA ProgramPlan ==
  ASSUME NEW q \in Request, NEW t, t = Program(q), NEW C, C = {q.e, q.f} \ {0}
  PROVE  AnswerLast(t) /\ DOMAIN t \subseteq Nat /\ Planned(t, q, C) /\ LoadsFirst(t, q)
<1>1. PICK e, f : e = q.e /\ f = q.f
  OBVIOUS
<1>2. q.op # "component" => e \in C
  BY <1>1, RequestAssumption
<1>3. q.op \in {"move", "extract"} => f \in C
  BY <1>1, RequestAssumption
<1>4. CASE q.op = "get" /\ t = Getting(e)
  <2>1. /\ DOMAIN t = 1..4 /\ Len(t) = 4
        /\ t[1] = <<"row", e>> /\ t[2] = <<"components", e>> /\ t[3] = <<"statuses", e>> /\ t[4] = <<"answer", e>>
    BY <1>4 DEF Getting
  <2>2. t[1][1] = "row" /\ t[2][1] = "components" /\ t[3][1] = "statuses" /\ t[4][1] = "answer"
    BY <2>1
  <2>3. \A i \in 1..4 : t[i][1] \notin {"prepare", "extract", "decide", "modify", "save", "reopen"} /\ t[i][2] = e
    BY <2>1
  <2>4. \A i \in 1..4 : t[i][1] = "answer" => i = 4
    BY <2>2
  <2>5. ASSUME NEW j \in 1..3 PROVE t[4 - j] = Load(e)[4 - j]
    <3>1. 4 - 1 = 3 /\ 4 - 2 = 2 /\ 4 - 3 = 1
      OBVIOUS
    <3>2. j = 1 \/ j = 2 \/ j = 3
      OBVIOUS
    <3> QED BY <2>1, <3>1, <3>2, LoadIs
  <2>6. AnswerLast(t)
    BY <2>1, <2>3, <2>4, <2>5 DEF AnswerLast
  <2> QED BY <1>2, <1>4, <2>1, <2>3, <2>6 DEF Planned, LoadsFirst
<1>5. CASE q.op = "patch" /\ t = Checking(e)
  <2>1. /\ DOMAIN t = 1..4
        /\ t[1] = <<"row", e>> /\ t[2] = <<"components", e>> /\ t[3] = <<"statuses", e>> /\ t[4] = <<"decide", e>>
    BY <1>5 DEF Checking
  <2>2. t[1][1] = "row" /\ t[2][1] = "components" /\ t[3][1] = "statuses" /\ t[4][1] = "decide"
    BY <2>1
  <2>3. \A i \in 1..4 : t[i][1] \notin {"prepare", "extract", "answer", "modify", "save", "reopen"} /\ t[i][2] = e
    BY <2>1
  <2>4. \A i \in 1..4 : t[i][1] = "decide" => i = 4
    BY <2>2
  <2>5. 1 \in 1..(4 - 1)
    OBVIOUS
  <2>6. LoadsFirst(t, q)
    BY <2>1, <2>3, <2>4, <2>5 DEF LoadsFirst
  <2> QED BY <1>2, <1>5, <2>1, <2>3, <2>6 DEF Planned, AnswerLast
<1>6. CASE q.op = "edit" /\ t = Editing(e)
  <2>1. /\ DOMAIN t = 1..7
        /\ t[1] = <<"row", e>> /\ t[2] = <<"components", e>> /\ t[3] = <<"statuses", e>> /\ t[4] = <<"pick", e>>
        /\ t[5] = <<"updates", e>> /\ t[6] = <<"text", e>> /\ t[7] = <<"reread", e>>
    BY <1>6 DEF Editing
  <2>3. \A i \in 1..7 : t[i][1] \notin {"prepare", "extract", "answer", "decide", "modify", "save", "reopen"} /\ t[i][2] = e
    BY <2>1
  <2> QED BY <1>2, <1>6, <2>1, <2>3 DEF Planned, AnswerLast, LoadsFirst
<1>7. CASE q.op = "move" /\ t = Preparing(e, f)
  <2>1. /\ DOMAIN t = 1..7
        /\ t[1] = <<"row", e>> /\ t[2] = <<"components", e>> /\ t[3] = <<"statuses", e>> /\ t[4] = <<"row", f>>
        /\ t[5] = <<"components", f>> /\ t[6] = <<"statuses", f>> /\ t[7] = <<"prepare", e>>
    BY <1>7 DEF Preparing
  <2>2. /\ t[1][1] = "row" /\ t[2][1] = "components" /\ t[3][1] = "statuses" /\ t[4][1] = "row"
        /\ t[5][1] = "components" /\ t[6][1] = "statuses" /\ t[7][1] = "prepare"
    BY <2>1
  <2>3. \A i \in 1..7 : t[i][1] \notin {"answer", "extract", "decide", "modify", "save", "reopen"} /\ t[i][2] \in {e, f}
    BY <2>1
  <2>4. \A i \in 1..7 : t[i][1] = "prepare" => i = 7
    BY <2>2
  <2>5. 1 \in 1..(7 - 1) /\ 4 \in 1..(7 - 1)
    OBVIOUS
  <2>6. LoadsFirst(t, q)
    BY <1>1, <2>1, <2>3, <2>4, <2>5 DEF LoadsFirst
  <2>7. e \in C /\ f \in C
    BY <1>2, <1>3, <1>7
  <2> QED BY <1>1, <2>1, <2>3, <2>6, <2>7 DEF Planned, AnswerLast
<1>8. CASE q.op = "component" /\ t = Registering
  <2>1. /\ DOMAIN t = 1..7
        /\ t[1] = <<"exists", 0>> /\ t[2] = <<"component", 0>> /\ t[3] = <<"attribute", 1>> /\ t[4] = <<"attribute", 2>>
        /\ t[5] = <<"attribute", 3>> /\ t[6] = <<"commit", 0>> /\ t[7] = <<"done", 0>>
    BY <1>8, RegisteringIs
  <2>2. /\ t[1][1] = "exists" /\ t[2][1] = "component" /\ t[3][1] = "attribute" /\ t[4][1] = "attribute"
        /\ t[5][1] = "attribute" /\ t[6][1] = "commit" /\ t[7][1] = "done"
    BY <2>1
  <2>3. \A i \in 1..7 : t[i][1] \in {"exists", "component", "attribute", "commit", "done"}
    BY <2>2
  <2> QED BY <2>1, <2>3 DEF Planned, AnswerLast, LoadsFirst
<1>9. CASE q.op = "extract" /\ t = Extracting(e)
  <2>1. /\ DOMAIN t = 1..4
        /\ t[1] = <<"row", e>> /\ t[2] = <<"components", e>> /\ t[3] = <<"statuses", e>> /\ t[4] = <<"extract", e>>
    BY <1>9 DEF Extracting
  <2>2. t[1][1] = "row" /\ t[2][1] = "components" /\ t[3][1] = "statuses" /\ t[4][1] = "extract"
    BY <2>1
  <2>3. \A i \in 1..4 : t[i][1] \notin {"prepare", "answer", "decide", "modify", "save", "reopen"} /\ t[i][2] = e
    BY <2>1
  <2>4. \A i \in 1..4 : t[i][1] = "extract" => i = 4
    BY <2>2
  <2>5. 1 \in 1..(4 - 1)
    OBVIOUS
  <2>6. LoadsFirst(t, q)
    BY <1>1, <2>1, <2>3, <2>4, <2>5 DEF LoadsFirst
  <2>7. e \in C /\ f \in C
    BY <1>2, <1>3, <1>9
  <2> QED BY <1>1, <2>1, <2>3, <2>6, <2>7 DEF Planned, AnswerLast
<1> QED BY <1>1, <1>4, <1>5, <1>6, <1>7, <1>8, <1>9, ProgramIs

(* A handler at the start of what it set out to do. *)
LEMMA ToldFresh ==
  ASSUME NEW v, NEW y, NEW t, t = y.todo, DOMAIN y.w = {}, AnswerLast(t), DOMAIN t \subseteq Nat,
         Planned(t, y.req, DOMAIN y.copy), \A e \in DOMAIN y.copy : DOMAIN y.copy[e] = DOMAIN Copy,
         LoadedFirst(v, y), Truthful(y)
  PROVE  Told(v, y)
<1>1. Recording(v, y)
  BY DEF Recording, StatusRows, Rows
<1>2. Copies(y)
  BY DEF Copies, Planned
<1>3. Answers(v, y)
  BY AnswersLater
<1> QED BY <1>1, <1>2, <1>3 DEF Told

LEMMA ExplainBegin ==
  ASSUME Sessions, ExplainInv, NEW s \in Session, NEW q \in Request, Begin(s, q)
  PROVE  ExplainInv'
<1>1. PICK y, t, C : y = ses'[s] /\ t = y.todo /\ C = {q.e, q.f} \ {0}
  OBVIOUS
<1>2. /\ Same /\ Others(s) /\ t = Program(q) /\ y.req = q /\ DOMAIN y.w = {} /\ y.copy = [e \in C |-> Copy]
      /\ y.reply = Null
  BY <1>1, BeginIs
<1>3. AnswerLast(t) /\ DOMAIN t \subseteq Nat /\ Planned(t, q, C) /\ LoadsFirst(t, q)
  BY <1>1, <1>2, ProgramPlan
<1>4. DOMAIN y.copy = C /\ \A e \in C : DOMAIN y.copy[e] = DOMAIN Copy
  BY <1>2
<1>5. LoadedFirst(db, y)
  <2>1. ASSUME NEW i \in DOMAIN t, NEW e \in Uses(y, i) PROVE \E j \in 1..(i - 1) : t[j] = <<"row", e>>
    <3>1. CASE t[i][1] = "prepare"
      <4>1. e \in {q.e, q.f}
        BY <1>1, <1>2, <2>1, <3>1 DEF Uses
      <4> QED BY <1>3, <3>1, <4>1 DEF LoadsFirst
    <3>3. CASE t[i][1] = "extract"
      <4>1. e = q.e
        BY <1>1, <1>2, <2>1, <3>3 DEF Uses
      <4> QED BY <1>3, <3>3, <4>1 DEF LoadsFirst
    <3>2. CASE t[i][1] \notin {"prepare", "extract"}
      <4>1. t[i][1] \in {"decide", "modify", "save", "reopen"} /\ e = t[i][2]
        BY <1>1, <2>1, <3>2 DEF Uses
      <4> QED BY <1>3, <4>1 DEF LoadsFirst
    <3> QED BY <3>1, <3>2, <3>3
  <2> QED BY <1>1, <2>1 DEF LoadedFirst
<1>6. Truthful(y)
  BY <1>2 DEF Truthful
<1>7. Told(db, y)
  BY <1>1, <1>2, <1>3, <1>4, <1>5, <1>6, ToldFresh
<1>8. Recorded(db)
  BY ExplainInvIs
<1> QED BY <1>1, <1>2, <1>7, <1>8, ExplainOne, GrownSame DEF Same

(* A status that is about to be inserted. *)
LEMMA AboutToInsert ==
  ASSUME NEW v, NEW y, NEW e, NEW i \in DOMAIN y.todo, y.todo[i] = <<"insert", e>>, NEW st, y.copy[e].new = <<st>>
  PROVE  AsRead(st) \in Explained(v, y, e)
<1>1. Head(y.copy[e].new) = st
  OBVIOUS
<1> QED BY <1>1 DEF Explained

LEMMA ExplainDecide ==
  ASSUME Sessions, ExplainInv, NEW s \in Session, Decide(s), ~(Answered(s) /\ Same)
  PROVE  ExplainInv'
<1>1. PICK x, y, e, st, t : x = ses[s] /\ y = ses'[s] /\ e = Event(s) /\ st = x.req.status /\ t = y.todo
  OBVIOUS
<1>2. PICK row : row = [UpdateFields(x.copy[e].row, st) EXCEPT
                          !.version = IF x.req.version # Null THEN x.req.version ELSE @]
  OBVIOUS
<1>3. /\ At(s, "decide") /\ Same /\ Others(s) /\ t = PatchSteps(e, st) /\ y.w = x.w /\ y.req = x.req
      /\ y.reply = x.reply /\ y.copy = [x.copy EXCEPT ![e].row = row, ![e].new = <<st>>]
  BY <1>1, <1>2, DecideIs
<1>4. Told(db, x) /\ Recorded(db)
  BY <1>1, ExplainInvIs
<1>5. Copies(x) /\ LoadedFirst(db, x) /\ Truthful(x)
  BY <1>4 DEF Told
<1>6. Loaded(db, x, e)
  BY <1>1, <1>3, <1>5, LoadedAt
<1>7. "status" \in DOMAIN row /\ row.status = st
  <2>1. PICK old, new : old = x.copy[e].row /\ new = UpdateFields(old, st)
    OBVIOUS
  <2>2. "status" \in DOMAIN old
    BY <1>6, <2>1 DEF Loaded
  <2>3. "status" \in DOMAIN new /\ new.status = st
    BY <2>1, <2>2 DEF UpdateFields
  <2> QED BY <1>2, <2>1, <2>3
<1>8. /\ DOMAIN y.copy = DOMAIN x.copy /\ e \in DOMAIN x.copy
      /\ y.copy[e].row = row /\ y.copy[e].new = <<st>>
      /\ \A g \in DOMAIN x.copy : DOMAIN y.copy[g] = DOMAIN Copy
  <2>1. e \in DOMAIN x.copy /\ \A g \in DOMAIN x.copy : DOMAIN x.copy[g] = DOMAIN Copy
    BY <1>1, <1>3, <1>5, CopyOf
  <2>2. PICK c, d : c = x.copy /\ d = y.copy
    OBVIOUS
  <2>3. DOMAIN c[e] = {"row", "comps", "statuses", "new"} /\ d = [c EXCEPT ![e].row = row, ![e].new = <<st>>]
    BY <1>3, <2>1, <2>2 DEF Copy
  <2>4. d[e].row = row /\ d[e].new = <<st>> /\ DOMAIN d[e] = DOMAIN c[e] /\ DOMAIN d = DOMAIN c
    BY <2>1, <2>2, <2>3
  <2>5. \A g \in DOMAIN c \ {e} : d[g] = c[g]
    BY <2>3
  <2> QED BY <2>1, <2>2, <2>4, <2>5
<1>9. /\ AnswerLast(t) /\ DOMAIN t \subseteq Nat /\ 2 \in DOMAIN t /\ t[2] = <<"insert", e>>
      /\ \A i \in DOMAIN t : t[i][1] \notin {"prepare", "extract"} /\ t[i][2] = e
  <2>1. t = Patching(e) \/ t = Reopening(e)
    BY <1>3, PatchStepsIs
  <2> QED BY <2>1, PatchPlan, Zenon
<1>10. Loaded(db, y, e)
  <2>1. AsRead(st) \in Explained(db, y, e)
    BY <1>1, <1>8, <1>9, AboutToInsert
  <2> QED BY <1>6, <1>7, <1>8, <2>1 DEF Loaded
<1>11. LoadedFirst(db, y)
  <2>1. \A i \in DOMAIN t : Uses(y, i) \subseteq {e}
    BY <1>1, <1>9 DEF Uses
  <2> QED BY <1>1, <1>10, <2>1 DEF LoadedFirst
<1>12. Planned(t, y.req, DOMAIN y.copy)
  BY <1>8, <1>9 DEF Planned
<1>13. DOMAIN y.w = {}
  BY <1>1, <1>3, AtIs DEF OutsideTx
<1>14. Truthful(y)
  BY <1>3, <1>5 DEF Truthful
<1>15. Told(db, y)
  BY <1>1, <1>8, <1>9, <1>11, <1>12, <1>13, <1>14, ToldFresh
<1> QED BY <1>1, <1>3, <1>4, <1>15, ExplainOne, GrownSame DEF Same

(* Outside a transaction nothing is about to be inserted when a move is prepared. *)
LEMMA PreparedExplained ==
  ASSUME Sessions, NEW s \in Session, NEW n \in {"prepare", "extract"}, At(s, n), NEW x, x = ses[s],
         NEW v, LoadedFirst(v, x), NEW e \in {x.req.e, x.req.f}, n = "extract" => e = x.req.e
  PROVE  Loaded(v, x, e) /\ Explained(v, x, e) \subseteq Statuses(v, e)
<1>1. PICK t : t = x.todo
  OBVIOUS
<1>2. /\ t \in Seq(Steps) /\ Len(t) \in Nat /\ DOMAIN t = 1..Len(t) /\ 1 \in DOMAIN t /\ t[1][1] = n
      /\ DOMAIN x.w = {}
  BY <1>1, AtIs DEF OutsideTx
<1>3. e \in Uses(x, 1)
  BY <1>1, <1>2 DEF Uses
<1>4. \A j \in 1..(1 - 1) : FALSE
  OBVIOUS
<1>5. Loaded(v, x, e)
  BY <1>1, <1>2, <1>3, <1>4 DEF LoadedFirst
<1>6. Shape(t)
  BY <1>1 DEF Sessions
<1>7. Len(t) = 1
  BY <1>2, <1>6 DEF Shape
<1>8. \A i \in DOMAIN t : t[i] # <<"insert", e>>
  BY <1>2, <1>7
<1>9. Statuses(x.w, e) = {"SYSTEM"}
  BY <1>2 DEF Statuses, StatusRows
<1>10. "SYSTEM" \in Statuses(v, e)
  BY DEF Statuses
<1> QED BY <1>1, <1>5, <1>8, <1>9, <1>10 DEF Explained

LEMMA ExplainMove ==
  ASSUME Sessions, ExplainInv, NEW s \in Session, MoveComponent(s), ~(Answered(s) /\ Same)
  PROVE  ExplainInv'
<1>1. PICK x, y, q, t : x = ses[s] /\ y = ses'[s] /\ q = x.req /\ t = y.todo
  OBVIOUS
<1>2. PICK e, f, c, d, a, b : /\ e = q.e /\ f = q.f /\ c = x.copy /\ d = y.copy
                              /\ a = MovedTo(s) /\ b = MovedFrom(s)
  OBVIOUS
<1>3. /\ At(s, "prepare") /\ Same /\ Others(s) /\ t = MoveSteps(q) /\ y.w = x.w /\ y.req = q
      /\ y.reply = x.reply /\ d = [c EXCEPT ![f] = a, ![e] = b]
  BY <1>1, <1>2, MoveComponentIs
<1>4. Told(db, x) /\ Recorded(db)
  BY <1>1, ExplainInvIs
<1>5. Copies(x) /\ LoadedFirst(db, x) /\ Truthful(x)
  BY <1>4 DEF Told
<1>6. \A g \in {e, f} : Loaded(db, x, g) /\ Explained(db, x, g) \subseteq Statuses(db, g)
  BY <1>1, <1>2, <1>3, <1>5, PreparedExplained
<1>7. e \in DOMAIN c /\ f \in DOMAIN c /\ \A g \in DOMAIN c : DOMAIN c[g] = DOMAIN Copy
  <2>1. 1 \in DOMAIN x.todo /\ x.todo[1][1] = "prepare"
    BY <1>1, <1>3, AtIs
  <2> QED BY <1>1, <1>2, <1>5, <2>1 DEF Copies
<1>8. DOMAIN Copy = {"row", "comps", "statuses", "new"}
  BY DEF Copy
<1>9. DOMAIN a = DOMAIN Copy /\ a.row = c[f].row
  <2>1. a = [c[f] EXCEPT !.comps = @ \cup {q.c}, !.new = <<"SYSTEM">>]
    BY <1>1, <1>2 DEF MovedTo
  <2> QED BY <1>7, <1>8, <2>1
<1>10. /\ DOMAIN b = DOMAIN Copy
       /\ \/ b.row = c[e].row
          \/ /\ b.new = <<"resolved">>
             /\ "status" \in DOMAIN c[e].row => "status" \in DOMAIN b.row /\ b.row.status = "resolved"
  <2>1. CASE q.closes
    <3>1. b = [c[e] EXCEPT !.row.status = "resolved", !.row.end_date = Now, !.new = <<"resolved">>]
      BY <1>1, <1>2, <2>1 DEF MovedFrom
    <3>2. PICK old : old = c[e].row
      OBVIOUS
    <3>3. DOMAIN b = DOMAIN Copy /\ b.new = <<"resolved">>
      BY <1>7, <1>8, <3>1
    <3>4. b.row = [[old EXCEPT !.status = "resolved"] EXCEPT !.end_date = Now]
      BY <1>7, <1>8, <3>1, <3>2
    <3>5. "status" \in DOMAIN old => "status" \in DOMAIN b.row /\ b.row.status = "resolved"
      BY <3>4
    <3> QED BY <3>2, <3>3, <3>5
  <2>2. CASE ~q.closes
    <3>1. b = [c[e] EXCEPT !.new = <<"SYSTEM">>]
      BY <1>1, <1>2, <2>2 DEF MovedFrom
    <3> QED BY <1>7, <1>8, <3>1
  <2> QED BY <2>1, <2>2
<1>11. /\ DOMAIN d = DOMAIN c /\ d[e] = b /\ (f # e => d[f] = a)
       /\ \A g \in DOMAIN c : DOMAIN d[g] = DOMAIN Copy
  BY <1>3, <1>7, <1>9, <1>10
<1>12. /\ AnswerLast(t) /\ DOMAIN t \subseteq Nat
       /\ \A i \in DOMAIN t : t[i][1] \notin {"prepare", "extract"} /\ t[i][2] \in {e, f}
       /\ \A g \in {e, f} : \E i \in DOMAIN t : t[i] = <<"insert", g>>
  <2>1. t = Moving(e, f) \/ t = MovingAway(e, f)
    BY <1>2, <1>3, MoveStepsIs
  <2>2. MovePlanned(t, e, f)
    BY <2>1, MovePlan
  <2> QED BY <2>2 DEF MovePlanned
<1>13. ASSUME NEW g \in {e, f} PROVE Loaded(db, y, g)
  <2>1. CASE d[g].row = c[g].row
    <3>1. Explained(db, x, g) \subseteq Explained(db, y, g)
      BY <1>6 DEF Explained
    <3> QED BY <1>2, <1>6, <2>1, <3>1 DEF Loaded
  <2>2. CASE d[g].row # c[g].row
    <3>1. g = e
      BY <1>9, <1>11, <2>2
    <3>2. b.row # c[e].row
      BY <1>11, <2>2, <3>1
    <3>3. b.new = <<"resolved">> /\ "status" \in DOMAIN b.row /\ b.row.status = "resolved"
      BY <1>2, <1>6, <1>10, <3>2 DEF Loaded
    <3>4. PICK i \in DOMAIN t : t[i] = <<"insert", e>>
      BY <1>12
    <3>5. PICK st : st = "resolved"
      OBVIOUS
    <3>6. y.copy[e].new = <<st>> /\ i \in DOMAIN y.todo /\ y.todo[i] = <<"insert", e>>
      BY <1>1, <1>2, <1>11, <3>3, <3>4, <3>5
    <3>7. AsRead(st) \in Explained(db, y, e)
      BY <3>6, AboutToInsert
    <3> QED BY <1>2, <1>6, <1>11, <3>1, <3>3, <3>5, <3>7 DEF Loaded
  <2> QED BY <2>1, <2>2
<1>14. LoadedFirst(db, y)
  <2>1. \A i \in DOMAIN t : Uses(y, i) \subseteq {e, f}
    BY <1>1, <1>12 DEF Uses
  <2> QED BY <1>1, <1>13, <2>1 DEF LoadedFirst
<1>15. Planned(t, y.req, DOMAIN y.copy)
  BY <1>2, <1>7, <1>11, <1>12 DEF Planned
<1>16. DOMAIN y.w = {}
  BY <1>1, <1>3, AtIs DEF OutsideTx
<1>17. Truthful(y)
  BY <1>3, <1>5 DEF Truthful
<1>18. \A g \in DOMAIN y.copy : DOMAIN y.copy[g] = DOMAIN Copy
  BY <1>2, <1>11
<1>19. Told(db, y)
  BY <1>1, <1>12, <1>14, <1>15, <1>16, <1>17, <1>18, ToldFresh
<1> QED BY <1>1, <1>3, <1>4, <1>19, ExplainOne, GrownSame DEF Same

(* The incident that components are extracted into has the status SYSTEM and no end. *)
LEMMA NewIncidentIs ==
  ASSUME NEW old, NEW z, z = NewIncident(old)
  PROVE  /\ "status" \in DOMAIN z /\ z.status = "SYSTEM" /\ "end_date" \in DOMAIN z /\ z.end_date = Null
         /\ z # Gone
<1>1. PICK no, st : no = FALSE /\ st = "SYSTEM"
  OBVIOUS
<1>2. PICK c1, c2, c3, c4, c5, c6, c7, c8, c9 :
        /\ c1 = Set("text", old.text) /\ c2 = Set("start_date", Now) /\ c3 = Set("impact", old.impact)
        /\ c4 = Set("system", no) /\ c5 = Set("type", "incident") /\ c6 = Set("created_at", Now)
        /\ c7 = Set("modified_at", Now) /\ c8 = Set("status", st) /\ c9 = Set("description", old.description)
  OBVIOUS
<1>3. /\ c1.do = "Set" /\ c2.do = "Set" /\ c3.do = "Set" /\ c4.do = "Set" /\ c5.do = "Set" /\ c6.do = "Set"
      /\ c7.do = "Set" /\ c8.do = "Set" /\ c9.do = "Set"
      /\ c1.on = "text" /\ c2.on = "start_date" /\ c3.on = "impact" /\ c4.on = "system" /\ c5.on = "type"
      /\ c6.on = "created_at" /\ c7.on = "modified_at" /\ c8.on = "status" /\ c9.on = "description"
      /\ c8.with = st
  BY <1>2 DEF Set
<1>4. PICK a, b : /\ a = <<c1, c2, c3, c4, c5, c6, c7, c8>>
                  /\ b = IF old.description # Null THEN <<c9>> ELSE <<>>
  OBVIOUS
<1>5. PICK calls : Joins(a, b, calls)
  BY DEF Joins
<1>6. PICK m : m = Build("Incident", calls)
  OBVIOUS
<1>7. z = CreateRow("Incident", m, Now)
  <2>1. z = CreateRow("Incident", Build("Incident", a \o b), Now)
    BY <1>1, <1>2, <1>4 DEF NewIncident
  <2> QED BY <1>5, <1>6, <2>1 DEF Joins
<1>8. Calls(a, 8) /\ /\ a[1] = c1 /\ a[2] = c2 /\ a[3] = c3 /\ a[4] = c4 /\ a[5] = c5 /\ a[6] = c6 /\ a[7] = c7
                    /\ a[8] = c8
  BY <1>4 DEF Calls
<1>9. PICK n \in {0, 1} : Calls(b, n) /\ (n = 1 => b[1] = c9)
  <2>1. CASE old.description # Null
    <3>1. b = <<c9>>
      BY <1>4, <2>1
    <3>2. Calls(b, 1) /\ b[1] = c9
      BY <3>1 DEF Calls
    <3> QED BY <3>2
  <2>2. CASE old.description = Null
    <3>1. b = <<>>
      BY <1>4, <2>2
    <3>2. Calls(b, 0)
      BY <3>1 DEF Calls
    <3> QED BY <3>2
  <2> QED BY <2>1, <2>2
<1>10. Joined(a, 8, b, n, calls)
  <2>1. 8 \in Nat /\ n \in Nat
    OBVIOUS
  <2> QED BY <1>5, <1>8, <1>9, <2>1, JoinCalls
<1>11. DOMAIN calls = 1..(8 + n) /\ 8 + n \in Nat /\ 8 \in 1..(8 + n)
  BY <1>10 DEF Joined
<1>12. ASSUME NEW i \in 1..(8 + n)
       PROVE  /\ calls[i].do = "Set" /\ calls[i].on # "end_date"
              /\ calls[i].on = "status" => i <= 8
              /\ i = 8 => calls[i] = c8
  <2>1. (i \in 1..8 /\ calls[i] = a[i]) \/ (i - 8 \in 1..n /\ calls[i] = b[i - 8])
    BY <1>10 DEF Joined
  <2>2. CASE i \in 1..8 /\ calls[i] = a[i]
    <3>1. calls[i] \in {c1, c2, c3, c4, c5, c6, c7, c8} /\ i <= 8 /\ (i = 8 => calls[i] = c8)
      BY <1>8, <2>2
    <3> QED BY <1>3, <3>1
  <2>3. CASE i - 8 \in 1..n /\ calls[i] = b[i - 8]
    <3>1. i - 8 = 1 /\ n = 1 /\ i # 8
      BY <1>9, <2>3
    <3>2. calls[i] = c9
      BY <1>9, <2>3, <3>1
    <3> QED BY <1>3, <3>1, <3>2
  <2> QED BY <2>1, <2>2, <2>3
<1>13. Plain(m) /\ FieldsSet(m, calls, 8 + n)
  <2>1. \A k \in 1..(8 + n) : calls[k].do = "Set"
    BY <1>12
  <2>2. PICK l : l = 8 + n
    OBVIOUS
  <2> QED BY <1>6, <1>11, <2>1, <2>2, SetsBuild
<1>14. calls[8] = c8
  BY <1>11, <1>12
<1>15. "status" \in DOMAIN m.set /\ m.set["status"] = st
  <2>1. 8 \in 1..(8 + n) /\ calls[8].on = "status" /\ calls[8].with = st
    BY <1>3, <1>11, <1>14
  <2>2. \A i \in 1..(8 + n) : calls[i].on = calls[8].on => i <= 8
    BY <1>12, <2>1
  <2>3. "status" \in DOMAIN m.set
    BY <1>13, <2>1 DEF FieldsSet
  <2> QED BY <1>13, <2>1, <2>2, <2>3 DEF FieldsSet
<1>16. "end_date" \notin DOMAIN m.set
  BY <1>12, <1>13 DEF FieldsSet
<1>17. PICK v : v = Values("Incident", m)
  OBVIOUS
<1>18. Schema["Incident"].default = IncidentDefault /\ DOMAIN IncidentDefault = {"system", "version"}
  BY DEF Schema, IncidentDefault
<1>19. "status" \in DOMAIN v /\ v["status"] = st /\ "end_date" \notin DOMAIN v
  BY <1>15, <1>16, <1>17, <1>18 DEF Values, Over
<1>20. /\ {"status", "end_date"} \subseteq Schema["Incident"].table.columns
       /\ "end_date" \notin Schema["Incident"].table.default
       /\ "status" \in CreateColumns("Incident")
  BY DEF Schema, IncidentTable, CreateColumns, IncidentCreateSpec
<1>21. "status" \in DOMAIN z /\ z.status = st /\ "end_date" \in DOMAIN z /\ z.end_date = Null
  BY <1>7, <1>17, <1>19, <1>20 DEF CreateRow, Inserted
<1>22. z # Gone
  <2>1. DOMAIN Gone = {}
    BY DEF Gone
  <2> QED BY <1>21, <2>1
<1> QED BY <1>1, <1>21, <1>22

(* An extraction stores an incident whose status needs no update. *)
LEMMA ExplainExtract ==
  ASSUME Sessions, ExplainInv, NEW s \in Session, At(s, "extract"), Extracted(s)
  PROVE  ExplainInv'
<1>1. PICK x, y, q, t, v, u : x = ses[s] /\ y = ses'[s] /\ q = x.req /\ t = y.todo /\ v = db /\ u = db'
  OBVIOUS
<1>2. PICK e, f, c, d, a, b, z : /\ e = q.e /\ f = q.f /\ c = x.copy /\ d = y.copy
                                 /\ a = ExtractedTo(s) /\ b = ExtractedFrom(s) /\ z = NewRow(s)
  OBVIOUS
<1>3. /\ Others(s) /\ t = MoveSteps(q) /\ y.w = x.w /\ y.req = q /\ y.reply = x.reply
      /\ d = [c EXCEPT ![f] = a, ![e] = b]
      /\ <<"Incident", f>> \notin DOMAIN v /\ u = Overlay(v, NewRows(f, q.c, z))
  BY <1>1, <1>2 DEF Extracted
<1>4. Told(v, x) /\ Recorded(v)
  BY <1>1, ExplainInvIs
<1>5. Copies(x) /\ LoadedFirst(v, x) /\ Truthful(x)
  BY <1>4 DEF Told
<1>6. Loaded(v, x, e) /\ Explained(v, x, e) \subseteq Statuses(v, e)
  <2>1. PICK n : n = "extract"
    OBVIOUS
  <2>2. n \in {"prepare", "extract"} /\ At(s, n) /\ e \in {x.req.e, x.req.f} /\ (n = "extract" => e = x.req.e)
    BY <1>1, <1>2, <2>1
  <2> QED BY <1>1, <1>5, <2>2, PreparedExplained
<1>7. e \in DOMAIN c /\ f \in DOMAIN c /\ \A g \in DOMAIN c : DOMAIN c[g] = DOMAIN Copy
  <2>1. 1 \in DOMAIN x.todo /\ x.todo[1][1] = "extract"
    BY <1>1, AtIs
  <2> QED BY <1>1, <1>2, <1>5, <2>1 DEF Copies
<1>8. DOMAIN Copy = {"row", "comps", "statuses", "new"} /\ e # f
  BY <1>3, <1>6 DEF Copy, Loaded
<1>9. /\ "status" \in DOMAIN z /\ z.status = "SYSTEM" /\ z # Gone
  BY <1>2, NewIncidentIs DEF NewRow
<1>10. /\ <<"Incident", f>> \in DOMAIN u /\ u[<<"Incident", f>>] = z /\ DOMAIN v \subseteq DOMAIN u
       /\ \A k \in DOMAIN u : k[1] = "Incident" /\ k # <<"Incident", f>> => k \in DOMAIN v /\ u[k] = v[k]
  BY <1>3, <1>9, NewRowsAre
<1>11. StatusRows(u) = StatusRows(v) /\ \A k \in StatusRows(v) : u[k] = v[k]
  <2>1. PICK n : n = "IncidentStatus"
    OBVIOUS
  <2>2. n \notin {"Incident", "Relation"}
    BY <2>1
  <2>3. Rows(u, n) = Rows(v, n) /\ \A k \in Rows(v, n) : u[k] = v[k]
    BY <1>3, <2>2, NewRowsElse
  <2> QED BY <2>1, <2>3 DEF StatusRows, Rows
<1>12. \A g : Statuses(u, g) = Statuses(v, g) /\ "SYSTEM" \in Statuses(u, g)
  BY <1>11 DEF Statuses
<1>13. Grown(v, u)
  BY <1>10, <1>12 DEF Grown
<1>14. AsRead("SYSTEM") = "SYSTEM"
  BY NullAssumption DEF AsRead
<1>15. Recorded(u)
  <2>1. \A k \in StatusRows(u) : "status" \in DOMAIN u[k]
    BY <1>4, <1>11 DEF Recorded
  <2>2. ASSUME NEW k \in Rows(u, "Incident")
        PROVE  k = <<"Incident", k[2]>> /\ "status" \in DOMAIN u[k] /\ AsRead(u[k].status) \in Statuses(u, k[2])
    <3>1. CASE k = <<"Incident", f>>
      BY <1>9, <1>10, <1>12, <1>14, <3>1
    <3>2. CASE k # <<"Incident", f>>
      <4>1. k \in Rows(v, "Incident") /\ u[k] = v[k]
        BY <1>10, <3>2 DEF Rows
      <4> QED BY <1>4, <1>12, <4>1 DEF Recorded
    <3> QED BY <3>1, <3>2
  <2> QED BY <2>1, <2>2 DEF Recorded
<1>16. DOMAIN b = DOMAIN Copy /\ b.row = c[e].row
  <2>1. b = [c[e] EXCEPT !.new = <<"SYSTEM">>]
    BY <1>1, <1>2 DEF ExtractedFrom, Source
  <2> QED BY <1>7, <1>8, <2>1
<1>17. DOMAIN a = DOMAIN Copy /\ a.row = ReadBack("Incident", z)
  BY <1>2, <1>8 DEF ExtractedTo
<1>18. "status" \in DOMAIN a.row /\ a.row.status = "SYSTEM"
  BY <1>9, <1>14, <1>17, StatusRead
<1>19. DOMAIN d = DOMAIN c /\ d[e] = b /\ d[f] = a /\ \A g \in DOMAIN c : DOMAIN d[g] = DOMAIN Copy
  BY <1>3, <1>7, <1>8, <1>16, <1>17
<1>20. /\ AnswerLast(t) /\ DOMAIN t \subseteq Nat
       /\ \A i \in DOMAIN t : t[i][1] \notin {"prepare", "extract"} /\ t[i][2] \in {e, f}
  <2>1. t = Moving(e, f) \/ t = MovingAway(e, f)
    BY <1>2, <1>3, MoveStepsIs
  <2>2. MovePlanned(t, e, f)
    BY <2>1, MovePlan
  <2> QED BY <2>2 DEF MovePlanned
<1>21. \A g : Statuses(u, g) \subseteq Explained(u, y, g)
  BY DEF Explained
<1>22. Loaded(u, y, e)
  <2>1. AsRead(c[e].row.status) \in Explained(u, y, e)
    BY <1>2, <1>6, <1>12, <1>21 DEF Loaded
  <2> QED BY <1>2, <1>6, <1>10, <1>16, <1>19, <2>1 DEF Loaded
<1>23. Loaded(u, y, f)
  <2>1. AsRead(a.row.status) \in Explained(u, y, f)
    BY <1>12, <1>14, <1>18, <1>21
  <2> QED BY <1>2, <1>10, <1>18, <1>19, <2>1 DEF Loaded
<1>24. LoadedFirst(u, y)
  <2>1. \A i \in DOMAIN t : Uses(y, i) \subseteq {e, f}
    BY <1>1, <1>20 DEF Uses
  <2> QED BY <1>1, <1>22, <1>23, <2>1 DEF LoadedFirst
<1>25. Planned(t, y.req, DOMAIN y.copy)
  BY <1>2, <1>7, <1>19, <1>20 DEF Planned
<1>26. DOMAIN y.w = {}
  BY <1>1, <1>3, AtIs DEF OutsideTx
<1>27. Truthful(y)
  BY <1>3, <1>5 DEF Truthful
<1>28. \A g \in DOMAIN y.copy : DOMAIN y.copy[g] = DOMAIN Copy
  BY <1>2, <1>19
<1>29. Told(u, y)
  BY <1>1, <1>20, <1>24, <1>25, <1>26, <1>27, <1>28, ToldFresh
<1> QED BY <1>1, <1>3, <1>13, <1>15, <1>29, ExplainOne

(* A statement that reads and leaves the copies alone. *)
LEMMA ExplainUnread ==
  ASSUME Sessions, ExplainInv, NEW s \in Session, NEW n \in {"pick", "updates", "exists"}, At(s, n), Read(s),
         ses'[s].copy = ses[s].copy
  PROVE  ExplainInv'
<1>1. PICK x, y : x = ses[s] /\ y = ses'[s]
  OBVIOUS
<1>2. Told(db, x) /\ Recorded(db)
  BY <1>1, ExplainInvIs
<1>3. x.todo \in Seq(Steps) /\ x.todo # <<>> /\ x.todo[1][1] = n
  BY <1>1, AtIs
<1>4. ReadsCarried(db, x, db, y) /\ \A e : x.todo[1] # <<"row", e>> /\ x.todo[1] # <<"insert", e>>
  <2>1. Silent(n)
    BY DEF Silent
  <2> QED BY <1>3, <2>1, SilentReads
<1>5. /\ y.todo = Tail(x.todo) /\ y.req = x.req /\ y.reply = x.reply /\ y.w = x.w /\ y.copy = x.copy
      /\ db' = db /\ Others(s)
  BY <1>1 DEF Read, Same
<1>6. Carries(db, x, db, y)
  BY <1>3, <1>4, <1>5 DEF Carries
<1>7. RowsCarried(db, x, db, y)
  BY <1>4, <1>5 DEF RowsCarried
<1>8. WritesCarried(x, db, y)
  <2>1. Recording(db, x)
    BY <1>2 DEF Told
  <2> QED BY <1>5, <2>1 DEF WritesCarried, Recording
<1>9. Told(db, y)
  BY <1>2, <1>4, <1>5, <1>6, <1>7, <1>8, ToldCarried
<1> QED BY <1>1, <1>2, <1>5, <1>9, ExplainOne, GrownSame

(* A statement of a transaction that writes neither an incident nor an update. *)
LEMMA ExplainOtherRows ==
  ASSUME Sessions, ExplainInv, NEW s \in Session, NEW n \in {"link", "component", "attribute"}, At(s, n),
         NEW rows, Wrote(s, rows), ses'[s].copy = ses[s].copy,
         \A k \in DOMAIN rows : k[1] \notin {"Incident", "IncidentStatus"}
  PROVE  ExplainInv'
<1>1. Silent(n)
  BY DEF Silent
<1>2. /\ Others(s) /\ db' = db /\ ses'[s].todo = Tail(ses[s].todo) /\ ses'[s].req = ses[s].req
      /\ ses'[s].reply = ses[s].reply /\ ses'[s].w = Over(rows, ses[s].w)
  BY DEF Wrote
<1> QED BY <1>1, <1>2, ExplainElsewhere

LEMMA ExplainUnlink ==
  ASSUME Sessions, ExplainInv, NEW s \in Session, RemoveIncidentComponent(s)
  PROVE  ExplainInv'
<1>1. PICK gone : Wrote(s, [k \in {Relation(Event(s), c) : c \in gone} |-> Gone])
  BY RemoveIncidentComponentIs
<1>2. PICK rows : rows = [k \in {Relation(Event(s), c) : c \in gone} |-> Gone]
  OBVIOUS
<1>3. PICK c, d, e, z : c = ses[s].copy /\ d = ses'[s].copy /\ e = Event(s) /\ z = c[e].comps \ {ses[s].req.c}
  OBVIOUS
<1>4. At(s, "unlink") /\ Wrote(s, rows) /\ d = [c EXCEPT ![e].comps = z]
  BY <1>1, <1>2, <1>3, RemoveIncidentComponentIs
<1>5. \A k \in DOMAIN rows : k[1] \notin {"Incident", "IncidentStatus"}
  BY <1>2 DEF Relation
<1>6. PICK x : x = ses[s]
  OBVIOUS
<1>7. Copies(x)
  BY <1>6, ExplainInvIs DEF Told
<1>8. e \in DOMAIN c /\ \A g \in DOMAIN c : DOMAIN c[g] = DOMAIN Copy
  BY <1>3, <1>4, <1>6, <1>7, CopyOf
<1>9. Refreshed(c, d, e, "comps")
  BY <1>4, <1>8, RefreshedIs
<1>10. DOMAIN d = DOMAIN c /\ \A g \in DOMAIN c : DOMAIN d[g] = DOMAIN c[g] /\ d[g].new = c[g].new /\ d[g].row = c[g].row
  BY <1>9 DEF Refreshed
<1>11. Silent("unlink")
  BY DEF Silent
<1>12. /\ Others(s) /\ db' = db /\ ses'[s].todo = Tail(ses[s].todo) /\ ses'[s].req = ses[s].req
       /\ ses'[s].reply = ses[s].reply /\ ses'[s].w = Over(rows, ses[s].w)
  BY <1>4 DEF Wrote
<1>13. /\ DOMAIN ses'[s].copy = DOMAIN ses[s].copy
       /\ \A g \in DOMAIN ses[s].copy : /\ DOMAIN ses'[s].copy[g] = DOMAIN ses[s].copy[g]
                                        /\ ses'[s].copy[g].new = ses[s].copy[g].new
                                        /\ ses'[s].copy[g].row = ses[s].copy[g].row
  BY <1>3, <1>10
<1> QED BY <1>4, <1>5, <1>11, <1>12, <1>13, ExplainElsewhere

LEMMA StepExplains ==
  ASSUME Sessions, AppendInv, ExplainInv, NEW s \in Session, Step(s)
  PROVE  ExplainInv'
<1>0. ASSUME Answered(s), Same PROVE ExplainInv'
  BY <1>0, ExplainAnswered DEF Same
<1>1. CASE ReadRow(s)
  BY <1>0, <1>1, ExplainReadRow
<1>2. CASE ReadComponents(s)
  BY <1>2, ExplainReadComponents
<1>3. CASE ReadStatuses(s)
  BY <1>3, ExplainReadStatuses
<1>4. CASE Answer(s)
  BY <1>0, <1>4, AnswerIs
<1>5. CASE Decide(s)
  BY <1>0, <1>5, ExplainDecide
<1>6. CASE ModifyIncident(s)
  BY <1>0, <1>6, ExplainModify
<1>7. CASE InsertStatuses(s)
  BY <1>7, ExplainInsert
<1>8. CASE Commit(s)
  BY <1>8, ExplainCommit
<1>9. CASE ReOpenIncident(s)
  BY <1>9, ExplainReopen
<1>10. CASE PickUpdate(s)
  <2>1. At(s, "pick") /\ Read(s) /\ ses'[s].copy = ses[s].copy
    BY <1>10, PickUpdateIs
  <2> QED BY <2>1, ExplainUnread
<1>11. CASE FindUpdate(s)
  <2>1. At(s, "updates") /\ ((Answered(s) /\ Same) \/ (Read(s) /\ ses'[s].copy = ses[s].copy))
    BY <1>11, FindUpdateIs
  <2> QED BY <1>0, <2>1, ExplainUnread
<1>12. CASE ModifyEventUpdate(s)
  BY <1>0, <1>12, ExplainEdit
<1>13. CASE ReadUpdate(s)
  BY <1>0, <1>13, ReadUpdateIs
<1>14. CASE MoveComponent(s)
  BY <1>0, <1>14, ExplainMove
<1>24. CASE ExtractComponents(s)
  <2>1. At(s, "extract") /\ ((Answered(s) /\ Same) \/ Extracted(s))
    BY <1>24, ExtractComponentsIs
  <2> QED BY <1>0, <2>1, ExplainExtract
<1>15. CASE RemoveIncidentComponent(s)
  BY <1>15, ExplainUnlink
<1>16. CASE SaveIncidentFull(s)
  BY <1>0, <1>16, ExplainSave
<1>17. CASE ReconcileIncidentComponents(s)
  <2>1. PICK rows : rows = Reconciled(s, Event(s))
    OBVIOUS
  <2>2. At(s, "link") /\ Wrote(s, rows) /\ ses'[s].copy = ses[s].copy
    BY <1>17, <2>1, ReconcileIs
  <2>3. \A k \in DOMAIN rows : k[1] \notin {"Incident", "IncidentStatus"}
    BY <2>1 DEF Reconciled
  <2> QED BY <2>2, <2>3, ExplainOtherRows
<1>18. CASE Done(s)
  BY <1>0, <1>18, DoneIs
<1>19. CASE ComponentExists(s)
  <2>1. At(s, "exists") /\ ((Answered(s) /\ Same) \/ (Read(s) /\ ses'[s].copy = ses[s].copy))
    BY <1>19, ComponentExistsIs
  <2> QED BY <1>0, <2>1, ExplainUnread
<1>20. CASE CreateComponent(s)
  <2>1. PICK rows, id, row : rows = Entry(<<"Component", id>>, row) /\ At(s, "component") /\ Wrote(s, rows)
                             /\ ses'[s].copy = ses[s].copy
    BY <1>20, CreateComponentIs
  <2>2. \A k \in DOMAIN rows : k[1] \notin {"Incident", "IncidentStatus"}
    BY <2>1 DEF Entry
  <2> QED BY <2>1, <2>2, ExplainOtherRows
<1>21. CASE CreateAttribute(s)
  <2>1. PICK rows, id, row : rows = Entry(<<"ComponentAttr", id>>, row) /\ At(s, "attribute") /\ Wrote(s, rows)
                             /\ ses'[s].copy = ses[s].copy
    BY <1>21, CreateAttributeIs
  <2>2. \A k \in DOMAIN rows : k[1] \notin {"Incident", "IncidentStatus"}
    BY <2>1 DEF Entry
  <2> QED BY <2>1, <2>2, ExplainOtherRows
<1>22. CASE Close(s)
  BY <1>0, <1>22, CloseIs
<1>23. CASE Abort(s)
  BY <1>0, <1>23, AbortIs
<1> QED BY <1>1, <1>2, <1>3, <1>4, <1>5, <1>6, <1>7, <1>8, <1>9, <1>10, <1>11, <1>12, <1>13, <1>14, <1>15,
           <1>16, <1>17, <1>18, <1>19, <1>20, <1>21, <1>22, <1>23, <1>24 DEF Step

LEMMA ExplainKept ==
  ASSUME Sessions, AppendInv, ExplainInv, [Next]_vars
  PROVE  ExplainInv'
<1>1. ASSUME NEW s \in Session, NEW q \in Request, Begin(s, q) PROVE ExplainInv'
  BY <1>1, ExplainBegin
<1>2. ASSUME NEW s \in Session, Fail(s) PROVE ExplainInv'
  <2>1. Answered(s) /\ db' = db
    BY <1>2, FailIs DEF Fail, Rollback
  <2> QED BY <2>1, ExplainAnswered
<1>3. CASE UNCHANGED vars \/ Exhausted
  <2>1. ses' = ses /\ db' = db
    BY <1>3 DEF vars, Exhausted
  <2> QED BY <2>1, ExplainInvIs
<1> QED BY <1>1, <1>2, <1>3, StepExplains DEF Next

LEMMA ExplainInit == Init => ExplainInv
<1> SUFFICES ASSUME Init PROVE ExplainInv
  OBVIOUS
<1>1. db = Stored
  BY DEF Init
<1>2. Recorded(db)
  <2>1. \A k \in StatusRows(Stored) : "status" \in DOMAIN Stored[k]
    BY HistoryAssumption DEF StatusRows
  <2>2. ASSUME NEW k \in Rows(Stored, "Incident")
        PROVE  /\ k = <<"Incident", k[2]>> /\ "status" \in DOMAIN Stored[k]
               /\ AsRead(Stored[k].status) \in Statuses(Stored, k[2])
    <3>1. k = <<"Incident", k[2]>> /\ "status" \in DOMAIN Stored[k]
      BY HistoryAssumption DEF Rows
    <3>2. CASE Stored[k].status = "SYSTEM"
      <4>1. AsRead(Stored[k].status) = "SYSTEM"
        BY <3>2, NullAssumption DEF AsRead
      <4> QED BY <3>1, <4>1 DEF Statuses
    <3>3. CASE Stored[k].status # "SYSTEM"
      <4>1. PICK h \in DOMAIN Stored : /\ h[1] = "IncidentStatus" /\ Stored[h].incident_id = k[2]
                                       /\ Stored[h].status = Stored[k].status
        BY <3>3, HistoryAssumption DEF Rows
      <4> QED BY <3>1, <4>1 DEF Statuses, StatusRows
    <3> QED BY <3>2, <3>3
  <2> QED BY <1>1, <2>1, <2>2 DEF Recorded
<1>3. ASSUME NEW s \in Session PROVE Told(db, ses[s])
  <2>1. PICK y : y = ses[s]
    OBVIOUS
  <2>2. y.todo = <<>> /\ DOMAIN y.w = {} /\ DOMAIN y.copy = {} /\ y.reply = Null
    BY <2>1, IdleFields DEF Init
  <2>3. DOMAIN <<>> = {}
    OBVIOUS
  <2>4. Recording(db, y) /\ LoadedFirst(db, y) /\ Copies(y) /\ Answers(db, y) /\ Truthful(y)
    BY <2>2, <2>3 DEF Recording, LoadedFirst, Copies, Answers, StatusRows, Rows, Truthful
  <2> QED BY <2>1, <2>4 DEF Told
<1> QED BY <1>2, <1>3, ExplainInvIs

(* A status a session stores, has stored in its transaction or holds in a  *)
(* copy is in the history of its event, or about to be inserted with it,   *)
(* or SYSTEM, the status an extraction gives the incident it creates.      *)
THEOREM ExplainsSound == Spec => []ExplainInv
BY ExplainInit, ExplainKept, SessionsSound, AppendsSound, PTL DEF Spec

(* HistoryExplainsStatus: the status in an answer is among the updates in the *)
(* same answer, whatever other sessions commit between the two reads, or it   *)
(* is SYSTEM, which an extraction stores before any update.                   *)
THEOREM StatusesExplained == Spec => []HistoryExplainsStatus
<1>1. ExplainInv => HistoryExplainsStatus
  BY DEF ExplainInv, HistoryExplainsStatus
<1> QED BY <1>1, ExplainsSound, PTL

-----------------------------------------------------------------------------
(* Which rows a list of updates shows *)

LEMMA AppendIs ==
  ASSUME NEW m \in Nat, NEW s, Filled(s, m), NEW u
  PROVE  /\ DOMAIN Append(s, u) = 1..(m + 1) /\ Filled(Append(s, u), m + 1)
         /\ Append(s, u)[m + 1] = u /\ \A i \in 1..m : Append(s, u)[i] = s[i]
<1> DEFINE U == {s[i] : i \in 1..m} \cup {u}
<1>1. s \in [1..m -> U]
  <2>1. [i \in 1..m |-> s[i]] \in [1..m -> U]
    OBVIOUS
  <2> QED BY <2>1, Zenon DEF Filled
<1> HIDE DEF U
<1>2. s \in Seq(U) /\ Len(s) = m
  BY <1>1
<1>3. u \in U
  BY DEF U
<1>4. PICK t : t = Append(s, u)
  OBVIOUS
<1>5. /\ t \in Seq(U) /\ DOMAIN t = 1..(m + 1) /\ t[m + 1] = u /\ \A i \in 1..m : t[i] = s[i]
  BY <1>2, <1>3, <1>4
<1>6. Filled(t, m + 1)
  BY <1>5 DEF Filled
<1> QED BY <1>4, <1>5, <1>6

LEMMA MapsExist ==
  ASSUME NEW statuses, NEW inc
  PROVE  \A n \in Nat : \E g : Maps(g, statuses, inc, n)
<1> DEFINE P == {n \in Nat : \E g : Maps(g, statuses, inc, n)}
<1>1. 0 \in P
  <2> DEFINE g == [s \in SUBSET (1..0) |-> Unmapped(inc)]
  <2>1. \A s \in SUBSET (1..0) : s = {}
    OBVIOUS
  <2>2. Maps(g, statuses, inc, 0)
    BY <2>1 DEF Maps
  <2> QED BY <2>2
<1>2. ASSUME NEW n \in P PROVE n + 1 \in P
  <2>1. PICK g : Maps(g, statuses, inc, n)
    OBVIOUS
  <2> DEFINE h == [s \in SUBSET (1..(n + 1)) |->
                     IF s = {} THEN Unmapped(inc) ELSE MapUpdate(g[s \ {Max(s)}], statuses[Max(s)], TRUE, inc)]
  <2>2. ASSUME NEW s \in SUBSET (1..n) PROVE s \in SUBSET (1..(n + 1)) /\ h[s] = g[s]
    <3>1. s \in SUBSET (1..(n + 1))
      OBVIOUS
    <3> QED BY <2>1, <3>1 DEF Maps
  <2>3. ASSUME NEW s \in SUBSET (1..(n + 1)), s # {} PROVE s \ {Max(s)} \in SUBSET (1..n)
    <3>1. CASE n + 1 \in s
      <4>1. Max(s) = n + 1
        BY <3>1, MaxOf
      <4> QED BY <4>1
    <3>2. CASE n + 1 \notin s
      <4>1. n \in Nat
        OBVIOUS
      <4>2. s \in SUBSET (1..n)
        BY <3>2, <4>1
      <4> QED BY <4>2
    <3> QED BY <3>1, <3>2
  <2>4. \A s \in SUBSET (1..(n + 1)) :
          h[s] = IF s = {} THEN Unmapped(inc) ELSE MapUpdate(h[s \ {Max(s)}], statuses[Max(s)], TRUE, inc)
    BY <2>2, <2>3
  <2>5. Maps(h, statuses, inc, n + 1)
    BY <2>4 DEF Maps
  <2> QED BY <2>5
<1>3. P = Nat
  <2>1. P \in SUBSET Nat
    OBVIOUS
  <2> HIDE DEF P
  <2> QED BY <1>1, <1>2, <2>1, Induction
<1> QED BY <1>3

LEMMA MapEventMaps ==
  ASSUME NEW inc, NEW n \in Nat, NEW statuses, DOMAIN statuses = 1..n
  PROVE  \E g : Maps(g, statuses, inc, n) /\ MapEventUpdates(statuses, TRUE, inc) = g[1..n]
<1> DEFINE G == CHOOSE g : g = [s \in SUBSET (1..n) |->
                     IF s = {} THEN Unmapped(inc) ELSE MapUpdate(g[s \ {Max(s)}], statuses[Max(s)], TRUE, inc)]
<1>1. \E g : g = [s \in SUBSET (1..n) |->
                     IF s = {} THEN Unmapped(inc) ELSE MapUpdate(g[s \ {Max(s)}], statuses[Max(s)], TRUE, inc)]
  <2>1. PICK g : Maps(g, statuses, inc, n)
    BY MapsExist
  <2> QED BY <2>1 DEF Maps
<1>2. G = [s \in SUBSET (1..n) |->
                     IF s = {} THEN Unmapped(inc) ELSE MapUpdate(G[s \ {Max(s)}], statuses[Max(s)], TRUE, inc)]
  BY <1>1
<1>3. MapEventUpdates(statuses, TRUE, inc) = G[1..n]
  BY DEF MapEventUpdates, FoldLeft, MapThenFoldSet, Unmapped
<1> HIDE DEF G
<1> QED BY <1>2, <1>3 DEF Maps

LEMMA ShownNone ==
  ASSUME NEW inc, NEW statuses
  PROVE  Shown(statuses, 0, Unmapped(inc))
<1>1. PICK acc : acc = Unmapped(inc)
  OBVIOUS
<1>2. DOMAIN acc = {"last", "updates", "description"} /\ acc.updates = <<>>
  BY <1>1 DEF Unmapped
<1>3. DOMAIN <<>> = 1..0 /\ 1..0 = {}
  OBVIOUS
<1>4. Filled(<<>>, 0)
  BY <1>3 DEF Filled
<1> QED BY <1>1, <1>2, <1>3, <1>4 DEF Shown

LEMMA ShownMore ==
  ASSUME NEW inc, NEW statuses, NEW k \in Nat, NEW acc, Shown(statuses, k, acc)
  PROVE  Shown(statuses, k + 1, MapUpdate(acc, statuses[k + 1], TRUE, inc))
<1>1. PICK s, next : s = statuses[k + 1] /\ next = MapUpdate(acc, statuses[k + 1], TRUE, inc)
  OBVIOUS
<1>2. DOMAIN acc = {"last", "updates", "description"}
  BY DEF Shown
<1>3. PICK m \in Nat : /\ DOMAIN acc.updates = 1..m /\ Filled(acc.updates, m)
                       /\ m = k \/ Described(statuses, k)
  BY DEF Shown
<1>4. Described(statuses, k) => Described(statuses, k + 1)
  BY DEF Described
<1>5. \A i \in 1..m :
        \E j \in 1..(k + 1) : acc.updates[i].row = statuses[j].id /\ (j = i \/ Described(statuses, j - 1))
  BY <1>3 DEF Shown
<1>6. CASE s.status = "description"
  <2>1. next = [acc EXCEPT !.description = s.text]
    BY <1>1, <1>6 DEF MapUpdate
  <2>2. DOMAIN next = DOMAIN acc /\ next.updates = acc.updates
    BY <1>2, <2>1
  <2>3. Described(statuses, k + 1)
    BY <1>1, <1>6 DEF Described
  <2> QED BY <1>1, <1>2, <1>3, <1>5, <2>2, <2>3 DEF Shown
<1>7. CASE s.status # "description"
  <2>1. PICK st, u : /\ st = Collapse(NormalizeStatus(s.status, inc.end_date, inc.type), acc.last)
                     /\ u = [status |-> st, text |-> s.text, row |-> s.id]
    OBVIOUS
  <2>2. next = [acc EXCEPT !.last = st, !.updates = Append(@, u)]
    BY <1>1, <1>7, <2>1 DEF MapUpdate
  <2>3. DOMAIN next = DOMAIN acc /\ next.updates = Append(acc.updates, u)
    BY <1>2, <2>2
  <2>4. PICK t, f : t = next.updates /\ f = acc.updates
    OBVIOUS
  <2>5. DOMAIN t = 1..(m + 1) /\ Filled(t, m + 1) /\ t[m + 1] = u /\ \A i \in 1..m : t[i] = f[i]
    BY <1>3, <2>3, <2>4, AppendIs
  <2>6. u.row = s.id
    BY <2>1
  <2>7. \E j \in 1..(k + 1) : t[m + 1].row = statuses[j].id /\ (j = m + 1 \/ Described(statuses, j - 1))
    <3>1. k + 1 \in 1..(k + 1) /\ (k + 1) - 1 = k
      OBVIOUS
    <3> QED BY <1>1, <1>3, <2>5, <2>6, <3>1
  <2>8. ASSUME NEW i \in 1..(m + 1)
        PROVE  \E j \in 1..(k + 1) : t[i].row = statuses[j].id /\ (j = i \/ Described(statuses, j - 1))
    <3>1. CASE i = m + 1
      BY <2>7, <3>1
    <3>2. CASE i # m + 1
      <4>1. i \in 1..m
        BY <3>2
      <4> QED BY <1>5, <2>4, <2>5, <4>1
    <3> QED BY <3>1, <3>2
  <2>9. m + 1 \in Nat /\ (m + 1 = k + 1 \/ Described(statuses, k + 1))
    BY <1>3, <1>4
  <2> QED BY <1>1, <1>2, <2>3, <2>4, <2>5, <2>8, <2>9 DEF Shown
<1> QED BY <1>6, <1>7

(* An update is shown at the position of its row, unless a description comes before it. *)
LEMMA PositionsShown ==
  ASSUME NEW inc, NEW n \in Nat, NEW statuses, DOMAIN statuses = 1..n
  PROVE  AllShown(MapEventUpdates(statuses, TRUE, inc).updates, statuses, n)
<1>1. PICK g : Maps(g, statuses, inc, n) /\ MapEventUpdates(statuses, TRUE, inc) = g[1..n]
  BY MapEventMaps
<1> DEFINE P == {k \in Nat : k <= n => Shown(statuses, k, g[1..k])}
<1>2. 0 \in P
  <2>1. 1..0 = {} /\ {} \in SUBSET (1..n)
    OBVIOUS
  <2>2. g[1..0] = Unmapped(inc)
    BY <1>1, <2>1 DEF Maps
  <2> QED BY <2>2, ShownNone
<1>3. ASSUME NEW k \in P PROVE k + 1 \in P
  <2> SUFFICES ASSUME k + 1 <= n PROVE Shown(statuses, k + 1, g[1..(k + 1)])
    OBVIOUS
  <2>1. k \in Nat /\ Shown(statuses, k, g[1..k])
    OBVIOUS
  <2>2. PICK s : s = 1..(k + 1)
    OBVIOUS
  <2>3. s \in SUBSET (1..(k + 1)) /\ k + 1 \in s /\ s \in SUBSET (1..n) /\ s # {}
    BY <2>1, <2>2
  <2>4. Max(s) = k + 1
    BY <2>1, <2>3, MaxOf
  <2>5. s \ {Max(s)} = 1..k
    BY <2>1, <2>2, <2>4
  <2>6. g[s] = MapUpdate(g[1..k], statuses[k + 1], TRUE, inc)
    BY <1>1, <2>3, <2>4, <2>5 DEF Maps
  <2>7. PICK acc : acc = g[1..k]
    OBVIOUS
  <2>8. Shown(statuses, k + 1, MapUpdate(acc, statuses[k + 1], TRUE, inc))
    BY <2>1, <2>7, ShownMore
  <2> QED BY <2>2, <2>6, <2>7, <2>8
<1>4. P = Nat
  <2>1. P \in SUBSET Nat
    OBVIOUS
  <2> HIDE DEF P
  <2> QED BY <1>2, <1>3, <2>1, Induction
<1>5. n <= n
  OBVIOUS
<1>6. Shown(statuses, n, g[1..n])
  BY <1>4, <1>5
<1>7. PICK updates : updates = MapEventUpdates(statuses, TRUE, inc).updates
  OBVIOUS
<1>8. \A i \in DOMAIN updates :
        i \in Nat \ {0} /\ \E j \in 1..n : updates[i].row = statuses[j].id /\ (j = i \/ Described(statuses, j - 1))
  <2>1. \A i \in DOMAIN updates :
          \E j \in 1..n : updates[i].row = statuses[j].id /\ (j = i \/ Described(statuses, j - 1))
    BY <1>1, <1>6, <1>7 DEF Shown
  <2>2. PICK k : k \in Nat /\ DOMAIN updates = 1..k
    BY <1>1, <1>6, <1>7 DEF Shown
  <2> QED BY <2>1, <2>2
<1> QED BY <1>7, <1>8 DEF AllShown

LEMMA BelowType ==
  ASSUME NEW m \in Nat, NEW ids \in SUBSET (1..m), NEW i
  PROVE  IsFiniteSet(Below(ids, i)) /\ Cardinality(Below(ids, i)) \in Nat
<1>1. IsFiniteSet(1..m)
  BY FS_Interval
<1>2. PICK b : b = Below(ids, i)
  OBVIOUS
<1>3. b \subseteq 1..m
  BY <1>2 DEF Below
<1>4. IsFiniteSet(b)
  BY <1>1, <1>3, FS_Subset
<1> QED BY <1>2, <1>4, FS_CardinalityType

(* A larger id has more ids below it. *)
LEMMA BelowLess ==
  ASSUME NEW m \in Nat, NEW ids \in SUBSET (1..m), NEW i \in ids, NEW k \in ids, i < k
  PROVE  Cardinality(Below(ids, i)) < Cardinality(Below(ids, k))
<1>1. PICK b, c : b = Below(ids, i) /\ c = Below(ids, k)
  OBVIOUS
<1>2. IsFiniteSet(c) /\ Cardinality(b) \in Nat /\ Cardinality(c) \in Nat
  BY <1>1, BelowType
<1>3. b \subseteq c /\ b # c
  <2>1. \A j \in ids : j < i => j < k
    OBVIOUS
  <2>2. i \in c /\ i \notin b
    BY <1>1 DEF Below
  <2> QED BY <1>1, <2>1, <2>2 DEF Below
<1>4. Cardinality(b) <= Cardinality(c) /\ Cardinality(b) # Cardinality(c)
  BY <1>2, <1>3, FS_Subset
<1> QED BY <1>1, <1>2, <1>4

LEMMA BelowOne ==
  ASSUME NEW m \in Nat, NEW ids \in SUBSET (1..m), NEW i \in ids, NEW k \in ids,
         Cardinality(Below(ids, i)) = Cardinality(Below(ids, k))
  PROVE  i = k
<1>1. Cardinality(Below(ids, i)) \in Nat
  BY BelowType
<1>2. i < k \/ k < i \/ i = k
  OBVIOUS
<1>3. ASSUME i < k PROVE FALSE
  <2>1. Cardinality(Below(ids, i)) < Cardinality(Below(ids, k))
    BY <1>3, BelowLess
  <2> QED BY <1>1, <2>1
<1>4. ASSUME k < i PROVE FALSE
  <2>1. Cardinality(Below(ids, k)) < Cardinality(Below(ids, i))
    BY <1>4, BelowLess
  <2> QED BY <1>1, <2>1
<1> QED BY <1>2, <1>3, <1>4

LEMMA PlacesTaken ==
  \A m \in Nat : \A ids \in SUBSET (1..m) : AllPlaced(ids)
<1> DEFINE P == {m \in Nat : \A ids \in SUBSET (1..m) : AllPlaced(ids)}
<1>1. 0 \in P
  <2>1. ASSUME NEW ids \in SUBSET (1..0) PROVE AllPlaced(ids)
    <3>1. ids = {}
      OBVIOUS
    <3>2. Cardinality({}) = 0
      BY FS_EmptySet
    <3>3. 1..0 = {}
      OBVIOUS
    <3> QED BY <3>1, <3>2, <3>3 DEF AllPlaced
  <2> QED BY <2>1
<1>2. ASSUME NEW m \in P PROVE m + 1 \in P
  <2>0. m \in Nat /\ \A ids \in SUBSET (1..m) : AllPlaced(ids)
    OBVIOUS
  <2> HIDE DEF P
  <2>1. ASSUME NEW ids \in SUBSET (1..(m + 1)) PROVE AllPlaced(ids)
    <3>1. CASE m + 1 \notin ids
      <4>1. ids \in SUBSET (1..m)
        BY <2>0, <3>1
      <4> QED BY <2>0, <4>1
    <3>2. CASE m + 1 \in ids
      <4>1. PICK rest : rest = ids \ {m + 1}
        OBVIOUS
      <4>2. rest \in SUBSET (1..m) /\ AllPlaced(rest)
        BY <2>0, <4>1
      <4>3. IsFiniteSet(ids)
        <5>1. IsFiniteSet(1..(m + 1))
          BY <2>0, FS_Interval
        <5> QED BY <5>1, FS_Subset
      <4>4. Cardinality(rest) = Cardinality(ids) - 1 /\ Cardinality(ids) \in Nat /\ Cardinality(rest) \in Nat
        <5>1. IsFiniteSet(rest) /\ Cardinality(rest) = Cardinality(ids) - 1
          BY <3>2, <4>1, <4>3, FS_RemoveElement
        <5> QED BY <4>3, <5>1, FS_CardinalityType
      <4>5. Below(ids, m + 1) = rest
        <5>1. \A j \in ids : j < m + 1 <=> j # m + 1
          BY <2>0
        <5> QED BY <4>1, <5>1 DEF Below
      <4>6. \A i \in rest : Below(ids, i) = Below(rest, i)
        BY <2>0, <4>1, <4>2 DEF Below
      <4>7. ASSUME NEW n \in 1..Cardinality(ids) PROVE \E i \in ids : Cardinality(Below(ids, i)) = n - 1
        <5>1. CASE n = Cardinality(ids)
          BY <3>2, <4>4, <4>5, <5>1
        <5>2. CASE n # Cardinality(ids)
          <6>1. n \in 1..Cardinality(rest)
            BY <4>4, <5>2
          <6>2. PICK i \in rest : Cardinality(Below(rest, i)) = n - 1
            BY <4>2, <6>1 DEF AllPlaced
          <6> QED BY <4>1, <4>6, <6>2
        <5> QED BY <5>1, <5>2
      <4> QED BY <4>7 DEF AllPlaced
    <3> QED BY <3>1, <3>2
  <2> QED BY <2>0, <2>1 DEF P
<1>3. P = Nat
  <2>1. P \in SUBSET Nat
    OBVIOUS
  <2> HIDE DEF P
  <2> QED BY <1>1, <1>2, <2>1, Induction
<1> QED BY <1>3

(* The n-th of the ascending ids has n - 1 below it. *)
LEMMA AscendingIs ==
  ASSUME NEW m \in Nat, NEW ids \in SUBSET (1..m)
  PROVE  InOrder(ids, Ascending(ids)) /\ Len(Ascending(ids)) = Cardinality(ids)
<1>0. PICK list : list = Ascending(ids)
  OBVIOUS
<1>1. Cardinality(ids) \in Nat
  <2>1. IsFiniteSet(ids)
    <3>1. IsFiniteSet(1..m)
      BY FS_Interval
    <3> QED BY <3>1, FS_Subset
  <2> QED BY <2>1, FS_CardinalityType
<1>2. AllPlaced(ids)
  BY PlacesTaken
<1>3. list = [n \in 1..Cardinality(ids) |-> CHOOSE i \in ids : Cardinality(Below(ids, i)) = n - 1]
  BY <1>0 DEF Ascending, Below
<1>4. \A n \in 1..Cardinality(ids) : list[n] \in ids /\ Cardinality(Below(ids, list[n])) = n - 1
  <2> SUFFICES ASSUME NEW n \in 1..Cardinality(ids)
               PROVE  list[n] \in ids /\ Cardinality(Below(ids, list[n])) = n - 1
    OBVIOUS
  <2>1. \E i \in ids : Cardinality(Below(ids, i)) = n - 1
    BY <1>2 DEF AllPlaced
  <2>2. list[n] = CHOOSE i \in ids : Cardinality(Below(ids, i)) = n - 1
    BY <1>3
  <2> QED BY <2>1, <2>2, Zenon
<1>5. DOMAIN list = 1..Cardinality(ids) /\ Len(list) = Cardinality(ids)
  BY <1>1, <1>3
<1> QED BY <1>0, <1>1, <1>4, <1>5 DEF InOrder

LEMMA UpdateIdsIs ==
  ASSUME NEW m, NEW v, Numbered(v, m), NEW e
  PROVE  /\ UpdateIds(v, e) \in SUBSET (1..m)
         /\ \A i \in UpdateIds(v, e) : <<"IncidentStatus", i>> \in StatusRows(v) /\ v[<<"IncidentStatus", i>>].incident_id = e
<1>1. ASSUME NEW i \in UpdateIds(v, e)
      PROVE  i \in 1..m /\ <<"IncidentStatus", i>> \in StatusRows(v) /\ v[<<"IncidentStatus", i>>].incident_id = e
  <2>1. PICK k \in StatusRows(v) : v[k].incident_id = e /\ i = k[2]
    BY DEF UpdateIds, StatusRows
  <2> QED BY <2>1 DEF Numbered
<1> QED BY <1>1

LEMMA PlacedIs ==
  ASSUME NEW v, NEW e, NEW i, NEW n
  PROVE  Placed(v, e, i, n) <=>
           /\ i \in UpdateIds(v, e) /\ n \in Nat \ {0}
           /\ Shifted(v, e, i) \/ Cardinality(Below(UpdateIds(v, e), i)) = n - 1
BY DEF Placed, Below

LEMMA OrderLess ==
  ASSUME NEW m \in Nat, NEW ids \in SUBSET (1..m), NEW list, InOrder(ids, list),
         NEW p \in DOMAIN list, NEW j \in DOMAIN list, p < j
  PROVE  list[p] < list[j]
<1>1. PICK h, i : h = list[p] /\ i = list[j]
  OBVIOUS
<1>2. /\ h \in ids /\ Cardinality(Below(ids, h)) = p - 1 /\ i \in ids /\ Cardinality(Below(ids, i)) = j - 1
      /\ p \in Int /\ j \in Int
  BY <1>1 DEF InOrder
<1>3. h \in Int /\ i \in Int
  BY <1>2
<1>4. ASSUME i < h PROVE FALSE
  <2>1. Cardinality(Below(ids, i)) < Cardinality(Below(ids, h))
    BY <1>2, <1>4, BelowLess
  <2> QED BY <1>2, <2>1
<1>5. i # h
  BY <1>2
<1> QED BY <1>1, <1>3, <1>4, <1>5

LEMMA ReadShifts ==
  ASSUME NEW m \in Nat, NEW v, NEW e, NEW ids, NEW list, NEW sts, Numbered(v, m), HasStatus(v),
         ids = UpdateIds(v, e), InOrder(ids, list), ReadOf(v, list, sts),
         NEW j \in DOMAIN list, Described(sts, j - 1)
  PROVE  Shifted(v, e, list[j])
<1>1. j \in Int /\ j \in 1..Cardinality(ids) /\ Cardinality(ids) \in Nat
  BY DEF InOrder
<1>2. PICK p \in 1..(j - 1) : sts[p].status = "description"
  BY DEF Described
<1>3. p \in DOMAIN list /\ p < j
  BY <1>1, <1>2 DEF InOrder
<1>4. ids \in SUBSET (1..m)
  BY UpdateIdsIs
<1>5. list[p] < list[j]
  BY <1>3, <1>4, OrderLess
<1>6. PICK h, k : h = list[p] /\ k = <<"IncidentStatus", h>>
  OBVIOUS
<1>7. h \in ids
  BY <1>3, <1>6 DEF InOrder
<1>8. k \in StatusRows(v) /\ v[k].incident_id = e /\ k[2] = h
  BY <1>6, <1>7, UpdateIdsIs
<1>9. v[k].status = "description"
  <2>1. PICK row : row = v[k]
    OBVIOUS
  <2>2. "status" \in DOMAIN row
    BY <1>8, <2>1 DEF HasStatus
  <2>3. ReadBack("IncidentStatus", row).status = AsRead(row.status)
    BY <2>2, StatusRead
  <2>4. sts[p].status = ReadBack("IncidentStatus", row).status
    BY <1>3, <1>6, <2>1 DEF ReadOf
  <2>5. AsRead(row.status) = "description"
    BY <1>2, <2>3, <2>4
  <2> QED BY <2>1, <2>5 DEF AsRead
<1> QED BY <1>5, <1>6, <1>8, <1>9 DEF Shifted

LEMMA ReadPlaced ==
  ASSUME NEW m \in Nat, NEW v, NEW e, NEW ids, NEW list, NEW sts, Numbered(v, m), HasStatus(v),
         ids = UpdateIds(v, e), InOrder(ids, list), ReadOf(v, list, sts),
         NEW n \in Nat \ {0}, NEW j \in DOMAIN list, j = n \/ Described(sts, j - 1)
  PROVE  Placed(v, e, sts[j].id, n)
<1>1. sts[j].id = list[j]
  BY DEF ReadOf
<1>2. list[j] \in ids /\ Cardinality(Below(ids, list[j])) = j - 1
  BY DEF InOrder
<1>3. Shifted(v, e, list[j]) \/ j = n
  BY ReadShifts
<1> QED BY <1>1, <1>2, <1>3, PlacedIs

(* The updates just read are in place. *)
LEMMA ListsRead ==
  ASSUME NEW m \in Nat, NEW v, Numbered(v, m), HasStatus(v),
         NEW e, NEW c, c.statuses = StatusesByIncident(v, e)
  PROVE  Lists(v, e, c)
<1>1. PICK ids, list, sts : ids = UpdateIds(v, e) /\ list = Ascending(ids) /\ sts = c.statuses
  OBVIOUS
<1>2. InOrder(ids, list)
  <2>1. ids \in SUBSET (1..m)
    BY <1>1, UpdateIdsIs
  <2>2. list = Ascending(ids)
    BY <1>1
  <2> QED BY <2>1, <2>2, AscendingIs
<1>3. ReadOf(v, list, sts)
  <2>1. StatusIds(v, e) = list
    BY <1>1 DEF StatusIds
  <2>2. sts = StatusesByIncident(v, e)
    BY <1>1
  <2> QED BY <2>1, <2>2 DEF StatusesByIncident, ReadOf
<1>0. PICK inc : inc = c.row
  OBVIOUS
<1>4. PICK updates : updates = MapEventUpdates(sts, TRUE, inc).updates
  OBVIOUS
<1>5. ToAPIEvent(c.row, c.statuses, c.comps, TRUE).updates = updates
  BY <1>0, <1>1, <1>4 DEF ToAPIEvent
<1>6. ASSUME NEW n \in DOMAIN updates PROVE Placed(v, e, updates[n].row, n)
  <2>1. PICK size : size \in Nat /\ DOMAIN sts = 1..size /\ DOMAIN list = 1..size
    BY <1>2, <1>3 DEF InOrder, ReadOf
  <2>2. n \in Nat \ {0} /\ \E j \in 1..size : updates[n].row = sts[j].id /\ (j = n \/ Described(sts, j - 1))
    <3>1. AllShown(updates, sts, size)
      BY <1>4, <2>1, PositionsShown
    <3> QED BY <3>1 DEF AllShown
  <2>3. PICK j \in DOMAIN list : updates[n].row = sts[j].id /\ (j = n \/ Described(sts, j - 1))
    BY <2>1, <2>2
  <2>4. Placed(v, e, sts[j].id, n)
    BY <1>1, <1>2, <1>3, <2>2, <2>3, ReadPlaced
  <2> QED BY <2>3, <2>4
<1> QED BY <1>5, <1>6 DEF Lists

-----------------------------------------------------------------------------
(* What was shown stays in place *)

LEMMA KeptShifted ==
  ASSUME NEW v, NEW u, Kept(v, u), NEW e, NEW i, Shifted(v, e, i)
  PROVE  Shifted(u, e, i)
BY DEF Kept, Shifted

LEMMA KeptPlaced ==
  ASSUME NEW m, NEW v, NEW u, Kept(v, u), Numbered(u, m), NEW e, NEW i, NEW n, Placed(v, e, i, n)
  PROVE  Placed(u, e, i, n)
<1>1. PICK a, b : a = UpdateIds(v, e) /\ b = UpdateIds(u, e)
  OBVIOUS
<1>2. a \subseteq b /\ (\A h \in a, j \in b \ a : h < j) /\ b \in SUBSET (1..m)
  BY <1>1, UpdateIdsIs DEF Kept, Longer
<1>3. i \in a
  BY <1>1, PlacedIs
<1>4. Below(b, i) = Below(a, i)
  <2>1. ASSUME NEW j \in b, j < i PROVE j \in a
    <3>1. j \notin a => i < j
      BY <1>2, <1>3
    <3>2. i \in Int /\ j \in Int
      BY <1>2, <1>3
    <3> QED BY <2>1, <3>1, <3>2
  <2> QED BY <1>2, <2>1 DEF Below
<1> QED BY <1>1, <1>2, <1>3, <1>4, PlacedIs, KeptShifted

LEMMA KeptLists ==
  ASSUME NEW m, NEW v, NEW u, Kept(v, u), Numbered(u, m), NEW e, NEW c, Lists(v, e, c)
  PROVE  Lists(u, e, c)
<1>1. PICK updates : updates = ToAPIEvent(c.row, c.statuses, c.comps, TRUE).updates
  OBVIOUS
<1>2. \A n \in DOMAIN updates : Placed(v, e, updates[n].row, n)
  BY <1>1 DEF Lists
<1>3. \A n \in DOMAIN updates : Placed(u, e, updates[n].row, n)
  BY <1>2, KeptPlaced
<1> QED BY <1>1, <1>3 DEF Lists

LEMMA KeptSame ==
  ASSUME NEW v, NEW u, DOMAIN u = DOMAIN v, \A k \in DOMAIN v : u[k] = v[k]
  PROVE  Kept(v, u)
<1>1. \A e : UpdateIds(u, e) = UpdateIds(v, e)
  BY DEF UpdateIds
<1> QED BY <1>1 DEF Kept, Longer, StatusRows

(* A commit, an extraction, a reopening and an edit keep the histories. *)
LEMMA KeptCommit ==
  ASSUME Sessions, AppendInv, NEW s \in Session, Commit(s)
  PROVE  Kept(db, db')
<1>1. PICK m, w : m = seq["IncidentStatus"] /\ w = ses[s].w
  OBVIOUS
<1>2. m \in Nat /\ Numbered(db, m) /\ Numbered(w, m) /\ Follows(w, db)
  BY <1>1, AppendInvIs DEF Appends
<1>3. db' = Overlay(db, w)
  BY <1>1, CommitIs
<1>4. StatusRows(db') = StatusRows(db) \cup StatusRows(w) /\ \A k \in StatusRows(db) : db'[k] = db[k]
  BY <1>2, <1>3, Committed
<1>5. Longer(db, db')
  BY <1>2, <1>3, CommitLonger
<1> QED BY <1>4, <1>5 DEF Kept

LEMMA KeptExtract ==
  ASSUME Sessions, AppendInv, NEW s \in Session, Extracted(s)
  PROVE  Kept(db, db')
<1>1. PICK f, c, row, v, u, n : /\ f = ses[s].req.f /\ c = ses[s].req.c /\ row = NewRow(s)
                               /\ v = db /\ u = db' /\ n = "IncidentStatus"
  OBVIOUS
<1>2. u = Overlay(v, NewRows(f, c, row)) /\ n \notin {"Incident", "Relation"}
  BY <1>1 DEF Extracted
<1>3. Rows(u, n) = Rows(v, n) /\ \A k \in Rows(v, n) : u[k] = v[k]
  BY <1>2, NewRowsElse
<1>4. StatusRows(u) = StatusRows(v) /\ \A k \in StatusRows(v) : u[k] = v[k]
  BY <1>1, <1>3 DEF StatusRows, Rows
<1>5. Longer(db, db')
  BY ExtractSame, SameIds
<1> QED BY <1>1, <1>4, <1>5 DEF Kept

LEMMA KeptReopen ==
  ASSUME Sessions, AppendInv, NEW s \in Session, ReOpenIncident(s)
  PROVE  Kept(db, db')
<1>1. PICK key, row : /\ key = <<"Incident", Event(s)>>
                      /\ row = UpdateRow("Incident", Build("Incident", <<Clear("end_date")>>),
                                         View(s)[<<"Incident", Event(s)>>])
  OBVIOUS
<1>2. db' = Overlay(db, Entry(key, row))
  BY <1>1, ReOpenIncidentIs DEF Stored1
<1>3. key[1] # "IncidentStatus"
  BY <1>1
<1>4. StatusRows(db') = StatusRows(db) /\ \A k \in StatusRows(db) : db'[k] = db[k]
  BY <1>2, <1>3 DEF Overlay, Entry, StatusRows
<1>5. Longer(db, db')
  BY ReOpenSame, SameIds
<1> QED BY <1>4, <1>5 DEF Kept

LEMMA KeptEdit ==
  ASSUME Sessions, AppendInv, ExplainInv, NEW s \in Session, ModifyEventUpdate(s), ~(Answered(s) /\ Same)
  PROVE  Kept(db, db')
<1>1. PICK i, k, stored, z, v, u :
        /\ i = ses[s].target /\ k = <<"IncidentStatus", i>> /\ stored = View(s)[k] /\ v = db /\ u = db'
        /\ z = UpdateRow("IncidentStatus", EditMutation, stored)
  OBVIOUS
<1>2. At(s, "text") /\ k \in DOMAIN View(s) /\ Stored1(s, Entry(k, z))
  BY <1>1, ModifyEventUpdateIs
<1>3. Recorded(v)
  BY <1>1, ExplainInvIs
<1>4. DOMAIN ses[s].w = {}
  BY <1>2, AtIs DEF OutsideTx
<1>5. k \in DOMAIN v /\ stored = v[k] /\ k[1] = "IncidentStatus"
  <2>1. PICK f : f = View(s)
    OBVIOUS
  <2>2. DOMAIN f = DOMAIN db /\ \A h \in DOMAIN db : f[h] = db[h]
    BY <1>4, <2>1, ViewOutside
  <2> QED BY <1>1, <1>2, <2>1, <2>2
<1>6. "status" \in DOMAIN stored
  BY <1>3, <1>5 DEF Recorded, StatusRows
<1>7. "status" \in DOMAIN z /\ z.status = v[k].status
  BY <1>1, <1>5, <1>6, EditedStatus
<1>8. u = Overlay(v, Entry(k, z))
  BY <1>1, <1>2 DEF Stored1
<1>9. DOMAIN u = DOMAIN v /\ u[k] = z /\ \A h \in DOMAIN v \ {k} : u[h] = v[h]
  BY <1>5, <1>7, <1>8, OverlayOne
<1>10. \A h \in StatusRows(v) : u[h].status = v[h].status
  BY <1>7, <1>9 DEF StatusRows
<1>11. SameUpdates(v, u)
  BY <1>1, EditSame
<1>12. Longer(v, u)
  BY <1>11, SameIds
<1> QED BY <1>1, <1>10, <1>11, <1>12 DEF Kept, SameUpdates

-----------------------------------------------------------------------------
(* Where a session that edits an update is *)

LEMMA ShownInvIs ==
  /\ ShownInv <=> \A s \in Session : Showing(db, ses[s])
  /\ ShownInv' <=> \A s \in Session : Showing(db', ses'[s])
<1>1. ShownInv <=> \A s \in Session : Showing(db, ses[s])
  BY DEF ShownInv, Showing
<1>2. ShownInv' <=> \A s \in Session : Showing(db', ses'[s])
  BY DEF ShownInv, Showing
<1> QED BY <1>1, <1>2

LEMMA UnshownIs ==
  ASSUME NEW x
  PROVE  Unshown(x) <=> x.shown = 0 /\ Quiet(x.todo)
BY DEF Unshown, Quiet

(* The histories only grow: what is shown stays in place. *)
LEMMA ShowingKept ==
  ASSUME NEW m, NEW v, NEW u, Kept(v, u), Numbered(u, m), NEW x, Showing(v, x)
  PROVE  Showing(u, x)
<1>1. CASE Unshown(x)
  BY <1>1 DEF Showing
<1>2. CASE ~Unshown(x)
  <2>1. PICK j \in 1..7 : Shows(v, x, j)
    BY <1>2 DEF Showing
  <2>2. PICK e, c, i, n : e = x.req.e /\ c = x.copy[x.req.e] /\ i = x.shown /\ n = x.version
    OBVIOUS
  <2>3. Lists(v, e, c) => Lists(u, e, c)
    BY KeptLists
  <2>4. Placed(v, e, i, n) => Placed(u, e, i, n)
    BY KeptPlaced
  <2>5. Shifted(v, e, i) => Shifted(u, e, i)
    BY KeptShifted
  <2>6. Shows(u, x, j)
    BY <2>1, <2>2, <2>3, <2>4, <2>5 DEF Shows
  <2> QED BY <2>6 DEF Showing
<1> QED BY <1>1, <1>2

LEMMA ShownOne ==
  ASSUME ShownInv, AppendInv', NEW s \in Session, Others(s), Kept(db, db'), Showing(db', ses'[s])
  PROVE  ShownInv'
<1>1. PICK m : m = seq'["IncidentStatus"]
  OBVIOUS
<1>2. Numbered(db', m)
  BY <1>1 DEF AppendInv
<1>3. ASSUME NEW t \in Session PROVE Showing(db', ses'[t])
  <2>1. CASE t = s
    BY <2>1
  <2>2. CASE t # s
    <3>1. ses'[t] = ses[t] /\ Showing(db, ses[t])
      BY <2>2, ShownInvIs DEF Others
    <3>2. PICK x : x = ses[t]
      OBVIOUS
    <3>3. Showing(db', x)
      BY <1>2, <3>1, <3>2, ShowingKept
    <3> QED BY <3>1, <3>2, <3>3
  <2> QED BY <2>1, <2>2
<1> QED BY <1>3, ShownInvIs

LEMMA ShownAnswered ==
  ASSUME ShownInv, AppendInv', NEW s \in Session, Answered(s), db' = db
  PROVE  ShownInv'
<1>1. Kept(db, db')
  BY KeptSame
<1>2. DOMAIN <<>> = {}
  OBVIOUS
<1>3. PICK x : x = ses'[s]
  OBVIOUS
<1>4. x.todo = <<>> /\ x.shown = 0
  BY <1>3 DEF Answered
<1>5. Unshown(x)
  BY <1>2, <1>4 DEF Unshown
<1>6. Showing(db', x)
  BY <1>5 DEF Showing
<1> QED BY <1>1, <1>3, <1>6, ShownOne DEF Answered

(* The steps of the edit. *)
LEMMA EditingIs ==
  ASSUME NEW e
  PROVE  /\ DOMAIN Editing(e) = 1..7 /\ Len(Editing(e)) = 7
         /\ Editing(e)[1] = <<"row", e>> /\ Editing(e)[2] = <<"components", e>>
         /\ Editing(e)[3] = <<"statuses", e>> /\ Editing(e)[4] = <<"pick", e>>
         /\ Editing(e)[5] = <<"updates", e>> /\ Editing(e)[6] = <<"text", e>> /\ Editing(e)[7] = <<"reread", e>>
BY DEF Editing

LEMMA EditsTail ==
  ASSUME NEW t \in Seq(Steps), t # <<>>, NEW e, NEW j \in 1..7, Edits(t, e, j)
  PROVE  Edits(Tail(t), e, j + 1) /\ t[1] = Editing(e)[j]
<1>0. PICK p : p = Editing(e)
  OBVIOUS
<1>1. PICK u : u = Tail(t)
  OBVIOUS
<1>2. /\ Len(u) = Len(t) - 1 /\ DOMAIN u = 1..(Len(t) - 1) /\ Len(t) \in Nat \ {0}
      /\ \A i \in DOMAIN u : u[i] = t[i + 1]
  BY <1>1, TailIs
<1>3. Len(t) = 8 - j /\ \A i \in 1..(8 - j) : t[i] = p[i + j - 1]
  BY <1>0 DEF Edits
<1>4. Len(u) = 8 - (j + 1)
  BY <1>2, <1>3
<1>5. ASSUME NEW i \in 1..(8 - (j + 1)) PROVE u[i] = p[i + (j + 1) - 1]
  <2>1. i \in DOMAIN u /\ i + 1 \in 1..(8 - j) /\ (i + 1) + j - 1 = i + (j + 1) - 1
    BY <1>2, <1>3
  <2> QED BY <1>2, <1>3, <2>1
<1>6. 1 \in 1..(8 - j) /\ 1 + j - 1 = j
  OBVIOUS
<1>7. t[1] = p[j]
  BY <1>3, <1>6
<1> QED BY <1>0, <1>1, <1>4, <1>5, <1>7 DEF Edits

LEMMA QuietTail ==
  ASSUME NEW t \in Seq(Steps), t # <<>>, Quiet(t)
  PROVE  Quiet(Tail(t))
<1>1. PICK u : u = Tail(t)
  OBVIOUS
<1>2. /\ DOMAIN u = 1..(Len(t) - 1) /\ Len(t) \in Nat \ {0} /\ DOMAIN t = 1..Len(t)
      /\ \A i \in DOMAIN u : u[i] = t[i + 1]
  BY <1>1, TailIs
<1>3. \A i \in DOMAIN u : i + 1 \in DOMAIN t
  BY <1>2
<1> QED BY <1>1, <1>2, <1>3 DEF Quiet

(* Where the session is tells what it was shown. *)
LEMMA EditAt ==
  ASSUME Sessions, ShownInv, NEW s \in Session, NEW n, At(s, n), NEW x, x = ses[s]
  PROVE  /\ x.todo \in Seq(Steps) /\ x.todo # <<>>
         /\ \/ Unshown(x) /\ n \notin {"pick", "updates"}
            \/ \E j \in 1..7 : /\ Shows(db, x, j) /\ EditName(j, n) /\ Edits(Tail(x.todo), x.req.e, j + 1)
                               /\ Event(s) = x.req.e
<1>1. PICK t, e : t = x.todo /\ e = x.req.e
  OBVIOUS
<1>2. t \in Seq(Steps) /\ t # <<>> /\ 1 \in DOMAIN t /\ t[1] = <<n, Event(s)>>
  BY <1>1, AtIs, HeadIs
<1>3. CASE Unshown(x)
  BY <1>1, <1>2, <1>3 DEF Unshown
<1>4. CASE ~Unshown(x)
  <2>1. PICK j \in 1..7 : Shows(db, x, j)
    BY <1>4, ShownInvIs DEF Showing
  <2>2. Edits(t, e, j)
    BY <1>1, <2>1 DEF Shows
  <2>3. Edits(Tail(t), e, j + 1) /\ t[1] = Editing(e)[j]
    BY <1>2, <2>2, EditsTail
  <2>4. j \in {1, 2, 3, 4, 5, 6, 7}
    OBVIOUS
  <2>5. EditName(j, n) /\ Event(s) = e
    BY <1>2, <2>3, <2>4, EditingIs DEF EditName
  <2> QED BY <1>1, <1>2, <2>1, <2>3, <2>5
<1> QED BY <1>3, <1>4

(* A step that shows nothing and finds nothing. *)
LEMMA ShownPlain ==
  ASSUME Sessions, ShownInv, AppendInv', NEW s \in Session, NEW n, At(s, n),
         n \notin {"statuses", "pick", "updates", "reread"}, Others(s), Kept(db, db'),
         ses'[s].todo = Tail(ses[s].todo), ses'[s].shown = ses[s].shown,
         n \in {"row", "components", "text"} =>
           /\ ses'[s].req = ses[s].req /\ ses'[s].version = ses[s].version /\ ses'[s].target = ses[s].target
  PROVE  ShownInv'
<1>1. PICK x, y, m : x = ses[s] /\ y = ses'[s] /\ m = seq'["IncidentStatus"]
  OBVIOUS
<1>2. /\ y.todo = Tail(x.todo) /\ y.shown = x.shown
      /\ n \in {"row", "components", "text"} => y.req = x.req /\ y.version = x.version /\ y.target = x.target
  BY <1>1
<1>3. Numbered(db', m)
  BY <1>1 DEF AppendInv
<1>4. /\ x.todo \in Seq(Steps) /\ x.todo # <<>>
      /\ \/ Unshown(x)
         \/ \E j \in 1..7 : Shows(db, x, j) /\ EditName(j, n) /\ Edits(Tail(x.todo), x.req.e, j + 1)
  BY <1>1, EditAt
<1>5. CASE Unshown(x)
  <2>1. PICK t : t = x.todo
    OBVIOUS
  <2>2. Quiet(Tail(t))
    BY <1>4, <1>5, <2>1, UnshownIs, QuietTail
  <2>3. Unshown(y)
    BY <1>2, <1>5, <2>1, <2>2, UnshownIs
  <2> QED BY <1>1, <2>3, ShownOne DEF Showing
<1>6. CASE ~Unshown(x)
  <2>1. PICK j \in 1..7 : Shows(db, x, j) /\ EditName(j, n) /\ Edits(Tail(x.todo), x.req.e, j + 1)
    BY <1>4, <1>6
  <2>2. j \in {1, 2, 6} /\ n \in {"row", "components", "text"}
    BY <2>1 DEF EditName
  <2>3. PICK e, i, k : e = x.req.e /\ i = x.shown /\ k = x.version
    OBVIOUS
  <2>4. Placed(db, e, i, k) => Placed(db', e, i, k)
    BY <1>3, KeptPlaced
  <2>5. Shifted(db, e, i) => Shifted(db', e, i)
    BY KeptShifted
  <2>6. y.req = x.req /\ y.version = x.version /\ y.target = x.target /\ Edits(y.todo, y.req.e, j + 1)
    BY <1>2, <2>1, <2>2
  <2>7. CASE j = 1 \/ j = 2
    <3>1. x.shown = 0 /\ x.target = 0
      BY <2>1, <2>7 DEF Shows
    <3>2. Shows(db', y, j + 1)
      BY <1>2, <2>6, <2>7, <3>1 DEF Shows
    <3>3. j + 1 \in 1..7
      BY <2>7
    <3> QED BY <1>1, <3>2, <3>3, ShownOne DEF Showing
  <2>8. CASE j = 6
    <3>1. Placed(db, e, i, k) /\ (x.target = x.shown \/ Shifted(db, e, i))
      BY <2>1, <2>3, <2>8 DEF Shows
    <3>2. Placed(db', y.req.e, y.shown, y.version) /\ (y.target = y.shown \/ Shifted(db', y.req.e, y.shown))
      BY <1>2, <2>3, <2>4, <2>5, <2>6, <3>1
    <3>3. Shows(db', y, 7)
      BY <2>6, <2>8, <3>2 DEF Shows
    <3> QED BY <1>1, <3>3, ShownOne DEF Showing
  <2> QED BY <2>2, <2>7, <2>8
<1> QED BY <1>5, <1>6

(* A read of another handler. *)
LEMMA ShownUnshown ==
  ASSUME Sessions, ShownInv, AppendInv', NEW s \in Session, NEW n, At(s, n), Unshown(ses[s]), Others(s), db' = db,
         ses'[s].todo = Tail(ses[s].todo), ses'[s].shown = ses[s].shown
  PROVE  ShownInv'
<1>1. PICK x, y, t : x = ses[s] /\ y = ses'[s] /\ t = ses[s].todo
  OBVIOUS
<1>2. t \in Seq(Steps) /\ t # <<>> /\ Quiet(t) /\ x.shown = 0
  BY <1>1, AtIs, UnshownIs
<1>3. Quiet(Tail(t))
  BY <1>2, QuietTail
<1>4. Unshown(y)
  BY <1>1, <1>2, <1>3, UnshownIs
<1>5. Kept(db, db')
  BY KeptSame
<1> QED BY <1>1, <1>4, <1>5, ShownOne DEF Showing

(* The statement that reads the updates puts them in place, ... *)
LEMMA ShownReadStatuses ==
  ASSUME Sessions, AppendInv, AppendInv', ExplainInv, ShownInv, NEW s \in Session, ReadStatuses(s)
  PROVE  ShownInv'
<1>1. PICK x, y, e, v, z, m : /\ x = ses[s] /\ y = ses'[s] /\ e = Event(s) /\ v = View(s)
                              /\ z = StatusesByIncident(v, e) /\ m = seq["IncidentStatus"]
  OBVIOUS
<1>2. /\ At(s, "statuses") /\ Read(s) /\ y.copy = [x.copy EXCEPT ![e].statuses = z]
      /\ y.version = x.version /\ y.shown = x.shown /\ y.target = x.target
  BY <1>1, ReadStatusesIs
<1>3. Others(s) /\ db' = db /\ y.todo = Tail(x.todo) /\ y.req = x.req
  BY <1>1, <1>2 DEF Read, Same
<1>4. CASE Unshown(x)
  BY <1>1, <1>2, <1>3, <1>4, ShownUnshown
<1>5. CASE ~Unshown(x)
  <2>1. PICK j \in 1..7 : Shows(db, x, j) /\ EditName(j, "statuses") /\ Edits(Tail(x.todo), x.req.e, j + 1)
                          /\ e = x.req.e
    BY <1>1, <1>2, <1>5, EditAt
  <2>2. j = 3
    BY <2>1 DEF EditName
  <2>3. x.shown = 0 /\ x.target = 0 /\ Edits(y.todo, e, 4)
    BY <1>3, <2>1, <2>2 DEF Shows
  <2>4. y.copy[e].statuses = z
    <3>1. Told(db, x)
      BY <1>1, ExplainInvIs
    <3>2. PICK c, d : c = x.copy /\ d = y.copy
      OBVIOUS
    <3>3. e \in DOMAIN c /\ (\A g \in DOMAIN c : DOMAIN c[g] = DOMAIN Copy)
      BY <1>1, <1>2, <3>1, <3>2, CopyOf DEF Told
    <3>4. "statuses" \in DOMAIN c[e]
      BY <3>3 DEF Copy
    <3> QED BY <1>2, <3>2, <3>3, <3>4
  <2>5. DOMAIN v = DOMAIN db /\ \A k \in DOMAIN db : v[k] = db[k]
    <3>1. DOMAIN ses[s].w = {}
      BY <1>2, AtIs DEF OutsideTx
    <3> QED BY <1>1, <3>1, ViewOutside
  <2>6. StatusRows(v) = StatusRows(db) /\ \A k \in StatusRows(db) : v[k] = db[k]
    BY <2>5 DEF StatusRows
  <2>7. m \in Nat /\ Numbered(db, m) /\ Numbered(v, m)
    BY <1>1, <2>6, AppendInvIs DEF Numbered
  <2>8. HasStatus(v)
    <3>1. Recorded(db)
      BY ExplainInvIs
    <3> QED BY <2>6, <3>1 DEF Recorded, HasStatus
  <2>9. PICK c : c = y.copy[e]
    OBVIOUS
  <2>10. c.statuses = StatusesByIncident(v, e)
    BY <1>1, <2>4, <2>9
  <2>11. Lists(v, e, c)
    BY <2>7, <2>8, <2>10, ListsRead
  <2>12. Kept(v, db)
    BY <2>5, KeptSame
  <2>13. Lists(db, e, c)
    BY <2>7, <2>11, <2>12, KeptLists
  <2>14. Shows(db, y, 4)
    BY <1>2, <1>3, <2>1, <2>3, <2>9, <2>13 DEF Shows
  <2>15. Kept(db, db')
    BY <1>3, KeptSame
  <2>16. Showing(db', ses'[s])
    BY <1>1, <1>3, <2>14 DEF Showing
  <2> QED BY <1>3, <2>15, <2>16, ShownOne
<1> QED BY <1>4, <1>5

(* ... the client picks one of them, ... *)
LEMMA ShownPick ==
  ASSUME Sessions, AppendInv', ShownInv, NEW s \in Session, PickUpdate(s)
  PROVE  ShownInv'
<1>1. PICK x, y, e, c, updates :
        /\ x = ses[s] /\ y = ses'[s] /\ e = Event(s) /\ c = ses[s].copy[Event(s)]
        /\ updates = ToAPIEvent(c.row, c.statuses, c.comps, TRUE).updates
  OBVIOUS
<1>2. At(s, "pick") /\ Read(s) /\ y.copy = x.copy /\ y.target = x.target
  BY <1>1, PickUpdateIs
<1>3. PICK n \in DOMAIN updates : y.version = n /\ y.shown = updates[n].row
  BY <1>1, PickUpdateIs
<1>4. Others(s) /\ db' = db /\ y.todo = Tail(x.todo) /\ y.req = x.req
  BY <1>1, <1>2 DEF Read, Same
<1>5. PICK j \in 1..7 : Shows(db, x, j) /\ EditName(j, "pick") /\ Edits(Tail(x.todo), x.req.e, j + 1) /\ e = x.req.e
  BY <1>1, <1>2, EditAt
<1>6. j = 4
  BY <1>5 DEF EditName
<1>7. x.target = 0 /\ Edits(y.todo, e, 5) /\ Lists(db, e, c)
  BY <1>1, <1>4, <1>5, <1>6 DEF Shows
<1>8. Placed(db, e, y.shown, y.version)
  BY <1>1, <1>3, <1>7 DEF Lists
<1>9. Shows(db, y, 5)
  BY <1>2, <1>4, <1>5, <1>7, <1>8 DEF Shows
<1>10. Kept(db, db')
  BY <1>4, KeptSame
<1>11. Showing(db', ses'[s])
  BY <1>1, <1>4, <1>9 DEF Showing
<1> QED BY <1>4, <1>10, <1>11, ShownOne

(* The position of an update in place finds it. *)
LEMMA PlacedFound ==
  ASSUME NEW m \in Nat, NEW v, Numbered(v, m), NEW e, NEW i, NEW n, Placed(v, e, i, n), ~Shifted(v, e, i),
         ~(n > Len(StatusIds(v, e)))
  PROVE  StatusIds(v, e)[n] = i
<1>1. PICK ids, list : ids = UpdateIds(v, e) /\ list = Ascending(ids)
  OBVIOUS
<1>2. StatusIds(v, e) = list
  BY <1>1 DEF StatusIds
<1>3. ids \in SUBSET (1..m)
  BY <1>1, UpdateIdsIs
<1>4. InOrder(ids, list) /\ Len(list) = Cardinality(ids)
  BY <1>1, <1>3, AscendingIs
<1>5. i \in ids /\ n \in Nat \ {0} /\ Cardinality(Below(ids, i)) = n - 1
  BY <1>1, PlacedIs
<1>6. n \in DOMAIN list
  BY <1>2, <1>4, <1>5 DEF InOrder
<1>7. PICK k : k = list[n]
  OBVIOUS
<1>8. k \in ids /\ Cardinality(Below(ids, k)) = n - 1
  BY <1>4, <1>6, <1>7 DEF InOrder
<1>9. i = k
  BY <1>3, <1>5, <1>8, BelowOne
<1> QED BY <1>2, <1>7, <1>9

(* ... and its position is looked up in what is stored by then. *)
LEMMA ShownFind ==
  ASSUME Sessions, AppendInv, AppendInv', ShownInv, NEW s \in Session, FindUpdate(s)
  PROVE  ShownInv'
<1>1. CASE Answered(s) /\ Same
  BY <1>1, ShownAnswered DEF Same
<1>2. CASE ~(Answered(s) /\ Same)
  <2>1. PICK x, y, e, v, m : /\ x = ses[s] /\ y = ses'[s] /\ e = Event(s) /\ v = View(s)
                             /\ m = seq["IncidentStatus"]
    OBVIOUS
  <2>2. /\ At(s, "updates") /\ Read(s) /\ y.copy = x.copy /\ y.version = x.version /\ y.shown = x.shown
        /\ ~(x.version > Len(StatusIds(v, e))) /\ y.target = StatusIds(v, e)[x.version]
    BY <1>2, <2>1, FindUpdateIs
  <2>3. Others(s) /\ db' = db /\ y.todo = Tail(x.todo) /\ y.req = x.req
    BY <2>1, <2>2 DEF Read, Same
  <2>4. PICK j \in 1..7 : Shows(db, x, j) /\ EditName(j, "updates") /\ Edits(Tail(x.todo), x.req.e, j + 1)
                          /\ e = x.req.e
    BY <2>1, <2>2, EditAt
  <2>5. j = 5
    BY <2>4 DEF EditName
  <2>6. PICK i, n : i = x.shown /\ n = x.version
    OBVIOUS
  <2>7. Edits(y.todo, e, 6) /\ Placed(db, e, i, n)
    BY <2>3, <2>4, <2>5, <2>6 DEF Shows
  <2>8. DOMAIN v = DOMAIN db /\ \A k \in DOMAIN db : v[k] = db[k]
    <3>1. DOMAIN ses[s].w = {}
      BY <2>2, AtIs DEF OutsideTx
    <3> QED BY <2>1, <3>1, ViewOutside
  <2>9. m \in Nat /\ Numbered(db, m) /\ Numbered(v, m)
    BY <2>1, <2>8, AppendInvIs DEF Numbered, StatusRows
  <2>10. Kept(db, v) /\ Kept(v, db)
    BY <2>8, KeptSame
  <2>11. Placed(v, e, i, n)
    BY <2>7, <2>9, <2>10, KeptPlaced
  <2>12. Shifted(v, e, i) => Shifted(db, e, i)
    BY <2>10, KeptShifted
  <2>13. ~(n > Len(StatusIds(v, e))) /\ y.target = StatusIds(v, e)[n]
    BY <2>2, <2>6
  <2>14. y.target = i \/ Shifted(db, e, i)
    BY <2>9, <2>11, <2>12, <2>13, PlacedFound
  <2>15. Shows(db, y, 6)
    BY <2>2, <2>3, <2>4, <2>6, <2>7, <2>14 DEF Shows
  <2>16. Kept(db, db')
    BY <2>3, KeptSame
  <2>17. Showing(db', ses'[s])
    BY <2>1, <2>3, <2>15 DEF Showing
  <2> QED BY <2>3, <2>16, <2>17, ShownOne
<1> QED BY <1>1, <1>2

(* What a handler does for an event otherwise shows no position. *)
LEMMA QuietPatch ==
  ASSUME NEW e
  PROVE  Quiet(Patching(e)) /\ Quiet(Reopening(e))
<1>1. PICK t : t = Patching(e)
  OBVIOUS
<1>2. /\ DOMAIN t = 1..7 /\ t[1][1] = "modify" /\ t[2][1] = "insert" /\ t[3][1] = "commit" /\ t[4][1] = "row"
      /\ t[5][1] = "components" /\ t[6][1] = "statuses" /\ t[7][1] = "answer"
  BY <1>1 DEF Patching
<1>3. Quiet(t)
  BY <1>2 DEF Quiet
<1>4. PICK u : u = Reopening(e)
  OBVIOUS
<1>5. /\ DOMAIN u = 1..8 /\ u[1][1] = "modify" /\ u[2][1] = "insert" /\ u[3][1] = "commit" /\ u[4][1] = "reopen"
      /\ u[5][1] = "row" /\ u[6][1] = "components" /\ u[7][1] = "statuses" /\ u[8][1] = "answer"
  BY <1>4 DEF Reopening
<1>6. Quiet(u)
  BY <1>5 DEF Quiet
<1> QED BY <1>1, <1>3, <1>4, <1>6

LEMMA QuietMove ==
  ASSUME NEW e, NEW f
  PROVE  Quiet(Moving(e, f)) /\ Quiet(MovingAway(e, f))
<1>1. PICK t : t = Moving(e, f)
  OBVIOUS
<1>2. /\ DOMAIN t = 1..8 /\ t[1][1] = "save" /\ t[2][1] = "link" /\ t[3][1] = "insert" /\ t[4][1] = "save"
      /\ t[5][1] = "link" /\ t[6][1] = "insert" /\ t[7][1] = "commit" /\ t[8][1] = "done"
  BY <1>1 DEF Moving
<1>3. Quiet(t)
  BY <1>2 DEF Quiet
<1>4. PICK u : u = MovingAway(e, f)
  OBVIOUS
<1>5. /\ DOMAIN u = 1..9 /\ u[1][1] = "unlink" /\ u[2][1] = "save" /\ u[3][1] = "link" /\ u[4][1] = "insert"
      /\ u[5][1] = "save" /\ u[6][1] = "link" /\ u[7][1] = "insert" /\ u[8][1] = "commit"
      /\ u[9][1] = "done"
  BY <1>4 DEF MovingAway
<1>6. Quiet(u)
  BY <1>5 DEF Quiet
<1> QED BY <1>1, <1>3, <1>4, <1>6

LEMMA QuietProgram ==
  ASSUME NEW q \in Request
  PROVE  Quiet(Program(q)) \/ Edits(Program(q), q.e, 1)
<1>1. PICK t, e, f : t = Program(q) /\ e = q.e /\ f = q.f
  OBVIOUS
<1>2. CASE t = Getting(e)
  <2>1. /\ DOMAIN t = 1..4 /\ t[1][1] = "row" /\ t[2][1] = "components" /\ t[3][1] = "statuses"
        /\ t[4][1] = "answer"
    BY <1>2 DEF Getting
  <2> QED BY <1>1, <2>1 DEF Quiet
<1>3. CASE t = Checking(e)
  <2>1. /\ DOMAIN t = 1..4 /\ t[1][1] = "row" /\ t[2][1] = "components" /\ t[3][1] = "statuses"
        /\ t[4][1] = "decide"
    BY <1>3 DEF Checking
  <2> QED BY <1>1, <2>1 DEF Quiet
<1>4. CASE t = Editing(e)
  <2>1. Len(t) = 7
    BY <1>4, EditingIs
  <2>2. \A i \in 1..(8 - 1) : i + 1 - 1 = i
    OBVIOUS
  <2>3. Edits(t, e, 1)
    BY <1>4, <2>1, <2>2 DEF Edits
  <2> QED BY <1>1, <2>3
<1>5. CASE t = Preparing(e, f)
  <2>1. /\ DOMAIN t = 1..7 /\ t[1][1] = "row" /\ t[2][1] = "components" /\ t[3][1] = "statuses" /\ t[4][1] = "row"
        /\ t[5][1] = "components" /\ t[6][1] = "statuses" /\ t[7][1] = "prepare"
    BY <1>5 DEF Preparing
  <2> QED BY <1>1, <2>1 DEF Quiet
<1>6. CASE t = Registering
  <2>1. /\ DOMAIN t = 1..7 /\ t[1][1] = "exists" /\ t[2][1] = "component" /\ t[3][1] = "attribute"
        /\ t[4][1] = "attribute" /\ t[5][1] = "attribute" /\ t[6][1] = "commit" /\ t[7][1] = "done"
    BY <1>6 DEF Registering
  <2> QED BY <1>1, <2>1 DEF Quiet
<1>7. CASE t = Extracting(e)
  <2>1. /\ DOMAIN t = 1..4 /\ t[1][1] = "row" /\ t[2][1] = "components" /\ t[3][1] = "statuses"
        /\ t[4][1] = "extract"
    BY <1>7 DEF Extracting
  <2> QED BY <1>1, <2>1 DEF Quiet
<1> QED BY <1>1, <1>2, <1>3, <1>4, <1>5, <1>6, <1>7, ProgramIs

LEMMA ShownBegin ==
  ASSUME Sessions, ShownInv, AppendInv', NEW s \in Session, NEW q \in Request, Begin(s, q)
  PROVE  ShownInv'
<1>1. PICK y : y = ses'[s]
  OBVIOUS
<1>2. Others(s) /\ db' = db /\ y.todo = Program(q) /\ y.req = q /\ y.shown = 0 /\ y.target = 0
  BY <1>1, BeginIs DEF Same
<1>3. Quiet(y.todo) \/ Edits(y.todo, y.req.e, 1)
  BY <1>2, QuietProgram
<1>4. Edits(y.todo, y.req.e, 1) => Shows(db', y, 1)
  BY <1>2 DEF Shows
<1>5. Quiet(y.todo) => Unshown(y)
  BY <1>2, UnshownIs
<1>6. Showing(db', y)
  BY <1>3, <1>4, <1>5 DEF Showing
<1>7. Kept(db, db')
  BY <1>2, KeptSame
<1> QED BY <1>1, <1>2, <1>6, <1>7, ShownOne

(* A handler that goes on with steps of another kind. *)
LEMMA ShownOther ==
  ASSUME Sessions, ShownInv, AppendInv', NEW s \in Session, NEW n \in {"decide", "prepare", "extract"}, At(s, n),
         Others(s), Kept(db, db'), Quiet(ses'[s].todo), ses'[s].shown = ses[s].shown
  PROVE  ShownInv'
<1>1. PICK x, y : x = ses[s] /\ y = ses'[s]
  OBVIOUS
<1>2. Unshown(x)
  <2>1. Unshown(x) \/ \E j \in 1..7 : EditName(j, n)
    BY <1>1, EditAt
  <2>2. ASSUME NEW j \in 1..7, EditName(j, n) PROVE FALSE
    BY <2>2 DEF EditName
  <2> QED BY <2>1, <2>2
<1>3. Unshown(y)
  BY <1>1, <1>2, UnshownIs
<1> QED BY <1>1, <1>3, ShownOne DEF Showing

LEMMA ShownRead ==
  ASSUME Sessions, ShownInv, AppendInv', NEW s \in Session, NEW n, At(s, n),
         n \notin {"statuses", "pick", "updates", "reread"}, Read(s), ses'[s].version = ses[s].version,
         ses'[s].shown = ses[s].shown, ses'[s].target = ses[s].target
  PROVE  ShownInv'
<1>1. Others(s) /\ db' = db /\ ses'[s].todo = Tail(ses[s].todo) /\ ses'[s].req = ses[s].req
  BY DEF Read, Same
<1>2. Kept(db, db')
  BY <1>1, KeptSame
<1> QED BY <1>1, <1>2, ShownPlain

LEMMA ShownWrote ==
  ASSUME Sessions, ShownInv, AppendInv', NEW s \in Session, NEW n \in InsideTx, At(s, n), NEW rows, Wrote(s, rows),
         ses'[s].shown = ses[s].shown
  PROVE  ShownInv'
<1>1. Others(s) /\ db' = db /\ ses'[s].todo = Tail(ses[s].todo)
  BY DEF Wrote
<1>2. Kept(db, db')
  BY <1>1, KeptSame
<1>3. n \notin {"statuses", "pick", "updates", "reread", "row", "components", "text"}
  BY DEF InsideTx
<1> QED BY <1>1, <1>2, <1>3, ShownPlain

LEMMA StepShows ==
  ASSUME Sessions, AppendInv, AppendInv', ExplainInv, ShownInv, NEW s \in Session, Step(s)
  PROVE  ShownInv'
<1>1. CASE ReadRow(s)
  BY <1>1, ReadRowIs, ShownRead, ShownAnswered DEF Same
<1>2. CASE ReadComponents(s)
  BY <1>2, ReadComponentsIs, ShownRead
<1>3. CASE ReadStatuses(s)
  BY <1>3, ShownReadStatuses
<1>4. CASE Answer(s)
  BY <1>4, AnswerIs, ShownAnswered DEF Same
<1>5. CASE Decide(s)
  <2>1. CASE Answered(s) /\ Same
    BY <2>1, ShownAnswered DEF Same
  <2>2. CASE ~(Answered(s) /\ Same)
    <3>1. PICK e, st : e = Event(s) /\ st = ses[s].req.status
      OBVIOUS
    <3>2. At(s, "decide") /\ Same /\ Others(s) /\ ses'[s].todo = PatchSteps(e, st) /\ ses'[s].shown = ses[s].shown
      BY <1>5, <2>2, <3>1, DecideIs
    <3>3. Quiet(PatchSteps(e, st))
      BY PatchStepsIs, QuietPatch
    <3> QED BY <3>2, <3>3, ShownOther, KeptSame DEF Same
  <2> QED BY <2>1, <2>2
<1>6. CASE ModifyIncident(s)
  <2>1. CASE Answered(s) /\ Same
    BY <2>1, ShownAnswered DEF Same
  <2>2. CASE ~(Answered(s) /\ Same)
    <3>1. PICK rows : At(s, "modify") /\ Wrote(s, rows) /\ ses'[s].shown = ses[s].shown
      BY <1>6, <2>2, ModifyIncidentIs
    <3>2. "modify" \in InsideTx
      BY DEF InsideTx
    <3> QED BY <3>1, <3>2, ShownWrote
  <2> QED BY <2>1, <2>2
<1>7. CASE InsertStatuses(s)
  <2>1. PICK rows : At(s, "insert") /\ Wrote(s, rows) /\ ses'[s].shown = ses[s].shown
    BY <1>7, InsertStatusesIs
  <2>2. "insert" \in InsideTx
    BY DEF InsideTx
  <2> QED BY <2>1, <2>2, ShownWrote
<1>8. CASE Commit(s)
  <2>1. At(s, "commit") /\ Others(s) /\ ses'[s].todo = Tail(ses[s].todo) /\ ses'[s].shown = ses[s].shown
    BY <1>8, CommitIs
  <2>2. Kept(db, db')
    BY <1>8, KeptCommit
  <2> QED BY <2>1, <2>2, ShownPlain
<1>9. CASE ReOpenIncident(s)
  <2>1. At(s, "reopen") /\ Others(s) /\ ses'[s].todo = Tail(ses[s].todo) /\ ses'[s].shown = ses[s].shown
    BY <1>9, ReOpenIncidentIs DEF Stored1
  <2>2. Kept(db, db')
    BY <1>9, KeptReopen
  <2> QED BY <2>1, <2>2, ShownPlain
<1>10. CASE PickUpdate(s)
  BY <1>10, ShownPick
<1>11. CASE FindUpdate(s)
  BY <1>11, ShownFind
<1>12. CASE ModifyEventUpdate(s)
  <2>1. CASE Answered(s) /\ Same
    BY <2>1, ShownAnswered DEF Same
  <2>2. CASE ~(Answered(s) /\ Same)
    <3>1. /\ At(s, "text") /\ Others(s) /\ ses'[s].todo = Tail(ses[s].todo) /\ ses'[s].shown = ses[s].shown
          /\ ses'[s].req = ses[s].req /\ ses'[s].version = ses[s].version /\ ses'[s].target = ses[s].target
      BY <1>12, <2>2, ModifyEventUpdateIs DEF Stored1
    <3>2. Kept(db, db')
      BY <1>12, <2>2, KeptEdit
    <3> QED BY <3>1, <3>2, ShownPlain
  <2> QED BY <2>1, <2>2
<1>13. CASE ReadUpdate(s)
  BY <1>13, ReadUpdateIs, ShownAnswered DEF Same
<1>14. CASE MoveComponent(s)
  <2>1. CASE Answered(s) /\ Same
    BY <2>1, ShownAnswered DEF Same
  <2>2. CASE ~(Answered(s) /\ Same)
    <3>1. PICK q, e, f : q = ses[s].req /\ e = q.e /\ f = q.f
      OBVIOUS
    <3>2. At(s, "prepare") /\ Same /\ Others(s) /\ ses'[s].todo = MoveSteps(q) /\ ses'[s].shown = ses[s].shown
      BY <1>14, <2>2, <3>1, MoveComponentIs
    <3>3. Quiet(Moving(e, f)) /\ Quiet(MovingAway(e, f))
      BY QuietMove
    <3>4. Quiet(MoveSteps(q))
      BY <3>1, <3>3, MoveStepsIs
    <3> QED BY <3>2, <3>4, ShownOther, KeptSame DEF Same
  <2> QED BY <2>1, <2>2
<1>24. CASE ExtractComponents(s)
  <2>1. At(s, "extract") /\ ((Answered(s) /\ Same) \/ Extracted(s))
    BY <1>24, ExtractComponentsIs
  <2>2. CASE Answered(s) /\ Same
    BY <2>2, ShownAnswered DEF Same
  <2>3. CASE Extracted(s)
    <3>1. PICK q, e, f : q = ses[s].req /\ e = q.e /\ f = q.f
      OBVIOUS
    <3>2. Others(s) /\ ses'[s].todo = MoveSteps(q) /\ ses'[s].shown = ses[s].shown
      BY <2>3, <3>1 DEF Extracted
    <3>3. Quiet(Moving(e, f)) /\ Quiet(MovingAway(e, f))
      BY QuietMove
    <3>4. Quiet(MoveSteps(q))
      BY <3>1, <3>3, MoveStepsIs
    <3>5. Kept(db, db')
      BY <2>3, KeptExtract
    <3> QED BY <2>1, <3>2, <3>4, <3>5, ShownOther
  <2> QED BY <2>1, <2>2, <2>3
<1>15. CASE RemoveIncidentComponent(s)
  <2>1. PICK rows : Wrote(s, rows)
    BY <1>15, RemoveIncidentComponentIs
  <2>2. At(s, "unlink") /\ ses'[s].shown = ses[s].shown /\ "unlink" \in InsideTx
    BY <1>15, RemoveIncidentComponentIs DEF InsideTx
  <2> QED BY <2>1, <2>2, ShownWrote
<1>16. CASE SaveIncidentFull(s)
  <2>1. CASE Answered(s) /\ Same
    BY <2>1, ShownAnswered DEF Same
  <2>2. CASE ~(Answered(s) /\ Same)
    <3>1. PICK rows : At(s, "save") /\ Wrote(s, rows) /\ ses'[s].shown = ses[s].shown
      BY <1>16, <2>2, SaveIncidentFullIs
    <3>2. "save" \in InsideTx
      BY DEF InsideTx
    <3> QED BY <3>1, <3>2, ShownWrote
  <2> QED BY <2>1, <2>2
<1>17. CASE ReconcileIncidentComponents(s)
  <2>1. PICK rows : At(s, "link") /\ Wrote(s, rows) /\ ses'[s].shown = ses[s].shown
    BY <1>17, ReconcileIs
  <2>2. "link" \in InsideTx
    BY DEF InsideTx
  <2> QED BY <2>1, <2>2, ShownWrote
<1>18. CASE Done(s)
  BY <1>18, DoneIs, ShownAnswered DEF Same
<1>19. CASE ComponentExists(s)
  BY <1>19, ComponentExistsIs, ShownRead, ShownAnswered DEF Same
<1>20. CASE CreateComponent(s)
  <2>1. PICK rows : At(s, "component") /\ Wrote(s, rows) /\ ses'[s].shown = ses[s].shown
    BY <1>20, CreateComponentIs
  <2>2. "component" \in InsideTx
    BY DEF InsideTx
  <2> QED BY <2>1, <2>2, ShownWrote
<1>21. CASE CreateAttribute(s)
  <2>1. PICK rows : At(s, "attribute") /\ Wrote(s, rows) /\ ses'[s].shown = ses[s].shown
    BY <1>21, CreateAttributeIs
  <2>2. "attribute" \in InsideTx
    BY DEF InsideTx
  <2> QED BY <2>1, <2>2, ShownWrote
<1>22. CASE Close(s)
  BY <1>22, CloseIs, ShownAnswered DEF Same
<1>23. CASE Abort(s)
  BY <1>23, AbortIs, ShownAnswered DEF Same
<1> QED BY <1>1, <1>2, <1>3, <1>4, <1>5, <1>6, <1>7, <1>8, <1>9, <1>10, <1>11, <1>12, <1>13, <1>14, <1>15,
           <1>16, <1>17, <1>18, <1>19, <1>20, <1>21, <1>22, <1>23, <1>24 DEF Step

LEMMA ShownKept ==
  ASSUME Sessions, AppendInv, AppendInv', ExplainInv, ShownInv, [Next]_vars
  PROVE  ShownInv'
<1>1. ASSUME NEW s \in Session, NEW q \in Request, Begin(s, q) PROVE ShownInv'
  BY <1>1, ShownBegin
<1>2. ASSUME NEW s \in Session, Fail(s) PROVE ShownInv'
  <2>1. Answered(s) /\ db' = db
    BY <1>2, FailIs
  <2> QED BY <2>1, ShownAnswered
<1>3. CASE UNCHANGED vars \/ Exhausted
  <2>1. ses' = ses /\ db' = db
    BY <1>3 DEF vars, Exhausted
  <2> QED BY <2>1, ShownInvIs
<1> QED BY <1>1, <1>2, <1>3, StepShows DEF Next

LEMMA ShownInit == Init => ShownInv
<1> SUFFICES ASSUME Init PROVE ShownInv
  OBVIOUS
<1>1. ASSUME NEW s \in Session PROVE Showing(db, ses[s])
  <2>1. PICK x : x = ses[s]
    OBVIOUS
  <2>2. x.todo = <<>> /\ x.shown = 0
    BY <2>1, IdleFields DEF Init
  <2>3. DOMAIN <<>> = {}
    OBVIOUS
  <2>4. Unshown(x)
    BY <2>2, <2>3 DEF Unshown
  <2> QED BY <2>1, <2>4 DEF Showing
<1> QED BY <1>1, ShownInvIs

(* The update a client was shown at a position stays there, whatever is     *)
(* committed meanwhile: histories grow at their end, and no row of them     *)
(* changes its event or its status.                                         *)
THEOREM ShownSound == Spec => []ShownInv
BY ShownInit, ShownKept, SessionsSound, AppendsSound, ExplainsSound, PTL DEF Spec

(* PatchedAsShown: PATCH updates/:n changes the update its client was shown at *)
(* position n, unless a row "description" before it shifts the positions.      *)
THEOREM PatchesTheShown == Spec => []PatchedAsShown
<1>1. AppendInv /\ ShownInv => PatchedAsShown
  <2> SUFFICES ASSUME AppendInv, ShownInv, NEW s \in Session, NEW x, x = ses[s],
                      x.target # 0 /\ x.shown # 0 /\ x.target # x.shown
               PROVE  \E i \in Ids(db, "IncidentStatus") :
                        /\ db[<<"IncidentStatus", i>>].incident_id = x.req.e
                        /\ db[<<"IncidentStatus", i>>].status = "description"
                        /\ i < x.shown
    BY DEF PatchedAsShown
  <2>1. PICK j \in 1..7 : Shows(db, x, j)
    BY ShownInvIs DEF Showing, Unshown
  <2>2. Shifted(db, x.req.e, x.shown)
    BY <2>1 DEF Shows
  <2>3. PICK k \in StatusRows(db) : db[k].incident_id = x.req.e /\ db[k].status = "description" /\ k[2] < x.shown
    BY <2>2 DEF Shifted
  <2>4. k = <<"IncidentStatus", k[2]>> /\ k \in DOMAIN db
    BY AppendInvIs DEF Numbered, StatusRows
  <2>5. k[2] \in Ids(db, "IncidentStatus")
    BY <2>4 DEF Ids
  <2> QED BY <2>3, <2>4, <2>5
<1> QED BY <1>1, AppendsSound, ShownSound, PTL

-----------------------------------------------------------------------------
(* The end of a reopened incident. *)

(* ReopenIncident leaves no end. *)
LEMMA ReopenedEnd ==
  ASSUME NEW stored, "end_date" \in DOMAIN stored, NEW z,
         z = UpdateRow("Incident", Build("Incident", <<Clear("end_date")>>), stored)
  PROVE  "end_date" \in DOMAIN z /\ z.end_date = Null
<1>1. PICK c, calls : c = Clear("end_date") /\ calls = <<c>>
  OBVIOUS
<1>2. DOMAIN calls = 1..1 /\ 1 \in 1..1 /\ calls[1] = c /\ \A k \in 1..1 : k = 1
  BY <1>1
<1>3. c.do = "Clear" /\ c.on = "end_date"
  BY <1>1 DEF Clear
<1>4. OneKind(calls, 1, "end_date", "Clear") /\ Called(calls, 1, "end_date")
  BY <1>2, <1>3 DEF OneKind, Called
<1>5. Clearable("Incident", "end_date")
  BY DEF Clearable, Schema, IncidentUpdateSpec
<1> QED BY <1>1, <1>4, <1>5, ClearColumn

(* ReopenInv of the database and of each session, now and after a step. *)
LEMMA ReopenInvIs ==
  /\ ReopenInv <=> Open(db, cut, ses) /\ \A s \in Session : Clears(ses[s], cut)
  /\ ReopenInv' <=> Open(db', cut', ses') /\ \A s \in Session : Clears(ses'[s], cut')
<1>1. ReopenInv <=> Open(db, cut, ses) /\ \A s \in Session : Clears(ses[s], cut)
  BY DEF ReopenInv, Open, Pends
<1>2. ReopenInv' <=> Open(db', cut', ses') /\ \A s \in Session : Clears(ses'[s], cut')
  BY DEF ReopenInv, Open, Pends
<1> QED BY <1>1, <1>2

(* The more events are cut, the less is to be cleared. *)
LEMMA ClearsMore ==
  ASSUME NEW x, NEW c, NEW d, c \subseteq d, Clears(x, c)
  PROVE  Clears(x, d)
<1>1. ASSUME NEW k \in Rows(x.w, "Incident")
      PROVE  "end_date" \in DOMAIN x.w[k] /\ (EndLeft(x.w[k]) => Reopens(x.todo, k[2]) \/ k[2] \in d)
  BY DEF Clears
<1>2. ASSUME NEW i \in DOMAIN x.todo PROVE Settles(x, i, d)
  <2>1. Settles(x, i, c)
    BY DEF Clears
  <2> QED BY <2>1 DEF Settles
<1> QED BY <1>1, <1>2 DEF Clears

(* A step of one session: the others still clear what they have to. *)
LEMMA ReopenOne ==
  ASSUME ReopenInv, NEW s \in Session, Others(s), cut \subseteq cut', Open(db', cut', ses'), Clears(ses'[s], cut')
  PROVE  ReopenInv'
<1>1. ASSUME NEW t \in Session PROVE Clears(ses'[t], cut')
  <2>1. CASE t = s
    BY <2>1
  <2>2. CASE t # s
    <3>1. ses'[t] = ses[t] /\ Clears(ses[t], cut)
      BY <2>2, ReopenInvIs DEF Others
    <3>2. PICK x : x = ses[t]
      OBVIOUS
    <3>3. Clears(x, cut')
      BY <3>1, <3>2, ClearsMore
    <3> QED BY <3>1, <3>2, <3>3
  <2> QED BY <2>1, <2>2
<1> QED BY <1>1, ReopenInvIs

(* What is pending stays so, unless it is done. *)
LEMMA PendsKept ==
  ASSUME NEW s \in Session, Others(s), cut \subseteq cut', NEW e, Pends(e, cut, ses),
         AtReopen(ses[s], e) => e \in cut'
  PROVE  Pends(e, cut', ses')
<1>1. CASE e \in cut
  BY <1>1 DEF Pends
<1>2. CASE e \notin cut
  <2>1. PICK t \in Session : AtReopen(ses[t], e)
    BY <1>2 DEF Pends
  <2>2. CASE t = s
    BY <2>1, <2>2 DEF Pends
  <2>3. CASE t # s
    <3>1. ses'[t] = ses[t]
      BY <2>3 DEF Others
    <3>2. PICK x : x = ses[t]
      OBVIOUS
    <3>3. AtReopen(ses'[t], e)
      BY <2>1, <3>1, <3>2
    <3> QED BY <3>3 DEF Pends
  <2> QED BY <2>2, <2>3
<1> QED BY <1>1, <1>2

(* An end left is still pending when the database has not changed. *)
LEMMA OpenKept ==
  ASSUME ReopenInv, NEW s \in Session, Others(s), cut \subseteq cut', db' = db,
         \A e : AtReopen(ses[s], e) => e \in cut'
  PROVE  Open(db', cut', ses')
<1>1. Open(db, cut, ses)
  BY ReopenInvIs
<1>2. ASSUME NEW k \in Rows(db, "Incident")
      PROVE  "end_date" \in DOMAIN db[k] /\ (EndLeft(db[k]) => Pends(k[2], cut', ses'))
  <2>1. "end_date" \in DOMAIN db[k] /\ (EndLeft(db[k]) => Pends(k[2], cut, ses))
    BY <1>1 DEF Open
  <2>2. PICK e : e = k[2]
    OBVIOUS
  <2>3. AtReopen(ses[s], e) => e \in cut'
    OBVIOUS
  <2>4. Pends(e, cut, ses) => Pends(e, cut', ses')
    BY <2>3, PendsKept
  <2> QED BY <2>1, <2>2, <2>4
<1> QED BY <1>2 DEF Open

(* A request that is answered without a write. *)
LEMMA ReopenAnswered ==
  ASSUME ReopenInv, NEW s \in Session, Answered(s), cut \subseteq cut', db' = db,
         \A e : AtReopen(ses[s], e) => e \in cut'
  PROVE  ReopenInv'
<1>1. PICK y : y = ses'[s]
  OBVIOUS
<1>2. Others(s) /\ y.todo = <<>> /\ DOMAIN y.w = {} /\ DOMAIN <<>> = {}
  BY <1>1 DEF Answered
<1>3. Clears(y, cut')
  BY <1>2 DEF Clears, Rows
<1>4. Open(db', cut', ses')
  BY <1>2, OpenKept
<1> QED BY <1>1, <1>2, <1>3, <1>4, ReopenOne

\* The step at the head is no reopening.
LEMMA NotReopening ==
  ASSUME Sessions, NEW s \in Session, NEW n, At(s, n), n # "reopen", NEW e
  PROVE  ~AtReopen(ses[s], e)
<1>1. ses[s].todo[1][1] = n
  BY AtIs
<1> QED BY <1>1 DEF AtReopen

(* A reopening that is not the next step remains. *)
LEMMA ReopensTail ==
  ASSUME NEW t \in Seq(Steps), t # <<>>, t[1][1] # "reopen", NEW e, Reopens(t, e)
  PROVE  Reopens(Tail(t), e)
<1>1. PICK i \in DOMAIN t : t[i] = <<"reopen", e>>
  BY DEF Reopens
<1>2. PICK u : u = Tail(t)
  OBVIOUS
<1>3. /\ DOMAIN u = 1..(Len(t) - 1) /\ Len(t) \in Nat \ {0} /\ DOMAIN t = 1..Len(t)
      /\ \A j \in DOMAIN u : u[j] = t[j + 1]
  BY <1>2, TailIs
<1>4. i # 1
  BY <1>1
<1>5. i - 1 \in DOMAIN u /\ (i - 1) + 1 = i
  BY <1>3, <1>4
<1>6. u[i - 1] = <<"reopen", e>>
  BY <1>1, <1>3, <1>5
<1> QED BY <1>2, <1>5, <1>6 DEF Reopens

(* What one session has to clear after a step of it. *)
LEMMA ClearsTail ==
  ASSUME NEW x, NEW y, NEW d, x.todo \in Seq(Steps), x.todo # <<>>, y.todo = Tail(x.todo), y.req = x.req, Clears(x, d),
         WritesKept(x, y), RowsWritten(x, y, d), x.todo[1][1] # "reopen" \/ DOMAIN y.w = {}
  PROVE  Clears(y, d)
<1>1. PICK t, u : t = x.todo /\ u = y.todo
  OBVIOUS
<1>2. /\ DOMAIN u = 1..(Len(t) - 1) /\ Len(t) \in Nat \ {0} /\ DOMAIN t = 1..Len(t)
      /\ \A j \in DOMAIN u : u[j] = t[j + 1]
  BY <1>1, TailIs
<1>3. ASSUME NEW k \in Rows(y.w, "Incident")
      PROVE  "end_date" \in DOMAIN y.w[k] /\ (EndLeft(y.w[k]) => Reopens(y.todo, k[2]) \/ k[2] \in d)
  <2>1. CASE k \in Rows(x.w, "Incident") /\ y.w[k] = x.w[k]
    <3>1. "end_date" \in DOMAIN x.w[k] /\ (EndLeft(x.w[k]) => Reopens(x.todo, k[2]) \/ k[2] \in d)
      BY <2>1 DEF Clears
    <3>2. PICK e, r : e = k[2] /\ r = x.w[k]
      OBVIOUS
    <3>3. t[1][1] # "reopen"
      BY <1>1 DEF Rows
    <3>4. Reopens(t, e) => Reopens(Tail(t), e)
      BY <1>1, <3>3, ReopensTail
    <3> QED BY <1>1, <2>1, <3>1, <3>2, <3>4
  <2>2. CASE ~(k \in Rows(x.w, "Incident") /\ y.w[k] = x.w[k])
    BY <2>2 DEF RowsWritten
  <2> QED BY <2>1, <2>2
<1>4. ASSUME NEW i \in DOMAIN u PROVE Settles(y, i, d)
  <2>1. i + 1 \in DOMAIN t /\ i + 1 # 1 /\ u[i] = t[i + 1]
    BY <1>2
  <2>2. Settles(x, i + 1, d)
    BY <1>1, <2>1 DEF Clears
  <2>3. PICK e : e = u[i][2]
    OBVIOUS
  <2>4. u[i][1] # "modify"
    BY <1>1, <2>1, <2>2 DEF Settles
  <2>5. u[i][1] = "save" => ~EndLeft(y.copy[e].row) \/ e \in d
    BY <1>1, <2>1, <2>2, <2>3 DEF Settles, WritesKept
  <2>6. u[i][1] = "decide" => y.req.status \notin {Null, ""}
    BY <1>1, <2>1, <2>2 DEF Settles
  <2> QED BY <1>1, <2>3, <2>4, <2>5, <2>6 DEF Settles
<1> QED BY <1>1, <1>3, <1>4 DEF Clears

(* Outside a transaction, and at its end, no save remains. *)
LEMMA NoSaves ==
  ASSUME Sessions, NEW s \in Session, NEW n, n \in OutsideTx \/ n = "commit", At(s, n)
  PROVE  \A i \in DOMAIN Tail(ses[s].todo) : Tail(ses[s].todo)[i][1] # "save"
<1>1. PICK t, u : t = ses[s].todo /\ u = Tail(t)
  OBVIOUS
<1>2. t \in Seq(Steps) /\ t # <<>> /\ t[1][1] = n /\ 1 \in DOMAIN t
  BY <1>1, AtIs
<1>3. /\ DOMAIN u = 1..(Len(t) - 1) /\ Len(t) \in Nat \ {0} /\ DOMAIN t = 1..Len(t)
      /\ \A j \in DOMAIN u : u[j] = t[j + 1]
  BY <1>1, <1>2, TailIs
<1>4. Shape(t)
  BY <1>1 DEF Sessions
<1>5. ASSUME NEW i \in DOMAIN u, u[i][1] = "save" PROVE FALSE
  <2>1. i + 1 \in DOMAIN t /\ t[i + 1][1] = "save" /\ i + 1 > 1
    BY <1>3, <1>5
  <2>2. t[i + 1][1] \in InsideTx
    BY <2>1 DEF InsideTx
  <2>3. PICK j \in DOMAIN t : i + 1 < j /\ t[j][1] = "commit"
    BY <1>4, <2>1, <2>2 DEF Shape
  <2>4. CASE n = "commit"
    <3>1. j = 1
      BY <1>2, <1>4, <2>3, <2>4 DEF Shape
    <3> QED BY <1>3, <2>1, <2>3, <3>1
  <2>5. CASE n \in OutsideTx
    <3>1. j < 1
      BY <1>2, <1>4, <2>3, <2>5 DEF Shape
    <3> QED BY <1>3, <3>1
  <2> QED BY <2>4, <2>5
<1> QED BY <1>1, <1>5

(* A step that leaves the rows alone. *)
LEMMA ClearsOn ==
  ASSUME Sessions, ReopenInv, NEW s \in Session, NEW n, At(s, n), n # "reopen", Others(s), db' = db, cut' = cut,
         ses'[s].todo = Tail(ses[s].todo), ses'[s].req = ses[s].req,
         WritesKept(ses[s], ses'[s]), RowsWritten(ses[s], ses'[s], cut)
  PROVE  ReopenInv'
<1>1. PICK x, y : x = ses[s] /\ y = ses'[s]
  OBVIOUS
<1>2. x.todo \in Seq(Steps) /\ x.todo # <<>> /\ x.todo[1][1] = n
  BY <1>1, AtIs
<1>3. Clears(x, cut)
  BY <1>1, ReopenInvIs
<1>4. Clears(y, cut)
  BY <1>1, <1>2, <1>3, ClearsTail
<1>5. \A e : ~AtReopen(ses[s], e)
  BY NotReopening
<1>6. Open(db', cut', ses')
  BY <1>5, OpenKept
<1> QED BY <1>1, <1>4, <1>6, ReopenOne

(* A step that only reads. *)
LEMMA ReopenRead ==
  ASSUME Sessions, ReopenInv, NEW s \in Session, NEW n, At(s, n), n # "reopen", n \in OutsideTx \/ n = "exists", Read(s),
         n = "exists" => ses'[s].copy = ses[s].copy
  PROVE  ReopenInv'
<1>1. PICK x, y : x = ses[s] /\ y = ses'[s]
  OBVIOUS
<1>2. /\ Others(s) /\ db' = db /\ cut' = cut /\ y.todo = Tail(x.todo) /\ y.req = x.req /\ y.w = x.w
  BY <1>1 DEF Read, Same
<1>3. RowsWritten(x, y, cut)
  BY <1>2 DEF RowsWritten
<1>4. WritesKept(x, y)
  <2>1. CASE n = "exists"
    BY <1>1, <2>1 DEF WritesKept
  <2>2. CASE n \in OutsideTx
    <3>1. \A i \in DOMAIN y.todo : y.todo[i][1] # "save"
      BY <1>1, <1>2, <2>2, NoSaves
    <3> QED BY <3>1 DEF WritesKept
  <2> QED BY <2>1, <2>2
<1> QED BY <1>1, <1>2, <1>3, <1>4, ClearsOn

(* The saves that remain use copies that exist. *)
LEMMA CopiesWritten ==
  ASSUME NEW x, NEW y, x.todo \in Seq(Steps), x.todo # <<>>, y.todo = Tail(x.todo), Copies(x),
         \A g \in DOMAIN x.copy : y.copy[g].row = x.copy[g].row
  PROVE  WritesKept(x, y)
<1>1. PICK t, u : t = x.todo /\ u = y.todo
  OBVIOUS
<1>2. /\ DOMAIN u = 1..(Len(t) - 1) /\ Len(t) \in Nat \ {0} /\ DOMAIN t = 1..Len(t)
      /\ \A j \in DOMAIN u : u[j] = t[j + 1]
  BY <1>1, TailIs
<1>3. ASSUME NEW i \in DOMAIN u, u[i][1] = "save" PROVE y.copy[u[i][2]].row = x.copy[u[i][2]].row
  <2>1. i + 1 \in DOMAIN t /\ u[i] = t[i + 1]
    BY <1>2
  <2>2. t[i + 1][2] \in DOMAIN x.copy
    BY <1>1, <1>3, <2>1 DEF Copies
  <2> QED BY <2>1, <2>2
<1> QED BY <1>1, <1>3 DEF WritesKept

(* A statement of a transaction that writes no incident. *)
LEMMA ReopenOtherRows ==
  ASSUME Sessions, ExplainInv, ReopenInv, NEW s \in Session, NEW n \in InsideTx, At(s, n), NEW rows, Wrote(s, rows),
         \A k \in DOMAIN rows : k[1] # "Incident",
         \A g \in DOMAIN ses[s].copy : ses'[s].copy[g].row = ses[s].copy[g].row
  PROVE  ReopenInv'
<1>1. PICK x, y, w, r : x = ses[s] /\ y = ses'[s] /\ w = x.w /\ r = y.w
  OBVIOUS
<1>2. /\ Others(s) /\ db' = db /\ cut' = cut /\ y.todo = Tail(x.todo) /\ y.req = x.req
      /\ r = Over(rows, w)
  BY <1>1 DEF Wrote
<1>3. /\ DOMAIN r = DOMAIN rows \cup DOMAIN w /\ \A k \in DOMAIN w \ DOMAIN rows : r[k] = w[k]
  BY <1>2 DEF Over
<1>4. \A k \in Rows(r, "Incident") : k \in Rows(w, "Incident") /\ r[k] = w[k]
  BY <1>3 DEF Rows
<1>5. RowsWritten(x, y, cut)
  BY <1>1, <1>4 DEF RowsWritten
<1>6. x.todo \in Seq(Steps) /\ x.todo # <<>>
  BY <1>1, AtIs
<1>7. Copies(x)
  BY <1>1, ExplainInvIs DEF Told
<1>8. \A g \in DOMAIN x.copy : y.copy[g].row = x.copy[g].row
  BY <1>1
<1>9. WritesKept(x, y)
  BY <1>2, <1>6, <1>7, <1>8, CopiesWritten
<1>10. n # "reopen"
  BY DEF InsideTx
<1> QED BY <1>1, <1>2, <1>5, <1>9, <1>10, ClearsOn

(* An inserted status leaves the copied rows. *)
LEMMA RowsOfInsert ==
  ASSUME NEW c, NEW d, NEW e \in DOMAIN c, \A g \in DOMAIN c : DOMAIN c[g] = DOMAIN Copy, d = [c EXCEPT ![e].new = <<>>]
  PROVE  \A g \in DOMAIN c : d[g].row = c[g].row
<1>1. DOMAIN c[e] = {"row", "comps", "statuses", "new"}
  BY DEF Copy
<1>2. d[e].row = c[e].row
  BY <1>1
<1>3. \A g \in DOMAIN c \ {e} : d[g] = c[g]
  OBVIOUS
<1> QED BY <1>2, <1>3

(* InsertStatuses writes no incident. *)
LEMMA ReopenInsert ==
  ASSUME Sessions, ExplainInv, ReopenInv, NEW s \in Session, InsertStatuses(s)
  PROVE  ReopenInv'
<1>0. PICK id, row : /\ id = seq["IncidentStatus"] + 1
                     /\ row = NewStatus(Event(s), Head(ses[s].copy[Event(s)].new))
  OBVIOUS
<1>a. PICK rows, x, c, d, e : /\ rows = Entry(<<"IncidentStatus", id>>, row) /\ e = Event(s)
                              /\ x = ses[s] /\ c = x.copy /\ d = ses'[s].copy
  OBVIOUS
<1>1. /\ rows = Entry(<<"IncidentStatus", id>>, row) /\ At(s, "insert") /\ Wrote(s, rows) /\ e = Event(s)
      /\ x = ses[s] /\ c = x.copy /\ d = ses'[s].copy /\ d = [c EXCEPT ![e].new = <<>>]
  BY <1>0, <1>a, InsertStatusesIs
<1>2. \A k \in DOMAIN rows : k[1] # "Incident"
  BY <1>1 DEF Entry
<1>3. Copies(x)
  BY <1>1, ExplainInvIs DEF Told
<1>4. e \in DOMAIN c /\ \A g \in DOMAIN c : DOMAIN c[g] = DOMAIN Copy
  BY <1>1, <1>3, CopyOf
<1>5. \A g \in DOMAIN c : d[g].row = c[g].row
  BY <1>1, <1>4, RowsOfInsert
<1>6. "insert" \in InsideTx
  BY DEF InsideTx
<1>7. \A g \in DOMAIN ses[s].copy : ses'[s].copy[g].row = ses[s].copy[g].row
  BY <1>1, <1>5
<1> QED BY <1>1, <1>2, <1>6, <1>7, ReopenOtherRows

(* RemoveIncidentComponent writes no incident. *)
LEMMA ReopenUnlink ==
  ASSUME Sessions, ExplainInv, ReopenInv, NEW s \in Session, RemoveIncidentComponent(s)
  PROVE  ReopenInv'
<1>1. PICK gone : Wrote(s, [k \in {Relation(Event(s), c) : c \in gone} |-> Gone])
  BY RemoveIncidentComponentIs
<1>2. PICK rows : rows = [k \in {Relation(Event(s), c) : c \in gone} |-> Gone]
  OBVIOUS
<1>3. PICK c, d, e, z : c = ses[s].copy /\ d = ses'[s].copy /\ e = Event(s) /\ z = c[e].comps \ {ses[s].req.c}
  OBVIOUS
<1>4. At(s, "unlink") /\ Wrote(s, rows) /\ d = [c EXCEPT ![e].comps = z]
  BY <1>1, <1>2, <1>3, RemoveIncidentComponentIs
<1>5. \A k \in DOMAIN rows : k[1] # "Incident"
  BY <1>2 DEF Relation
<1>6. PICK x : x = ses[s]
  OBVIOUS
<1>7. Copies(x)
  BY <1>6, ExplainInvIs DEF Told
<1>8. e \in DOMAIN c /\ \A g \in DOMAIN c : DOMAIN c[g] = DOMAIN Copy
  BY <1>3, <1>4, <1>6, <1>7, CopyOf
<1>9. Refreshed(c, d, e, "comps")
  BY <1>4, <1>8, RefreshedIs
<1>10. \A g \in DOMAIN c : d[g].row = c[g].row
  BY <1>9 DEF Refreshed
<1>11. "unlink" \in InsideTx
  BY DEF InsideTx
<1>12. \A g \in DOMAIN ses[s].copy : ses'[s].copy[g].row = ses[s].copy[g].row
  BY <1>3, <1>10
<1> QED BY <1>4, <1>5, <1>11, <1>12, ReopenOtherRows

(* The row an UPDATE finds has the column end_date. *)
LEMMA FoundEnd ==
  ASSUME ReopenInv, NEW s \in Session, NEW e, <<"Incident", e>> \in DOMAIN db, NEW z, z = View(s)[<<"Incident", e>>]
  PROVE  "end_date" \in DOMAIN z
<1>1. PICK x, w, k : x = ses[s] /\ w = ses[s].w /\ k = <<"Incident", e>>
  OBVIOUS
<1>2. Open(db, cut, ses) /\ Clears(x, cut)
  BY <1>1, ReopenInvIs
<1>3. k[1] = "Incident" /\ k[2] = e
  BY <1>1
<1>4. CASE k \in DOMAIN w
  <2>1. "end_date" \in DOMAIN w[k]
    BY <1>1, <1>2, <1>3, <1>4 DEF Clears, Rows
  <2>2. w[k] # Gone
    BY <2>1, GoneEmpty
  <2>3. z = w[k]
    BY <1>1, <1>4, <2>2 DEF View, Overlay
  <2> QED BY <2>1, <2>3
<1>5. CASE k \notin DOMAIN w
  <2>1. "end_date" \in DOMAIN db[k]
    BY <1>1, <1>2, <1>3 DEF Open, Rows
  <2>2. z = db[k]
    BY <1>1, <1>5 DEF View, Overlay
  <2> QED BY <2>1, <2>2
<1> QED BY <1>4, <1>5

(* An incident is written in a transaction. *)
LEMMA ReopenSaved ==
  ASSUME Sessions, ReopenInv, NEW s \in Session, NEW n \in {"modify", "save"}, At(s, n),
         NEW z, Wrote(s, Entry(<<"Incident", Event(s)>>, z)), WritesKept(ses[s], ses'[s]),
         "end_date" \in DOMAIN z, EndLeft(z) => Reopens(ses'[s].todo, Event(s)) \/ Event(s) \in cut
  PROVE  ReopenInv'
<1>1. PICK x, y, e, w, r, k : x = ses[s] /\ y = ses'[s] /\ e = Event(s) /\ w = x.w /\ r = y.w /\ k = <<"Incident", e>>
  OBVIOUS
<1>2. /\ y.todo = Tail(x.todo) /\ y.req = x.req /\ db' = db /\ cut' = cut /\ Others(s)
      /\ r = Over(Entry(k, z), w)
  BY <1>1 DEF Wrote
<1>3. DOMAIN r = {k} \cup DOMAIN w /\ r[k] = z /\ \A h \in DOMAIN w \ {k} : r[h] = w[h]
  BY <1>2 DEF Over, Entry
<1>4. k[1] = "Incident" /\ k[2] = e
  BY <1>1
<1>5. ASSUME NEW h \in Rows(r, "Incident")
      PROVE  \/ h \in Rows(w, "Incident") /\ r[h] = w[h]
             \/ "end_date" \in DOMAIN r[h] /\ (EndLeft(r[h]) => Reopens(y.todo, h[2]) \/ h[2] \in cut)
  <2>1. CASE h = k
    BY <1>1, <1>3, <1>4, <2>1
  <2>2. CASE h # k
    BY <1>3, <2>2 DEF Rows
  <2> QED BY <2>1, <2>2
<1>6. RowsWritten(x, y, cut)
  BY <1>1, <1>5 DEF RowsWritten
<1>7. n # "reopen"
  OBVIOUS
<1> QED BY <1>1, <1>2, <1>6, <1>7, ClearsOn

(* An update of a row keeps its columns. *)
LEMMA UpdatedDomain ==
  ASSUME NEW e, NEW m, NEW row, NEW z, z = UpdateRow(e, m, row)
  PROVE  DOMAIN z = DOMAIN row
BY DEF UpdateRow

(* A PATCH whose incident carries a status writes that status. *)
LEMMA PatchGivesStatus ==
  ASSUME NEW row, NEW stored, "status" \in DOMAIN stored, NEW z, z = UpdateRow("Incident", PatchMutation(row), stored),
         row.status \notin {Null, ""}
  PROVE  z.status = row.status
BY PatchedStatus

(* A PATCH that reopens an incident has a step that clears its end. *)
LEMMA ReopenModify ==
  ASSUME Sessions, ExplainInv, ReopenInv, NEW s \in Session, ModifyIncident(s), ~(Answered(s) /\ Same)
  PROVE  ReopenInv'
<1>1. PICK x, y, e, row, stored, z :
        /\ x = ses[s] /\ y = ses'[s] /\ e = Event(s) /\ row = x.copy[e].row /\ stored = View(s)[<<"Incident", e>>]
        /\ z = UpdateRow("Incident", PatchMutation(row), stored)
  OBVIOUS
<1>2. At(s, "modify") /\ Wrote(s, Entry(<<"Incident", e>>, z))
  BY <1>1, ModifyIncidentIs
<1>3. LoadedFirst(db, x)
  BY <1>1, ExplainInvIs DEF Told
<1>4. <<"Incident", e>> \in DOMAIN db
  BY <1>1, <1>2, <1>3, LoadedAt DEF Loaded
<1>5. "status" \in DOMAIN stored
  BY <1>1, <1>4, FoundStatus
<1>6. "end_date" \in DOMAIN stored
  BY <1>1, <1>4, FoundEnd
<1>7. x.todo \in Seq(Steps) /\ x.todo # <<>> /\ x.todo[1][1] = "modify" /\ 1 \in DOMAIN x.todo /\ e = x.todo[1][2]
  BY <1>1, <1>2, AtIs
<1>8. Clears(x, cut)
  BY <1>1, ReopenInvIs
<1>9. Settles(x, 1, cut)
  BY <1>7, <1>8 DEF Clears
<1>10. /\ row.status \notin {Null, ""} /\ (row.status = "reopened" => Reopens(x.todo, e))
       /\ \A j \in DOMAIN x.todo : x.todo[j][1] # "save"
  BY <1>1, <1>7, <1>9 DEF Settles
<1>11. z.status = row.status
  <2>1. z = UpdateRow("Incident", PatchMutation(row), stored)
    BY <1>1
  <2>2. row.status \notin {Null, ""}
    BY <1>10
  <2> QED BY ONLY <1>5, <2>1, <2>2, PatchGivesStatus
<1>12. "end_date" \in DOMAIN z
  BY <1>1, <1>6, UpdatedDomain
<1>13. y.todo = Tail(x.todo)
  BY <1>1, <1>2 DEF Wrote
<1>14. EndLeft(z) => Reopens(y.todo, e)
  <2>1. PICK t : t = x.todo
    OBVIOUS
  <2>2. Reopens(t, e) => Reopens(Tail(t), e)
    BY <1>7, <2>1, ReopensTail
  <2> QED BY <1>10, <1>11, <1>13, <2>1, <2>2 DEF EndLeft
<1>15. WritesKept(x, y)
  <2>1. PICK t, u : t = x.todo /\ u = y.todo
    OBVIOUS
  <2>2. /\ DOMAIN u = 1..(Len(t) - 1) /\ Len(t) \in Nat \ {0} /\ DOMAIN t = 1..Len(t)
        /\ \A j \in DOMAIN u : u[j] = t[j + 1]
    BY <1>7, <1>13, <2>1, TailIs
  <2>3. \A i \in DOMAIN u : i + 1 \in DOMAIN t
    BY <2>2
  <2>4. \A i \in DOMAIN u : u[i][1] # "save"
    BY <1>10, <2>1, <2>2, <2>3
  <2> QED BY <2>1, <2>4 DEF WritesKept
<1> QED BY <1>1, <1>2, <1>12, <1>14, <1>15, ReopenSaved

(* A move saves an incident closed, or with no end. *)
LEMMA ReopenSave ==
  ASSUME Sessions, ExplainInv, ReopenInv, NEW s \in Session, SaveIncidentFull(s), ~(Answered(s) /\ Same)
  PROVE  ReopenInv'
<1>1. PICK x, y, e, row, stored, z :
        /\ x = ses[s] /\ y = ses'[s] /\ e = Event(s) /\ row = x.copy[e].row /\ stored = View(s)[<<"Incident", e>>]
        /\ z = UpdateRow("Incident", SaveMutation(row), stored)
  OBVIOUS
<1>2. At(s, "save") /\ Wrote(s, Entry(<<"Incident", e>>, z)) /\ y.copy = x.copy
  BY <1>1, SaveIncidentFullIs
<1>3. LoadedFirst(db, x)
  BY <1>1, ExplainInvIs DEF Told
<1>4. <<"Incident", e>> \in DOMAIN db
  BY <1>1, <1>2, <1>3, LoadedAt DEF Loaded
<1>5. "status" \in DOMAIN stored
  BY <1>1, <1>4, FoundStatus
<1>6. "end_date" \in DOMAIN stored
  BY <1>1, <1>4, FoundEnd
<1>7. x.todo[1][1] = "save" /\ 1 \in DOMAIN x.todo /\ e = x.todo[1][2]
  BY <1>1, <1>2, AtIs
<1>8. Clears(x, cut)
  BY <1>1, ReopenInvIs
<1>9. Settles(x, 1, cut)
  BY <1>7, <1>8 DEF Clears
<1>10. ~EndLeft(row) \/ e \in cut
  BY <1>1, <1>7, <1>9 DEF Settles
<1>11. z.status = row.status /\ "end_date" \in DOMAIN z /\ (row.end_date = Null => z.end_date = Null)
  BY <1>1, <1>5, <1>6, SavedStatus
<1>12. EndLeft(z) => e \in cut
  BY <1>10, <1>11 DEF EndLeft
<1>13. WritesKept(x, y)
  BY <1>2 DEF WritesKept
<1> QED BY <1>1, <1>2, <1>11, <1>12, <1>13, ReopenSaved

(* A handler that goes on with other steps, with nothing written yet. *)
LEMMA ReopenPlanned ==
  ASSUME Sessions, ReopenInv, NEW s \in Session, Others(s), db' = db, cut' = cut, \A e : ~AtReopen(ses[s], e),
         DOMAIN ses'[s].w = {}, \A i \in DOMAIN ses'[s].todo : Settles(ses'[s], i, cut)
  PROVE  ReopenInv'
<1>1. Open(db', cut', ses')
  BY OpenKept
<1>2. Clears(ses'[s], cut')
  BY DEF Clears, Rows
<1> QED BY <1>1, <1>2, ReopenOne

(* The PATCH handler plans a reopening for the incident it finds closed. *)
LEMMA ReopenDecide ==
  ASSUME Sessions, ExplainInv, ReopenInv, NEW s \in Session, Decide(s), ~(Answered(s) /\ Same)
  PROVE  ReopenInv'
<1>1. PICK x, y, e, st, t : x = ses[s] /\ y = ses'[s] /\ e = Event(s) /\ st = x.req.status /\ t = y.todo
  OBVIOUS
<1>2. PICK row : row = [UpdateFields(x.copy[e].row, st) EXCEPT
                          !.version = IF x.req.version # Null THEN x.req.version ELSE @]
  OBVIOUS
<1>3. /\ At(s, "decide") /\ Same /\ Others(s) /\ t = PatchSteps(e, st) /\ y.w = x.w
      /\ y.copy = [x.copy EXCEPT ![e].row = row, ![e].new = <<st>>]
  BY <1>1, <1>2, DecideIs
<1>5. Copies(x) /\ LoadedFirst(db, x)
  BY <1>1, ExplainInvIs DEF Told
<1>6. Loaded(db, x, e)
  BY <1>1, <1>3, <1>5, LoadedAt
<1>7. row.status = st
  <2>1. PICK old, new : old = x.copy[e].row /\ new = UpdateFields(old, st)
    OBVIOUS
  <2>2. "status" \in DOMAIN old
    BY <1>6, <2>1 DEF Loaded
  <2>3. "status" \in DOMAIN new /\ new.status = st
    BY <2>1, <2>2 DEF UpdateFields
  <2> QED BY <1>2, <2>1, <2>3
<1>8. y.copy[e].row = row
  <2>1. e \in DOMAIN x.copy /\ \A g \in DOMAIN x.copy : DOMAIN x.copy[g] = DOMAIN Copy
    BY <1>1, <1>3, <1>5, CopyOf
  <2>2. PICK c, d : c = x.copy /\ d = y.copy
    OBVIOUS
  <2>3. DOMAIN c[e] = {"row", "comps", "statuses", "new"} /\ d = [c EXCEPT ![e].row = row, ![e].new = <<st>>]
    BY <1>3, <2>1, <2>2 DEF Copy
  <2> QED BY <2>1, <2>2, <2>3
<1>9. st \notin {Null, ""}
  <2>1. x.todo[1][1] = "decide" /\ 1 \in DOMAIN x.todo
    BY <1>1, <1>3, AtIs
  <2>2. Clears(x, cut)
    BY <1>1, ReopenInvIs
  <2> QED BY <1>1, <2>1, <2>2 DEF Clears, Settles
<1>10. /\ \A i \in DOMAIN t : t[i][1] \notin {"save", "decide"} /\ (t[i][1] = "modify" => i = 1 /\ t[i][2] = e)
       /\ st = "reopened" => Reopens(t, e)
  <2>1. CASE st = "reopened"
    <3>1. t = Reopening(e)
      BY <1>3, <2>1, PatchStepsIs
    <3>2. /\ DOMAIN t = 1..8 /\ t[1] = <<"modify", e>> /\ t[2][1] = "insert" /\ t[3][1] = "commit" /\ t[4] = <<"reopen", e>>
          /\ t[5][1] = "row" /\ t[6][1] = "components" /\ t[7][1] = "statuses" /\ t[8][1] = "answer"
      BY <3>1 DEF Reopening
    <3>3. 4 \in DOMAIN t
      BY <3>2
    <3>4. Reopens(t, e)
      BY <3>2, <3>3 DEF Reopens
    <3>5. \A i \in 1..8 : t[i][1] \notin {"save", "decide"} /\ (t[i][1] = "modify" => i = 1 /\ t[i][2] = e)
      BY <3>2
    <3> QED BY <3>2, <3>4, <3>5
  <2>2. CASE st # "reopened"
    <3>1. t = Patching(e)
      BY <1>3, <2>2, PatchStepsIs
    <3>2. /\ DOMAIN t = 1..7 /\ t[1] = <<"modify", e>> /\ t[2][1] = "insert" /\ t[3][1] = "commit" /\ t[4][1] = "row"
          /\ t[5][1] = "components" /\ t[6][1] = "statuses" /\ t[7][1] = "answer"
      BY <3>1 DEF Patching
    <3>5. \A i \in 1..7 : t[i][1] \notin {"save", "decide"} /\ (t[i][1] = "modify" => i = 1 /\ t[i][2] = e)
      BY <3>2
    <3> QED BY <2>2, <3>2, <3>5
  <2> QED BY <2>1, <2>2
<1>11. \A i \in DOMAIN y.todo : Settles(y, i, cut)
  BY <1>1, <1>7, <1>8, <1>9, <1>10 DEF Settles
<1>12. DOMAIN y.w = {}
  BY <1>1, <1>3, AtIs DEF OutsideTx
<1>13. \A g : ~AtReopen(ses[s], g)
  BY <1>3, NotReopening
<1> QED BY <1>1, <1>3, <1>11, <1>12, <1>13, ReopenPlanned DEF Same

(* Once it is prepared a move or an extraction saves its two incidents. *)
LEMMA MoveSaves ==
  ASSUME NEW e, NEW f, NEW t, t = Moving(e, f) \/ t = MovingAway(e, f)
  PROVE  \A i \in DOMAIN t : t[i][1] \notin {"modify", "decide"} /\ (t[i][1] = "save" => t[i][2] \in {e, f})
<1>1. CASE t = Moving(e, f)
  <2>1. /\ DOMAIN t = 1..8 /\ t[1] = <<"save", f>> /\ t[2][1] = "link" /\ t[3][1] = "insert" /\ t[4] = <<"save", e>>
        /\ t[5][1] = "link" /\ t[6][1] = "insert" /\ t[7][1] = "commit" /\ t[8][1] = "done"
    BY <1>1 DEF Moving
  <2>2. \A i \in 1..8 : t[i][1] \notin {"modify", "decide"} /\ (t[i][1] = "save" => t[i][2] \in {e, f})
    BY <2>1
  <2> QED BY <2>1, <2>2
<1>2. CASE t = MovingAway(e, f)
  <2>1. /\ DOMAIN t = 1..9 /\ t[1][1] = "unlink" /\ t[2] = <<"save", f>> /\ t[3][1] = "link" /\ t[4][1] = "insert"
        /\ t[5] = <<"save", e>> /\ t[6][1] = "link" /\ t[7][1] = "insert" /\ t[8][1] = "commit"
        /\ t[9][1] = "done"
    BY <1>2 DEF MovingAway
  <2>2. \A i \in 1..9 : t[i][1] \notin {"modify", "decide"} /\ (t[i][1] = "save" => t[i][2] \in {e, f})
    BY <2>1
  <2> QED BY <2>1, <2>2
<1> QED BY <1>1, <1>2

(* A move of components plans saves of closed or open incidents only. *)
LEMMA ReopenMove ==
  ASSUME Sessions, ExplainInv, ReopenInv, NEW s \in Session, MoveComponent(s), ~(Answered(s) /\ Same)
  PROVE  ReopenInv'
<1>1. PICK x, y, q, t : x = ses[s] /\ y = ses'[s] /\ q = x.req /\ t = y.todo
  OBVIOUS
<1>2. PICK e, f, c, d, a, b : /\ e = q.e /\ f = q.f /\ c = x.copy /\ d = y.copy
                              /\ a = MovedTo(s) /\ b = MovedFrom(s)
  OBVIOUS
<1>3. /\ At(s, "prepare") /\ Same /\ Others(s) /\ t = MoveSteps(q) /\ y.w = x.w
      /\ d = [c EXCEPT ![f] = a, ![e] = b] /\ c[e].row.end_date = Null /\ c[f].row.end_date = Null
  BY <1>1, <1>2, MoveComponentIs
<1>5. Copies(x) /\ LoadedFirst(db, x)
  BY <1>1, ExplainInvIs DEF Told
<1>6. Loaded(db, x, e)
  BY <1>1, <1>2, <1>3, <1>5, PreparedExplained
<1>7. e \in DOMAIN c /\ f \in DOMAIN c /\ \A g \in DOMAIN c : DOMAIN c[g] = DOMAIN Copy
  <2>1. 1 \in DOMAIN x.todo /\ x.todo[1][1] = "prepare"
    BY <1>1, <1>3, AtIs
  <2> QED BY <1>1, <1>2, <1>5, <2>1 DEF Copies
<1>8. DOMAIN Copy = {"row", "comps", "statuses", "new"}
  BY DEF Copy
<1>9. a.row = c[f].row
  <2>1. a = [c[f] EXCEPT !.comps = @ \cup {q.c}, !.new = <<"SYSTEM">>]
    BY <1>1, <1>2 DEF MovedTo
  <2> QED BY <1>7, <1>8, <2>1
<1>10. b.row = c[e].row \/ b.row.status = "resolved"
  <2>1. CASE q.closes
    <3>1. b = [c[e] EXCEPT !.row.status = "resolved", !.row.end_date = Now, !.new = <<"resolved">>]
      BY <1>1, <1>2, <2>1 DEF MovedFrom
    <3>2. PICK old : old = c[e].row
      OBVIOUS
    <3>4. b.row = [[old EXCEPT !.status = "resolved"] EXCEPT !.end_date = Now]
      BY <1>7, <1>8, <3>1, <3>2
    <3>5. "status" \in DOMAIN old
      BY <1>2, <1>6, <3>2 DEF Loaded
    <3> QED BY <3>4, <3>5
  <2>2. CASE ~q.closes
    <3>1. b = [c[e] EXCEPT !.new = <<"SYSTEM">>]
      BY <1>1, <1>2, <2>2 DEF MovedFrom
    <3> QED BY <1>7, <1>8, <3>1
  <2> QED BY <2>1, <2>2
<1>11. \A g \in {e, f} : ~EndLeft(d[g].row)
  <2>1. d[e] = b /\ (e # f => d[f] = a)
    BY <1>3, <1>7
  <2>2. b.row.status = "resolved" \/ b.row.end_date = Null
    BY <1>3, <1>10
  <2>3. a.row.end_date = Null
    BY <1>3, <1>9
  <2> QED BY <2>1, <2>2, <2>3 DEF EndLeft
<1>12. \A i \in DOMAIN t : t[i][1] \notin {"modify", "decide"} /\ (t[i][1] = "save" => t[i][2] \in {e, f})
  <2>1. t = Moving(e, f) \/ t = MovingAway(e, f)
    BY <1>2, <1>3, MoveStepsIs
  <2> QED BY <2>1, MoveSaves
<1>13. \A i \in DOMAIN y.todo : Settles(y, i, cut)
  BY <1>1, <1>2, <1>11, <1>12 DEF Settles
<1>14. DOMAIN y.w = {}
  BY <1>1, <1>3, AtIs DEF OutsideTx
<1>15. \A g : ~AtReopen(ses[s], g)
  BY <1>3, NotReopening
<1> QED BY <1>1, <1>3, <1>13, <1>14, <1>15, ReopenPlanned DEF Same

(* An extraction saves the new incident, which is open, and its source as it was read. *)
LEMMA ReopenExtract ==
  ASSUME Sessions, ExplainInv, ReopenInv, NEW s \in Session, At(s, "extract"), Extracted(s)
  PROVE  ReopenInv'
<1>1. PICK x, y, q, t, v, u : x = ses[s] /\ y = ses'[s] /\ q = x.req /\ t = y.todo /\ v = db /\ u = db'
  OBVIOUS
<1>2. PICK e, f, c, d, a, b, z : /\ e = q.e /\ f = q.f /\ c = x.copy /\ d = y.copy
                                 /\ a = ExtractedTo(s) /\ b = ExtractedFrom(s) /\ z = NewRow(s)
  OBVIOUS
<1>3. /\ Others(s) /\ t = MoveSteps(q) /\ y.w = x.w
      /\ d = [c EXCEPT ![f] = a, ![e] = b]
      /\ <<"Incident", f>> \notin DOMAIN v /\ u = Overlay(v, NewRows(f, q.c, z))
      /\ cut' = IF EndLeft(c[e].row) THEN cut \cup {e} ELSE cut
  BY <1>1, <1>2 DEF Extracted, Source
<1>4. cut \subseteq cut' /\ (EndLeft(c[e].row) => e \in cut')
  BY <1>3
<1>5. Copies(x) /\ Open(v, cut, ses)
  BY <1>1, ExplainInvIs, ReopenInvIs DEF Told
<1>6. e \in DOMAIN c /\ f \in DOMAIN c /\ \A g \in DOMAIN c : DOMAIN c[g] = DOMAIN Copy
  <2>1. 1 \in DOMAIN x.todo /\ x.todo[1][1] = "extract"
    BY <1>1, AtIs
  <2> QED BY <1>1, <1>2, <1>5, <2>1 DEF Copies
<1>7. DOMAIN Copy = {"row", "comps", "statuses", "new"}
  BY DEF Copy
<1>8. /\ "status" \in DOMAIN z /\ z.status = "SYSTEM" /\ "end_date" \in DOMAIN z /\ z # Gone
  BY <1>2, NewIncidentIs DEF NewRow
<1>9. b.row = c[e].row
  <2>1. b = [c[e] EXCEPT !.new = <<"SYSTEM">>]
    BY <1>1, <1>2 DEF ExtractedFrom, Source
  <2> QED BY <1>6, <1>7, <2>1
<1>10. ~EndLeft(a.row)
  <2>1. a.row = ReadBack("Incident", z)
    BY <1>2 DEF ExtractedTo
  <2>2. AsRead(z.status) = "SYSTEM"
    BY <1>8, NullAssumption DEF AsRead
  <2>3. a.row.status = "SYSTEM"
    BY <1>8, <2>1, <2>2, StatusRead
  <2> QED BY <2>3 DEF EndLeft
<1>11. \A g \in {e, f} : ~EndLeft(d[g].row) \/ g \in cut'
  <2>1. d[e] = b /\ (e # f => d[f] = a)
    BY <1>3, <1>6
  <2> QED BY <1>4, <1>9, <1>10, <2>1
<1>12. \A i \in DOMAIN t : t[i][1] \notin {"modify", "decide"} /\ (t[i][1] = "save" => t[i][2] \in {e, f})
  <2>1. t = Moving(e, f) \/ t = MovingAway(e, f)
    BY <1>2, <1>3, MoveStepsIs
  <2> QED BY <2>1, MoveSaves
<1>13. Clears(y, cut')
  <2>1. \A i \in DOMAIN y.todo : Settles(y, i, cut')
    BY <1>1, <1>2, <1>11, <1>12 DEF Settles
  <2>2. DOMAIN y.w = {}
    BY <1>1, <1>3, AtIs DEF OutsideTx
  <2> QED BY <2>1, <2>2 DEF Clears, Rows
<1>14. /\ <<"Incident", f>> \in DOMAIN u /\ u[<<"Incident", f>>] = z /\ DOMAIN v \subseteq DOMAIN u
       /\ \A k \in DOMAIN u : k[1] = "Incident" /\ k # <<"Incident", f>> => k \in DOMAIN v /\ u[k] = v[k]
  BY <1>3, <1>8, NewRowsAre
<1>15. ASSUME NEW k \in Rows(u, "Incident")
       PROVE  "end_date" \in DOMAIN u[k] /\ (EndLeft(u[k]) => Pends(k[2], cut', ses'))
  <2>1. CASE k = <<"Incident", f>>
    BY <1>8, <1>14, <2>1 DEF EndLeft
  <2>2. CASE k # <<"Incident", f>>
    <3>1. k \in Rows(v, "Incident") /\ u[k] = v[k]
      BY <1>14, <2>2 DEF Rows
    <3>2. PICK g : g = k[2]
      OBVIOUS
    <3>3. "end_date" \in DOMAIN v[k] /\ (EndLeft(v[k]) => Pends(g, cut, ses))
      BY <1>5, <3>1, <3>2 DEF Open
    <3>4. ~AtReopen(ses[s], g)
      BY NotReopening
    <3>5. Pends(g, cut, ses) => Pends(g, cut', ses')
      BY <1>3, <1>4, <3>4, PendsKept
    <3> QED BY <3>1, <3>2, <3>3, <3>5
  <2> QED BY <2>1, <2>2
<1>16. Open(db', cut', ses')
  BY <1>1, <1>15 DEF Open
<1> QED BY <1>1, <1>3, <1>4, <1>13, <1>16, ReopenOne

(* A new request has nothing to clear. *)
LEMMA ReopenBegin ==
  ASSUME Sessions, ReopenInv, NEW s \in Session, NEW q \in Request, Begin(s, q)
  PROVE  ReopenInv'
<1>1. PICK y, t, e, f : y = ses'[s] /\ t = y.todo /\ e = q.e /\ f = q.f
  OBVIOUS
<1>2. Others(s) /\ Same /\ t = Program(q) /\ y.req = q /\ DOMAIN y.w = {}
  BY <1>1, BeginIs
<1>3. \A i \in DOMAIN t : t[i][1] \notin {"modify", "save"} /\ (t[i][1] = "decide" => q.op = "patch")
  <2>1. CASE t = Getting(e)
    <3>1. /\ DOMAIN t = 1..4 /\ t[1][1] = "row" /\ t[2][1] = "components" /\ t[3][1] = "statuses"
          /\ t[4][1] = "answer"
      BY <2>1 DEF Getting
    <3> QED BY <3>1
  <2>2. CASE q.op = "patch" /\ t = Checking(e)
    <3>1. /\ DOMAIN t = 1..4 /\ t[1][1] = "row" /\ t[2][1] = "components" /\ t[3][1] = "statuses"
          /\ t[4][1] = "decide"
      BY <2>2 DEF Checking
    <3> QED BY <2>2, <3>1
  <2>3. CASE t = Editing(e)
    <3>1. /\ DOMAIN t = 1..7 /\ t[1][1] = "row" /\ t[2][1] = "components" /\ t[3][1] = "statuses" /\ t[4][1] = "pick"
          /\ t[5][1] = "updates" /\ t[6][1] = "text" /\ t[7][1] = "reread"
      BY <2>3 DEF Editing
    <3> QED BY <3>1
  <2>4. CASE t = Preparing(e, f)
    <3>1. /\ DOMAIN t = 1..7 /\ t[1][1] = "row" /\ t[2][1] = "components" /\ t[3][1] = "statuses" /\ t[4][1] = "row"
          /\ t[5][1] = "components" /\ t[6][1] = "statuses" /\ t[7][1] = "prepare"
      BY <2>4 DEF Preparing
    <3> QED BY <3>1
  <2>5. CASE t = Registering
    <3>1. /\ DOMAIN t = 1..7 /\ t[1][1] = "exists" /\ t[2][1] = "component" /\ t[3][1] = "attribute"
          /\ t[4][1] = "attribute" /\ t[5][1] = "attribute" /\ t[6][1] = "commit" /\ t[7][1] = "done"
      BY <2>5 DEF Registering
    <3> QED BY <3>1
  <2>6. CASE t = Extracting(e)
    <3>1. /\ DOMAIN t = 1..4 /\ t[1][1] = "row" /\ t[2][1] = "components" /\ t[3][1] = "statuses"
          /\ t[4][1] = "extract"
      BY <2>6 DEF Extracting
    <3> QED BY <3>1
  <2> QED BY <1>1, <1>2, <2>1, <2>2, <2>3, <2>4, <2>5, <2>6, ProgramIs
<1>4. q.op = "patch" => q.status \notin {Null, ""}
  BY ReopenAssumption
<1>5. \A i \in DOMAIN y.todo : Settles(y, i, cut)
  BY <1>1, <1>2, <1>3, <1>4 DEF Settles
<1>6. \A g : ~AtReopen(ses[s], g)
  <2>1. ses[s].todo = <<>>
    BY IdleFields DEF Begin
  <2> QED BY <2>1 DEF AtReopen
<1> QED BY <1>1, <1>2, <1>5, <1>6, ReopenPlanned DEF Same

(* After the commit the end is cleared at once. *)
LEMMA ReopenCommit ==
  ASSUME Sessions, ReopenInv, NEW s \in Session, Commit(s)
  PROVE  ReopenInv'
<1>1. PICK x, y, t, w, v, u : x = ses[s] /\ y = ses'[s] /\ t = x.todo /\ w = x.w /\ v = db /\ u = db'
  OBVIOUS
<1>2. /\ At(s, "commit") /\ u = Overlay(v, w) /\ cut' = cut /\ Others(s) /\ y.todo = Tail(t) /\ DOMAIN y.w = {}
      /\ y.req = x.req
  BY <1>1, CommitIs
<1>3. t \in Seq(Steps) /\ t # <<>> /\ t[1][1] = "commit" /\ 1 \in DOMAIN t
  BY <1>1, <1>2, AtIs
<1>4. Clears(x, cut) /\ Open(v, cut, ses)
  BY <1>1, ReopenInvIs
<1>5. Clears(y, cut)
  <2>1. RowsWritten(x, y, cut)
    BY <1>2 DEF RowsWritten, Rows
  <2>2. WritesKept(x, y)
    <3>1. \A i \in DOMAIN y.todo : y.todo[i][1] # "save"
      BY <1>1, <1>2, NoSaves
    <3> QED BY <3>1 DEF WritesKept
  <2> QED BY <1>1, <1>2, <1>3, <1>4, <2>1, <2>2, ClearsTail
<1>6. ASSUME NEW e, Reopens(t, e) PROVE AtReopen(y, e)
  <2>1. PICK i \in DOMAIN t : t[i] = <<"reopen", e>>
    BY <1>6 DEF Reopens
  <2>2. /\ DOMAIN y.todo = 1..(Len(t) - 1) /\ Len(t) \in Nat \ {0} /\ DOMAIN t = 1..Len(t)
        /\ \A j \in DOMAIN y.todo : y.todo[j] = t[j + 1]
    BY <1>2, <1>3, TailIs
  <2>3. Shape(t)
    BY <1>1 DEF Sessions
  <2>4. i # 1 /\ t[i][1] = "reopen"
    BY <1>3, <2>1
  <2>5. t[i - 1][1] = "commit" /\ i - 1 \in DOMAIN t
    BY <2>2, <2>3, <2>4 DEF Shape
  <2>6. i - 1 = 1
    BY <1>3, <2>3, <2>5 DEF Shape
  <2>7. i = 2 /\ 1 \in DOMAIN y.todo
    BY <2>2, <2>6
  <2>8. y.todo[1] = <<"reopen", e>>
    BY <2>1, <2>2, <2>7
  <2>9. y.todo # <<>>
    BY <2>7
  <2> QED BY <2>8, <2>9 DEF AtReopen
<1>7. ASSUME NEW k \in Rows(u, "Incident")
      PROVE  "end_date" \in DOMAIN u[k] /\ (EndLeft(u[k]) => Pends(k[2], cut', ses'))
  <2>1. k \in DOMAIN u /\ k[1] = "Incident"
    BY DEF Rows
  <2>2. PICK e : e = k[2]
    OBVIOUS
  <2>3. CASE k \in DOMAIN w
    <3>1. u[k] = w[k]
      BY <1>2, <2>1, <2>3 DEF Overlay
    <3>2. k \in Rows(w, "Incident")
      BY <2>1, <2>3 DEF Rows
    <3>3. "end_date" \in DOMAIN w[k] /\ (EndLeft(w[k]) => Reopens(t, e) \/ e \in cut)
      BY <1>1, <1>4, <2>2, <3>2 DEF Clears
    <3>4. Reopens(t, e) => Pends(e, cut', ses')
      BY <1>1, <1>6 DEF Pends
    <3>5. e \in cut => Pends(e, cut', ses')
      BY <1>2 DEF Pends
    <3> QED BY <2>2, <3>1, <3>3, <3>4, <3>5
  <2>4. CASE k \notin DOMAIN w
    <3>1. k \in DOMAIN v /\ u[k] = v[k]
      BY <1>2, <2>1, <2>4 DEF Overlay
    <3>2. k \in Rows(v, "Incident")
      BY <2>1, <3>1 DEF Rows
    <3>3. "end_date" \in DOMAIN v[k] /\ (EndLeft(v[k]) => Pends(e, cut, ses))
      BY <1>4, <2>2, <3>2 DEF Open
    <3>4. ~AtReopen(ses[s], e)
      BY <1>2, NotReopening
    <3>5. Pends(e, cut, ses) => Pends(e, cut', ses')
      BY <1>2, <3>4, PendsKept
    <3> QED BY <2>2, <3>1, <3>3, <3>5
  <2> QED BY <2>3, <2>4
<1>8. Open(db', cut', ses')
  BY <1>1, <1>7 DEF Open
<1> QED BY <1>1, <1>2, <1>5, <1>8, ReopenOne

(* The step after the commit clears it. *)
LEMMA ReopenReopened ==
  ASSUME Sessions, ExplainInv, ReopenInv, NEW s \in Session, ReOpenIncident(s)
  PROVE  ReopenInv'
<1>1. PICK x, y, e, k, stored, z, v, u :
        /\ x = ses[s] /\ y = ses'[s] /\ e = Event(s) /\ k = <<"Incident", e>> /\ stored = View(s)[k]
        /\ v = db /\ u = db'
        /\ z = UpdateRow("Incident", Build("Incident", <<Clear("end_date")>>), stored)
  OBVIOUS
<1>2. At(s, "reopen") /\ Stored1(s, Entry(k, z))
  BY <1>1, ReOpenIncidentIs
<1>3. Recorded(v) /\ LoadedFirst(v, x)
  BY <1>1, ExplainInvIs DEF Told
<1>4. k \in DOMAIN v /\ k[1] = "Incident" /\ k[2] = e
  BY <1>1, <1>2, <1>3, LoadedAt DEF Loaded
<1>5. "status" \in DOMAIN stored
  BY <1>1, <1>4, FoundStatus
<1>6. "end_date" \in DOMAIN stored
  BY <1>1, <1>4, FoundEnd
<1>7. "status" \in DOMAIN z
  BY <1>1, <1>5, ReopenedStatus
<1>8. "end_date" \in DOMAIN z /\ z.end_date = Null
  BY <1>1, <1>6, ReopenedEnd
<1>9. u = Overlay(v, Entry(k, z)) /\ Others(s) /\ cut' = cut /\ y.todo = Tail(x.todo) /\ y.w = x.w /\ y.req = x.req
  BY <1>1, <1>2 DEF Stored1
<1>10. DOMAIN u = DOMAIN v /\ u[k] = z /\ \A h \in DOMAIN v \ {k} : u[h] = v[h]
  BY <1>4, <1>7, <1>9, OverlayOne
<1>11. Clears(x, cut) /\ Open(v, cut, ses)
  BY <1>1, ReopenInvIs
<1>12. Clears(y, cut)
  <2>1. x.todo \in Seq(Steps) /\ x.todo # <<>> /\ DOMAIN y.w = {}
    BY <1>1, <1>2, <1>9, AtIs DEF OutsideTx
  <2>2. RowsWritten(x, y, cut)
    BY <2>1 DEF RowsWritten, Rows
  <2>3. WritesKept(x, y)
    <3>1. "reopen" \in OutsideTx
      BY DEF OutsideTx
    <3>2. \A i \in DOMAIN y.todo : y.todo[i][1] # "save"
      BY <1>1, <1>2, <1>9, <3>1, NoSaves
    <3> QED BY <3>2 DEF WritesKept
  <2> QED BY <1>9, <1>11, <2>1, <2>2, <2>3, ClearsTail
<1>13. \A g : AtReopen(ses[s], g) => g = e
  <2>1. ses[s].todo[1] = <<"reopen", e>>
    BY <1>1, <1>2, HeadIs
  <2> QED BY <2>1 DEF AtReopen
<1>14. ASSUME NEW h \in Rows(u, "Incident")
       PROVE  "end_date" \in DOMAIN u[h] /\ (EndLeft(u[h]) => Pends(h[2], cut', ses'))
  <2>1. CASE h = k
    BY <1>8, <1>10, <2>1 DEF EndLeft
  <2>2. CASE h # k
    <3>1. h \in Rows(v, "Incident") /\ u[h] = v[h]
      BY <1>10, <2>2 DEF Rows
    <3>2. PICK g : g = h[2]
      OBVIOUS
    <3>3. h = <<"Incident", g>>
      BY <1>3, <3>1, <3>2 DEF Recorded
    <3>4. g # e
      BY <1>1, <2>2, <3>3
    <3>5. ~AtReopen(ses[s], g)
      BY <1>13, <3>4
    <3>6. "end_date" \in DOMAIN v[h] /\ (EndLeft(v[h]) => Pends(g, cut, ses))
      BY <1>11, <3>1, <3>2 DEF Open
    <3>7. Pends(g, cut, ses) => Pends(g, cut', ses')
      BY <1>9, <3>5, PendsKept
    <3> QED BY <3>1, <3>2, <3>6, <3>7
  <2> QED BY <2>1, <2>2
<1>15. Open(db', cut', ses')
  BY <1>1, <1>14 DEF Open
<1> QED BY <1>1, <1>9, <1>12, <1>15, ReopenOne

(* An edited update writes no incident. *)
LEMMA ReopenEdit ==
  ASSUME Sessions, ReopenInv, NEW s \in Session, ModifyEventUpdate(s), ~(Answered(s) /\ Same)
  PROVE  ReopenInv'
<1>1. PICK x, y, k, z, v, u :
        /\ x = ses[s] /\ y = ses'[s] /\ k = <<"IncidentStatus", x.target>> /\ v = db /\ u = db'
        /\ z = UpdateRow("IncidentStatus", EditMutation, View(s)[k])
  OBVIOUS
<1>2. At(s, "text") /\ Stored1(s, Entry(k, z))
  BY <1>1, ModifyEventUpdateIs
<1>3. u = Overlay(v, Entry(k, z)) /\ Others(s) /\ cut' = cut /\ y.todo = Tail(x.todo) /\ y.w = x.w /\ y.req = x.req
  BY <1>1, <1>2 DEF Stored1
<1>4. k[1] # "Incident"
  BY <1>1
<1>5. \A h \in DOMAIN u \ {k} : h \in DOMAIN v /\ u[h] = v[h]
  BY <1>3 DEF Overlay, Entry
<1>6. Clears(x, cut) /\ Open(v, cut, ses)
  BY <1>1, ReopenInvIs
<1>7. Clears(y, cut)
  <2>1. x.todo \in Seq(Steps) /\ x.todo # <<>> /\ DOMAIN y.w = {}
    BY <1>1, <1>2, <1>3, AtIs DEF OutsideTx
  <2>2. RowsWritten(x, y, cut)
    BY <2>1 DEF RowsWritten, Rows
  <2>3. WritesKept(x, y)
    <3>1. "text" \in OutsideTx
      BY DEF OutsideTx
    <3>2. \A i \in DOMAIN y.todo : y.todo[i][1] # "save"
      BY <1>1, <1>2, <1>3, <3>1, NoSaves
    <3> QED BY <3>2 DEF WritesKept
  <2> QED BY <1>3, <1>6, <2>1, <2>2, <2>3, ClearsTail
<1>8. ASSUME NEW h \in Rows(u, "Incident")
      PROVE  "end_date" \in DOMAIN u[h] /\ (EndLeft(u[h]) => Pends(h[2], cut', ses'))
  <2>1. h \in Rows(v, "Incident") /\ u[h] = v[h]
    BY <1>4, <1>5 DEF Rows
  <2>2. PICK g : g = h[2]
    OBVIOUS
  <2>3. ~AtReopen(ses[s], g)
    BY <1>2, NotReopening
  <2>4. "end_date" \in DOMAIN v[h] /\ (EndLeft(v[h]) => Pends(g, cut, ses))
    BY <1>6, <2>1, <2>2 DEF Open
  <2>5. Pends(g, cut, ses) => Pends(g, cut', ses')
    BY <1>3, <2>3, PendsKept
  <2> QED BY <2>1, <2>2, <2>4, <2>5
<1>9. Open(db', cut', ses')
  BY <1>1, <1>8 DEF Open
<1> QED BY <1>1, <1>3, <1>7, <1>9, ReopenOne

(* Every statement. *)
LEMMA StepReopens ==
  ASSUME Sessions, ExplainInv, ReopenInv, NEW s \in Session, Step(s)
  PROVE  ReopenInv'
<1>0. ASSUME Answered(s), Same, \A e : ~AtReopen(ses[s], e) PROVE ReopenInv'
  BY <1>0, ReopenAnswered DEF Same
<1>a. ASSUME NEW n, At(s, n), n # "reopen", Answered(s), Same PROVE ReopenInv'
  <2>1. \A e : ~AtReopen(ses[s], e)
    BY <1>a, NotReopening
  <2> QED BY <1>0, <1>a, <2>1
<1>b. ASSUME NEW n \in {"row", "components", "statuses", "pick", "updates"}, At(s, n), Read(s) PROVE ReopenInv'
  <2>1. n \in OutsideTx /\ n # "reopen" /\ n # "exists"
    BY DEF OutsideTx
  <2> QED BY <1>b, <2>1, ReopenRead
<1>1. CASE ReadRow(s)
  BY <1>a, <1>b, <1>1, ReadRowIs
<1>2. CASE ReadComponents(s)
  BY <1>b, <1>2, ReadComponentsIs
<1>3. CASE ReadStatuses(s)
  BY <1>b, <1>3, ReadStatusesIs
<1>4. CASE Answer(s)
  BY <1>a, <1>4, AnswerIs
<1>5. CASE Decide(s)
  <2>1. At(s, "decide")
    BY <1>5, DecideIs
  <2> QED BY <1>a, <1>5, <2>1, ReopenDecide
<1>6. CASE ModifyIncident(s)
  <2>1. At(s, "modify")
    BY <1>6, ModifyIncidentIs
  <2> QED BY <1>a, <1>6, <2>1, ReopenModify
<1>7. CASE InsertStatuses(s)
  BY <1>7, ReopenInsert
<1>8. CASE Commit(s)
  BY <1>8, ReopenCommit
<1>9. CASE ReOpenIncident(s)
  BY <1>9, ReopenReopened
<1>10. CASE PickUpdate(s)
  <2>1. At(s, "pick") /\ Read(s)
    BY <1>10, PickUpdateIs
  <2> QED BY <1>b, <2>1
<1>11. CASE FindUpdate(s)
  <2>1. At(s, "updates") /\ ((Answered(s) /\ Same) \/ Read(s))
    BY <1>11, FindUpdateIs
  <2> QED BY <1>a, <1>b, <2>1
<1>12. CASE ModifyEventUpdate(s)
  <2>1. At(s, "text")
    BY <1>12, ModifyEventUpdateIs
  <2> QED BY <1>a, <1>12, <2>1, ReopenEdit
<1>13. CASE ReadUpdate(s)
  BY <1>a, <1>13, ReadUpdateIs
<1>14. CASE MoveComponent(s)
  <2>1. At(s, "prepare")
    BY <1>14, MoveComponentIs
  <2> QED BY <1>a, <1>14, <2>1, ReopenMove
<1>24. CASE ExtractComponents(s)
  <2>1. At(s, "extract") /\ ((Answered(s) /\ Same) \/ Extracted(s))
    BY <1>24, ExtractComponentsIs
  <2> QED BY <1>a, <2>1, ReopenExtract
<1>15. CASE RemoveIncidentComponent(s)
  BY <1>15, ReopenUnlink
<1>16. CASE SaveIncidentFull(s)
  <2>1. At(s, "save")
    BY <1>16, SaveIncidentFullIs
  <2> QED BY <1>a, <1>16, <2>1, ReopenSave
<1>17. CASE ReconcileIncidentComponents(s)
  <2>1. PICK rows : rows = Reconciled(s, Event(s))
    OBVIOUS
  <2>2. At(s, "link") /\ Wrote(s, rows) /\ ses'[s].copy = ses[s].copy /\ "link" \in InsideTx
    BY <1>17, <2>1, ReconcileIs DEF InsideTx
  <2>3. \A k \in DOMAIN rows : k[1] # "Incident"
    BY <2>1 DEF Reconciled
  <2> QED BY <2>2, <2>3, ReopenOtherRows
<1>18. CASE Done(s)
  BY <1>a, <1>18, DoneIs
<1>19. CASE ComponentExists(s)
  <2>1. At(s, "exists") /\ ((Answered(s) /\ Same) \/ (Read(s) /\ ses'[s].copy = ses[s].copy))
    BY <1>19, ComponentExistsIs
  <2> QED BY <1>a, <2>1, ReopenRead
<1>20. CASE CreateComponent(s)
  <2>1. PICK rows, id, row : rows = Entry(<<"Component", id>>, row) /\ At(s, "component") /\ Wrote(s, rows)
                             /\ ses'[s].copy = ses[s].copy
    BY <1>20, CreateComponentIs
  <2>2. (\A k \in DOMAIN rows : k[1] # "Incident") /\ "component" \in InsideTx
    BY <2>1 DEF Entry, InsideTx
  <2> QED BY <2>1, <2>2, ReopenOtherRows
<1>21. CASE CreateAttribute(s)
  <2>1. PICK rows, id, row : rows = Entry(<<"ComponentAttr", id>>, row) /\ At(s, "attribute") /\ Wrote(s, rows)
                             /\ ses'[s].copy = ses[s].copy
    BY <1>21, CreateAttributeIs
  <2>2. (\A k \in DOMAIN rows : k[1] # "Incident") /\ "attribute" \in InsideTx
    BY <2>1 DEF Entry, InsideTx
  <2> QED BY <2>1, <2>2, ReopenOtherRows
<1>22. CASE Close(s)
  <2>1. Answered(s) /\ Same /\ ses[s].todo = <<>>
    BY <1>22, CloseIs
  <2>2. \A e : ~AtReopen(ses[s], e)
    BY <2>1 DEF AtReopen
  <2> QED BY <1>0, <2>1, <2>2
<1>23. CASE Abort(s)
  <2>1. Answered(s) /\ Same /\ DOMAIN ses[s].w # {}
    BY <1>23, AbortIs
  <2>2. ~At(s, "reopen")
    BY <2>1, AtIs DEF OutsideTx
  <2>3. \A e : ~AtReopen(ses[s], e)
    <3> SUFFICES ASSUME NEW e, AtReopen(ses[s], e) PROVE FALSE
      OBVIOUS
    <3>1. ses[s].todo # <<>> /\ ses[s].todo[1] = <<"reopen", e>>
      BY DEF AtReopen
    <3>2. ses[s].todo \in Seq(Steps)
      BY DEF Sessions, Shape
    <3>3. Head(ses[s].todo) = <<"reopen", e>>
      BY <3>1, <3>2, TailIs
    <3> QED BY <2>2, <3>1, <3>3 DEF At
  <2> QED BY <1>0, <2>1, <2>3
<1> QED BY <1>1, <1>2, <1>3, <1>4, <1>5, <1>6, <1>7, <1>8, <1>9, <1>10, <1>11, <1>12, <1>13, <1>14, <1>15,
           <1>16, <1>17, <1>18, <1>19, <1>20, <1>21, <1>22, <1>23, <1>24 DEF Step

(* A failed reopening is recorded in cut. *)
LEMMA ReopenFail ==
  ASSUME Sessions, ReopenInv, NEW s \in Session, Fail(s)
  PROVE  ReopenInv'
<1>1. Answered(s) /\ db' = db /\ cut' = IF At(s, "reopen") THEN cut \cup {Event(s)} ELSE cut
  BY FailIs
<1>2. cut \subseteq cut'
  BY <1>1
<1>3. ASSUME NEW e, AtReopen(ses[s], e) PROVE e \in cut'
  <2>1. ses[s].todo # <<>> /\ ses[s].todo[1] = <<"reopen", e>>
    BY <1>3 DEF AtReopen
  <2>2. ses[s].todo \in Seq(Steps)
    BY DEF Sessions, Shape
  <2>3. Head(ses[s].todo) = <<"reopen", e>>
    BY <2>1, <2>2, TailIs
  <2>4. At(s, "reopen") /\ Event(s) = e
    BY <2>1, <2>3 DEF At, Event
  <2> QED BY <1>1, <2>4
<1> QED BY <1>1, <1>2, <1>3, ReopenAnswered

(* Every step. *)
LEMMA ReopenKept ==
  ASSUME Sessions, ExplainInv, ReopenInv, [Next]_vars
  PROVE  ReopenInv'
<1>3. CASE UNCHANGED vars \/ Exhausted
  <2>1. ses' = ses /\ db' = db /\ cut' = cut
    BY <1>3 DEF vars, Exhausted
  <2> QED BY <2>1, ReopenInvIs
<1> QED BY <1>3, ReopenBegin, ReopenFail, StepReopens DEF Next

(* No stored incident is reopened with an end. *)
LEMMA ReopenInit == Init => ReopenInv
<1> SUFFICES ASSUME Init PROVE ReopenInv
  OBVIOUS
<1>1. db = Stored
  BY DEF Init
<1>2. ASSUME NEW k \in Rows(Stored, "Incident") PROVE "end_date" \in DOMAIN Stored[k] /\ ~EndLeft(Stored[k])
  BY <1>2, ReopenAssumption DEF Rows, EndLeft
<1>3. Open(db, cut, ses)
  BY <1>1, <1>2 DEF Open
<1>4. ASSUME NEW s \in Session PROVE Clears(ses[s], cut)
  <2>1. PICK y : y = ses[s]
    OBVIOUS
  <2>2. y.todo = <<>> /\ DOMAIN y.w = {} /\ DOMAIN <<>> = {}
    BY <2>1, IdleFields DEF Init
  <2>3. Clears(y, cut)
    BY <2>2 DEF Clears, Rows
  <2> QED BY <2>1, <2>3
<1> QED BY <1>3, <1>4, ReopenInvIs

(* An end that is left under the status reopened has a session whose next    *)
(* statement clears it, or that statement failed, or an extraction saves the *)
(* incident as it read it in between: only a PATCH writes this status to a   *)
(* closed incident, and its reopening follows its commit at once.            *)
THEOREM ReopensSound == Spec => []ReopenInv
BY ReopenInit, ReopenKept, SessionsSound, ExplainsSound, PTL DEF Spec

(* ReopenedIsOpen: a reopened incident has no end_date, except while the      *)
(* request that reopened it has not reached its second statement, or after it *)
(* failed there or an extraction read the incident before it.                 *)
THEOREM ReopenedStaysOpen == Spec => []ReopenedIsOpen
<1>1. Sessions /\ ExplainInv /\ ReopenInv => ReopenedIsOpen
  <2> SUFFICES ASSUME Sessions, ExplainInv, ReopenInv, NEW e \in Ids(db, "Incident"),
                      db[<<"Incident", e>>].status = "reopened", db[<<"Incident", e>>].end_date # Null
               PROVE  \/ e \in cut
                      \/ \E s \in Session : \E i \in DOMAIN ses[s].todo : ses[s].todo[i] = <<"reopen", e>>
    BY DEF ReopenedIsOpen
  <2>1. PICK k \in Rows(db, "Incident") : e = k[2]
    BY DEF Ids, Rows
  <2>2. k = <<"Incident", e>>
    BY <2>1 DEF ExplainInv, Recorded
  <2>3. Pends(e, cut, ses)
    BY <2>1, <2>2, ReopenInvIs DEF Open, EndLeft
  <2>4. ASSUME NEW s \in Session, AtReopen(ses[s], e)
        PROVE  \E i \in DOMAIN ses[s].todo : ses[s].todo[i] = <<"reopen", e>>
    <3>1. ses[s].todo # <<>> /\ ses[s].todo[1] = <<"reopen", e>>
      BY <2>4 DEF AtReopen
    <3>2. ses[s].todo \in Seq(Steps)
      BY DEF Sessions, Shape
    <3>3. 1 \in DOMAIN ses[s].todo
      BY <3>1, <3>2, TailIs
    <3> QED BY <3>1, <3>3
  <2> QED BY <2>3, <2>4 DEF Pends
<1> QED BY <1>1, SessionsSound, ExplainsSound, ReopensSound, PTL

=============================================================================
