----------------------- MODULE SpendingUnits_proofs -----------------------
(***************************************************************************)
(* Proofs about SpendingUnits, for any handlers, batches, identifiers,     *)
(* digests and bounds.                                                     *)
(***************************************************************************)
EXTENDS SpendingUnits, StripeDB_proofs, Sums, FiniteSetTheorems, TLAPS

\* A call under way, with or without an item in hand.
Shape ==
    [pc : {"credit", "account", "recredit", "insert", "consume", "reply"},
     batch : {b \in Batch : ValidBatch(b)},
     i : Nat \ {0}, ensured : SUBSET RawId, total : Nat]

-----------------------------------------------------------------------------
(***************************************************************************)
(* Calls.                                                                  *)
(***************************************************************************)

\* The item in hand is valid, and its digests and its row have their types.
LEMMA ItemInHand ==
    ASSUME NEW c \in Shape, c.i \in DOMAIN c.batch
    PROVE  /\ Cur(c) \in Item
           /\ ValidItem(Cur(c))
           /\ Cur(c).user \in RawId
           /\ Cur(c).amount \in Nat \ {0}
           /\ Key(c) \in Digest
           /\ User(c) \in Digest
           /\ UnitOf(c) \in UnitRow
           /\ UnitOf(c).user = User(c)
           /\ UnitOf(c).amount = Cur(c).amount
<1>1. c.batch \in Seq(Item) /\ ValidBatch(c.batch)
  BY BatchAssumption DEF Shape
<1>2. Cur(c) \in Item /\ ValidItem(Cur(c))
  BY <1>1 DEF Cur, ValidBatch
<1>3. /\ Cur(c).external \in RawId /\ Cur(c).user \in RawId
      /\ Cur(c).amount \in Nat \ {0}
      /\ Cur(c).created_at \in Int \ {0}
  <2> DEFINE it == Cur(c)
  <2>1. it \in [external : RawId, user : RawId, amount : Int, created_at : Int]
    BY <1>2 DEF Item
  <2>2. it.amount > 0 /\ it.created_at # 0
    BY <1>2 DEF ValidItem
  <2> HIDE DEF it
  <2>3. /\ it.external \in RawId /\ it.user \in RawId
        /\ it.amount \in Nat \ {0}
        /\ it.created_at \in Int \ {0}
    BY <2>1, <2>2
  <2> QED
    BY <2>3 DEF it
<1>4. Key(c) \in Digest /\ User(c) \in Digest
  BY <1>3, HashType DEF Key, User
<1>5. /\ UnitOf(c) \in UnitRow
      /\ UnitOf(c).user = User(c)
      /\ UnitOf(c).amount = Cur(c).amount
  BY <1>3, <1>4 DEF UnitOf, UnitRow
<1> QED
  BY <1>2, <1>3, <1>4, <1>5

\* The head of the loop sends a call to its reply after the last item, and
\* otherwise to the statement the item in hand needs first.
LEMMA LoopFacts ==
    ASSUME NEW c \in Shape
    PROVE  /\ Loop(c) \in Call
           /\ Loop(c).batch = c.batch /\ Loop(c).i = c.i
           /\ Loop(c).ensured = c.ensured /\ Loop(c).total = c.total
           /\ Loop(c).pc \in {"reply", "insert", "credit"}
           /\ Loop(c).pc = "reply" => c.i > Len(c.batch)
           /\ Loop(c).pc = "insert" => Cur(c).user \in c.ensured
<1>1. c.batch \in Seq(Item) /\ Len(c.batch) \in Nat /\ c.i \in Nat \ {0}
  BY BatchAssumption DEF Shape
<1>2. CASE c.i > Len(c.batch)
  <2>1. Loop(c) = [c EXCEPT !.pc = "reply"]
    BY <1>1, <1>2 DEF Loop
  <2> QED
    BY <1>2, <2>1 DEF Shape, Call
<1>3. CASE c.i <= Len(c.batch)
  <2>1. c.i \in DOMAIN c.batch
    BY <1>1, <1>3
  <2>2. ValidItem(Cur(c))
    BY <2>1, ItemInHand
  <2>3. CASE Cur(c).user \in c.ensured
    <3>1. Loop(c) = [c EXCEPT !.pc = "insert"]
      BY <1>1, <1>3, <2>2, <2>3 DEF Loop
    <3> QED
      BY <2>1, <2>3, <3>1 DEF Shape, Call
  <2>4. CASE Cur(c).user \notin c.ensured
    <3>1. Loop(c) = [c EXCEPT !.pc = "credit"]
      BY <1>1, <1>3, <2>2, <2>4 DEF Loop
    <3> QED
      BY <2>1, <3>1 DEF Shape, Call
  <2> QED
    BY <2>3, <2>4
<1> QED
  BY <1>1, <1>2, <1>3

\* The same for the item after the one in hand.
LEMMA NextFacts ==
    ASSUME NEW c \in Shape
    PROVE  /\ NextItem(c) \in Call
           /\ NextItem(c).batch = c.batch /\ NextItem(c).i = c.i + 1
           /\ NextItem(c).ensured = c.ensured /\ NextItem(c).total = c.total
           /\ NextItem(c).pc \in {"reply", "insert", "credit"}
           /\ NextItem(c).pc = "reply" => c.i + 1 > Len(c.batch)
           /\ NextItem(c).pc = "insert" => Cur(NextItem(c)).user \in c.ensured
<1> DEFINE e == [c EXCEPT !.i = @ + 1]
<1>1. e \in Shape /\ e.batch = c.batch /\ e.i = c.i + 1
      /\ e.ensured = c.ensured /\ e.total = c.total
  BY DEF Shape
<1>2. NextItem(c) = Loop(e)
  BY DEF NextItem
<1> HIDE DEF e
<1>3. Cur(Loop(e)) = Cur(e)
  BY <1>1, LoopFacts DEF Cur
<1> QED
  BY <1>1, <1>2, <1>3, LoopFacts

\* Counting a row changes nothing else.
LEMMA CountedFacts ==
    ASSUME NEW c \in Shape
    PROVE  /\ Counted(c) \in Shape
           /\ Counted(c).pc = c.pc /\ Counted(c).batch = c.batch
           /\ Counted(c).i = c.i /\ Counted(c).ensured = c.ensured
           /\ Counted(c).total = c.total + 1
BY DEF Shape, Counted

\* A call that is not idle has a shape and, before its reply, an item in
\* hand.
LEMMA CallFacts ==
    ASSUME call \in [Handler -> Call \cup {Idle}], NEW h \in Handler
    PROVE  /\ call[h].pc # "idle" => call[h] \in Call /\ call[h] \in Shape
           /\ call[h].pc \notin {"idle", "reply"} => call[h].i \in DOMAIN call[h].batch
           /\ call[h].pc = "idle" => call[h] = Idle
BY DEF Call, Shape, Idle

\* After a statement the handler goes on as c or is idle, and only a fault
\* makes the difference.
LEMMA ResumeFacts ==
    ASSUME NEW h \in Handler, NEW c, Resume(h, c), faults \in 0 .. MaxFaults
    PROVE  \E d \in {c, Idle} :
              /\ call' = [call EXCEPT ![h] = d]
              /\ faults' \in 0 .. MaxFaults
              /\ faults' >= faults
              /\ d = c \/ faults' = faults + 1
BY BoundsAssumption DEF Resume

\* One handler's call replaced by an idle or a well-formed one.
LEMMA CallType ==
    ASSUME call \in [Handler -> Call \cup {Idle}], NEW h \in Handler,
           NEW d \in Call \cup {Idle}, call' = [call EXCEPT ![h] = d]
    PROVE  call' \in [Handler -> Call \cup {Idle}]
OBVIOUS

-----------------------------------------------------------------------------
(***************************************************************************)
(* Type correctness.                                                       *)
(***************************************************************************)

\* Each statement, the reply and the fault keep TypeOK.
LEMMA TypeStep == TypeOK /\ [Next]_vars => TypeOK'
<1> SUFFICES ASSUME TypeOK, [Next]_vars PROVE TypeOK'
  OBVIOUS
<1> USE DEF TypeOK
<1>idle. Idle \in Call \cup {Idle}
  OBVIOUS
<1>1. ASSUME NEW h \in Handler, NEW b \in Batch, Receive(h, b) PROVE TypeOK'
  <2> DEFINE d == IF ValidBatch(b) THEN Loop(Start(b)) ELSE Idle
  <2>1. ValidBatch(b) => Start(b) \in Shape
    BY DEF Shape, Start
  <2>2. d \in Call \cup {Idle}
    BY <2>1, LoopFacts
  <2>3. call' = [call EXCEPT ![h] = d]
    BY <1>1 DEF Receive
  <2> HIDE DEF d
  <2>4. call' \in [Handler -> Call \cup {Idle}]
    BY <2>2, <2>3, CallType
  <2>5. calls' \in 0 .. MaxCalls
    BY <1>1, BoundsAssumption DEF Receive
  <2> QED
    BY <1>1, <2>4, <2>5 DEF Receive, TablesTypeOK, tables, history
<1>2. ASSUME NEW h \in Handler, EnsureCredit(h) PROVE TypeOK'
  <2> DEFINE c == call[h]
             n == IF HasAccount(User(c)) THEN Ensured(c) ELSE [c EXCEPT !.pc = "account"]
  <2>1. c \in Call /\ c \in Shape /\ c.i \in DOMAIN c.batch
    BY <1>2, CallFacts DEF EnsureCredit
  <2>2. User(c) \in Digest /\ Cur(c).user \in RawId
    BY <2>1, ItemInHand
  <2>3. n \in Call
    BY <2>1, <2>2 DEF Call, Ensured
  <2>4. Resume(h, n) /\ UpsertAndGetFreeCredit(User(c))
    BY <1>2 DEF EnsureCredit
  <2> HIDE DEF n
  <2>5. PICK d \in {n, Idle} :
           call' = [call EXCEPT ![h] = d] /\ faults' \in 0 .. MaxFaults
    BY <2>4, ResumeFacts
  <2>6. call' \in [Handler -> Call \cup {Idle}]
    BY <2>3, <2>5, CallType
  <2>7. TablesTypeOK'
    BY <1>2, <2>2, <2>4, CreditType DEF EnsureCredit
  <2> QED
    BY <1>2, <2>5, <2>6, <2>7 DEF EnsureCredit, history
<1>3. ASSUME NEW h \in Handler, EnsureAccount(h) PROVE TypeOK'
  <2> DEFINE c == call[h]
             n == [c EXCEPT !.pc = "recredit"]
  <2>1. c \in Call /\ c \in Shape /\ c.i \in DOMAIN c.batch
    BY <1>3, CallFacts DEF EnsureAccount
  <2>2. User(c) \in Digest
    BY <2>1, ItemInHand
  <2>3. n \in Call
    BY <2>1 DEF Call
  <2>4. Resume(h, n) /\ UpsertUserAccount(User(c), Null, Null)
    BY <1>3 DEF EnsureAccount
  <2> HIDE DEF n
  <2>5. PICK d \in {n, Idle} :
           call' = [call EXCEPT ![h] = d] /\ faults' \in 0 .. MaxFaults
    BY <2>4, ResumeFacts
  <2>6. call' \in [Handler -> Call \cup {Idle}]
    BY <2>3, <2>5, CallType
  <2>7. TablesTypeOK'
    BY <1>3, <2>2, <2>4, UpsertType DEF EnsureAccount
  <2> QED
    BY <1>3, <2>5, <2>6, <2>7 DEF EnsureAccount, history
<1>4. ASSUME NEW h \in Handler, RetryCredit(h) PROVE TypeOK'
  <2> DEFINE c == call[h]
             n == IF HasAccount(User(c)) THEN Ensured(c) ELSE Idle
  <2>1. c \in Call /\ c \in Shape /\ c.i \in DOMAIN c.batch
    BY <1>4, CallFacts DEF RetryCredit
  <2>2. User(c) \in Digest /\ Cur(c).user \in RawId
    BY <2>1, ItemInHand
  <2>3. n \in Call \cup {Idle}
    BY <2>1, <2>2 DEF Call, Ensured
  <2>4. Resume(h, n) /\ UpsertAndGetFreeCredit(User(c))
    BY <1>4 DEF RetryCredit
  <2> HIDE DEF n
  <2>5. PICK d \in {n, Idle} :
           call' = [call EXCEPT ![h] = d] /\ faults' \in 0 .. MaxFaults
    BY <2>4, ResumeFacts
  <2>6. call' \in [Handler -> Call \cup {Idle}]
    BY <2>3, <2>5, CallType
  <2>7. TablesTypeOK'
    BY <1>4, <2>2, <2>4, CreditType DEF RetryCredit
  <2> QED
    BY <1>4, <2>5, <2>6, <2>7 DEF RetryCredit, history
<1>5. ASSUME NEW h \in Handler, InsertUnit(h) PROVE TypeOK'
  <2> DEFINE c == call[h]
             n == IF Key(c) \in DOMAIN spending_unit THEN NextItem(c)
                  ELSE IF HasAccount(User(c))
                       THEN [Counted(c) EXCEPT !.pc = "consume"] ELSE Idle
  <2>1. c \in Call /\ c \in Shape /\ c.i \in DOMAIN c.batch
    BY <1>5, CallFacts DEF InsertUnit
  <2>2. Key(c) \in Digest /\ UnitOf(c) \in UnitRow
    BY <2>1, ItemInHand
  <2>3. NextItem(c) \in Call
    BY <2>1, NextFacts
  <2>4. [Counted(c) EXCEPT !.pc = "consume"] \in Call
    <3>1. Counted(c) \in Call
      BY <2>1 DEF Counted, Call
    <3> QED
      BY <2>1, <3>1, CountedFacts DEF Call
  <2>5. n \in Call \cup {Idle}
    BY <2>3, <2>4
  <2>6. Resume(h, n) /\ InsertSpendingUnit(Key(c), UnitOf(c))
    BY <1>5 DEF InsertUnit
  <2> HIDE DEF n
  <2>7. PICK d \in {n, Idle} :
           call' = [call EXCEPT ![h] = d] /\ faults' \in 0 .. MaxFaults
    BY <2>6, ResumeFacts
  <2>8. call' \in [Handler -> Call \cup {Idle}]
    BY <2>5, <2>7, CallType
  <2>9. TablesTypeOK'
    BY <1>5, <2>2, <2>6, InsertType DEF InsertUnit
  <2> QED
    BY <1>5, <2>7, <2>8, <2>9 DEF InsertUnit, history
<1>6. ASSUME NEW h \in Handler, Consume(h) PROVE TypeOK'
  <2> DEFINE c == call[h]
  <2>1. c \in Call /\ c \in Shape /\ c.i \in DOMAIN c.batch
    BY <1>6, CallFacts DEF Consume
  <2>2. Key(c) \in Digest /\ User(c) \in Digest /\ Cur(c).amount \in Nat
    BY <2>1, ItemInHand
  <2>3. NextItem(c) \in Call
    BY <2>1, NextFacts
  <2>4. Resume(h, NextItem(c)) /\ ConsumeFreeCredit(User(c), Cur(c).amount)
    BY <1>6 DEF Consume
  <2>5. PICK d \in {NextItem(c), Idle} :
           call' = [call EXCEPT ![h] = d] /\ faults' \in 0 .. MaxFaults
    BY <2>4, ResumeFacts
  <2>6. call' \in [Handler -> Call \cup {Idle}]
    BY <2>3, <2>5, CallType
  <2>7. TablesTypeOK'
    BY <1>6, <2>2, <2>4, ConsumeType DEF Consume
  <2>8. charged' \subseteq Digest
    BY <1>6, <2>2 DEF Consume
  <2> QED
    BY <1>6, <2>5, <2>6, <2>7, <2>8 DEF Consume
<1>7. ASSUME NEW h \in Handler, Reply(h) PROVE TypeOK'
  <2>1. call[h] \in Call
    BY <1>7, CallFacts DEF Reply
  <2>2. call[h].batch \in Batch /\ call[h].total \in Nat
    BY <2>1 DEF Call
  <2>3. call' \in [Handler -> Call \cup {Idle}]
    BY <1>7, <1>idle, CallType DEF Reply
  <2> QED
    BY <1>7, <2>2, <2>3 DEF Reply, TablesTypeOK, tables
<1>8. ASSUME NEW h \in Handler, Abort(h) PROVE TypeOK'
  <2>1. call' \in [Handler -> Call \cup {Idle}]
    BY <1>8, <1>idle, CallType DEF Abort
  <2>2. faults' \in 0 .. MaxFaults
    BY <1>8, BoundsAssumption DEF Abort
  <2> QED
    BY <1>8, <2>1, <2>2 DEF Abort, TablesTypeOK, tables, history
<1>9. ASSUME UNCHANGED vars PROVE TypeOK'
  BY <1>9 DEF vars, tables, history, TablesTypeOK
<1> QED
  BY <1>1, <1>2, <1>3, <1>4, <1>5, <1>6, <1>7, <1>8, <1>9 DEF Next, Step

\* In every reachable state the tables hold digests and no raw identifier,
\* and every call under way is of a batch the server accepted.
THEOREM TypeCorrect == Spec => []TypeOK
<1>1. Init => TypeOK
  BY BoundsAssumption DEF Init, TypeOK, TablesInit, TablesTypeOK, EmptyTable, Idle
<1> QED
  BY <1>1, TypeStep, PTL DEF Spec

-----------------------------------------------------------------------------
(***************************************************************************)
(* The inductive invariant.  ChargedAtMostOnce and CreditRowBeforeUnit     *)
(* need each other (a charge takes effect only on a credit row) and        *)
(* CallInv (a handler that skips GetFreeCredit relies on an earlier item   *)
(* of its batch).                                                          *)
(***************************************************************************)

IInv ==
    /\ TypeOK
    /\ CallInv
    /\ ChargedAtMostOnce
    /\ CreditRowBeforeUnit
    /\ AckedIsRecorded

\* Users who have both an account and a credit row.
Users == DOMAIN user_account \cap DOMAIN free_credit

\* What CallInv says of a call c, when U have their rows and S are recorded.
CallOK(c, U, S) ==
    /\ c.pc = "reply" => c.i > Len(c.batch)
    /\ \A j \in 1 .. (c.i - 1) : j \in DOMAIN c.batch =>
          HashExternalID(c.batch[j].external) \in S
    /\ c.pc \in {"insert", "consume"} => Cur(c).user \in c.ensured
    /\ \A r \in c.ensured : HashExternalID(r) \in U

LEMMA CallInvDef ==
    CallInv <=> \A h \in Handler : CallOK(call[h], Users, DOMAIN spending_unit)
BY DEF CallInv, CallOK, Users

LEMMA IdleOK == \A U, S : CallOK(Idle, U, S) /\ Idle.pc # "consume"
BY DEF CallOK, Idle

\* Tables that only grow keep what was true of a call.
LEMMA CallOKGrows ==
    ASSUME NEW c, NEW U1, NEW S1, NEW U2, NEW S2,
           CallOK(c, U1, S1), U1 \subseteq U2, S1 \subseteq S2
    PROVE  CallOK(c, U2, S2)
BY DEF CallOK

\* A statement of one handler h keeps IInv if the tables only grow, what it
\* charges no other handler is about to charge, and the call it leaves
\* behind is as IInv wants it.
LEMMA OneHandlerStep ==
    ASSUME IInv, TypeOK', NEW h \in Handler, NEW d,
           call' = [call EXCEPT ![h] = d],
           Users \subseteq Users',
           \A k \in DOMAIN spending_unit :
              k \in DOMAIN spending_unit' /\ spending_unit'[k] = spending_unit[k],
           \A k \in DOMAIN spending_unit' : spending_unit'[k].user \in Users',
           charged' \subseteq DOMAIN spending_unit',
           \A g \in Handler \ {h} : call[g].pc = "consume" =>
              Key(call[g]) \notin charged',
           CallOK(d, Users', DOMAIN spending_unit'),
           d.pc = "consume" =>
              /\ Key(d) \in DOMAIN spending_unit' \ charged'
              /\ spending_unit'[Key(d)] = UnitOf(d)
              /\ \A g \in Handler \ {h} : call[g].pc = "consume" =>
                    Key(call[g]) # Key(d),
           \A b \in acked' : \A i \in DOMAIN b :
              HashExternalID(b[i].external) \in DOMAIN spending_unit'
    PROVE  IInv'
<1>1. /\ call'[h] = d
      /\ \A g \in Handler \ {h} : call'[g] = call[g]
  BY DEF IInv, TypeOK
<1>2. \A g \in Handler : CallOK(call'[g], Users', DOMAIN spending_unit')
  <2>1. \A g \in Handler : CallOK(call[g], Users, DOMAIN spending_unit)
    BY CallInvDef DEF IInv
  <2>2. DOMAIN spending_unit \subseteq DOMAIN spending_unit'
    OBVIOUS
  <2>3. \A g \in Handler \ {h} : CallOK(call[g], Users', DOMAIN spending_unit')
    BY <2>1, <2>2, CallOKGrows
  <2> QED
    BY <1>1, <2>3
<1>3. CallInv'
  BY <1>2 DEF CallInv, CallOK, Users
<1>4. ChargedAtMostOnce'
  <2>1. ASSUME NEW g \in Handler, call'[g].pc = "consume"
        PROVE  /\ Key(call'[g]) \in DOMAIN spending_unit' \ charged'
               /\ spending_unit'[Key(call'[g])] = UnitOf(call'[g])
    BY <1>1, <2>1 DEF IInv, ChargedAtMostOnce
  <2>2. ASSUME NEW g \in Handler, call'[g].pc = "consume",
               NEW f \in Handler \ {g}, call'[f].pc = "consume"
        PROVE  Key(call'[f]) # Key(call'[g])
    BY <1>1, <2>2 DEF IInv, ChargedAtMostOnce
  <2> QED
    BY <2>1, <2>2 DEF ChargedAtMostOnce
<1>5. CreditRowBeforeUnit'
  BY <1>2 DEF CreditRowBeforeUnit, CallOK, Users, User
<1> QED
  BY <1>3, <1>4, <1>5 DEF IInv, AckedIsRecorded

\* A step that leaves the tables and the charges alone.
LEMMA QuietStep ==
    ASSUME IInv, TypeOK', NEW h \in Handler, NEW d,
           call' = [call EXCEPT ![h] = d],
           UNCHANGED <<tables, charged>>,
           CallOK(d, Users, DOMAIN spending_unit),
           d.pc # "consume",
           \A b \in acked' : \A i \in DOMAIN b :
              HashExternalID(b[i].external) \in DOMAIN spending_unit
    PROVE  IInv'
<1>1. Users' = Users /\ spending_unit' = spending_unit /\ charged' = charged
  BY DEF Users, tables
<1>2. \A k \in DOMAIN spending_unit : spending_unit[k].user \in Users
  BY DEF IInv, CreditRowBeforeUnit, Users
<1>3. /\ charged \subseteq DOMAIN spending_unit
      /\ \A g \in Handler \ {h} : call[g].pc = "consume" => Key(call[g]) \notin charged
  BY DEF IInv, ChargedAtMostOnce
<1> QED
  BY <1>1, <1>2, <1>3, OneHandlerStep

\* What a call knows that is at an item: the digests are in range and the
\* users it ensured have their rows.
LEMMA AtItem ==
    ASSUME IInv, NEW h \in Handler, call[h].pc \notin {"idle", "reply"}
    PROVE  /\ call[h] \in Shape
           /\ call[h].i \in DOMAIN call[h].batch
           /\ Key(call[h]) \in Digest
           /\ User(call[h]) \in Digest
           /\ UnitOf(call[h]) \in UnitRow
           /\ UnitOf(call[h]).user = User(call[h])
           /\ Cur(call[h]).amount \in Nat
           /\ CallOK(call[h], Users, DOMAIN spending_unit)
           /\ call[h].pc \in {"insert", "consume"} => User(call[h]) \in Users
<1>1. call[h] \in Shape /\ call[h].i \in DOMAIN call[h].batch
  BY CallFacts DEF IInv, TypeOK
<1>2. CallOK(call[h], Users, DOMAIN spending_unit)
  BY CallInvDef DEF IInv
<1>3. call[h].pc \in {"insert", "consume"} => User(call[h]) \in Users
  BY <1>2 DEF CallOK, User
<1> QED
  BY <1>1, <1>2, <1>3, ItemInHand

\* The call goes on with the next item once the one in hand is recorded.
LEMMA NextOK ==
    ASSUME NEW c \in Shape, NEW U, NEW S,
           c.i \in DOMAIN c.batch, CallOK(c, U, S), Key(c) \in S
    PROVE  CallOK(NextItem(c), U, S)
<1> DEFINE n == NextItem(c)
<1>1. /\ n.batch = c.batch /\ n.i = c.i + 1 /\ n.ensured = c.ensured
      /\ n.pc \in {"reply", "insert", "credit"}
      /\ n.pc = "reply" => c.i + 1 > Len(c.batch)
      /\ n.pc = "insert" => Cur(n).user \in c.ensured
  BY NextFacts
<1>2. c.i \in Nat
  BY DEF Shape
<1>3. \A j \in 1 .. (n.i - 1) : j \in 1 .. (c.i - 1) \/ j = c.i
  BY <1>1, <1>2
<1> HIDE DEF n
<1>4. \A j \in 1 .. (n.i - 1) : j \in DOMAIN n.batch =>
         HashExternalID(n.batch[j].external) \in S
  BY <1>1, <1>3 DEF CallOK, Key, Cur
<1>5. CallOK(n, U, S)
  BY <1>1, <1>4 DEF CallOK
<1> QED
  BY <1>5 DEF n

\* The call goes on to the insert once its user has both rows.
LEMMA EnsuredOK ==
    ASSUME NEW c \in Shape, NEW U, NEW S, CallOK(c, U, S), User(c) \in U
    PROVE  CallOK(Ensured(c), U, S) /\ Ensured(c).pc = "insert"
<1> DEFINE n == Ensured(c)
<1>1. /\ n.pc = "insert" /\ n.batch = c.batch /\ n.i = c.i
      /\ n.ensured = c.ensured \cup {Cur(c).user}
  BY DEF Ensured, Shape
<1> HIDE DEF n
<1>2. Cur(n) = Cur(c)
  BY <1>1 DEF Cur
<1>3. CallOK(n, U, S)
  BY <1>1, <1>2 DEF CallOK, User
<1> QED
  BY <1>1, <1>3 DEF n

\* The two statements of GetFreeCredit that touch free_credit keep IInv.
LEMMA CreditStep ==
    ASSUME IInv, TypeOK', NEW h \in Handler, NEW n,
           call[h].pc \in {"credit", "recredit"},
           UpsertAndGetFreeCredit(User(call[h])),
           Resume(h, n),
           HasAccount(User(call[h])) => n = Ensured(call[h]),
           ~HasAccount(User(call[h])) => n \in {Idle, [call[h] EXCEPT !.pc = "account"]},
           UNCHANGED <<user_account, spending_unit, invalid_subscription, history, calls>>
    PROVE  IInv'
<1> DEFINE c == call[h]
           u == User(c)
<1>1. /\ c \in Shape /\ c.i \in DOMAIN c.batch /\ u \in Digest
      /\ CallOK(c, Users, DOMAIN spending_unit)
  BY AtItem
<1>2. /\ DOMAIN free_credit \subseteq DOMAIN free_credit'
      /\ HasAccount(u) => DOMAIN free_credit' = DOMAIN free_credit \cup {u}
  BY <1>1, CreditType DEF IInv, TypeOK
<1>3. Users \subseteq Users' /\ (HasAccount(u) => u \in Users')
  BY <1>2 DEF Users, HasAccount
<1>4. CallOK(c, Users', DOMAIN spending_unit)
  BY <1>1, <1>3, CallOKGrows
<1>5. CallOK(n, Users', DOMAIN spending_unit) /\ n.pc # "consume"
  <2>1. CASE HasAccount(u)
    BY <1>1, <1>3, <1>4, <2>1, EnsuredOK
  <2>2. CASE n = Idle
    BY <2>2, IdleOK
  <2>3. CASE n = [c EXCEPT !.pc = "account"]
    <3>1. /\ n.pc = "account" /\ n.batch = c.batch /\ n.i = c.i
          /\ n.ensured = c.ensured
      BY <1>1, <2>3 DEF Shape
    <3> QED
      BY <1>4, <3>1 DEF CallOK
  <2> QED
    BY <2>1, <2>2, <2>3
<1>6. PICK d \in {n, Idle} : call' = [call EXCEPT ![h] = d]
  BY ResumeFacts DEF IInv, TypeOK
<1>7. CallOK(d, Users', DOMAIN spending_unit) /\ d.pc # "consume"
  BY <1>5, <1>6, IdleOK
<1>8. spending_unit' = spending_unit /\ charged' = charged /\ acked' = acked
  BY DEF history
<1>9. /\ \A k \in DOMAIN spending_unit : spending_unit[k].user \in Users'
      /\ charged \subseteq DOMAIN spending_unit
      /\ \A g \in Handler \ {h} : call[g].pc = "consume" => Key(call[g]) \notin charged
      /\ \A b \in acked : \A i \in DOMAIN b :
            HashExternalID(b[i].external) \in DOMAIN spending_unit
  BY <1>3 DEF IInv, CreditRowBeforeUnit, ChargedAtMostOnce, AckedIsRecorded, Users
<1> QED
  BY <1>3, <1>6, <1>7, <1>8, <1>9, OneHandlerStep

\* Every step keeps IInv.
LEMMA InvStep == IInv /\ [Next]_vars => IInv'
<1> SUFFICES ASSUME IInv, [Next]_vars PROVE IInv'
  OBVIOUS
<1>type. TypeOK'
  BY TypeStep DEF IInv
<1>old. /\ \A k \in DOMAIN spending_unit : spending_unit[k].user \in Users
        /\ charged \subseteq DOMAIN spending_unit
        /\ \A b \in acked : \A i \in DOMAIN b :
              HashExternalID(b[i].external) \in DOMAIN spending_unit
  BY DEF IInv, CreditRowBeforeUnit, ChargedAtMostOnce, AckedIsRecorded, Users
<1>1. ASSUME NEW h \in Handler, NEW b \in Batch, Receive(h, b) PROVE IInv'
  <2> DEFINE d == IF ValidBatch(b) THEN Loop(Start(b)) ELSE Idle
  <2>1. CASE ValidBatch(b)
    <3>1. Start(b) \in Shape /\ Start(b).i = 1 /\ Start(b).ensured = {}
      BY <2>1 DEF Shape, Start
    <3> DEFINE e == Loop(Start(b))
    <3>2. /\ e.i = 1 /\ e.ensured = {} /\ e.batch = Start(b).batch
          /\ e.pc \in {"reply", "insert", "credit"}
          /\ e.pc = "reply" => 1 > Len(e.batch)
          /\ e.pc = "insert" => Cur(Start(b)).user \in {}
      BY <3>1, LoopFacts
    <3> HIDE DEF e
    <3>3. CallOK(e, Users, DOMAIN spending_unit) /\ e.pc # "consume"
      BY <3>2 DEF CallOK
    <3> QED
      BY <1>1, <1>type, <1>old, <2>1, <3>3, QuietStep DEF e, Receive, history
  <2>2. CASE ~ValidBatch(b)
    BY <1>1, <1>type, <1>old, <2>2, IdleOK, QuietStep DEF Receive, history, Idle
  <2> QED
    BY <2>1, <2>2
<1>2. ASSUME NEW h \in Handler, EnsureCredit(h) PROVE IInv'
  <2> DEFINE n == IF HasAccount(User(call[h])) THEN Ensured(call[h])
                  ELSE [call[h] EXCEPT !.pc = "account"]
  <2>1. Resume(h, n) /\ UpsertAndGetFreeCredit(User(call[h])) /\ call[h].pc = "credit"
    BY <1>2 DEF EnsureCredit
  <2>2. /\ HasAccount(User(call[h])) => n = Ensured(call[h])
        /\ ~HasAccount(User(call[h])) => n = [call[h] EXCEPT !.pc = "account"]
    OBVIOUS
  <2> HIDE DEF n
  <2> QED
    BY <1>2, <1>type, <2>1, <2>2, CreditStep DEF EnsureCredit
<1>3. ASSUME NEW h \in Handler, EnsureAccount(h) PROVE IInv'
  <2> DEFINE c == call[h]
             n == [c EXCEPT !.pc = "recredit"]
  <2>1. /\ c \in Shape /\ User(c) \in Digest
        /\ CallOK(c, Users, DOMAIN spending_unit)
    BY <1>3, AtItem DEF EnsureAccount
  <2>2. DOMAIN user_account' = DOMAIN user_account \cup {User(c)}
    BY <1>3, <2>1, UpsertType DEF EnsureAccount, IInv, TypeOK
  <2>3. Users \subseteq Users'
    BY <1>3, <2>2 DEF Users, EnsureAccount
  <2>4. /\ n.pc = "recredit" /\ n.batch = c.batch /\ n.i = c.i
        /\ n.ensured = c.ensured
    BY <2>1 DEF Shape
  <2>5. Resume(h, n)
    BY <1>3 DEF EnsureAccount
  <2> HIDE DEF n
  <2>6. CallOK(c, Users', DOMAIN spending_unit)
    BY <2>1, <2>3, CallOKGrows
  <2>7. CallOK(n, Users', DOMAIN spending_unit)
    BY <2>4, <2>6 DEF CallOK
  <2>8. PICK d \in {n, Idle} : call' = [call EXCEPT ![h] = d]
    BY <2>5, ResumeFacts DEF IInv, TypeOK
  <2>9. CallOK(d, Users', DOMAIN spending_unit) /\ d.pc # "consume"
    BY <2>4, <2>7, <2>8, IdleOK
  <2>10. spending_unit' = spending_unit /\ charged' = charged /\ acked' = acked
    BY <1>3 DEF EnsureAccount, history
  <2>11. /\ \A k \in DOMAIN spending_unit : spending_unit[k].user \in Users'
         /\ \A g \in Handler \ {h} : call[g].pc = "consume" => Key(call[g]) \notin charged
    BY <1>old, <2>3 DEF IInv, ChargedAtMostOnce
  <2> QED
    BY <1>old, <1>type, <2>3, <2>8, <2>9, <2>10, <2>11, OneHandlerStep
<1>4. ASSUME NEW h \in Handler, RetryCredit(h) PROVE IInv'
  <2> DEFINE n == IF HasAccount(User(call[h])) THEN Ensured(call[h]) ELSE Idle
  <2>1. Resume(h, n) /\ UpsertAndGetFreeCredit(User(call[h])) /\ call[h].pc = "recredit"
    BY <1>4 DEF RetryCredit
  <2>2. /\ HasAccount(User(call[h])) => n = Ensured(call[h])
        /\ ~HasAccount(User(call[h])) => n = Idle
    OBVIOUS
  <2> HIDE DEF n
  <2> QED
    BY <1>4, <1>type, <2>1, <2>2, CreditStep DEF RetryCredit
<1>5. ASSUME NEW h \in Handler, InsertUnit(h) PROVE IInv'
  <2> DEFINE c == call[h]
             k == Key(c)
             new == k \notin DOMAIN spending_unit
             n == IF k \in DOMAIN spending_unit THEN NextItem(c)
                  ELSE IF HasAccount(User(c))
                       THEN [Counted(c) EXCEPT !.pc = "consume"] ELSE Idle
  <2>1. /\ c \in Shape /\ c.i \in DOMAIN c.batch /\ k \in Digest
        /\ UnitOf(c) \in UnitRow /\ UnitOf(c).user = User(c)
        /\ CallOK(c, Users, DOMAIN spending_unit) /\ User(c) \in Users
        /\ c.pc = "insert"
    BY <1>5, AtItem DEF InsertUnit
  <2>2. HasAccount(User(c))
    BY <2>1 DEF Users, HasAccount
  <2>3. /\ \A j \in DOMAIN spending_unit :
             j \in DOMAIN spending_unit' /\ spending_unit'[j] = spending_unit[j]
        /\ ~new => spending_unit' = spending_unit
        /\ new => /\ DOMAIN spending_unit' = DOMAIN spending_unit \cup {k}
                  /\ spending_unit'[k] = UnitOf(c)
    BY <1>5, <2>1, <2>2, InsertType DEF InsertUnit, IInv, TypeOK
  <2>4. k \in DOMAIN spending_unit'
    BY <2>3
  <2>5. Users' = Users /\ charged' = charged /\ acked' = acked
    BY <1>5 DEF InsertUnit, Users, history
  <2>6. CallOK(c, Users, DOMAIN spending_unit')
    BY <2>1, <2>3, CallOKGrows
  <2>7. CASE ~new
    <3>1. CallOK(NextItem(c), Users, DOMAIN spending_unit') /\ NextItem(c).pc # "consume"
      BY <2>1, <2>4, <2>6, NextOK, NextFacts
    <3>2. Resume(h, NextItem(c))
      BY <1>5, <2>7 DEF InsertUnit
    <3>3. PICK d \in {NextItem(c), Idle} : call' = [call EXCEPT ![h] = d]
      BY <3>2, ResumeFacts DEF IInv, TypeOK
    <3>4. CallOK(d, Users, DOMAIN spending_unit') /\ d.pc # "consume"
      BY <3>1, <3>3, IdleOK
    <3>5. UNCHANGED <<tables, charged>>
      BY <1>5, <2>3, <2>7 DEF InsertUnit, tables, history
    <3> QED
      BY <1>old, <1>type, <2>3, <2>5, <2>7, <3>3, <3>4, <3>5, QuietStep
  <2>8. CASE new
    <3> DEFINE e == [Counted(c) EXCEPT !.pc = "consume"]
    <3>1. /\ e.pc = "consume" /\ e.batch = c.batch /\ e.i = c.i
          /\ e.ensured = c.ensured
      BY <2>1, CountedFacts DEF Shape
    <3>2. Resume(h, e)
      BY <1>5, <2>2, <2>8 DEF InsertUnit
    <3> HIDE DEF e
    <3>3. Cur(e) = Cur(c)
      BY <3>1 DEF Cur
    <3>4. Key(e) = k /\ UnitOf(e) = UnitOf(c)
      BY <3>3 DEF Key, UnitOf, User
    <3>5. CallOK(e, Users, DOMAIN spending_unit')
      BY <2>1, <2>6, <3>1, <3>3 DEF CallOK
    <3>6. PICK d \in {e, Idle} : call' = [call EXCEPT ![h] = d]
      BY <3>2, ResumeFacts DEF IInv, TypeOK
    <3>7. CallOK(d, Users, DOMAIN spending_unit')
      BY <3>5, <3>6, IdleOK
    <3>8. /\ k \notin charged
          /\ \A g \in Handler \ {h} : call[g].pc = "consume" =>
                Key(call[g]) # k /\ Key(call[g]) \notin charged
      BY <2>8 DEF IInv, ChargedAtMostOnce
    <3>9. d.pc = "consume" =>
             /\ Key(d) = k
             /\ spending_unit'[Key(d)] = UnitOf(d)
      BY <2>3, <2>8, <3>4, <3>6 DEF Idle
    <3>10. \A j \in DOMAIN spending_unit' : spending_unit'[j].user \in Users
      BY <1>old, <2>1, <2>3, <2>8
    <3>11. /\ charged \subseteq DOMAIN spending_unit'
           /\ \A b \in acked : \A i \in DOMAIN b :
                 HashExternalID(b[i].external) \in DOMAIN spending_unit'
      BY <1>old, <2>3
    <3> QED
      BY <1>type, <2>3, <2>4, <2>5, <3>6, <3>7, <3>8, <3>9, <3>10, <3>11, OneHandlerStep
  <2> QED
    BY <2>7, <2>8
<1>6. ASSUME NEW h \in Handler, Consume(h) PROVE IInv'
  <2> DEFINE c == call[h]
             k == Key(c)
  <2>1. /\ c \in Shape /\ c.i \in DOMAIN c.batch /\ User(c) \in Digest
        /\ Cur(c).amount \in Nat
        /\ CallOK(c, Users, DOMAIN spending_unit) /\ c.pc = "consume"
    BY <1>6, AtItem DEF Consume
  <2>2. DOMAIN free_credit' = DOMAIN free_credit
    BY <1>6, <2>1, ConsumeType DEF Consume, IInv, TypeOK
  <2>3. Users' = Users /\ spending_unit' = spending_unit /\ acked' = acked
    BY <1>6, <2>2 DEF Consume, Users
  <2>4. k \in DOMAIN spending_unit /\ charged' \subseteq charged \cup {k}
    BY <1>6, <2>1 DEF Consume, IInv, ChargedAtMostOnce
  <2>5. \A g \in Handler \ {h} : call[g].pc = "consume" => Key(call[g]) \notin charged'
    BY <2>1, <2>4 DEF IInv, ChargedAtMostOnce
  <2>6. CallOK(NextItem(c), Users, DOMAIN spending_unit) /\ NextItem(c).pc # "consume"
    BY <2>1, <2>4, NextOK, NextFacts
  <2>7. PICK d \in {NextItem(c), Idle} : call' = [call EXCEPT ![h] = d]
    BY <1>6, ResumeFacts DEF IInv, TypeOK, Consume
  <2>8. CallOK(d, Users, DOMAIN spending_unit) /\ d.pc # "consume"
    BY <2>6, <2>7, IdleOK
  <2> QED
    BY <1>old, <1>type, <2>3, <2>4, <2>5, <2>7, <2>8, OneHandlerStep
<1>7. ASSUME NEW h \in Handler, Reply(h) PROVE IInv'
  <2> DEFINE c == call[h]
  <2>1. c \in Shape /\ c.pc = "reply" /\ CallOK(c, Users, DOMAIN spending_unit)
    BY <1>7, CallFacts, CallInvDef DEF Reply, IInv, TypeOK
  <2>2. c.batch \in Seq(Item) /\ c.i \in Nat
    BY <2>1, BatchAssumption DEF Shape
  <2>3. \A i \in DOMAIN c.batch : i \in 1 .. (c.i - 1)
    BY <2>1, <2>2 DEF CallOK
  <2>4. \A i \in DOMAIN c.batch :
           HashExternalID(c.batch[i].external) \in DOMAIN spending_unit
    BY <2>1, <2>3 DEF CallOK
  <2>5. acked' = acked \cup {c.batch} /\ call' = [call EXCEPT ![h] = Idle]
        /\ UNCHANGED <<tables, charged>>
    BY <1>7 DEF Reply
  <2>6. \A b \in acked' : \A i \in DOMAIN b :
           HashExternalID(b[i].external) \in DOMAIN spending_unit
    BY <1>old, <2>4, <2>5
  <2>7. CallOK(Idle, Users, DOMAIN spending_unit) /\ Idle.pc # "consume"
    BY IdleOK
  <2> QED
    BY <1>type, <2>5, <2>6, <2>7, QuietStep
<1>8. ASSUME NEW h \in Handler, Abort(h) PROVE IInv'
  <2>1. /\ call' = [call EXCEPT ![h] = Idle]
        /\ UNCHANGED <<tables, charged>> /\ acked' = acked
    BY <1>8 DEF Abort, history
  <2>2. CallOK(Idle, Users, DOMAIN spending_unit) /\ Idle.pc # "consume"
    BY IdleOK
  <2> QED
    BY <1>old, <1>type, <2>1, <2>2, QuietStep
<1>9. ASSUME UNCHANGED vars PROVE IInv'
  BY <1>9, <1>type DEF IInv, vars, tables, history, CallInv, ChargedAtMostOnce,
     CreditRowBeforeUnit, AckedIsRecorded
<1> QED
  BY <1>1, <1>2, <1>3, <1>4, <1>5, <1>6, <1>7, <1>8, <1>9 DEF Next, Step

LEMMA InvInit == Init => IInv
<1> SUFFICES ASSUME Init PROVE IInv
  OBVIOUS
<1>1. TypeOK
  BY BoundsAssumption DEF Init, TypeOK, TablesInit, TablesTypeOK, EmptyTable, Idle
<1>2. DOMAIN spending_unit = {} /\ charged = {} /\ acked = {}
  BY DEF Init, TablesInit, EmptyTable
<1>3. \A h \in Handler : call[h] = Idle
  BY DEF Init
<1>4. CallInv
  BY <1>3, IdleOK, CallInvDef
<1>5. \A h \in Handler : call[h].pc = "idle"
  BY <1>3 DEF Idle
<1> QED
  BY <1>1, <1>2, <1>4, <1>5 DEF IInv, ChargedAtMostOnce, CreditRowBeforeUnit, AckedIsRecorded

\* The invariant holds in every reachable state.
THEOREM Invariance == Spec => []IInv
BY InvInit, InvStep, PTL DEF Spec

\* The items before the one in hand are recorded, and whoever a call has
\* ensured has an account and a credit row, whatever other calls do (CallInv).
THEOREM CallsInOrder == Spec => []CallInv
<1>1. IInv => CallInv
  BY DEF IInv
<1> QED
  BY <1>1, Invariance, PTL

\* A unit is charged at most once, however many handlers insert it at the
\* same time and however often a batch is sent again.
THEOREM ChargedOnce == Spec => []ChargedAtMostOnce
<1>1. IInv => ChargedAtMostOnce
  BY DEF IInv
<1> QED
  BY <1>1, Invariance, PTL

\* A handler at its insert or its UPDATE finds the rows it relies on, also
\* when it skipped GetFreeCredit for the item: no foreign-key violation,
\* and no charge that meets no row.
THEOREM CreditRowFirst == Spec => []CreditRowBeforeUnit
<1>1. IInv => CreditRowBeforeUnit
  BY DEF IInv
<1> QED
  BY <1>1, Invariance, PTL

\* A batch answered without error has every one of its items recorded.
THEOREM AckedRecorded == Spec => []AckedIsRecorded
<1>1. IInv => AckedIsRecorded
  BY DEF IInv
<1> QED
  BY <1>1, Invariance, PTL

-----------------------------------------------------------------------------
(***************************************************************************)
(* The bound on what faults cost.                                          *)
(***************************************************************************)

\* Recorded units that nobody has charged or is about to charge.
Lost == DOMAIN spending_unit \ (charged \cup Pending)

\* What a step of h can do to the units about to be charged.
LEMMA PendingStep ==
    ASSUME IInv, NEW h \in Handler, NEW d, call' = [call EXCEPT ![h] = d]
    PROVE  /\ Pending \subseteq Pending' \cup {Key(call[h])}
           /\ call[h].pc # "consume" => Pending \subseteq Pending'
           /\ d.pc = "consume" => Key(d) \in Pending'
<1>1. /\ call'[h] = d
      /\ \A g \in Handler \ {h} : call'[g] = call[g]
  BY DEF IInv, TypeOK
<1>2. \A g \in Handler : call'[g].pc = "consume" => Key(call'[g]) \in Pending'
  BY DEF Pending
<1>3. \A g \in Handler \ {h} : call[g].pc = "consume" => Key(call[g]) \in Pending'
  BY <1>1, <1>2
<1> QED
  BY <1>1, <1>2, <1>3 DEF Pending

\* A step loses no unit, or one unit to a fault.
LEMMA LossStep ==
    IInv /\ [Next]_vars =>
        \/ Lost' \subseteq Lost /\ faults' \in Nat /\ faults' >= faults
        \/ (\E k : Lost' \subseteq Lost \cup {k}) /\ faults' = faults + 1
<1> DEFINE Goal ==
        \/ Lost' \subseteq Lost /\ faults' \in Nat /\ faults' >= faults
        \/ (\E k : Lost' \subseteq Lost \cup {k}) /\ faults' = faults + 1
<1> SUFFICES ASSUME IInv, [Next]_vars PROVE Goal
  OBVIOUS
<1>nat. faults \in Nat /\ faults' \in Nat
  BY TypeStep, BoundsAssumption DEF IInv, TypeOK
\* A step of h that records nothing.
<1>quiet. ASSUME NEW h \in Handler, NEW d, call' = [call EXCEPT ![h] = d],
                 spending_unit' = spending_unit, charged \subseteq charged',
                 call[h].pc = "consume" => Key(call[h]) \in charged',
                 faults' >= faults
          PROVE  Goal
  <2>1. Pending \subseteq Pending' \cup charged'
    BY <1>quiet, PendingStep
  <2> QED
    BY <1>nat, <1>quiet, <2>1 DEF Lost
<1>1. ASSUME NEW h \in Handler, NEW b \in Batch, Receive(h, b) PROVE Goal
  <2>1. PICK d : call' = [call EXCEPT ![h] = d]
    BY <1>1 DEF Receive
  <2>2. /\ spending_unit' = spending_unit /\ charged' = charged
        /\ faults' = faults /\ call[h].pc # "consume"
    BY <1>1 DEF Receive, tables, history
  <2>3. charged \subseteq charged' /\ faults' >= faults
    BY <1>nat, <2>2
  <2> QED
    BY <1>quiet, <2>1, <2>2, <2>3
<1>2. ASSUME NEW h \in Handler,
             EnsureCredit(h) \/ EnsureAccount(h) \/ RetryCredit(h)
      PROVE  Goal
  <2>1. PICK n : Resume(h, n)
    BY <1>2 DEF EnsureCredit, EnsureAccount, RetryCredit
  <2>2. PICK d : call' = [call EXCEPT ![h] = d] /\ faults' >= faults
    BY <2>1, ResumeFacts DEF IInv, TypeOK
  <2>3. /\ spending_unit' = spending_unit /\ charged' = charged
        /\ call[h].pc # "consume"
    BY <1>2 DEF EnsureCredit, EnsureAccount, RetryCredit, history
  <2> QED
    BY <1>quiet, <2>2, <2>3
<1>3. ASSUME NEW h \in Handler, InsertUnit(h) PROVE Goal
  <2> DEFINE c == call[h]
             k == Key(c)
  <2>1. /\ c \in Shape /\ k \in Digest /\ UnitOf(c) \in UnitRow
        /\ UnitOf(c).user = User(c) /\ User(c) \in Users /\ c.pc = "insert"
    BY <1>3, AtItem DEF InsertUnit
  <2>2. HasAccount(User(c))
    BY <2>1 DEF Users, HasAccount
  <2>3. /\ k \in DOMAIN spending_unit => spending_unit' = spending_unit
        /\ k \notin DOMAIN spending_unit =>
              DOMAIN spending_unit' = DOMAIN spending_unit \cup {k}
    BY <1>3, <2>1, <2>2, InsertType DEF InsertUnit, IInv, TypeOK
  <2>4. charged' = charged
    BY <1>3 DEF InsertUnit, history
  <2>5. CASE k \in DOMAIN spending_unit
    <3>1. Resume(h, NextItem(c))
      BY <1>3, <2>5 DEF InsertUnit
    <3>2. PICK d : call' = [call EXCEPT ![h] = d] /\ faults' >= faults
      BY <3>1, ResumeFacts DEF IInv, TypeOK
    <3> QED
      BY <1>quiet, <2>1, <2>3, <2>4, <2>5, <3>2
  <2>6. CASE k \notin DOMAIN spending_unit
    <3> DEFINE e == [Counted(c) EXCEPT !.pc = "consume"]
    <3>1. e.pc = "consume" /\ e.batch = c.batch /\ e.i = c.i
      BY <2>1, CountedFacts DEF Shape
    <3>2. Resume(h, e)
      BY <1>3, <2>2, <2>6 DEF InsertUnit
    <3> HIDE DEF e
    <3>3. Key(e) = k
      BY <3>1 DEF Key, Cur
    <3>4. PICK d \in {e, Idle} :
             /\ call' = [call EXCEPT ![h] = d]
             /\ d = e \/ faults' = faults + 1
             /\ faults' >= faults
      BY <3>2, ResumeFacts DEF IInv, TypeOK
    <3>5. Pending \subseteq Pending' /\ (d = e => k \in Pending')
      BY <2>1, <3>1, <3>3, <3>4, PendingStep
    <3>6. Lost' \subseteq Lost \cup {k} /\ (d = e => Lost' \subseteq Lost)
      BY <2>3, <2>4, <2>6, <3>5 DEF Lost
    <3> QED
      BY <1>nat, <3>4, <3>6
  <2> QED
    BY <2>5, <2>6
<1>4. ASSUME NEW h \in Handler, Consume(h) PROVE Goal
  <2>1. User(call[h]) \in DOMAIN free_credit
    BY <1>4 DEF Consume, IInv, CreditRowBeforeUnit
  <2>2. spending_unit' = spending_unit /\ charged' = charged \cup {Key(call[h])}
    BY <1>4, <2>1 DEF Consume
  <2>3. PICK d : call' = [call EXCEPT ![h] = d] /\ faults' >= faults
    BY <1>4, ResumeFacts DEF IInv, TypeOK, Consume
  <2> QED
    BY <1>quiet, <2>2, <2>3
<1>5. ASSUME NEW h \in Handler, Reply(h) PROVE Goal
  <2>1. /\ call' = [call EXCEPT ![h] = Idle] /\ call[h].pc # "consume"
        /\ spending_unit' = spending_unit /\ charged' = charged
        /\ faults' = faults
    BY <1>5 DEF Reply, tables
  <2>2. charged \subseteq charged' /\ faults' >= faults
    BY <1>nat, <2>1
  <2> QED
    BY <1>quiet, <2>1, <2>2
<1>6. ASSUME NEW h \in Handler, Abort(h) PROVE Goal
  <2>1. /\ call' = [call EXCEPT ![h] = Idle] /\ faults' = faults + 1
        /\ spending_unit' = spending_unit /\ charged' = charged
    BY <1>6 DEF Abort, tables, history
  <2>2. Pending \subseteq Pending' \cup {Key(call[h])}
    BY <2>1, PendingStep
  <2>3. Lost' \subseteq Lost \cup {Key(call[h])}
    BY <2>1, <2>2 DEF Lost
  <2> QED
    BY <2>1, <2>3
<1>7. ASSUME UNCHANGED vars PROVE Goal
  <2>1. Lost' = Lost
    BY <1>7 DEF vars, tables, history, Lost, Pending, Key, Cur
  <2> QED
    BY <1>7, <1>nat, <2>1 DEF vars
<1> QED
  BY <1>1, <1>2, <1>3, <1>4, <1>5, <1>6, <1>7 DEF Next, Step

\* What was lost can be counted, and there was a fault for each.
LInv == IsFiniteSet(Lost) /\ Cardinality(Lost) <= faults

LEMMA LossInit == Init => LInv
<1> SUFFICES ASSUME Init PROVE LInv
  OBVIOUS
<1>1. Lost = {} /\ faults = 0
  BY DEF Init, TablesInit, EmptyTable, Lost
<1> QED
  BY <1>1, FS_EmptySet DEF LInv

LEMMA LossInvStep == IInv /\ LInv /\ [Next]_vars => LInv'
<1> SUFFICES ASSUME IInv, LInv, [Next]_vars PROVE LInv'
  OBVIOUS
<1> USE DEF LInv
<1>1. faults \in Nat /\ Cardinality(Lost) \in Nat
  BY FS_CardinalityType, BoundsAssumption DEF IInv, TypeOK
<1>2. CASE Lost' \subseteq Lost /\ faults' \in Nat /\ faults' >= faults
  <2>1. IsFiniteSet(Lost') /\ Cardinality(Lost') <= Cardinality(Lost)
    BY <1>2, FS_Subset
  <2>2. Cardinality(Lost') \in Nat
    BY <2>1, FS_CardinalityType
  <2> QED
    BY <1>1, <1>2, <2>1, <2>2
<1>3. CASE (\E k : Lost' \subseteq Lost \cup {k}) /\ faults' = faults + 1
  <2>1. PICK k : Lost' \subseteq Lost \cup {k}
    BY <1>3
  <2>2. /\ IsFiniteSet(Lost \cup {k})
        /\ Cardinality(Lost \cup {k}) <= Cardinality(Lost) + 1
        /\ Cardinality(Lost \cup {k}) \in Nat
    BY <1>1, FS_AddElement
  <2>3. IsFiniteSet(Lost') /\ Cardinality(Lost') <= Cardinality(Lost \cup {k})
    BY <2>1, <2>2, FS_Subset
  <2>4. Cardinality(Lost') \in Nat
    BY <2>3, FS_CardinalityType
  <2> QED
    BY <1>1, <1>3, <2>2, <2>3, <2>4
<1> QED
  BY <1>2, <1>3, LossStep

\* At most one recorded unit goes uncharged for each call that a fault hit:
\* the batch an error cut short costs one charge, never more.
THEOREM LossBounded == Spec => []LossBoundedByFaults
<1>1. LInv => LossBoundedByFaults
  BY DEF LInv, Lost, LossBoundedByFaults
<1> QED
  BY <1>1, LossInit, LossInvStep, Invariance, PTL DEF Spec

-----------------------------------------------------------------------------
(***************************************************************************)
(* The refinement.                                                         *)
(***************************************************************************)

\* UpsertAndGetFreeCredit opens a credit or does nothing.
LEMMA OpenOrStutter ==
    ASSUME NEW u \in Digest, UpsertAndGetFreeCredit(u),
           UNCHANGED <<spending_unit, charged>>
    PROVE  [Ledger!Next]_(Ledger!vars)
<1>1. CASE u \in DOMAIN free_credit \/ ~HasAccount(u)
  BY <1>1 DEF UpsertAndGetFreeCredit, Ledger!vars
<1>2. CASE ~(u \in DOMAIN free_credit \/ ~HasAccount(u))
  <2>1. Ledger!Open(u)
    BY <1>2 DEF UpsertAndGetFreeCredit, Put, Ledger!Open, Ledger!With
  <2> QED
    BY <2>1 DEF Ledger!Next
<1> QED
  BY <1>1, <1>2

\* Every step of the service is a step of the ledger or changes nothing the
\* ledger shows.
LEMMA LedgerStep == IInv /\ [Next]_vars => [Ledger!Next]_(Ledger!vars)
<1> SUFFICES ASSUME IInv, [Next]_vars PROVE [Ledger!Next]_(Ledger!vars)
  OBVIOUS
<1>1. ASSUME NEW h \in Handler,
             \/ \E b \in Batch : Receive(h, b)
             \/ EnsureAccount(h) \/ Reply(h) \/ Abort(h)
      PROVE  [Ledger!Next]_(Ledger!vars)
  <2>1. UNCHANGED <<free_credit, spending_unit, charged>>
    BY <1>1 DEF Receive, EnsureAccount, Reply, Abort, tables, history
  <2> QED
    BY <2>1 DEF Ledger!vars
<1>2. ASSUME NEW h \in Handler, EnsureCredit(h) \/ RetryCredit(h)
      PROVE  [Ledger!Next]_(Ledger!vars)
  <2>1. /\ UpsertAndGetFreeCredit(User(call[h]))
        /\ UNCHANGED <<spending_unit, charged>>
        /\ call[h].pc \notin {"idle", "reply"}
    BY <1>2 DEF EnsureCredit, RetryCredit, history
  <2> QED
    BY <2>1, AtItem, OpenOrStutter
<1>3. ASSUME NEW h \in Handler, InsertUnit(h) PROVE [Ledger!Next]_(Ledger!vars)
  <2> DEFINE c == call[h]
  <2>1. /\ c \in Shape /\ c.i \in DOMAIN c.batch
        /\ Key(c) \in Digest /\ UnitOf(c).user = User(c)
        /\ User(c) \in DOMAIN free_credit
    BY <1>3, AtItem DEF InsertUnit, Users
  <2>2. /\ InsertSpendingUnit(Key(c), UnitOf(c))
        /\ UNCHANGED <<free_credit, charged>>
    BY <1>3 DEF InsertUnit, history
  <2>3. CASE Key(c) \in DOMAIN spending_unit \/ ~HasAccount(UnitOf(c).user)
    BY <2>2, <2>3 DEF InsertSpendingUnit, Ledger!vars
  <2>4. CASE ~(Key(c) \in DOMAIN spending_unit \/ ~HasAccount(UnitOf(c).user))
    <3>1. UnitOf(c) \in Rows
      BY <2>1 DEF Shape, Rows, UnitOf, User, Cur
    <3>2. Ledger!Record(Key(c), UnitOf(c))
      BY <2>1, <2>2, <2>4 DEF InsertSpendingUnit, Put, Ledger!Record, Ledger!With
    <3> QED
      BY <2>1, <3>1, <3>2 DEF Ledger!Next
  <2> QED
    BY <2>3, <2>4
<1>4. ASSUME NEW h \in Handler, Consume(h) PROVE [Ledger!Next]_(Ledger!vars)
  <2> DEFINE c == call[h]
             k == Key(c)
             u == User(c)
             n == Cur(c).amount
  <2>1. /\ k \in DOMAIN spending_unit \ charged /\ spending_unit[k] = UnitOf(c)
        /\ u \in DOMAIN free_credit
    BY <1>4 DEF Consume, IInv, ChargedAtMostOnce, CreditRowBeforeUnit
  <2>2. UnitOf(c).user = u /\ UnitOf(c).amount = n /\ k \in Digest /\ n \in Nat
    BY <1>4, AtItem DEF Consume, UnitOf
  <2>3. /\ ConsumeFreeCredit(u, n) /\ charged' = charged \cup {k}
        /\ spending_unit' = spending_unit
    BY <1>4, <2>1 DEF Consume
  <2>4. free_credit[u] \in Int
    BY <2>1 DEF IInv, TypeOK, TablesTypeOK
  <2> HIDE DEF c, k, u, n
  <2>5. free_credit[u] - Least(free_credit[u], n) = Ledger!Deduct(free_credit[u], n)
    BY <2>2, <2>4 DEF Least, Ledger!Deduct
  <2>6. free_credit' = Ledger!With(free_credit, u, Ledger!Deduct(free_credit[u], n))
    BY <2>1, <2>3, <2>5 DEF ConsumeFreeCredit, Ledger!With
  <2>7. Ledger!Charge(k)
    BY <2>1, <2>2, <2>3, <2>6 DEF Ledger!Charge
  <2> QED
    BY <2>2, <2>7 DEF Ledger!Next
<1>5. ASSUME UNCHANGED vars PROVE [Ledger!Next]_(Ledger!vars)
  BY <1>5 DEF vars, tables, history, Ledger!vars
<1> QED
  BY <1>1, <1>2, <1>3, <1>4, <1>5 DEF Next, Step

\* The service implements the ledger: a credit is opened once, a unit is
\* recorded once, and it is charged at most once, for the amount recorded.
THEOREM ImplementsLedger == Spec => LedgerSpec
<1>1. Init => Ledger!Init
  BY DEF Init, TablesInit, EmptyTable, Ledger!Init
<1> QED
  BY <1>1, LedgerStep, Invariance, PTL DEF Spec, LedgerSpec, Ledger!Spec

\* No credit row is taken away, and a credit rises only from below zero to zero.
NoRefill ==
    \A u \in DOMAIN free_credit :
        /\ u \in DOMAIN free_credit'
        /\ \/ free_credit'[u] <= free_credit[u]
           \/ free_credit[u] < 0 /\ free_credit'[u] = 0

LEMMA RefillStep == IInv /\ [Next]_vars => NoRefill
<1> SUFFICES ASSUME IInv, [Next]_vars PROVE NoRefill
  OBVIOUS
<1> USE DEF NoRefill
<1>1. \A u \in DOMAIN free_credit : free_credit[u] \in Int
  BY DEF IInv, TypeOK, TablesTypeOK
<1>2. CASE free_credit' = free_credit
  BY <1>1, <1>2
<1>3. ASSUME NEW v, free_credit' = Ledger!With(free_credit, v, InitialCredit),
             v \notin DOMAIN free_credit
      PROVE  NoRefill
  BY <1>1, <1>3 DEF Ledger!With
<1>4. ASSUME NEW k \in DOMAIN spending_unit, Ledger!Charge(k) PROVE NoRefill
  <2> DEFINE v == spending_unit[k].user
             n == spending_unit[k].amount
  <2>1. n \in Nat /\ v \in DOMAIN free_credit
    BY DEF IInv, TypeOK, TablesTypeOK, UnitRow, CreditRowBeforeUnit
  <2>2. free_credit' = Ledger!With(free_credit, v, Ledger!Deduct(free_credit[v], n))
    BY <1>4 DEF Ledger!Charge
  <2> HIDE DEF v, n
  <2>3. \/ Ledger!Deduct(free_credit[v], n) <= free_credit[v]
        \/ free_credit[v] < 0 /\ Ledger!Deduct(free_credit[v], n) = 0
    BY <1>1, <2>1 DEF Ledger!Deduct
  <2> QED
    BY <1>1, <2>1, <2>2, <2>3 DEF Ledger!With
<1>5. [Ledger!Next]_(Ledger!vars)
  BY LedgerStep
<1> QED
  BY <1>2, <1>3, <1>4, <1>5 DEF Ledger!Next, Ledger!vars, Ledger!Open,
     Ledger!Record, Ledger!Charge

\* No step takes a credit row away or gives credit back, and a credit that
\* wrapped below zero rises to zero and no further (CreditNeverRefilled).
THEOREM NeverRefilled == Spec => CreditNeverRefilled
<1>1. IInv /\ [Next]_vars =>
         [\A u \in DOMAIN free_credit :
             /\ u \in DOMAIN free_credit'
             /\ \/ free_credit'[u] <= free_credit[u]
                \/ free_credit[u] < 0 /\ free_credit'[u] = 0]_vars
  BY RefillStep DEF NoRefill
<1> QED
  BY <1>1, Invariance, PTL DEF Spec, CreditNeverRefilled

-----------------------------------------------------------------------------
(***************************************************************************)
(* Where the rows come from.                                               *)
(***************************************************************************)

\* A step records nothing but the item that a handler has in hand, which is
\* an item of a batch the server accepted.
LEMMA SourceStep ==
    ASSUME IInv, [Next]_vars, NEW k \in DOMAIN spending_unit',
           k \notin DOMAIN spending_unit
    PROVE  \E b \in Batch : ValidBatch(b) /\ \E i \in DOMAIN b :
               HashExternalID(b[i].external) = k
<1>1. PICK h \in Handler : InsertUnit(h)
  BY DEF Next, Step, vars, tables, Receive, EnsureCredit, EnsureAccount,
     RetryCredit, Consume, Reply, Abort
<1>2. call[h] \in Shape /\ call[h].i \in DOMAIN call[h].batch
  BY <1>1, AtItem DEF InsertUnit
<1>3. k = Key(call[h])
  BY <1>1 DEF InsertUnit, InsertSpendingUnit, Put
<1>4. call[h].batch \in Batch /\ ValidBatch(call[h].batch)
  BY <1>2 DEF Shape
<1> QED
  BY <1>2, <1>3, <1>4 DEF Key, Cur

LEMMA SourceInit == Init => RefusedLeavesNoTrace
BY DEF Init, TablesInit, EmptyTable, RefusedLeavesNoTrace

LEMMA SourceInvStep ==
    IInv /\ RefusedLeavesNoTrace /\ [Next]_vars => RefusedLeavesNoTrace'
BY SourceStep DEF RefusedLeavesNoTrace

\* No batch that the server refused, and no item before the bad one in it,
\* ever left a row, whoever retried what (RefusedLeavesNoTrace).
THEOREM RefusedNoTrace == Spec => []RefusedLeavesNoTrace
BY SourceInit, SourceInvStep, Invariance, PTL DEF Spec

-----------------------------------------------------------------------------
(***************************************************************************)
(* Credits and charges.  Taken adds up amounts over the charged units of a *)
(* user, so the invariant carries that the charged units are finite.       *)
(***************************************************************************)

\* The charged units of user u.
ChargedOf(u) == {k \in charged : spending_unit[k].user = u}

\* What the invariant says of u's credit, when t was taken from it.
Left(t) == IF t = 0 THEN InitialCredit
           ELSE IF t <= InitialCredit THEN InitialCredit - t ELSE 0

\* A user's charged units are recorded and finitely many, so their amounts
\* have a sum.
LEMMA TakenType ==
    ASSUME IInv, IsFiniteSet(charged), NEW u
    PROVE  /\ IsFiniteSet(ChargedOf(u)) /\ ChargedOf(u) \subseteq DOMAIN spending_unit
           /\ \A k \in DOMAIN spending_unit :
                 Amount[k] = spending_unit[k].amount /\ Amount[k] \in Nat \ {0}
           /\ Taken(u) = SumFunctionOnSet(Amount, ChargedOf(u))
           /\ Taken(u) \in Nat
<1>1. IsFiniteSet(ChargedOf(u)) /\ ChargedOf(u) \subseteq DOMAIN spending_unit
  <2>1. ChargedOf(u) \subseteq charged /\ charged \subseteq DOMAIN spending_unit
    BY DEF ChargedOf, IInv, ChargedAtMostOnce
  <2> QED
    BY <2>1, FS_Subset
<1>2. \A k \in DOMAIN spending_unit :
         Amount[k] = spending_unit[k].amount /\ Amount[k] \in Nat \ {0}
  BY DEF Amount, IInv, TypeOK, TablesTypeOK, UnitRow
<1>3. Taken(u) = SumFunctionOnSet(Amount, ChargedOf(u))
  BY DEF Taken, ChargedOf
<1>4. SumFunctionOnSet(Amount, ChargedOf(u)) \in Nat
  BY <1>1, <1>2, SumMonotonic
<1> QED
  BY <1>1, <1>2, <1>3, <1>4

\* What one charge takes from the credit is what the formula takes from it.
LEMMA LeftAfterCharge ==
    ASSUME NEW t \in Nat, NEW n \in Nat \ {0}
    PROVE  Left(t + n) = Ledger!Deduct(Left(t), n)
BY InitialCreditType DEF Left, Ledger!Deduct

\* The sum of a user whose charged units and their amounts stay.
LEMMA TakenKept ==
    ASSUME IInv, IsFiniteSet(charged), NEW u, ChargedOf(u)' = ChargedOf(u),
           \A k \in DOMAIN spending_unit :
              k \in DOMAIN spending_unit' /\ spending_unit'[k] = spending_unit[k]
    PROVE  Taken(u)' = Taken(u)
<1>1. \A k \in ChargedOf(u) : Amount'[k] = Amount[k]
  BY TakenType DEF Amount
<1>2. /\ IsFiniteSet(ChargedOf(u))
      /\ Taken(u) = SumFunctionOnSet(Amount, ChargedOf(u))
  BY TakenType
<1>3. Taken(u)' = SumFunctionOnSet(Amount', ChargedOf(u))
  BY DEF Taken, ChargedOf
<1> QED
  BY <1>1, <1>2, <1>3, SumEq

\* The charged units can be counted, and every credit is what they leave.
CInv ==
    /\ IsFiniteSet(charged)
    /\ \A u \in DOMAIN free_credit : free_credit[u] = Left(Taken(u))

LEMMA CreditInit == Init => CInv
BY FS_EmptySet DEF Init, TablesInit, EmptyTable, CInv

LEMMA CreditInvStep == IInv /\ CInv /\ [Next]_vars => CInv'
<1> SUFFICES ASSUME IInv, CInv, [Next]_vars PROVE CInv'
  OBVIOUS
<1> USE DEF CInv
<1>old. /\ \A k \in DOMAIN spending_unit : spending_unit[k].user \in DOMAIN free_credit
        /\ charged \subseteq DOMAIN spending_unit
  BY DEF IInv, CreditRowBeforeUnit, ChargedAtMostOnce
<1>new. IInv'
  BY InvStep
<1>1. ASSUME UNCHANGED <<free_credit, spending_unit, charged>> PROVE CInv'
  <2>1. \A u : ChargedOf(u)' = ChargedOf(u)
    BY <1>1 DEF ChargedOf
  <2> QED
    BY <1>1, <2>1, TakenKept DEF Left
<1>2. ASSUME NEW v \in Digest, Ledger!Open(v) PROVE CInv'
  <2>1. /\ v \notin DOMAIN free_credit
        /\ free_credit' = Ledger!With(free_credit, v, InitialCredit)
        /\ UNCHANGED <<spending_unit, charged>>
    BY <1>2 DEF Ledger!Open
  <2>2. \A u : ChargedOf(u)' = ChargedOf(u)
    BY <2>1 DEF ChargedOf
  <2>3. \A u : Taken(u)' = Taken(u)
    BY <2>1, <2>2, TakenKept
  <2>4. ChargedOf(v) = {}
    BY <1>old, <2>1 DEF ChargedOf
  <2>5. Taken(v) = 0
    BY <2>4, TakenType, SumEmpty
  <2> QED
    BY <2>1, <2>3, <2>5 DEF Left, Ledger!With
<1>3. ASSUME NEW k \in Digest, NEW row \in Rows, Ledger!Record(k, row) PROVE CInv'
  <2>1. /\ k \notin DOMAIN spending_unit
        /\ spending_unit' = Ledger!With(spending_unit, k, row)
        /\ UNCHANGED <<free_credit, charged>>
    BY <1>3 DEF Ledger!Record
  <2>2. \A j \in DOMAIN spending_unit :
           j \in DOMAIN spending_unit' /\ spending_unit'[j] = spending_unit[j]
    BY <2>1 DEF Ledger!With
  <2>3. \A u : ChargedOf(u)' = ChargedOf(u)
    BY <1>old, <2>1, <2>2 DEF ChargedOf
  <2> QED
    BY <2>1, <2>2, <2>3, TakenKept DEF Left
<1>4. ASSUME NEW k \in Digest, Ledger!Charge(k) PROVE CInv'
  <2>0. PICK v, n : v = spending_unit[k].user /\ n = spending_unit[k].amount
    OBVIOUS
  <2>1. /\ k \in DOMAIN spending_unit \ charged
        /\ free_credit' = Ledger!With(free_credit, v, Ledger!Deduct(free_credit[v], n))
        /\ charged' = charged \cup {k}
        /\ spending_unit' = spending_unit
    BY <1>4, <2>0 DEF Ledger!Charge
  <2>2. IsFiniteSet(charged')
    BY <2>1, FS_AddElement
  <2>3. v \in DOMAIN free_credit
    BY <1>old, <2>0, <2>1
  <2>4. \A u : u # v => ChargedOf(u)' = ChargedOf(u)
    BY <2>0, <2>1 DEF ChargedOf
  <2>5. ChargedOf(v)' = ChargedOf(v) \cup {k} /\ k \notin ChargedOf(v)
    BY <2>0, <2>1 DEF ChargedOf
  <2>6. Amount' = Amount
    BY <2>1 DEF Amount
  <2>7. Taken(v)' = Taken(v) + n
    <3>1. Taken(v)' = SumFunctionOnSet(Amount, ChargedOf(v) \cup {k})
      BY <2>5, <2>6 DEF Taken, ChargedOf
    <3>2. /\ IsFiniteSet(ChargedOf(v)) /\ \A j \in ChargedOf(v) \cup {k} : Amount[j] \in Int
          /\ Amount[k] = n
          /\ Taken(v) = SumFunctionOnSet(Amount, ChargedOf(v)) /\ Taken(v) \in Nat
      BY <2>0, <2>1, TakenType
    <3>3. SumFunctionOnSet(Amount, ChargedOf(v) \cup {k})
              = Amount[k] + SumFunctionOnSet(Amount, ChargedOf(v))
      BY <2>5, <3>2, SumAdd
    <3>4. n \in Int
      BY <3>2
    <3> QED
      BY <3>1, <3>2, <3>3, <3>4
  <2>8. Taken(v) \in Nat /\ n \in Nat \ {0}
    BY <2>0, <2>1, TakenType
  <2>9. \A u : u # v => Taken(u)' = Taken(u)
    BY <2>1, <2>2, <2>4, TakenKept
  <2>10. Left(Taken(v)') = Ledger!Deduct(free_credit[v], n)
    BY <2>3, <2>7, <2>8, LeftAfterCharge
  <2>11. /\ DOMAIN free_credit' = DOMAIN free_credit
         /\ free_credit'[v] = Left(Taken(v)')
         /\ \A u \in DOMAIN free_credit : u # v => free_credit'[u] = free_credit[u]
    BY <2>1, <2>3, <2>10 DEF Ledger!With
  <2>12. ASSUME NEW u \in DOMAIN free_credit PROVE free_credit'[u] = Left(Taken(u)')
    <3>1. CASE u = v
      BY <2>11, <3>1
    <3>2. CASE u # v
      <4>1. Taken(u)' = Taken(u) /\ free_credit'[u] = Left(Taken(u))
        BY <2>9, <2>11, <3>2
      <4> QED
        BY <4>1
    <3> QED
      BY <3>1, <3>2
  <2> QED
    BY <2>2, <2>11, <2>12 DEF Left
<1> QED
  BY <1>1, <1>2, <1>3, <1>4, LedgerStep DEF Ledger!Next, Ledger!vars

\* Free credit is what the charged units leave of the initial credit, in
\* whatever order and between whatever faults they were charged
\* (CreditMatchesCharges).
THEOREM CreditMatches == Spec => []CreditMatchesCharges
<1>1. CInv => CreditMatchesCharges
  BY DEF CInv, CreditMatchesCharges, Left
<1> QED
  BY <1>1, CreditInit, CreditInvStep, Invariance, PTL DEF Spec

-----------------------------------------------------------------------------
(***************************************************************************)
(* Counts.  The totals of the calls under way add up with what was already *)
(* answered to the rows there are.  Only a fault can drop a count, so the  *)
(* invariant also has to exclude that a call gives up without one: a call  *)
(* at its second GetFreeCredit has an account.                             *)
(***************************************************************************)

RetryFindsAccount ==
    \A h \in Handler : call[h].pc = "recredit" => HasAccount(User(call[h]))

\* Rows and counts: what the calls under way have counted, with what was
\* answered before.
CountedRows == reported + SumFunctionOnSet(Total, Serving)

NInv ==
    /\ RetryFindsAccount
    /\ IsFiniteSet(Serving)
    /\ IsFiniteSet(DOMAIN spending_unit)
    /\ CountedRows <= Cardinality(DOMAIN spending_unit)
    /\ faults = 0 => CountedRows = Cardinality(DOMAIN spending_unit)

\* A call is under way with some total, or idle with none.
LEMMA TotalType ==
    ASSUME call \in [Handler -> Call \cup {Idle}]
    PROVE  /\ \A h \in Handler : Total[h] = call[h].total /\ Total[h] \in Nat
           /\ Idle.total = 0
           /\ \A d \in Call \cup {Idle} :
                 d.total \in Nat /\ (d.pc = "idle" => d.total = 0)
BY DEF Total, Call, Idle

\* When h's call becomes d, the sum changes by the difference of the two.
LEMMA TotalsStep ==
    ASSUME call \in [Handler -> Call \cup {Idle}], IsFiniteSet(Serving),
           NEW h \in Handler, NEW d \in Call \cup {Idle},
           call' = [call EXCEPT ![h] = d]
    PROVE  /\ IsFiniteSet(Serving')
           /\ SumFunctionOnSet(Total, Serving) \in Nat
           /\ SumFunctionOnSet(Total, Serving)' \in Nat
           /\ call[h].total \in Nat /\ d.total \in Nat
           /\ SumFunctionOnSet(Total, Serving)' + call[h].total
                 = SumFunctionOnSet(Total, Serving) + d.total
<1> DEFINE R == Serving \ {h}
           T2 == Total'
           S2 == Serving'
<1>1. call' \in [Handler -> Call \cup {Idle}]
  BY CallType
<1>2. /\ call'[h] = d
      /\ \A g \in Handler \ {h} : call'[g] = call[g]
  OBVIOUS
<1>3. IsFiniteSet(R) /\ R \subseteq Handler
  BY FS_Subset DEF Serving
<1>4. \A g \in Handler : Total[g] = call[g].total /\ Total[g] \in Nat
  BY TotalType
<1>5. \A g \in Handler : T2[g] = call'[g].total /\ T2[g] \in Nat
  BY <1>1 DEF Total, Call, Idle
<1>6. SumFunctionOnSet(Total, R) = SumFunctionOnSet(T2, R)
  <2>1. \A g \in R : Total[g] = T2[g]
    BY <1>2, <1>3, <1>4, <1>5
  <2> HIDE DEF T2, R
  <2> QED
    BY <1>3, <2>1, SumEq
<1>7. SumFunctionOnSet(Total, R) \in Nat
  <2> HIDE DEF R
  <2> QED
    BY <1>3, <1>4, SumMonotonic
<1>8. SumFunctionOnSet(Total, Serving) = call[h].total + SumFunctionOnSet(Total, R)
  <2>1. CASE h \in Serving
    <3>1. \A g \in Serving : Total[g] \in Int
      BY <1>4 DEF Serving
    <3> QED
      BY <1>4, <2>1, <3>1, SumRemove
  <2>2. CASE h \notin Serving
    <3>1. R = Serving /\ call[h].total = 0
      BY <2>2, TotalType DEF Serving
    <3> HIDE DEF R
    <3> QED
      BY <1>7, <3>1
  <2> QED
    BY <2>1, <2>2
<1>9. SumFunctionOnSet(T2, S2) = d.total + SumFunctionOnSet(T2, R) /\ IsFiniteSet(S2)
  <2>1. CASE d.pc # "idle"
    <3>1. S2 = R \cup {h} /\ h \notin R
      BY <1>2, <2>1 DEF Serving
    <3>2. T2[h] = d.total /\ \A g \in R \cup {h} : T2[g] \in Int
      BY <1>2, <1>3, <1>5
    <3> HIDE DEF R, S2, T2
    <3>3. IsFiniteSet(R \cup {h})
      BY <1>3, FS_AddElement
    <3> QED
      BY <1>3, <3>1, <3>2, <3>3, SumAdd
  <2>2. CASE d.pc = "idle"
    <3>1. S2 = R
      BY <1>2, <2>2 DEF Serving
    <3>2. d.total = 0
      BY <2>2, TotalType
    <3> HIDE DEF R, S2, T2
    <3> QED
      BY <1>3, <1>6, <1>7, <3>1, <3>2
  <2> QED
    BY <2>1, <2>2
<1>10. SumFunctionOnSet(Total, Serving)' = SumFunctionOnSet(T2, S2)
  OBVIOUS
<1>11. call[h].total \in Nat /\ d.total \in Nat
  BY TotalType
<1> DEFINE a == SumFunctionOnSet(Total, R)
           b == SumFunctionOnSet(T2, S2)
           e == SumFunctionOnSet(Total, Serving)
<1>12. /\ a \in Nat /\ b = d.total + a /\ e = call[h].total + a
  BY <1>6, <1>7, <1>8, <1>9
<1> HIDE DEF a, b, e
<1>13. b \in Nat /\ e \in Nat /\ b + call[h].total = e + d.total
  BY <1>11, <1>12
<1> QED
  BY <1>9, <1>10, <1>11, <1>13 DEF b, e

\* What a step of h that leaves it at d does to the counts: it records r
\* rows and keeps count of them, or a fault drops the call's count.
CountStep(h, d, r) ==
    /\ call' = [call EXCEPT ![h] = d]
    /\ IF r = 0 THEN DOMAIN spending_unit' = DOMAIN spending_unit
       ELSE \E k : /\ k \notin DOMAIN spending_unit
                   /\ DOMAIN spending_unit' = DOMAIN spending_unit \cup {k}
    /\ \/ faults' = faults /\ reported' + d.total = reported + call[h].total + r
       \/ faults' = faults + 1 /\ reported' = reported /\ d = Idle
    /\ DOMAIN user_account \subseteq DOMAIN user_account'
    /\ d.pc = "recredit" => User(d) \in DOMAIN user_account'

\* A statement that records nothing, whose handler goes on as n.
LEMMA QuietCount ==
    ASSUME NEW h \in Handler, NEW n \in Call \cup {Idle}, Resume(h, n),
           n.total = call[h].total, reported \in Nat,
           reported' = reported, spending_unit' = spending_unit,
           DOMAIN user_account \subseteq DOMAIN user_account',
           n.pc = "recredit" => User(n) \in DOMAIN user_account'
    PROVE  \E d \in Call \cup {Idle} : CountStep(h, d, 0)
<1>1. n.total \in Nat
  BY DEF Call, Idle
<1>2. CASE call' = [call EXCEPT ![h] = n] /\ faults' = faults
  <2>1. reported' + n.total = reported + call[h].total + 0
    BY <1>1
  <2> QED
    BY <1>2, <2>1 DEF CountStep
<1>3. CASE call' = [call EXCEPT ![h] = Idle] /\ faults' = faults + 1
  <2>1. Idle \in Call \cup {Idle} /\ Idle.pc # "recredit"
    BY DEF Idle
  <2>2. CountStep(h, Idle, 0)
    BY <1>3, <2>1 DEF CountStep
  <2> QED
    BY <2>1, <2>2
<1> QED
  BY <1>2, <1>3 DEF Resume

\* Every step keeps count of the rows it records.
LEMMA EveryCountStep ==
    IInv /\ RetryFindsAccount /\ [Next]_vars =>
        \/ UNCHANGED vars
        \/ \E h \in Handler, d \in Call \cup {Idle}, r \in {0, 1} : CountStep(h, d, r)
<1> DEFINE Goal == \E h \in Handler, d \in Call \cup {Idle}, r \in {0, 1} : CountStep(h, d, r)
<1> SUFFICES ASSUME IInv, RetryFindsAccount, Next PROVE Goal
  OBVIOUS
<1>nat. reported \in Nat /\ faults \in Nat
  BY BoundsAssumption DEF IInv, TypeOK
<1>call. /\ Idle \in Call \cup {Idle} /\ Idle.total = 0 /\ Idle.pc = "idle"
         /\ \A h \in Handler : call[h].total \in Nat
         /\ \A h \in Handler : call[h].pc = "idle" => call[h].total = 0
  BY TotalType DEF IInv, TypeOK, Idle, Call
<1>1. ASSUME NEW h \in Handler, NEW b \in Batch, Receive(h, b) PROVE Goal
  <2> DEFINE d == IF ValidBatch(b) THEN Loop(Start(b)) ELSE Idle
  <2>1. ValidBatch(b) => Start(b) \in Shape /\ Start(b).total = 0
    BY DEF Shape, Start
  <2>2. d \in Call \cup {Idle} /\ d.total = 0 /\ d.pc # "recredit"
    BY <1>call, <2>1, LoopFacts
  <2>3. /\ call' = [call EXCEPT ![h] = d] /\ call[h].total = 0
        /\ UNCHANGED <<user_account, spending_unit, reported, faults>>
    BY <1>1, <1>call DEF Receive, tables, history
  <2> HIDE DEF d
  <2>4. CountStep(h, d, 0)
    BY <1>nat, <2>2, <2>3 DEF CountStep
  <2> QED
    BY <2>2, <2>4
<1>2. ASSUME NEW h \in Handler, EnsureCredit(h) \/ RetryCredit(h) PROVE Goal
  <2> DEFINE c == call[h]
             n == IF HasAccount(User(c)) THEN Ensured(c) ELSE [c EXCEPT !.pc = "account"]
  <2>1. /\ c \in Call /\ c \in Shape /\ c.i \in DOMAIN c.batch /\ Cur(c).user \in RawId
        /\ c.pc \in {"credit", "recredit"}
    BY <1>2, CallFacts, ItemInHand DEF EnsureCredit, RetryCredit, IInv, TypeOK
  <2>2. n \in Call /\ n.total = c.total /\ n.pc \in {"insert", "account"}
    BY <2>1 DEF Ensured, Call
  <2>3. Resume(h, n)
    BY <1>2 DEF EnsureCredit, RetryCredit, RetryFindsAccount
  <2>4. UNCHANGED <<user_account, spending_unit, reported>>
    BY <1>2 DEF EnsureCredit, RetryCredit, history
  <2> HIDE DEF n
  <2>5. \E d \in Call \cup {Idle} : CountStep(h, d, 0)
    BY <1>nat, <2>2, <2>3, <2>4, QuietCount
  <2> QED
    BY <2>5
<1>3. ASSUME NEW h \in Handler, EnsureAccount(h) PROVE Goal
  <2> DEFINE c == call[h]
             n == [c EXCEPT !.pc = "recredit"]
  <2>1. /\ c \in Call /\ c \in Shape /\ c.i \in DOMAIN c.batch /\ User(c) \in Digest
    BY <1>3, CallFacts, ItemInHand DEF EnsureAccount, IInv, TypeOK
  <2>2. DOMAIN user_account' = DOMAIN user_account \cup {User(c)}
    BY <1>3, <2>1, UpsertType DEF EnsureAccount, IInv, TypeOK
  <2>3. n \in Call /\ n.total = c.total /\ User(n) = User(c)
    BY <2>1 DEF Call, User, Cur
  <2>4. Resume(h, n) /\ UNCHANGED <<spending_unit, reported>>
    BY <1>3 DEF EnsureAccount, history
  <2> HIDE DEF n
  <2>5. \E d \in Call \cup {Idle} : CountStep(h, d, 0)
    BY <1>nat, <2>2, <2>3, <2>4, QuietCount
  <2> QED
    BY <2>5
<1>4. ASSUME NEW h \in Handler, InsertUnit(h) PROVE Goal
  <2> DEFINE c == call[h]
             k == Key(c)
             e == [Counted(c) EXCEPT !.pc = "consume"]
  <2>1. /\ c \in Call /\ c \in Shape /\ c.i \in DOMAIN c.batch /\ k \in Digest
        /\ UnitOf(c) \in UnitRow /\ UnitOf(c).user = User(c) /\ HasAccount(User(c))
    BY <1>4, CallFacts, AtItem DEF InsertUnit, IInv, TypeOK, Users, HasAccount
  <2>2. UNCHANGED <<user_account, reported>>
    BY <1>4 DEF InsertUnit, history
  <2>3. CASE k \in DOMAIN spending_unit
    <3>1. Resume(h, NextItem(c)) /\ spending_unit' = spending_unit
      BY <1>4, <2>3 DEF InsertUnit, InsertSpendingUnit
    <3>2. /\ NextItem(c) \in Call /\ NextItem(c).total = c.total
          /\ NextItem(c).pc # "recredit"
      BY <2>1, NextFacts
    <3>3. \E d \in Call \cup {Idle} : CountStep(h, d, 0)
      BY <1>nat, <2>2, <3>1, <3>2, QuietCount
    <3> QED
      BY <3>3
  <2>4. CASE k \notin DOMAIN spending_unit
    <3>1. DOMAIN spending_unit' = DOMAIN spending_unit \cup {k}
      BY <1>4, <2>1, <2>4, InsertType DEF InsertUnit, IInv, TypeOK
    <3>2. e \in Call /\ e.total = c.total + 1 /\ e.pc = "consume"
      <4>1. Counted(c) \in Call
        BY <2>1 DEF Counted, Call
      <4> QED
        BY <2>1, <4>1, CountedFacts DEF Call
    <3>3. Resume(h, e)
      BY <1>4, <2>1, <2>4 DEF InsertUnit
    <3> HIDE DEF e, k
    <3>4. CASE call' = [call EXCEPT ![h] = e] /\ faults' = faults
      <4>1. reported' + e.total = reported + c.total + 1
        BY <1>nat, <1>call, <2>2, <3>2
      <4>2. CountStep(h, e, 1)
        BY <2>2, <2>4, <3>1, <3>2, <3>4, <4>1 DEF CountStep
      <4> QED
        BY <3>2, <4>2
    <3>5. CASE call' = [call EXCEPT ![h] = Idle] /\ faults' = faults + 1
      <4>1. CountStep(h, Idle, 1)
        BY <1>call, <2>2, <2>4, <3>1, <3>5 DEF CountStep
      <4> QED
        BY <4>1
    <3> QED
      BY <3>3, <3>4, <3>5 DEF Resume
  <2> QED
    BY <2>3, <2>4
<1>5. ASSUME NEW h \in Handler, Consume(h) PROVE Goal
  <2> DEFINE c == call[h]
  <2>1. c \in Shape
    BY <1>5, CallFacts DEF Consume, IInv, TypeOK
  <2>2. /\ NextItem(c) \in Call /\ NextItem(c).total = c.total
        /\ NextItem(c).pc # "recredit"
    BY <2>1, NextFacts
  <2>3. Resume(h, NextItem(c)) /\ UNCHANGED <<user_account, spending_unit, reported>>
    BY <1>5 DEF Consume
  <2>4. \E d \in Call \cup {Idle} : CountStep(h, d, 0)
    BY <1>nat, <2>2, <2>3, QuietCount
  <2> QED
    BY <2>4
<1>6. ASSUME NEW h \in Handler, Reply(h) PROVE Goal
  <2>1. /\ call' = [call EXCEPT ![h] = Idle]
        /\ UNCHANGED <<user_account, spending_unit, faults>>
        /\ reported' = reported + call[h].total
    BY <1>6 DEF Reply, tables
  <2>2. reported' + Idle.total = reported + call[h].total + 0
    BY <1>nat, <1>call, <2>1
  <2>3. CountStep(h, Idle, 0)
    BY <1>call, <2>1, <2>2 DEF CountStep
  <2> QED
    BY <2>3
<1>7. ASSUME NEW h \in Handler, Abort(h) PROVE Goal
  <2>1. /\ call' = [call EXCEPT ![h] = Idle]
        /\ UNCHANGED <<user_account, spending_unit, reported>>
        /\ faults' = faults + 1
    BY <1>7 DEF Abort, tables, history
  <2>2. CountStep(h, Idle, 0)
    BY <1>call, <2>1 DEF CountStep
  <2> QED
    BY <2>2
<1> QED
  BY <1>1, <1>2, <1>3, <1>4, <1>5, <1>6, <1>7 DEF Next, Step

\* Every step keeps the counts right.
LEMMA CountInvStep == IInv /\ NInv /\ [Next]_vars => NInv'
<1> SUFFICES ASSUME IInv, NInv, [Next]_vars PROVE NInv'
  OBVIOUS
<1>1. CASE UNCHANGED vars
  <2>1. CountedRows' = CountedRows
    BY <1>1 DEF vars, history, CountedRows, Total, Serving
  <2> QED
    BY <1>1, <2>1 DEF vars, tables, history, NInv, RetryFindsAccount, HasAccount,
       User, Cur, Serving
<1>2. ASSUME NEW h \in Handler, NEW d \in Call \cup {Idle}, NEW r \in {0, 1},
             CountStep(h, d, r)
      PROVE  NInv'
  <2>0. /\ call \in [Handler -> Call \cup {Idle}]
        /\ reported \in Nat /\ reported' \in Nat /\ faults \in Nat
    BY TypeStep, BoundsAssumption DEF IInv, TypeOK
  <2>1. RetryFindsAccount'
    <3>1. /\ call'[h] = d
          /\ \A g \in Handler \ {h} : call'[g] = call[g]
      BY <1>2, <2>0 DEF CountStep
    <3> QED
      BY <1>2, <3>1 DEF CountStep, NInv, RetryFindsAccount, HasAccount, User
  <2>2. /\ IsFiniteSet(DOMAIN spending_unit')
        /\ Cardinality(DOMAIN spending_unit) \in Nat
        /\ Cardinality(DOMAIN spending_unit') = Cardinality(DOMAIN spending_unit) + r
    <3>1. IsFiniteSet(DOMAIN spending_unit) /\ Cardinality(DOMAIN spending_unit) \in Nat
      BY FS_CardinalityType DEF NInv
    <3>2. CASE r = 0
      BY <1>2, <3>1, <3>2 DEF CountStep
    <3>3. CASE r = 1
      <4>1. PICK k : /\ k \notin DOMAIN spending_unit
                     /\ DOMAIN spending_unit' = DOMAIN spending_unit \cup {k}
        BY <1>2, <3>3 DEF CountStep
      <4> QED
        BY <3>1, <3>3, <4>1, FS_AddElement
    <3> QED
      BY <3>2, <3>3
  <2>3. /\ IsFiniteSet(Serving')
        /\ SumFunctionOnSet(Total, Serving) \in Nat
        /\ SumFunctionOnSet(Total, Serving)' \in Nat
        /\ call[h].total \in Nat /\ d.total \in Nat
        /\ SumFunctionOnSet(Total, Serving)' + call[h].total
              = SumFunctionOnSet(Total, Serving) + d.total
    BY <1>2, <2>0, TotalsStep DEF CountStep, NInv
  <2> DEFINE a == SumFunctionOnSet(Total, Serving)
             b == a'
             m == Cardinality(DOMAIN spending_unit)
             n == Cardinality(DOMAIN spending_unit')
  <2>4. /\ reported + a <= m
        /\ faults = 0 => reported + a = m
    BY DEF NInv, CountedRows
  <2>5. /\ a \in Nat /\ b \in Nat /\ m \in Nat /\ n = m + r
        /\ b + call[h].total = a + d.total
    BY <2>2, <2>3
  <2>6. \/ faults' = faults /\ reported' + d.total = reported + call[h].total + r
        \/ faults' = faults + 1 /\ reported' = reported /\ d.total = 0
    BY <1>2 DEF CountStep, Idle
  <2> HIDE DEF a, b, m, n
  <2>7. /\ reported' + b <= n
        /\ faults' = 0 => reported' + b = n
    <3> DEFINE c == call[h].total
               e == d.total
    <3>1. c \in Nat /\ e \in Nat /\ b + c = a + e
      BY <2>3, <2>5
    <3>2. \/ faults' = faults /\ reported' + e = reported + c + r
          \/ faults' = faults + 1 /\ reported' = reported /\ e = 0
      BY <2>6
    <3>3. r \in Nat
      OBVIOUS
    <3> HIDE DEF c, e
    <3>4. CASE faults' = faults /\ reported' + e = reported + c + r
      <4>1. reported' + b = (reported + a) + r
        <5>1. /\ a \in Nat /\ b \in Nat /\ c \in Nat /\ e \in Nat /\ r \in Nat
              /\ reported \in Nat /\ reported' \in Nat
              /\ b + c = a + e /\ reported' + e = reported + c + r
          BY <2>0, <2>5, <3>1, <3>3, <3>4
        <5>2. PICK p \in Nat, q \in Nat, w \in Nat, x \in Nat, y \in Nat, z \in Nat :
                 p = reported /\ q = reported' /\ w = a /\ x = b /\ y = c /\ z = e
          BY <5>1
        <5>3. x + y = w + z /\ q + z = p + y + r
          BY <5>1, <5>2
        <5>4. q + x = (p + w) + r
          BY <3>3, <5>3
        <5> QED
          BY <5>2, <5>4
      <4>2. reported + a \in Nat
        BY <2>0, <2>5
      <4> QED
        BY <2>4, <2>5, <3>3, <3>4, <4>1, <4>2
    <3>5. CASE faults' = faults + 1 /\ reported' = reported /\ e = 0
      <4>1. b <= a /\ m <= n /\ faults' # 0
        BY <2>0, <2>5, <3>1, <3>3, <3>5
      <4> QED
        BY <2>0, <2>4, <2>5, <3>3, <3>5, <4>1
    <3> QED
      BY <3>2, <3>4, <3>5
  <2> QED
    BY <2>1, <2>2, <2>3, <2>7 DEF a, b, n, NInv, CountedRows
<1> QED
  BY <1>1, <1>2, EveryCountStep DEF NInv

LEMMA CountInit == Init => NInv
<1> SUFFICES ASSUME Init PROVE NInv
  OBVIOUS
<1>1. /\ DOMAIN spending_unit = {} /\ reported = 0
      /\ \A h \in Handler : call[h].pc = "idle"
  BY DEF Init, TablesInit, EmptyTable, Idle
<1>2. Serving = {}
  BY <1>1 DEF Serving
<1>3. CountedRows = 0
  BY <1>1, <1>2, SumEmpty DEF CountedRows
<1> QED
  BY <1>1, <1>2, <1>3, FS_EmptySet DEF NInv, RetryFindsAccount

\* No row is counted in two answers, and unless a fault drops a count every
\* row is counted in one (ReportedOnce).
THEOREM CountedOnce == Spec => []ReportedOnce
<1>1. NInv => ReportedOnce
  BY DEF NInv, CountedRows, ReportedOnce
<1> QED
  BY <1>1, CountInit, CountInvStep, Invariance, PTL DEF Spec

-----------------------------------------------------------------------------
(***************************************************************************)
(* Beside other writers of the tables.  What the service's other calls do  *)
(* to the tables keeps what this module's calls rely on, whatever those    *)
(* others are, as long as they keep to Environment; and what these calls   *)
(* do to the tables is Effect.                                             *)
(***************************************************************************)

Environment ==
    /\ UNCHANGED <<spending_unit, call, history, calls>>
    /\ TablesTypeOK'
    /\ DOMAIN user_account \subseteq DOMAIN user_account'
    /\ OpensCredit
    /\ faults' \in faults .. MaxFaults

Effect ==
    /\ UNCHANGED invalid_subscription
    /\ TablesTypeOK'
    /\ AccountsOnlyAdded
    /\ DOMAIN free_credit \subseteq DOMAIN free_credit'
    /\ faults' \in 0 .. MaxFaults

\* Nothing that a call relies on is taken from it.
LEMMA EnvironmentInv == IInv /\ Environment => IInv'
<1> SUFFICES ASSUME IInv, Environment PROVE IInv'
  OBVIOUS
<1>1. TypeOK'
  BY BoundsAssumption DEF IInv, TypeOK, Environment, history
<1>2. /\ DOMAIN user_account \subseteq DOMAIN user_account'
      /\ DOMAIN free_credit \subseteq DOMAIN free_credit'
      /\ UNCHANGED <<spending_unit, call, acked, charged>>
  BY OthersCredits DEF Environment, history
<1>3. CallInv'
  BY <1>2 DEF IInv, CallInv, Cur, HashExternalID
<1>4. ChargedAtMostOnce'
  BY <1>2 DEF IInv, ChargedAtMostOnce, Key, UnitOf, User, Cur, HashExternalID
<1>5. CreditRowBeforeUnit'
  BY <1>2 DEF IInv, CreditRowBeforeUnit, User, Cur, HashExternalID
<1>6. AckedIsRecorded'
  BY <1>2 DEF IInv, AckedIsRecorded, HashExternalID
<1> QED
  BY <1>1, <1>3, <1>4, <1>5, <1>6 DEF IInv

\* A credit that is opened has nothing taken from it yet.
LEMMA EnvironmentCredit == IInv /\ CInv /\ Environment => CInv'
<1> SUFFICES ASSUME IInv, CInv, Environment PROVE CInv'
  OBVIOUS
<1>1. /\ UNCHANGED <<spending_unit, charged>>
      /\ \A u \in DOMAIN free_credit : free_credit'[u] = free_credit[u]
      /\ \A u \in DOMAIN free_credit' \ DOMAIN free_credit : free_credit'[u] = InitialCredit
  BY OthersCredits DEF Environment, history
<1>2. \A u : ChargedOf(u)' = ChargedOf(u)
  BY <1>1 DEF ChargedOf
<1>3. \A u : Taken(u)' = Taken(u)
  BY <1>1, <1>2, TakenKept DEF CInv
<1>4. ASSUME NEW u, u \notin DOMAIN free_credit PROVE Taken(u) = 0
  <2>1. ChargedOf(u) = {}
    BY <1>4 DEF ChargedOf, IInv, CreditRowBeforeUnit, ChargedAtMostOnce
  <2> QED
    BY <2>1, TakenType, SumEmpty DEF CInv
<1>5. ASSUME NEW u \in DOMAIN free_credit' PROVE free_credit'[u] = Left(Taken(u)')
  <2>1. CASE u \in DOMAIN free_credit
    <3>1. free_credit'[u] = free_credit[u] /\ Taken(u)' = Taken(u)
      BY <1>1, <1>3, <2>1
    <3> QED
      BY <2>1, <3>1 DEF CInv
  <2>2. CASE u \notin DOMAIN free_credit
    <3>1. free_credit'[u] = InitialCredit /\ Taken(u)' = 0
      BY <1>1, <1>3, <1>4, <2>2
    <3> QED
      BY <3>1 DEF Left
  <2> QED
    BY <2>1, <2>2
<1> QED
  BY <1>1, <1>5 DEF CInv, Left, InitialCredit, Int32

\* Others lose no unit.
LEMMA EnvironmentLoss == IInv /\ LInv /\ Environment => LInv'
<1> SUFFICES ASSUME IInv, LInv, Environment PROVE LInv'
  OBVIOUS
<1>1. Lost' = Lost
  BY DEF Environment, history, Lost, Pending, Key, Cur, HashExternalID
<1>2. IsFiniteSet(Lost) /\ Cardinality(Lost) <= faults /\ Cardinality(Lost) \in Nat
  BY FS_CardinalityType DEF LInv
<1>3. faults \in Nat /\ faults' \in Nat /\ faults' >= faults
  BY BoundsAssumption DEF IInv, TypeOK, Environment
<1> QED
  BY <1>1, <1>2, <1>3 DEF LInv

\* Others record no unit and count none.
LEMMA EnvironmentCount == IInv /\ NInv /\ Environment => NInv'
<1> SUFFICES ASSUME IInv, NInv, Environment PROVE NInv'
  OBVIOUS
<1>1. /\ UNCHANGED <<spending_unit, call, reported>>
      /\ DOMAIN user_account \subseteq DOMAIN user_account'
      /\ faults' = 0 => faults = 0
  BY BoundsAssumption DEF Environment, history, IInv, TypeOK
<1>2. RetryFindsAccount'
  BY <1>1 DEF NInv, RetryFindsAccount, HasAccount, User, Cur, HashExternalID
<1>3. Total' = Total /\ Serving' = Serving
  BY <1>1 DEF Total, Serving
<1>4. CountedRows' = CountedRows
  BY <1>1, <1>3 DEF CountedRows
<1> QED
  BY <1>1, <1>2, <1>3, <1>4 DEF NInv

LEMMA EnvironmentSource == RefusedLeavesNoTrace /\ Environment => RefusedLeavesNoTrace'
BY DEF RefusedLeavesNoTrace, Environment, HashExternalID

\* Others give no credit back, and for the ledger they open a credit.
LEMMA EnvironmentLedger ==
    IInv /\ Environment => NoRefill /\ [Ledger!Next]_(Ledger!vars)
<1> SUFFICES ASSUME IInv, Environment PROVE NoRefill /\ [Ledger!Next]_(Ledger!vars)
  OBVIOUS
<1>1. UNCHANGED <<spending_unit, charged>> /\ OpensCredit
  BY DEF Environment, history
<1>2. NoRefill
  <2>1. \A u \in DOMAIN free_credit : free_credit[u] \in Int
    BY DEF IInv, TypeOK, TablesTypeOK
  <2> QED
    BY <1>1, <2>1, OthersCredits DEF NoRefill
<1>3. CASE UNCHANGED free_credit
  BY <1>1, <1>2, <1>3 DEF Ledger!vars
<1>4. ASSUME NEW u \in Digest \ DOMAIN free_credit,
             free_credit' = Put(free_credit, u, InitialCredit)
      PROVE  [Ledger!Next]_(Ledger!vars)
  BY <1>1, <1>4 DEF Put, Ledger!Open, Ledger!With, Ledger!Next
<1> QED
  BY <1>1, <1>2, <1>3, <1>4 DEF OpensCredit

\* The calls add bare accounts and credits, and leave every account alone.
LEMMA EffectStep == IInv /\ [Next]_vars => Effect
<1> SUFFICES ASSUME IInv, [Next]_vars PROVE Effect
  OBVIOUS
<1>1. TablesTypeOK /\ TablesTypeOK' /\ faults' \in 0 .. MaxFaults
  BY TypeStep DEF IInv, TypeOK
<1>2. CASE UNCHANGED <<user_account, free_credit, invalid_subscription>>
  BY <1>1, <1>2 DEF Effect, AccountsOnlyAdded
<1>3. ASSUME NEW h \in Handler, EnsureCredit(h) \/ RetryCredit(h) PROVE Effect
  <2>1. /\ UpsertAndGetFreeCredit(User(call[h]))
        /\ UNCHANGED <<user_account, invalid_subscription>>
    BY <1>3 DEF EnsureCredit, RetryCredit
  <2>2. DOMAIN free_credit \subseteq DOMAIN free_credit'
    BY <2>1 DEF UpsertAndGetFreeCredit, Put
  <2> QED
    BY <1>1, <2>1, <2>2 DEF Effect, AccountsOnlyAdded
<1>4. ASSUME NEW h \in Handler, EnsureAccount(h) PROVE Effect
  <2>1. User(call[h]) \in Digest
    BY <1>4, AtItem DEF EnsureAccount
  <2>2. /\ UpsertUserAccount(User(call[h]), Null, Null)
        /\ UNCHANGED <<free_credit, spending_unit, invalid_subscription>>
    BY <1>4 DEF EnsureAccount
  <2>3. AccountsOnlyAdded
    BY <1>1, <2>1, <2>2, BareAccount
  <2> QED
    BY <1>1, <2>2, <2>3 DEF Effect
<1>5. ASSUME NEW h \in Handler, Consume(h) PROVE Effect
  <2>1. /\ DOMAIN free_credit' = DOMAIN free_credit
        /\ UNCHANGED <<user_account, invalid_subscription>>
    BY <1>5 DEF Consume, ConsumeFreeCredit
  <2> QED
    BY <1>1, <2>1 DEF Effect, AccountsOnlyAdded
<1> QED
  BY <1>2, <1>3, <1>4, <1>5
  DEF Next, Step, Receive, InsertUnit, Reply, Abort, vars, tables
=============================================================================
