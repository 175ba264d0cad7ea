--------------------------- MODULE SpendingUnits ---------------------------
(***************************************************************************)
(* The AddSpendingUnits RPC: the gRPC server validates a batch, then       *)
(* db.AddSpendingUnits works through it item by item, each statement a     *)
(* transaction of its own.  Handlers stand for goroutines of one or of     *)
(* several machines; they share the tables and nothing else.  The code     *)
(* passes context.Background() to every statement, so a client that hangs  *)
(* up does not stop its handler, and the same batch may be under way more  *)
(* than once.                                                              *)
(*                                                                         *)
(* A fault is a database error or the death of the machine.  It may strike *)
(* before a statement takes effect (Abort) or after it committed but       *)
(* before the handler saw the answer (the second disjunct of Resume).      *)
(* Either way the client gets an error, the rest of the batch is not done, *)
(* and what was done stays.                                                *)
(***************************************************************************)
EXTENDS StripeDB, Sequences, Functions

CONSTANTS
    Handler,    \* goroutines that serve the RPC
    Batch,      \* the batches clients may send
    MaxCalls,   \* bound: calls received in a behaviour
    MaxFaults   \* bound: calls hit by a fault in a behaviour

Item == [external : RawId, user : RawId, amount : Int, created_at : Int]

ASSUME BatchAssumption == Batch \subseteq Seq(Item)
ASSUME BoundsAssumption == MaxCalls \in Nat /\ MaxFaults \in Nat

VARIABLES
    call,       \* the call each handler is serving
    acked,      \* history: batches answered without error
    reported,   \* history: sum of the "inserted" counts answered
    charged,    \* history: units whose amount was taken from the credit
    calls,      \* number of calls received so far
    faults      \* number of faults so far

tables == <<user_account, free_credit, spending_unit, invalid_subscription>>
history == <<acked, reported, charged>>
vars == <<tables, call, history, calls, faults>>

-----------------------------------------------------------------------------
(***************************************************************************)
(* A call.                                                                 *)
(***************************************************************************)

ValidItem(it) ==
    /\ it.external # "" /\ it.user # ""
    /\ it.amount > 0
    /\ it.created_at # 0

ValidBatch(b) == b # <<>> /\ \A i \in DOMAIN b : ValidItem(b[i])

Start(b) == [pc |-> "credit", batch |-> b, i |-> 1, ensured |-> {}, total |-> 0]

Idle == [pc |-> "idle", batch |-> <<>>, i |-> 0, ensured |-> {}, total |-> 0]

\* The item in hand and the digests its statements use.
Cur(c) == c.batch[c.i]
Key(c) == HashExternalID(Cur(c).external)
User(c) == HashExternalID(Cur(c).user)
UnitOf(c) == [user |-> User(c), amount |-> Cur(c).amount,
           created_at |-> Cur(c).created_at]

\* Mutant: free credit is ensured once per batch, not once per user.
Loop_EnsuredPerBatch(c) ==
    IF c.i > Len(c.batch) THEN [c EXCEPT !.pc = "reply"]
    ELSE [c EXCEPT !.pc = IF c.ensured # {} THEN "insert" ELSE "credit"]

\* The head of the loop in db.AddSpendingUnits, up to its first statement.
Loop(c) ==
    CASE c.i > Len(c.batch)             -> [c EXCEPT !.pc = "reply"]
      [] /\ c.i <= Len(c.batch)
         /\ ~ValidItem(Cur(c))          -> Idle
      [] /\ c.i <= Len(c.batch)
         /\ ValidItem(Cur(c))
         /\ Cur(c).user \in c.ensured   -> [c EXCEPT !.pc = "insert"]
      [] OTHER                          -> [c EXCEPT !.pc = "credit"]

NextItem(c) == Loop([c EXCEPT !.i = @ + 1])

\* GetFreeCredit has returned; ensured is keyed by the raw user id.
Ensured(c) == [c EXCEPT !.pc = "insert", !.ensured = @ \cup {Cur(c).user}]

\* The statement of the item in hand inserted a row.
Counted(c) == [c EXCEPT !.total = @ + 1]

\* A statement of h has run: h goes on as c, or a fault keeps the answer
\* from it.
Resume(h, c) ==
    \/ /\ call' = [call EXCEPT ![h] = c]
       /\ UNCHANGED faults
    \/ /\ faults < MaxFaults
       /\ call' = [call EXCEPT ![h] = Idle]
       /\ faults' = faults + 1

-----------------------------------------------------------------------------
Init ==
    /\ TablesInit
    /\ call = [h \in Handler |-> Idle]
    /\ acked = {}
    /\ reported = 0
    /\ charged = {}
    /\ calls = 0
    /\ faults = 0

\* Mutant: the server leaves the checks to the loop of the database layer.
Receive_Unchecked(h, b) ==
    /\ call[h].pc = "idle"
    /\ calls < MaxCalls
    /\ calls' = calls + 1
    /\ call' = [call EXCEPT ![h] = Loop(Start(b))]
    /\ UNCHANGED <<tables, history, faults>>

\* The server refuses a batch with a bad item before it touches a table.
Receive(h, b) ==
    /\ call[h].pc = "idle"
    /\ calls < MaxCalls
    /\ calls' = calls + 1
    /\ call' = [call EXCEPT ![h] = IF ValidBatch(b)
                                   THEN Loop(Start(b))
                                   ELSE Idle]
    /\ UNCHANGED <<tables, history, faults>>

\* GetFreeCredit, first attempt: a missing account shows as a foreign-key
\* violation.
EnsureCredit(h) ==
    LET c == call[h] IN
    /\ c.pc = "credit"
    /\ UpsertAndGetFreeCredit(User(c))
    /\ Resume(h, IF HasAccount(User(c)) THEN Ensured(c)
                                        ELSE [c EXCEPT !.pc = "account"])
    /\ UNCHANGED <<user_account, spending_unit, invalid_subscription, history, calls>>

\* Mutant: the fallback retries without creating the account.
EnsureAccount_Skipped(h) ==
    LET c == call[h] IN
    /\ c.pc = "account"
    /\ Resume(h, [c EXCEPT !.pc = "recredit"])
    /\ UNCHANGED <<tables, history, calls>>

EnsureAccount(h) ==
    LET c == call[h] IN
    /\ c.pc = "account"
    /\ UpsertUserAccount(User(c), Null, Null)
    /\ Resume(h, [c EXCEPT !.pc = "recredit"])
    /\ UNCHANGED <<free_credit, spending_unit, invalid_subscription, history, calls>>

\* GetFreeCredit, second and last attempt.
RetryCredit(h) ==
    LET c == call[h] IN
    /\ c.pc = "recredit"
    /\ UpsertAndGetFreeCredit(User(c))
    /\ Resume(h, IF HasAccount(User(c)) THEN Ensured(c) ELSE Idle)
    /\ UNCHANGED <<user_account, spending_unit, invalid_subscription, history, calls>>

\* Mutant: credit is consumed whether or not the row was new.
InsertUnit_ConsumeAlways(h) ==
    LET c == call[h] IN
    /\ c.pc = "insert"
    /\ InsertSpendingUnit(Key(c), UnitOf(c))
    /\ Resume(h, [Counted(c) EXCEPT !.pc = "consume"])
    /\ UNCHANGED <<user_account, free_credit, invalid_subscription, history, calls>>

\* Mutant: credit is consumed for the last item of the batch only.
InsertUnit_ConsumeLast(h) ==
    LET c == call[h] IN
    /\ c.pc = "insert"
    /\ InsertSpendingUnit(Key(c), UnitOf(c))
    /\ Resume(h, IF Key(c) \in DOMAIN spending_unit THEN NextItem(c)
                 ELSE IF c.i < Len(c.batch) THEN NextItem(Counted(c))
                      ELSE [Counted(c) EXCEPT !.pc = "consume"])
    /\ UNCHANGED <<user_account, free_credit, invalid_subscription, history, calls>>

\* Mutant: a duplicate is counted as inserted.
InsertUnit_CountDuplicates(h) ==
    LET c == call[h] IN
    /\ c.pc = "insert"
    /\ InsertSpendingUnit(Key(c), UnitOf(c))
    /\ Resume(h, IF Key(c) \in DOMAIN spending_unit THEN NextItem(Counted(c))
                                                     ELSE [Counted(c) EXCEPT !.pc = "consume"])
    /\ UNCHANGED <<user_account, free_credit, invalid_subscription, history, calls>>

\* The statement tells whether it inserted a row; only then is credit
\* consumed.
InsertUnit(h) ==
    LET c == call[h] IN
    /\ c.pc = "insert"
    /\ InsertSpendingUnit(Key(c), UnitOf(c))
    /\ Resume(h, IF Key(c) \in DOMAIN spending_unit THEN NextItem(c)
                 ELSE IF HasAccount(User(c))
                      THEN [Counted(c) EXCEPT !.pc = "consume"]
                      ELSE Idle)
    /\ UNCHANGED <<user_account, free_credit, invalid_subscription, history, calls>>

Consume(h) ==
    LET c == call[h] IN
    /\ c.pc = "consume"
    /\ ConsumeFreeCredit(User(c), Cur(c).amount)
    /\ charged' = IF User(c) \in DOMAIN free_credit THEN charged \cup {Key(c)}
                                                    ELSE charged
    /\ Resume(h, NextItem(c))
    /\ UNCHANGED <<user_account, spending_unit, invalid_subscription,
                   acked, reported, calls>>

Reply(h) ==
    LET c == call[h] IN
    /\ c.pc = "reply"
    /\ acked' = acked \cup {c.batch}
    /\ reported' = reported + c.total
    /\ call' = [call EXCEPT ![h] = Idle]
    /\ UNCHANGED <<tables, charged, calls, faults>>

\* Mutant: an error ends the batch but is answered as a success.
Abort_Swallowed(h) ==
    /\ call[h].pc # "idle"
    /\ faults < MaxFaults
    /\ call' = [call EXCEPT ![h].pc = "reply"]
    /\ faults' = faults + 1
    /\ UNCHANGED <<tables, history, calls>>

\* The next statement fails without effect, the reply is lost, or the
\* machine dies between two statements.
Abort(h) ==
    /\ call[h].pc # "idle"
    /\ faults < MaxFaults
    /\ call' = [call EXCEPT ![h] = Idle]
    /\ faults' = faults + 1
    /\ UNCHANGED <<tables, history, calls>>

Step(h) ==
    \/ EnsureCredit(h)
    \/ EnsureAccount(h)
    \/ RetryCredit(h)
    \/ InsertUnit(h)
    \/ Consume(h)
    \/ Reply(h)

Next ==
    \E h \in Handler :
        \/ \E b \in Batch : Receive(h, b)
        \/ Step(h)
        \/ Abort(h)

Spec == Init /\ [][Next]_vars

\* A goroutine under way is scheduled and its statements are answered in
\* the end, if only with an error.  Clients owe nothing and faults need
\* not happen.
FairSpec == Spec /\ \A h \in Handler : WF_vars(Step(h))

-----------------------------------------------------------------------------
\* A call under way works on a batch whose every item is valid and, until
\* it replies, has one of the items in hand.
Call ==
    {c \in [pc : {"credit", "account", "recredit", "insert", "consume", "reply"},
            batch : {b \in Batch : ValidBatch(b)},
            i : Nat \ {0}, ensured : SUBSET RawId, total : Nat] :
        c.pc # "reply" => c.i \in DOMAIN c.batch}

\* Tables, calls and histories are well formed: a call past the server's
\* checks never works on a batch the server refuses.
TypeOK ==
    /\ TablesTypeOK
    /\ call \in [Handler -> Call \cup {Idle}]
    /\ acked \subseteq Batch
    /\ reported \in Nat
    /\ charged \subseteq Digest
    /\ calls \in 0 .. MaxCalls
    /\ faults \in 0 .. MaxFaults

\* How far a call has come: the items before the one in hand are recorded,
\* it replies after the last, and whoever is in ensured has an account and
\* a credit row.  ensured outlives the statements that filled it, so this
\* is what makes skipping GetFreeCredit for a later item sound.
CallInv ==
    \A h \in Handler :
        LET c == call[h] IN
        /\ c.pc = "reply" => c.i > Len(c.batch)
        /\ \A j \in 1 .. (c.i - 1) : j \in DOMAIN c.batch =>
              HashExternalID(c.batch[j].external) \in DOMAIN spending_unit
        /\ c.pc \in {"insert", "consume"} => Cur(c).user \in c.ensured
        /\ \A r \in c.ensured :
              HashExternalID(r) \in DOMAIN user_account \cap DOMAIN free_credit

-----------------------------------------------------------------------------
(***************************************************************************)
(* Properties.                                                             *)
(***************************************************************************)

\* Units inserted by a handler that has not yet consumed their amount.
Pending == {Key(call[h]) : h \in {g \in Handler : call[g].pc = "consume"}}

\* Whatever the interleaving of duplicates, a row is charged at most once,
\* and only rows: a handler about to consume is the only one about to
\* consume that unit, and the unit is recorded and still uncharged.
ChargedAtMostOnce ==
    /\ charged \subseteq DOMAIN spending_unit
    /\ \A h \in Handler : call[h].pc = "consume" =>
          /\ Key(call[h]) \in DOMAIN spending_unit \ charged
          /\ spending_unit[Key(call[h])] = UnitOf(call[h])
          /\ \A g \in Handler \ {h} :
                call[g].pc = "consume" => Key(call[g]) # Key(call[h])

\* A handler past GetFreeCredit for an item finds the account and the
\* credit row of that item's user: the insert meets no foreign-key
\* violation and the UPDATE that consumes meets a row.
CreditRowBeforeUnit ==
    /\ \A h \in Handler : call[h].pc \in {"insert", "consume"} =>
          User(call[h]) \in DOMAIN user_account \cap DOMAIN free_credit
    /\ \A k \in DOMAIN spending_unit :
          spending_unit[k].user \in DOMAIN user_account \cap DOMAIN free_credit

\* What was taken from a user: the amounts of that user's charged units.
Taken(u) ==
    SumFunctionOnSet(Amount, {k \in charged : spending_unit[k].user = u})

\* Free credit is what the charged units leave of the initial credit,
\* clamped at zero, in whatever order their handlers consumed it.
CreditMatchesCharges ==
    \A u \in DOMAIN free_credit :
        free_credit[u] = IF Taken(u) = 0 THEN InitialCredit
                         ELSE IF Taken(u) <= InitialCredit
                              THEN InitialCredit - Taken(u) ELSE 0

\* A recorded unit whose amount nobody will consume was left behind by a
\* fault, and one fault leaves behind at most one.  A fault hits one call:
\* the death of a machine is one for each call that it was serving.
LossBoundedByFaults ==
    Cardinality(DOMAIN spending_unit \ (charged \cup Pending)) <= faults

\* A batch answered without error is in the table, every item of it.
AckedIsRecorded ==
    \A b \in acked : \A i \in DOMAIN b :
        HashExternalID(b[i].external) \in DOMAIN spending_unit

\* The calls under way, and the rows that each has inserted.
Serving == {h \in Handler : call[h].pc # "idle"}
Total == [h \in Handler |-> call[h].total]

\* No row is counted in two answers; without faults every row is counted
\* in the answer given, or about to be given, by the call that made it.
ReportedOnce ==
    LET counted == reported + SumFunctionOnSet(Total, Serving)
    IN  /\ counted <= Cardinality(DOMAIN spending_unit)
        /\ faults = 0 => counted = Cardinality(DOMAIN spending_unit)

\* A refused batch leaves nothing behind, not even the valid items before
\* the bad one: every row comes from a batch the server accepts.
RefusedLeavesNoTrace ==
    \A k \in DOMAIN spending_unit :
        \E b \in Batch : ValidBatch(b) /\ \E i \in DOMAIN b :
            HashExternalID(b[i].external) = k

\* No step, of a retry or of a concurrent first use, gives credit back.  An
\* initial credit that wrapped below zero is never worked off: the next unit
\* sets it to zero, whatever its amount, and it stays there.
CreditNeverRefilled ==
    [][\A u \in DOMAIN free_credit :
          /\ u \in DOMAIN free_credit'
          /\ \/ free_credit'[u] <= free_credit[u]
             \/ free_credit[u] < 0 /\ free_credit'[u] = 0]_vars

\* The rows that the items of the clients' batches make.
Rows == UNION {{[user |-> HashExternalID(b[i].user), amount |-> b[i].amount,
                 created_at |-> b[i].created_at] : i \in DOMAIN b} : b \in Batch}

\* The rows, the credits and the charges behave as the abstract ledger.
Ledger == INSTANCE CreditLedger WITH
              credit <- free_credit, recorded <- spending_unit,
              charged <- charged, Opening <- InitialCredit, Row <- Rows

LedgerSpec == Ledger!Spec

\* Every accepted call returns, and without a fault it succeeds: the
\* foreign-key fallback of GetFreeCredit never gives up by itself.
CallReturns ==
    \A h \in Handler, b \in Batch :
        (call[h].pc # "idle" /\ call[h].batch = b)
            ~> (call[h].pc = "idle" /\ (b \in acked \/ faults > 0))

-----------------------------------------------------------------------------
(***************************************************************************)
(* Claims the code's documents make that it does not keep.                 *)
(***************************************************************************)

\* README: "When a spending unit is actually inserted (i.e., not a
\* duplicate), the service consumes the user's free credit".
AckedUnitIsCharged ==
    \A b \in acked : \A i \in DOMAIN b :
        HashExternalID(b[i].external) \in charged \cup Pending
=============================================================================
