----------------------------- MODULE Accounting -----------------------------
(***************************************************************************)
(* What a printing child does to the account of a job's owner, and what    *)
(* the web pages do to it at the same time.  The child looks at the        *)
(* balance before it prints and charges afterwards: it works out the       *)
(* charge, locks .dbaccess, reads the balance and writes it back less the  *)
(* charge.  The pages do not lock anything: one shows a form with the      *)
(* balance of that moment, and another writes what comes back.             *)
(*                                                                         *)
(* The database carries out one statement at a time.  Money is counted in  *)
(* whole units; queues charge nothing, by the page (one unit), or by the   *)
(* job (JobPrice).  ledger is what the account should hold: first balance  *)
(* and deposits, less the price of what has been printed while the account *)
(* was active, but for the charges that the database has refused: they are *)
(* waived.  disturbed has the users to whom something has happened after   *)
(* which the program does not promise that the account holds it.           *)
(***************************************************************************)
EXTENDS Integers, FiniteSets, Functions

CONSTANTS
    Users,
    Children,       \* printing children that can be at work at a time
    Pages,          \* administrators' web pages
    JobPrice,
    MaxPages,       \* bound: pages of a job
    FirstBalance,   \* balance of a new user
    Deposit,        \* what an administrator adds to a balance
    Garbage,        \* what an uninitialized charge may hold
    MaxJobs,        \* bound: jobs printed
    MaxEdits,       \* bound: forms sent by administrators
    MaxFailures,    \* bound: statements or connections that fail
    Free

MaxCharge == IF JobPrice > MaxPages THEN JobPrice ELSE MaxPages

ASSUME AccountingAssumption ==
    /\ Users # {} /\ IsFiniteSet(Children) /\ Children # {}
    /\ JobPrice \in Nat \ {0} /\ MaxPages \in Nat
    /\ FirstBalance \in Nat /\ Deposit \in Nat
    /\ Garbage \subseteq Int
    /\ MaxJobs \in Nat /\ MaxEdits \in Nat /\ MaxFailures \in Nat
    /\ Free \notin Children

VARIABLES
    account,        \* the users' records in the database
    dbaccess,       \* the child that holds the lock on .dbaccess
    child,          \* the local state of each child
    form,           \* what each page shows
    ledger,         \* what the balances should be
    disturbed,      \* users for whom no promise is made any more
    bounds          \* jobs, edits and failures so far

vars == <<account, dbaccess, child, form, ledger, disturbed, bounds>>

Kinds == {"none", "page", "job"}

Unused == [pc |-> "idle", user |-> CHOOSE u \in Users : TRUE, kind |-> "none",
           pages |-> 0, charge |-> 0, read |-> 0]
NoForm == [open |-> FALSE, user |-> CHOOSE u \in Users : TRUE, balance |-> 0]

Init ==
    /\ account \in [Users -> [exists : {TRUE}, active : BOOLEAN, balance : {FirstBalance}]]
    /\ dbaccess = Free
    /\ child = [c \in Children |-> Unused]
    /\ form = [p \in Pages |-> NoForm]
    /\ ledger = [u \in Users |-> FirstBalance]
    /\ disturbed = {}
    /\ bounds = [jobs |-> 0, edits |-> 0, failures |-> 0]

-----------------------------------------------------------------------------
(* print_job, from the balance check to the exit.                          *)

\* A faulty variant: a page too many.
PriceOneMore(kind, pages) == CASE kind = "none" -> 0
                               [] kind = "page" -> pages + 1
                               [] kind = "job"  -> JobPrice

Price(kind, pages) == CASE kind = "none" -> 0
                        [] kind = "page" -> pages
                        [] kind = "job"  -> JobPrice

\* A job of the user's has passed the check and is not done with.
AtWork(u) == \E c \in Children : child[c].user = u /\ child[c].pc \notin {"idle", "check"}

\* The child exits, and its lock falls.
Exits(c) ==
    /\ child' = [child EXCEPT ![c] = Unused]
    /\ dbaccess' = IF dbaccess = c THEN Free ELSE dbaccess

\* A connection or a statement fails.
Failure ==
    /\ bounds.failures < MaxFailures
    /\ bounds' = [bounds EXCEPT !.failures = @ + 1]

ChildStart(c) ==
    /\ child[c].pc = "idle"
    /\ bounds.jobs < MaxJobs
    /\ bounds' = [bounds EXCEPT !.jobs = @ + 1]
    /\ \E u \in Users, k \in Kinds :
         child' = [child EXCEPT ![c] = [Unused EXCEPT !.pc = "check", !.user = u, !.kind = k]]
    /\ UNCHANGED <<account, dbaccess, form, ledger, disturbed>>

\* A faulty variant: the balance is not looked at.
OnCredit(a) == a.exists

MayPrint(a) == a.exists /\ (~a.active \/ a.balance > 0)

\* check_print_balance: a free queue is open to everybody.
ChildCheck(c) ==
    /\ child[c].pc = "check"
    /\ IF child[c].kind = "none" \/ MayPrint(account[child[c].user])
          THEN child' = [child EXCEPT ![c].pc = "print"] /\ dbaccess' = dbaccess
          ELSE Exits(c)
    /\ UNCHANGED <<account, form, ledger, disturbed, bounds>>

\* The database does not answer: no job is printed.
ChildCheckFails(c) ==
    /\ child[c].pc = "check"
    /\ child[c].kind # "none"
    /\ Failure
    /\ Exits(c)
    /\ UNCHANGED <<account, form, ledger, disturbed>>

ChildPrint(c) ==
    /\ child[c].pc = "print"
    /\ \E n \in 0 .. MaxPages :
         LET u == child[c].user
         IN  /\ child' = [child EXCEPT ![c].pc = "calculate", ![c].pages = n]
             /\ ledger' = IF account[u].active
                             THEN [ledger EXCEPT ![u] = @ - Price(child[c].kind, n)]
                             ELSE ledger
    /\ UNCHANGED <<account, dbaccess, form, disturbed, bounds>>

\* calculate_charge.
ChildCalculate(c) ==
    LET u == child[c].user
    IN  /\ child[c].pc = "calculate"
        /\ account[u].exists
        /\ child' = [child EXCEPT ![c].pc = "lock",
                         ![c].charge = IF account[u].active
                                           THEN Price(child[c].kind, child[c].pages) ELSE 0]
        /\ UNCHANGED <<account, dbaccess, form, ledger, disturbed, bounds>>

\* It fails, and the charge is whatever was there: the result is not looked at.
ChildCalculateFails(c) ==
    LET u == child[c].user
    IN  /\ child[c].pc = "calculate"
        /\ IF account[u].exists THEN Failure ELSE bounds' = bounds
        /\ \E g \in Garbage :
             child' = [child EXCEPT ![c].pc = "lock", ![c].charge = g]
        /\ disturbed' = disturbed \cup {u}
        /\ UNCHANGED <<account, dbaccess, form, ledger>>

\* A faulty variant: nobody waits.
NobodyWaits(c) == TRUE

DbaccessAvailable(c) == dbaccess = Free

\* charge_account: the lock on .dbaccess is waited for.
ChildLock(c) ==
    /\ child[c].pc = "lock"
    /\ DbaccessAvailable(c)
    /\ dbaccess' = c
    /\ child' = [child EXCEPT ![c].pc = "select"]
    /\ UNCHANGED <<account, form, ledger, disturbed, bounds>>

\* The signal that asks to abort the job ends the wait; the account is
\* charged all the same.
ChildLockCut(c) ==
    /\ child[c].pc = "lock"
    /\ dbaccess # Free
    /\ child' = [child EXCEPT ![c].pc = "select"]
    /\ disturbed' = disturbed \cup {child[c].user}
    /\ UNCHANGED <<account, dbaccess, form, ledger, bounds>>

\* Nothing to charge, or nobody to charge it to.
NoCharge(c) ==
    LET a == account[child[c].user] IN ~a.exists \/ ~a.active \/ child[c].charge <= 0

ChildSelect(c) ==
    /\ child[c].pc = "select"
    /\ IF NoCharge(c)
          THEN Exits(c)
          ELSE /\ child' = [child EXCEPT ![c].pc = "update",
                                         ![c].read = account[child[c].user].balance]
               /\ dbaccess' = dbaccess
    /\ UNCHANGED <<account, form, ledger, disturbed, bounds>>

\* UPDATE users SET balance: no such user, no effect.
ChildUpdate(c) ==
    LET u == child[c].user
    IN  /\ child[c].pc = "update"
        /\ account' = IF account[u].exists
                         THEN [account EXCEPT ![u].balance = child[c].read - child[c].charge]
                         ELSE account
        /\ Exits(c)
        /\ UNCHANGED <<form, ledger, disturbed, bounds>>

\* No connection, or the statement fails: an error in the log and no charge.
ChildChargeFails(c) ==
    /\ child[c].pc \in {"select", "update"}
    /\ Failure
    /\ ledger' = [ledger EXCEPT ![child[c].user] = @ + child[c].charge]
    /\ Exits(c)
    /\ UNCHANGED <<account, form, disturbed>>

ChildStep(c) ==
    \/ ChildStart(c) \/ ChildCheck(c) \/ ChildCheckFails(c) \/ ChildPrint(c)
    \/ ChildCalculate(c) \/ ChildCalculateFails(c) \/ ChildLock(c) \/ ChildLockCut(c)
    \/ ChildSelect(c) \/ ChildUpdate(c) \/ ChildChargeFails(c)

-----------------------------------------------------------------------------
(* The web pages.                                                          *)

\* show_user: a form with the user's record.
ShowUser(p) ==
    /\ ~form[p].open
    /\ \E u \in Users :
         /\ account[u].exists
         /\ form' = [form EXCEPT ![p] = [open |-> TRUE, user |-> u,
                                         balance |-> account[u].balance]]
    /\ UNCHANGED <<account, dbaccess, child, ledger, disturbed, bounds>>

Edited ==
    /\ bounds.edits < MaxEdits
    /\ bounds' = [bounds EXCEPT !.edits = @ + 1]

\* update_user: the form comes back, with a deposit or without, and with
\* accounting switched on or off; the record is replaced, whatever it has
\* become meanwhile.
UpdateUser(p) ==
    LET u == form[p].user
    IN  /\ form[p].open
        /\ Edited
        /\ form' = [form EXCEPT ![p] = NoForm]
        /\ \E d \in {0, Deposit}, active \in BOOLEAN :
             IF account[u].exists
                THEN /\ account' = [account EXCEPT ![u].balance = form[p].balance + d,
                                                   ![u].active = active]
                     /\ ledger' = [ledger EXCEPT ![u] = @ + d]
                     /\ disturbed' =
                          IF \/ account[u].balance # form[p].balance
                             \/ \E c \in Children : child[c].pc = "update" /\ child[c].user = u
                             \/ active # account[u].active /\ AtWork(u)
                          THEN disturbed \cup {u} ELSE disturbed
                ELSE UNCHANGED <<account, ledger, disturbed>>
        /\ UNCHANGED <<dbaccess, child>>

\* update_user's other button.
DeleteUser(p) ==
    LET u == form[p].user
    IN  /\ form[p].open
        /\ Edited
        /\ form' = [form EXCEPT ![p] = NoForm]
        /\ account' = [account EXCEPT ![u].exists = FALSE]
        /\ disturbed' = disturbed \cup {u}
        /\ UNCHANGED <<dbaccess, child, ledger>>

\* insert_user.  The new user starts with a clean sheet, if no charge meant
\* for the old one is under way.
AddUser ==
    \E u \in Users, active \in BOOLEAN :
        /\ ~account[u].exists
        /\ Edited
        /\ account' = [account EXCEPT ![u] = [exists |-> TRUE, active |-> active,
                                              balance |-> FirstBalance]]
        /\ ledger' = [ledger EXCEPT ![u] = FirstBalance]
        /\ disturbed' = IF AtWork(u) THEN disturbed ELSE disturbed \ {u}
        /\ UNCHANGED <<dbaccess, child, form>>

Next ==
    \/ \E c \in Children : ChildStep(c)
    \/ \E p \in Pages : ShowUser(p) \/ UpdateUser(p) \/ DeleteUser(p)
    \/ AddUser

Spec == Init /\ [][Next]_vars

-----------------------------------------------------------------------------
(* What must hold.                                                         *)

TypeOK ==
    /\ account \in [Users -> [exists : BOOLEAN, active : BOOLEAN, balance : Int]]
    /\ dbaccess \in Children \cup {Free}
    /\ child \in [Children -> [pc : {"idle", "check", "print", "calculate",
                                     "lock", "select", "update"},
                               user : Users, kind : Kinds, pages : 0 .. MaxPages,
                               charge : 0 .. MaxCharge \cup Garbage, read : Int]]
    /\ form \in [Pages -> [open : BOOLEAN, user : Users, balance : Int]]
    /\ ledger \in [Users -> Int]
    /\ disturbed \subseteq Users
    /\ bounds \in [jobs : 0 .. MaxJobs, edits : 0 .. MaxEdits, failures : 0 .. MaxFailures]

\* No update is lost: when a child writes a balance back, the one it has read
\* is still the account's, whatever other children and pages have done in the
\* meantime -- with the exceptions that disturbed names (ppd.c 1953-2016).
ReadIsFresh ==
    \A c \in Children :
        LET u == child[c].user
        IN  child[c].pc = "update" /\ account[u].exists /\ u \notin disturbed
            => child[c].read = account[u].balance

\* What a child still has to take from its user's account.
Due ==
    [c \in Children |->
        CASE child[c].pc = "calculate" /\ account[child[c].user].active ->
                 Price(child[c].kind, child[c].pages)
          [] child[c].pc \in {"lock", "select", "update"} -> child[c].charge
          [] OTHER -> 0]

DueFrom(u) == SumFunctionOnSet(Due, {c \in Children : child[c].user = u})

\* Every page printed is paid for once, whatever children charge the same
\* account at the same time and whatever pages are sent: the account holds the
\* deposits less the charges made and due.  A charge that fails is waived as a
\* whole, and takes nothing from other charges.  The exceptions, all of them in
\* disturbed: a page has overwritten a newer balance, or the balance between a
\* child's SELECT and UPDATE, or has changed the user's status in the middle of
\* a job; calculate_charge has failed, and what it left is charged; a signal has
\* ended a child's wait for .dbaccess; the user has been deleted (ppd.c
\* 1935-2032, 2113-2170, update_user.c 339-380).
BalanceIsLedger ==
    \A u \in Users :
        account[u].exists /\ u \notin disturbed
        => account[u].balance = ledger[u] + DueFrom(u)

\* The balance is checked before a job and charged after it: the jobs in
\* between can overdraw an account, but by less than one charge for each child
\* -- with the exceptions that disturbed names (ppd.c 1193-1205, 1233,
\* 2050-2109).
OverdraftBounded ==
    \A u \in Users :
        account[u].exists /\ u \notin disturbed
        => account[u].balance > 0 - Cardinality(Children) * MaxCharge
=============================================================================
