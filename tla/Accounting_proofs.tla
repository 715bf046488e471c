-------------------------- MODULE Accounting_proofs --------------------------
(***************************************************************************)
(* The lock on .dbaccess keeps charges from being lost, the balance is     *)
(* what the ledger says, and the overdraft is bounded: proofs for any      *)
(* number of users, children and pages.                                    *)
(***************************************************************************)
EXTENDS Accounting, FiniteSetTheorems, TLAPS

\* The account of an undisturbed user is read and written by the holder of
\* the lock on .dbaccess only.
HolderCharges ==
    \A c \in Children :
        child[c].pc \in {"select", "update"} /\ child[c].user \notin disturbed
        => dbaccess = c

\* Deleted users are among those no promise is made for.
GoneAreDisturbed == \A u \in Users : ~account[u].exists => u \in disturbed

AccountInv == TypeOK /\ HolderCharges /\ GoneAreDisturbed /\ ReadIsFresh

-----------------------------------------------------------------------------
ChildState == [pc : {"idle", "check", "print", "calculate", "lock", "select", "update"},
               user : Users, kind : Kinds, pages : 0 .. MaxPages,
               charge : 0 .. MaxCharge \cup Garbage, read : Int]

Forms == [open : BOOLEAN, user : Users, balance : Int]
Accounts == [exists : BOOLEAN, active : BOOLEAN, balance : Int]

\* The records of idle children and of closed forms are well formed.
LEMMA UnusedTyped == Unused \in ChildState /\ NoForm \in Forms
  <1>1. (CHOOSE u \in Users : TRUE) \in Users
    BY AccountingAssumption
  <1>2. 0 \in 0 .. MaxPages /\ 0 \in 0 .. MaxCharge
    BY AccountingAssumption DEF MaxCharge
  <1>3. QED
    BY <1>1, <1>2 DEF Unused, NoForm, ChildState, Forms, Kinds

\* A price is an amount a child may charge.
LEMMA PriceTyped ==
    ASSUME NEW k \in Kinds, NEW n \in 0 .. MaxPages
    PROVE  Price(k, n) \in 0 .. MaxCharge \cup Garbage /\ Price(k, n) \in Int
  BY AccountingAssumption DEF Price, Kinds, MaxCharge

\* A charge is an integer, whatever an uninitialized one holds.
LEMMA ChargesAreIntegers == 0 .. MaxCharge \cup Garbage \subseteq Int
  <1>1. Garbage \subseteq Int
    BY Zenon, AccountingAssumption DEF AccountingAssumption
  <1>2. ASSUME NEW x \in 0 .. MaxCharge PROVE x \in Int
    OBVIOUS
  <1>3. QED
    BY <1>1, <1>2

\* TypeOK, with the sets it names.
LEMMA TypeSets ==
    TypeOK <=> /\ account \in [Users -> Accounts]
               /\ dbaccess \in Children \cup {Free}
               /\ child \in [Children -> ChildState]
               /\ form \in [Pages -> Forms]
               /\ ledger \in [Users -> Int]
               /\ disturbed \subseteq Users
               /\ bounds \in [jobs : 0 .. MaxJobs, edits : 0 .. MaxEdits,
                              failures : 0 .. MaxFailures]
  BY DEF TypeOK, Accounts, ChildState, Forms

-----------------------------------------------------------------------------
\* What a child that exits leaves behind.
LEMMA ExitsTyped ==
    ASSUME TypeOK, NEW c \in Children, Exits(c)
    PROVE  child' \in [Children -> ChildState] /\ dbaccess' \in Children \cup {Free}
  BY TypeSets, UnusedTyped DEF Exits

\* Every step of a child keeps the types.
LEMMA ChildTypes ==
    ASSUME TypeOK, NEW c \in Children, ChildStep(c)
    PROVE  TypeOK'
  <1>1. child[c] \in ChildState /\ child[c].user \in Users
    BY TypeSets DEF ChildState
  <1>2. bounds.jobs \in Nat /\ bounds.failures \in Nat
    BY DEF TypeOK
  <1>a. ASSUME Failure PROVE bounds' \in [jobs : 0 .. MaxJobs, edits : 0 .. MaxEdits,
                                         failures : 0 .. MaxFailures]
    BY <1>a, AccountingAssumption DEF TypeOK, Failure
  <1>b. disturbed \cup {child[c].user} \subseteq Users
    BY <1>1 DEF TypeOK
  <1>3. CASE ChildStart(c)
    <2>1. bounds' \in [jobs : 0 .. MaxJobs, edits : 0 .. MaxEdits, failures : 0 .. MaxFailures]
      BY <1>3, AccountingAssumption DEF TypeOK, ChildStart
    <2>2. child' \in [Children -> ChildState]
      BY <1>3, TypeSets, UnusedTyped, ZenonT(40) DEF ChildStart, ChildState
    <2>3. QED
      BY <1>3, <2>1, <2>2, TypeSets DEF ChildStart, TypeOK, Accounts, ChildState, Forms
  <1>4. CASE ChildCheck(c)
    <2>1. child' \in [Children -> ChildState] /\ dbaccess' \in Children \cup {Free}
      BY <1>1, <1>4, TypeSets, ExitsTyped DEF ChildCheck, ChildState
    <2>2. QED
      BY <1>4, <2>1 DEF ChildCheck, TypeOK, ChildState
  <1>5. CASE ChildCheckFails(c)
    BY <1>5, <1>a, ExitsTyped DEF ChildCheckFails, TypeOK, ChildState
  <1>6. CASE ChildPrint(c)
    <2>1. PICK n \in 0 .. MaxPages :
            /\ child' = [child EXCEPT ![c].pc = "calculate", ![c].pages = n]
            /\ ledger' = IF account[child[c].user].active
                            THEN [ledger EXCEPT ![child[c].user] = @ - Price(child[c].kind, n)]
                            ELSE ledger
      BY <1>6 DEF ChildPrint
    <2>2. child' \in [Children -> ChildState]
      BY <1>1, <2>1, TypeSets DEF ChildState
    <2>3. Price(child[c].kind, n) \in Int
      BY <1>1, PriceTyped DEF ChildState
    <2>4. ledger' \in [Users -> Int]
      BY <1>1, <2>1, <2>3 DEF TypeOK
    <2>5. QED
      BY <1>6, <2>2, <2>4 DEF ChildPrint, TypeOK, ChildState
  <1>7. CASE ChildCalculate(c)
    <2>1. Price(child[c].kind, child[c].pages) \in 0 .. MaxCharge \cup Garbage
      BY <1>1, PriceTyped DEF ChildState
    <2>2. 0 \in 0 .. MaxCharge
      BY AccountingAssumption DEF MaxCharge
    <2>3. child' \in [Children -> ChildState]
      BY <1>1, <1>7, <2>1, <2>2, TypeSets DEF ChildCalculate, ChildState
    <2>4. QED
      BY <1>7, <2>3 DEF ChildCalculate, TypeOK, ChildState
  <1>8. CASE ChildCalculateFails(c)
    <2>1. PICK g \in Garbage :
            child' = [child EXCEPT ![c].pc = "lock", ![c].charge = g]
      BY <1>8 DEF ChildCalculateFails
    <2>0. child' \in [Children -> ChildState]
      BY <1>1, <2>1, TypeSets DEF ChildState
    <2>2. bounds' \in [jobs : 0 .. MaxJobs, edits : 0 .. MaxEdits, failures : 0 .. MaxFailures]
      BY <1>8, <1>a DEF ChildCalculateFails, TypeOK
    <2>3. QED
      BY <1>8, <1>b, <2>0, <2>2 DEF ChildCalculateFails, TypeOK, ChildState
  <1>9. CASE ChildLock(c)
    BY <1>1, <1>9, SMTT(20) DEF ChildLock, TypeOK
  <1>10. CASE ChildLockCut(c)
    <2>1. child' \in [Children -> ChildState]
      BY <1>1, <1>10, TypeSets DEF ChildLockCut, ChildState
    <2>2. QED
      BY <1>10, <1>b, <2>1 DEF ChildLockCut, TypeOK, ChildState
  <1>11. CASE ChildSelect(c)
    <2>1. account[child[c].user].balance \in Int
      BY <1>1 DEF TypeOK
    <2>2. child' \in [Children -> ChildState] /\ dbaccess' \in Children \cup {Free}
      BY <1>1, <1>11, <2>1, TypeSets, ExitsTyped DEF ChildSelect, ChildState
    <2>3. QED
      BY <1>11, <2>2 DEF ChildSelect, TypeOK, ChildState
  <1>12. CASE ChildUpdate(c)
    <2>1. child[c].read - child[c].charge \in Int
      <3>1. child[c].charge \in 0 .. MaxCharge \cup Garbage /\ child[c].read \in Int
        BY <1>1 DEF ChildState
      <3>2. child[c].charge \in Int
        BY <3>1, ChargesAreIntegers
      <3>3. QED
        BY <3>1, <3>2
    <2>2. account' \in [Users -> Accounts]
      BY <1>1, <1>12, <2>1, TypeSets DEF ChildUpdate, Accounts
    <2>3. QED
      BY <1>12, <2>2, ExitsTyped DEF ChildUpdate, TypeOK, ChildState, Accounts
  <1>13. CASE ChildChargeFails(c)
    <2>1. child[c].charge \in Int
      BY <1>1, ChargesAreIntegers DEF ChildState
    <2>2. ledger' \in [Users -> Int]
      BY <1>1, <1>13, <2>1 DEF ChildChargeFails, TypeOK
    <2>3. QED
      BY <1>13, <1>a, <2>2, ExitsTyped DEF ChildChargeFails, TypeOK, ChildState
  <1>14. QED
    BY <1>3, <1>4, <1>5, <1>6, <1>7, <1>8, <1>9, <1>10, <1>11, <1>12, <1>13 DEF ChildStep

\* Every step of a page keeps the types.
LEMMA PageTypes ==
    ASSUME TypeOK, (\E p \in Pages : ShowUser(p) \/ UpdateUser(p) \/ DeleteUser(p)) \/ AddUser
    PROVE  TypeOK'
  <1>a. ASSUME Edited PROVE bounds' \in [jobs : 0 .. MaxJobs, edits : 0 .. MaxEdits,
                                        failures : 0 .. MaxFailures]
    BY <1>a, AccountingAssumption DEF TypeOK, Edited
  <1>1. ASSUME NEW p \in Pages, ShowUser(p) PROVE TypeOK'
    BY <1>1 DEF ShowUser, TypeOK
  <1>2. ASSUME NEW p \in Pages, UpdateUser(p) PROVE TypeOK'
    <2>1. form[p].user \in Users /\ form[p].balance \in Int
      BY TypeSets DEF Forms
    <2>2. form' \in [Pages -> Forms]
      BY <1>2, TypeSets, UnusedTyped DEF UpdateUser
    <2>3. PICK d \in {0, Deposit}, active \in BOOLEAN :
            IF account[form[p].user].exists
               THEN /\ account' = [account EXCEPT ![form[p].user].balance = form[p].balance + d,
                                                  ![form[p].user].active = active]
                    /\ ledger' = [ledger EXCEPT ![form[p].user] = @ + d]
                    /\ disturbed' \subseteq disturbed \cup {form[p].user}
               ELSE UNCHANGED <<account, ledger, disturbed>>
      BY <1>2 DEF UpdateUser
    <2>4. d \in Int
      BY AccountingAssumption
    <2>5. form[p].balance + d \in Int
      BY <2>1, <2>4
    <2>6. /\ account' \in [Users -> Accounts] /\ ledger' \in [Users -> Int]
          /\ disturbed' \subseteq Users
      BY <2>1, <2>3, <2>4, <2>5, TypeSets DEF Accounts
    <2>7. bounds' \in [jobs : 0 .. MaxJobs, edits : 0 .. MaxEdits, failures : 0 .. MaxFailures]
      BY <1>2, <1>a DEF UpdateUser
    <2>8. UNCHANGED <<dbaccess, child>>
      BY <1>2 DEF UpdateUser
    <2>9. QED
      BY <2>2, <2>6, <2>7, <2>8, TypeSets DEF TypeOK, Accounts, Forms, ChildState
  <1>3. ASSUME NEW p \in Pages, DeleteUser(p) PROVE TypeOK'
    <2>1. form[p].user \in Users
      BY TypeSets DEF Forms
    <2>2. form' \in [Pages -> Forms]
      BY <1>3, TypeSets, UnusedTyped DEF DeleteUser
    <2>3. bounds' \in [jobs : 0 .. MaxJobs, edits : 0 .. MaxEdits, failures : 0 .. MaxFailures]
      BY <1>3, <1>a DEF DeleteUser
    <2>4. QED
      BY <1>3, <2>1, <2>2, <2>3 DEF DeleteUser, TypeOK, Forms
  <1>4. CASE AddUser
    <2>1. bounds' \in [jobs : 0 .. MaxJobs, edits : 0 .. MaxEdits, failures : 0 .. MaxFailures]
      BY <1>4, <1>a DEF AddUser
    <2>2. QED
      BY <1>4, <2>1, AccountingAssumption DEF AddUser, TypeOK
  <1>5. QED
    BY <1>1, <1>2, <1>3, <1>4

\* The types hold when nothing has been printed.
LEMMA AccountInitTypes == Init => TypeOK
  <1> SUFFICES ASSUME Init PROVE TypeOK
    OBVIOUS
  <1>1. child \in [Children -> ChildState] /\ form \in [Pages -> Forms]
    BY UnusedTyped DEF Init
  <1>2. account \in [Users -> Accounts]
    <2>1. FirstBalance \in Int
      BY AccountingAssumption
    <2>2. PICK b \in [Users -> [exists : {TRUE}, active : BOOLEAN, balance : {FirstBalance}]] :
            account = b
      BY DEF Init
    <2>3. \A u \in Users : b[u] \in Accounts
      BY <2>1 DEF Accounts
    <2>4. QED
      BY <2>2, <2>3
  <1>3. bounds \in [jobs : 0 .. MaxJobs, edits : 0 .. MaxEdits, failures : 0 .. MaxFailures]
    BY AccountingAssumption DEF Init
  <1>4. ledger \in [Users -> Int]
    BY AccountingAssumption DEF Init
  <1>5. QED
    BY <1>1, <1>2, <1>3, <1>4, TypeSets DEF Init

\* Every step keeps the types.
LEMMA NextTypes == TypeOK /\ [Next]_vars => TypeOK'
  <1> SUFFICES ASSUME TypeOK, [Next]_vars PROVE TypeOK'
    OBVIOUS
  <1>1. CASE Next
    BY <1>1, ChildTypes, PageTypes DEF Next
  <1>2. CASE UNCHANGED vars
    BY <1>2 DEF vars, TypeOK
  <1>3. QED
    BY <1>1, <1>2

\* The records of users, children and forms are well formed in every state of
\* the accounting (ppd.c 1101-1253, 1923-2174, update_user.c 281-400).
THEOREM AccountTypes == Spec => []TypeOK
  <1>1. QED
    BY AccountInitTypes, NextTypes, PTL DEF Spec

-----------------------------------------------------------------------------
\* A child's step keeps the lock's promise and the freshness of what it and
\* the other children have read.
LEMMA ChildFresh ==
    ASSUME AccountInv, NEW c \in Children, ChildStep(c)
    PROVE  HolderCharges' /\ GoneAreDisturbed' /\ ReadIsFresh'
  <1>0. TypeOK /\ HolderCharges /\ GoneAreDisturbed /\ ReadIsFresh
    BY DEF AccountInv
  <1>1. /\ child \in [Children -> ChildState]
        /\ account \in [Users -> Accounts]
        /\ \A d \in Children : child[d].user \in Users
        /\ Free \notin Children
    BY <1>0, TypeSets, AccountingAssumption DEF ChildState
  <1>2. Unused.pc = "idle"
    BY DEF Unused
  <1>3. \A d \in Children : d # c => child'[d] = child[d]
    BY <1>1 DEF ChildStep, ChildStart, ChildCheck, ChildCheckFails, ChildPrint, ChildCalculate,
       ChildCalculateFails, ChildLock, ChildLockCut, ChildSelect, ChildUpdate, ChildChargeFails,
       Exits
  <1>4. disturbed \subseteq disturbed'
    BY DEF ChildStep, ChildStart, ChildCheck, ChildCheckFails, ChildPrint, ChildCalculate,
       ChildCalculateFails, ChildLock, ChildLockCut, ChildSelect, ChildUpdate, ChildChargeFails
  \* The lock does not leave another child that holds it.
  <1>5. \A d \in Children : d # c /\ dbaccess = d => dbaccess' = d
    BY <1>1 DEF ChildStep, ChildStart, ChildCheck, ChildCheckFails, ChildPrint, ChildCalculate,
       ChildCalculateFails, ChildLock, ChildLockCut, ChildSelect, ChildUpdate, ChildChargeFails,
       Exits, DbaccessAvailable
  <1>6. ASSUME child'[c].pc \in {"select", "update"}, child'[c].user \notin disturbed'
        PROVE  dbaccess' = c
    <2>1. CASE ChildLock(c)
      BY <2>1 DEF ChildLock
    <2>2. CASE ChildLockCut(c)
      BY <1>1, <1>6, <2>2 DEF ChildLockCut, ChildState
    <2>3. CASE ChildSelect(c)
      <3>1. child[c].pc = "select" /\ child'[c].user = child[c].user /\ dbaccess' = dbaccess
        BY <1>1, <1>2, <1>6, <2>3 DEF ChildSelect, Exits, ChildState
      <3>2. QED
        BY <1>0, <1>4, <1>6, <3>1 DEF HolderCharges
    <2>4. ASSUME \/ ChildStart(c) \/ ChildCheck(c) \/ ChildCheckFails(c) \/ ChildPrint(c)
                 \/ ChildCalculate(c) \/ ChildCalculateFails(c)
                 \/ ChildUpdate(c) \/ ChildChargeFails(c)
          PROVE  FALSE
      <3>1. child'[c].pc \notin {"select", "update"}
        <4>1. CASE ChildStart(c)
          BY <1>1, <1>2, <4>1 DEF ChildStart, ChildState
        <4>2. CASE ChildCheck(c)
          BY <1>1, <1>2, <4>2 DEF ChildCheck, Exits, ChildState
        <4>3. CASE ChildCheckFails(c)
          BY <1>1, <1>2, <4>3 DEF ChildCheckFails, Exits, ChildState
        <4>4. CASE ChildPrint(c)
          BY <1>1, <1>2, <4>4 DEF ChildPrint, ChildState
        <4>5. CASE ChildCalculate(c)
          BY <1>1, <1>2, <4>5 DEF ChildCalculate, ChildState
        <4>6. CASE ChildCalculateFails(c)
          BY <1>1, <1>2, <4>6 DEF ChildCalculateFails, ChildState
        <4>7. CASE ChildUpdate(c)
          BY <1>1, <1>2, <4>7 DEF ChildUpdate, Exits, ChildState
        <4>8. CASE ChildChargeFails(c)
          BY <1>1, <1>2, <4>8 DEF ChildChargeFails, Exits, ChildState
        <4>9. QED
          BY <2>4, <4>1, <4>2, <4>3, <4>4, <4>5, <4>6, <4>7, <4>8
      <3>2. QED
        BY <1>6, <3>1
    <2>5. QED
      BY <2>1, <2>2, <2>3, <2>4 DEF ChildStep
  <1>7. HolderCharges'
    BY <1>0, <1>3, <1>4, <1>5, <1>6 DEF HolderCharges
  \* A balance changes only in the hands of a child about to write.
  <1>8. \/ account' = account
        \/ /\ ChildUpdate(c)
           /\ child[c].pc = "update"
           /\ \A u \in Users : u # child[c].user => account'[u] = account[u]
           /\ \A u \in Users : account'[u].exists = account[u].exists
    BY <1>1 DEF ChildStep, ChildStart, ChildCheck, ChildCheckFails, ChildPrint, ChildCalculate,
       ChildCalculateFails, ChildLock, ChildLockCut, ChildSelect, ChildUpdate, ChildChargeFails,
       Accounts
  <1>9. ASSUME NEW d \in Children, d # c,
               child'[d].pc = "update", account'[child'[d].user].exists,
               child'[d].user \notin disturbed'
        PROVE  child'[d].read = account'[child'[d].user].balance
    <2>1. /\ child'[d] = child[d]
          /\ child[d].pc = "update" /\ child[d].user \notin disturbed
      BY <1>3, <1>4, <1>9
    <2>2. dbaccess = d
      BY <1>0, <2>1 DEF HolderCharges
    <2>3. CASE account' = account
      BY <1>0, <1>9, <2>1, <2>3 DEF ReadIsFresh
    <2>4. ASSUME child[c].pc = "update", child[c].user = child[d].user PROVE FALSE
      BY <1>0, <1>9, <2>1, <2>2, <2>4 DEF HolderCharges
    <2>5. CASE account' # account
      <3>1. child[d].user # child[c].user
        BY <1>8, <2>4, <2>5
      <3>2. account'[child[d].user] = account[child[d].user]
        BY <1>1, <1>8, <2>5, <3>1
      <3>3. QED
        BY <1>0, <1>9, <2>1, <3>2 DEF ReadIsFresh
    <2>6. QED
      BY <2>3, <2>5
  <1>10. ASSUME child'[c].pc = "update"
         PROVE  child'[c].read = account'[child'[c].user].balance
    <2>1. ChildSelect(c)
      <3>1. CASE ChildStart(c)
        BY <1>1, <1>2, <1>10, <3>1 DEF ChildStart, ChildState
      <3>2. CASE ChildCheck(c)
        BY <1>1, <1>2, <1>10, <3>2 DEF ChildCheck, Exits, ChildState
      <3>3. CASE ChildCheckFails(c)
        BY <1>1, <1>2, <1>10, <3>3 DEF ChildCheckFails, Exits, ChildState
      <3>4. CASE ChildPrint(c)
        BY <1>1, <1>2, <1>10, <3>4 DEF ChildPrint, ChildState
      <3>5. CASE ChildCalculate(c)
        BY <1>1, <1>2, <1>10, <3>5 DEF ChildCalculate, ChildState
      <3>6. CASE ChildCalculateFails(c)
        BY <1>1, <1>2, <1>10, <3>6 DEF ChildCalculateFails, ChildState
      <3>7. CASE ChildLock(c)
        BY <1>1, <1>2, <1>10, <3>7 DEF ChildLock, ChildState
      <3>8. CASE ChildLockCut(c)
        BY <1>1, <1>2, <1>10, <3>8 DEF ChildLockCut, ChildState
      <3>9. CASE ChildUpdate(c)
        BY <1>1, <1>2, <1>10, <3>9 DEF ChildUpdate, Exits, ChildState
      <3>10. CASE ChildChargeFails(c)
        BY <1>1, <1>2, <1>10, <3>10 DEF ChildChargeFails, Exits, ChildState
      <3>11. QED
        BY <3>1, <3>2, <3>3, <3>4, <3>5, <3>6, <3>7, <3>8, <3>9, <3>10 DEF ChildStep
    <2>2. QED
      BY <1>1, <1>2, <1>10, <2>1 DEF ChildSelect, Exits, ChildState
  <1>11. ReadIsFresh'
    BY <1>9, <1>10 DEF ReadIsFresh
  <1>12. GoneAreDisturbed'
    BY <1>0, <1>4, <1>8 DEF GoneAreDisturbed
  <1>13. QED
    BY <1>7, <1>11, <1>12

\* A page's step either leaves alone what a child has read, or disturbs the
\* user.
LEMMA PageFresh ==
    ASSUME AccountInv, (\E p \in Pages : ShowUser(p) \/ UpdateUser(p) \/ DeleteUser(p)) \/ AddUser
    PROVE  HolderCharges' /\ GoneAreDisturbed' /\ ReadIsFresh'
  <1>0. TypeOK /\ HolderCharges /\ GoneAreDisturbed /\ ReadIsFresh
    BY DEF AccountInv
  <1>1. /\ account \in [Users -> Accounts]
        /\ \A d \in Children : child[d].user \in Users
    BY <1>0, TypeSets DEF ChildState
  <1>2. child' = child /\ dbaccess' = dbaccess
    BY DEF ShowUser, UpdateUser, DeleteUser, AddUser
  \* What is lifted is lifted for users nobody charges.
  <1>3. \A d \in Children : child[d].pc \in {"select", "update"} /\ child[d].user \notin disturbed'
                          => child[d].user \notin disturbed
    <2>1. ASSUME NEW p \in Pages, ShowUser(p) \/ UpdateUser(p) \/ DeleteUser(p)
          PROVE  disturbed \subseteq disturbed'
      BY <2>1 DEF ShowUser, UpdateUser, DeleteUser
    <2>2. CASE AddUser
      <3>1. PICK u \in Users :
              disturbed' = IF AtWork(u) THEN disturbed ELSE disturbed \ {u}
        BY <2>2 DEF AddUser
      <3>2. ASSUME NEW d \in Children, child[d].pc \in {"select", "update"}, child[d].user = u
            PROVE  AtWork(u)
        BY <3>2 DEF AtWork
      <3>3. QED
        BY <3>1, <3>2
    <2>3. QED
      BY <2>1, <2>2
  <1>4. HolderCharges'
    BY <1>0, <1>2, <1>3 DEF HolderCharges
  <1>5. ASSUME NEW d \in Children, child[d].pc = "update", account'[child[d].user].exists,
               child[d].user \notin disturbed'
        PROVE  child[d].read = account'[child[d].user].balance
    <2>0. child[d].user \notin disturbed
      BY <1>3, <1>5
    <2>1. ASSUME account'[child[d].user] = account[child[d].user]
          PROVE  child[d].read = account'[child[d].user].balance
      BY <1>0, <1>5, <2>0, <2>1 DEF ReadIsFresh
    <2>2. ASSUME NEW p \in Pages, ShowUser(p)
          PROVE  account' = account
      BY <2>2 DEF ShowUser
    <2>3. ASSUME NEW p \in Pages, UpdateUser(p)
          PROVE  account'[child[d].user] = account[child[d].user]
      <3>1. CASE form[p].user = child[d].user /\ account[form[p].user].exists
        BY <1>5, <2>3, <3>1 DEF UpdateUser
      <3>2. CASE ~(form[p].user = child[d].user /\ account[form[p].user].exists)
        BY <1>1, <2>3, <3>2 DEF UpdateUser
      <3>3. QED
        BY <3>1, <3>2
    <2>4. ASSUME NEW p \in Pages, DeleteUser(p)
          PROVE  account'[child[d].user] = account[child[d].user]
      BY <1>1, <1>5, <2>4 DEF DeleteUser
    <2>5. CASE AddUser
      <3>1. PICK u \in Users :
              /\ ~account[u].exists
              /\ disturbed' = IF AtWork(u) THEN disturbed ELSE disturbed \ {u}
              /\ \A v \in Users : v # u => account'[v] = account[v]
        BY <1>1, <2>5 DEF AddUser
      <3>2. ASSUME child[d].user = u PROVE FALSE
        <4>1. u \in disturbed
          BY <1>0, <3>1 DEF GoneAreDisturbed
        <4>2. AtWork(u)
          BY <1>5, <3>2 DEF AtWork
        <4>3. QED
          BY <1>5, <3>1, <3>2, <4>1, <4>2
      <3>3. QED
        BY <1>1, <2>1, <3>1, <3>2
    <2>6. QED
      BY <2>1, <2>2, <2>3, <2>4, <2>5
  <1>6. GoneAreDisturbed'
    <2>1. ASSUME NEW p \in Pages, ShowUser(p) PROVE GoneAreDisturbed'
      BY <1>0, <2>1 DEF ShowUser, GoneAreDisturbed
    <2>2. ASSUME NEW p \in Pages, UpdateUser(p) PROVE GoneAreDisturbed'
      BY <1>0, <1>1, <2>2, SMTT(20) DEF UpdateUser, GoneAreDisturbed, Accounts
    <2>3. ASSUME NEW p \in Pages, DeleteUser(p) PROVE GoneAreDisturbed'
      BY <1>0, <1>1, <2>3 DEF DeleteUser, GoneAreDisturbed, Accounts
    <2>4. CASE AddUser
      BY <1>0, <1>1, <2>4 DEF AddUser, GoneAreDisturbed, Accounts
    <2>5. QED
      BY <2>1, <2>2, <2>3, <2>4
  <1>7. QED
    BY <1>2, <1>4, <1>5, <1>6 DEF ReadIsFresh

\* The parts of the invariant hold before the first check of a balance.
LEMMA FreshInit == Init => HolderCharges /\ GoneAreDisturbed /\ ReadIsFresh
  <1> SUFFICES ASSUME Init PROVE HolderCharges /\ GoneAreDisturbed /\ ReadIsFresh
    OBVIOUS
  <1>1. \A c \in Children : child[c].pc = "idle"
    BY DEF Init, Unused
  <1>2. \A u \in Users : account[u].exists
    BY DEF Init
  <1>3. QED
    BY <1>1, <1>2 DEF HolderCharges, GoneAreDisturbed, ReadIsFresh

\* Every step keeps the invariant.
LEMMA AccountInvKept == AccountInv /\ [Next]_vars => AccountInv'
  <1> SUFFICES ASSUME AccountInv, [Next]_vars PROVE AccountInv'
    OBVIOUS
  <1>1. TypeOK'
    BY NextTypes DEF AccountInv
  <1>2. HolderCharges' /\ GoneAreDisturbed' /\ ReadIsFresh'
    <2>1. CASE Next
      BY <2>1, ChildFresh, PageFresh DEF Next
    <2>2. CASE UNCHANGED vars
      BY <2>2 DEF vars, AccountInv, HolderCharges, GoneAreDisturbed, ReadIsFresh
    <2>3. QED
      BY <2>1, <2>2
  <1>3. QED
    BY <1>1, <1>2 DEF AccountInv

\* No charge is lost, for any number of users, children and pages: the balance
\* a child is about to write back, for a user who is not disturbed, was read
\* from the account as it still is (ppd.c 1953-2016).
THEOREM ChargesFresh == Spec => []ReadIsFresh
  <1>1. Init => AccountInv
    BY AccountInitTypes, FreshInit DEF AccountInv
  <1>2. AccountInv => ReadIsFresh
    BY DEF AccountInv
  <1>3. QED
    BY <1>1, <1>2, AccountInvKept, PTL DEF Spec

-----------------------------------------------------------------------------
(* Sums over finite sets.  What holds of every finite set is shown of one  *)
(* that has no smaller set of its kind for which it fails.                 *)

\* Some set of a nonempty collection contains no other one of it.
LEMMA SmallestSet ==
    ASSUME NEW S, IsFiniteSet(S), NEW T \in SUBSET (SUBSET S), T # {}
    PROVE  \E s \in T : \A t \in T : ~(t \subseteq s /\ t # s)
  <1>1. T \subseteq FiniteSubsetsOf(S)
    BY FS_FiniteSubsetsOfFinite
  <1>2. \E s \in T : \A t \in T : <<t, s>> \notin StrictSubsetOrdering(S)
    BY <1>1, FS_StrictSubsetOrderingWellFounded, WFMin
  <1>3. PICK s \in T : \A t \in T : <<t, s>> \notin StrictSubsetOrdering(S)
    BY <1>2
  <1>4. ASSUME NEW t \in T, t \subseteq s, t # s
        PROVE  FALSE
    <2>1. <<t, s>> \in StrictSubsetOrdering(S)
      BY <1>4 DEF StrictSubsetOrdering
    <2>2. QED
      BY <1>3, <2>1
  <1>5. QED
    BY <1>3, <1>4

Taken(s) == CHOOSE x \in s : TRUE

\* g gives the sum of f over every part of S.
Sums(g, f, S) ==
    g = [s \in SUBSET S |-> IF s = {} THEN 0 ELSE f[Taken(s)] + g[s \ {Taken(s)}]]

SumsOf(f, S) == CHOOSE g : Sums(g, f, S)

\* The library's sum, as its definition has it.
LEMMA SumUnfolds ==
    ASSUME NEW f, NEW S
    PROVE  SumFunctionOnSet(f, S) = SumsOf(f, S)[S]
  BY DEF SumFunctionOnSet, FoldFunctionOnSet, MapThenFoldSet, SumsOf, Sums, Taken

\* What is taken from a set is in it.
LEMMA TakenIn ==
    ASSUME NEW s, s # {}
    PROVE  Taken(s) \in s
  BY DEF Taken

\* The sums are determined by their equation.
LEMMA SumsAreOne ==
    ASSUME NEW S, IsFiniteSet(S), NEW f, NEW g, NEW h, Sums(g, f, S), Sums(h, f, S)
    PROVE  g = h
  <1> DEFINE T == {s \in SUBSET S : g[s] # h[s]}
  <1>0. T \in SUBSET (SUBSET S)
    OBVIOUS
  <1>1. ASSUME T # {}
        PROVE  FALSE
    <2> HIDE DEF T
    <2>1. PICK s \in T : \A t \in T : ~(t \subseteq s /\ t # s)
      BY <1>0, <1>1, SmallestSet
    <2> USE DEF T
    <2>2. s # {}
      BY <2>1 DEF Sums
    <2>3. s \ {Taken(s)} \in SUBSET S /\ s \ {Taken(s)} # s
      BY <2>2, TakenIn
    <2>4. g[s \ {Taken(s)}] = h[s \ {Taken(s)}]
      BY <2>1, <2>3
    <2>5. g[s] = f[Taken(s)] + g[s \ {Taken(s)}] /\ h[s] = f[Taken(s)] + h[s \ {Taken(s)}]
      BY <2>2 DEF Sums
    <2>6. QED
      BY <2>1, <2>4, <2>5
  <1>2. \A s \in SUBSET S : g[s] = h[s]
    BY <1>1
  <1>3. DOMAIN g = SUBSET S /\ DOMAIN h = SUBSET S
    BY DEF Sums
  <1>4. g = [s \in SUBSET S |-> g[s]] /\ h = [s \in SUBSET S |-> h[s]]
    BY DEF Sums
  <1>5. QED
    BY <1>2, <1>3, <1>4

\* The sums over the parts of a part.
LEMMA SumsRestrict ==
    ASSUME NEW S, NEW R \in SUBSET S, NEW f, NEW g, Sums(g, f, S)
    PROVE  Sums([s \in SUBSET R |-> g[s]], f, R)
  <1> DEFINE h == [s \in SUBSET R |-> g[s]]
  <1>1. ASSUME NEW s \in SUBSET R
        PROVE  h[s] = IF s = {} THEN 0 ELSE f[Taken(s)] + h[s \ {Taken(s)}]
    <2>1. s \in SUBSET S /\ s \ {Taken(s)} \in SUBSET R
      OBVIOUS
    <2>2. g[s] = IF s = {} THEN 0 ELSE f[Taken(s)] + g[s \ {Taken(s)}]
      BY <2>1 DEF Sums
    <2>3. h[s] = g[s] /\ h[s \ {Taken(s)}] = g[s \ {Taken(s)}]
      BY <2>1
    <2>4. QED
      BY <2>2, <2>3
  <1> HIDE DEF h
  <1>2. h = [s \in SUBSET R |-> h[s]]
    BY DEF h
  <1>3. QED
    BY <1>1, <1>2 DEF Sums, h

\* There are such sums.
LEMMA SumsExist ==
    ASSUME NEW S, IsFiniteSet(S), NEW f
    PROVE  Sums(SumsOf(f, S), f, S)
  <1> DEFINE T == {s \in SUBSET S : ~ \E g : Sums(g, f, s)}
  <1>0. T \in SUBSET (SUBSET S)
    OBVIOUS
  <1>1. ASSUME T # {}
        PROVE  FALSE
    <2> HIDE DEF T
    <2>1. PICK r \in T : \A t \in T : ~(t \subseteq r /\ t # r)
      BY <1>0, <1>1, SmallestSet
    <2> USE DEF T
    <2>2. \A t \in SUBSET r : t # r => Sums(SumsOf(f, t), f, t)
      BY <2>1 DEF SumsOf
    <2> DEFINE smaller(s) == s \ {Taken(s)}
    <2> DEFINE h == [s \in SUBSET r |->
                       IF s = {} THEN 0 ELSE f[Taken(s)] + SumsOf(f, smaller(s))[smaller(s)]]
    <2>3. ASSUME NEW s \in SUBSET r, s # {}
          PROVE  h[smaller(s)] = SumsOf(f, smaller(s))[smaller(s)]
      <3> DEFINE t == smaller(s)
                 g == SumsOf(f, t)
      <3>1. t \in SUBSET r /\ t # r /\ IsFiniteSet(t)
        BY <2>3, TakenIn, FS_Subset
      <3>2. Sums(g, f, t)
        BY <2>2, <3>1
      <3>3. CASE t = {}
        <4>1. g[t] = 0
          BY <3>2, <3>3 DEF Sums
        <4>2. h[t] = 0
          BY <3>1, <3>3
        <4>3. QED
          BY <4>1, <4>2
      <3>4. CASE t # {}
        <4> DEFINE q == smaller(t)
        <4>1. q \in SUBSET t /\ q \in SUBSET r /\ q # r /\ IsFiniteSet(q)
          BY <3>1, FS_Subset
        <4>2. g[t] = f[Taken(t)] + g[q]
          <5>1. t \in SUBSET t
            OBVIOUS
          <5>2. QED
            BY <3>2, <3>4, <5>1 DEF Sums
        <4>3. h[t] = f[Taken(t)] + SumsOf(f, q)[q]
          BY <3>1, <3>4
        <4>4. g[q] = SumsOf(f, q)[q]
          <5>1. Sums([p \in SUBSET q |-> g[p]], f, q)
            <6> HIDE DEF g, q, t
            <6>1. QED
              BY <3>2, <4>1, SumsRestrict
          <5>2. Sums(SumsOf(f, q), f, q)
            BY <2>2, <4>1
          <5>3. [p \in SUBSET q |-> g[p]] = SumsOf(f, q)
            BY <4>1, <5>1, <5>2, SumsAreOne
          <5>4. QED
            BY <5>3
        <4>5. QED
          BY <4>2, <4>3, <4>4
      <3>5. QED
        BY <3>3, <3>4
    <2>4. \A s \in SUBSET r : h[s] = IF s = {} THEN 0 ELSE f[Taken(s)] + h[smaller(s)]
      BY <2>3
    <2>5. h = [s \in SUBSET r |-> h[s]]
      OBVIOUS
    <2> HIDE DEF h
    <2>6. Sums(h, f, r)
      BY <2>4, <2>5 DEF Sums
    <2>7. QED
      BY <2>1, <2>6
  <1>2. S \in SUBSET S
    OBVIOUS
  <1>3. \E g : Sums(g, f, S)
    BY <1>1, <1>2
  <1>4. QED
    BY <1>3 DEF SumsOf

\* A sum is that of what is taken and of the rest.
LEMMA SumTaken ==
    ASSUME NEW S, IsFiniteSet(S), NEW f
    PROVE  SumFunctionOnSet(f, S) =
             IF S = {} THEN 0 ELSE f[Taken(S)] + SumFunctionOnSet(f, S \ {Taken(S)})
  <1> DEFINE R == S \ {Taken(S)}
             g == SumsOf(f, S)
  <1>1. IsFiniteSet(R) /\ R \in SUBSET S /\ S \in SUBSET S
    BY FS_Subset
  <1>2. Sums(g, f, S) /\ Sums(SumsOf(f, R), f, R)
    BY <1>1, SumsExist
  <1>3. [s \in SUBSET R |-> g[s]] = SumsOf(f, R)
    <2> HIDE DEF g, R
    <2>0. Sums(g, f, S) /\ R \in SUBSET S
      BY <1>1, <1>2
    <2>1. Sums([s \in SUBSET R |-> g[s]], f, R)
      BY <2>0, SumsRestrict
    <2>2. QED
      BY <1>1, <1>2, <2>1, SumsAreOne
  <1>4. g[R] = SumsOf(f, R)[R]
    BY <1>3
  <1>5. g[S] = IF S = {} THEN 0 ELSE f[Taken(S)] + g[R]
    BY <1>1, <1>2 DEF Sums
  <1>6. QED
    BY <1>4, <1>5, SumUnfolds

\* A sum does not depend on what f is elsewhere.
LEMMA SumSame ==
    ASSUME NEW S, IsFiniteSet(S), NEW f, NEW g, \A x \in S : f[x] = g[x]
    PROVE  SumFunctionOnSet(f, S) = SumFunctionOnSet(g, S)
  <1> DEFINE T == {s \in SUBSET S : SumFunctionOnSet(f, s) # SumFunctionOnSet(g, s)}
  <1>0. T \in SUBSET (SUBSET S)
    OBVIOUS
  <1>1. ASSUME T # {}
        PROVE  FALSE
    <2> HIDE DEF T
    <2>1. PICK s \in T : \A t \in T : ~(t \subseteq s /\ t # s)
      BY <1>0, <1>1, SmallestSet
    <2> USE DEF T
    <2>2. IsFiniteSet(s)
      BY FS_Subset
    <2>3. s # {}
      BY <2>1, <2>2, SumTaken
    <2>4. Taken(s) \in s /\ s \ {Taken(s)} \in SUBSET S /\ s \ {Taken(s)} # s
      BY <2>3, TakenIn
    <2>5. SumFunctionOnSet(f, s \ {Taken(s)}) = SumFunctionOnSet(g, s \ {Taken(s)})
      BY <2>1, <2>4
    <2>6. QED
      BY <2>1, <2>2, <2>3, <2>4, <2>5, SumTaken
  <1>2. QED
    BY <1>1

\* A sum of integers is one.
LEMMA SumType ==
    ASSUME NEW S, IsFiniteSet(S), NEW f, \A x \in S : f[x] \in Int
    PROVE  SumFunctionOnSet(f, S) \in Int
  <1> DEFINE T == {s \in SUBSET S : SumFunctionOnSet(f, s) \notin Int}
  <1>0. T \in SUBSET (SUBSET S)
    OBVIOUS
  <1>1. ASSUME T # {}
        PROVE  FALSE
    <2> HIDE DEF T
    <2>1. PICK s \in T : \A t \in T : ~(t \subseteq s /\ t # s)
      BY <1>0, <1>1, SmallestSet
    <2> USE DEF T
    <2>2. IsFiniteSet(s)
      BY FS_Subset
    <2>0. SumFunctionOnSet(f, s) =
            IF s = {} THEN 0 ELSE f[Taken(s)] + SumFunctionOnSet(f, s \ {Taken(s)})
      BY <2>2, SumTaken
    <2>3. s # {}
      BY <2>0, <2>1
    <2>4. Taken(s) \in s /\ s \ {Taken(s)} \in SUBSET S /\ s \ {Taken(s)} # s
      BY <2>3, TakenIn
    <2>5. SumFunctionOnSet(f, s \ {Taken(s)}) \in Int
      BY <2>1, <2>4
    <2>6. f[Taken(s)] \in Int
      BY <2>4
    <2>7. QED
      BY <2>0, <2>1, <2>3, <2>5, <2>6
  <1>2. QED
    BY <1>1

\* It is that of any one of its terms and of the rest.
LEMMA SumSplit ==
    ASSUME NEW S, IsFiniteSet(S), NEW f, \A x \in S : f[x] \in Int, NEW y \in S
    PROVE  SumFunctionOnSet(f, S) = f[y] + SumFunctionOnSet(f, S \ {y})
  <1> DEFINE T == {s \in SUBSET S :
                    \E x \in s : SumFunctionOnSet(f, s) # f[x] + SumFunctionOnSet(f, s \ {x})}
  <1>0. T \in SUBSET (SUBSET S)
    OBVIOUS
  <1>1. ASSUME T # {}
        PROVE  FALSE
    <2> HIDE DEF T
    <2>1. PICK s \in T : \A t \in T : ~(t \subseteq s /\ t # s)
      BY <1>0, <1>1, SmallestSet
    <2> USE DEF T
    <2>2. PICK x \in s : SumFunctionOnSet(f, s) # f[x] + SumFunctionOnSet(f, s \ {x})
      BY <2>1
    <2> DEFINE m == Taken(s)
               r == s \ {m}
    <2>3. m \in s
      BY <2>2, TakenIn
    <2>4. IsFiniteSet(s) /\ IsFiniteSet(r) /\ IsFiniteSet(s \ {x}) /\ IsFiniteSet(r \ {x})
      BY FS_Subset
    <2>5. SumFunctionOnSet(f, s) = f[m] + SumFunctionOnSet(f, r)
      BY <2>3, <2>4, SumTaken
    <2>6. x # m
      BY <2>2, <2>5
    <2>7. SumFunctionOnSet(f, r) = f[x] + SumFunctionOnSet(f, r \ {x})
      <3>1. r \in SUBSET S /\ r \subseteq s /\ r # s /\ x \in r
        BY <2>3, <2>6
      <3>2. r \notin T
        BY <2>1, <3>1
      <3>3. QED
        BY <3>1, <3>2
    <2>8. SumFunctionOnSet(f, s \ {x}) = f[m] + SumFunctionOnSet(f, (s \ {x}) \ {m})
      <3>1. s \ {x} \in SUBSET S /\ s \ {x} \subseteq s /\ s \ {x} # s /\ m \in s \ {x}
        BY <2>3, <2>6
      <3>2. s \ {x} \notin T
        BY <2>1, <3>1
      <3>3. QED
        BY <3>1, <3>2
    <2>9. SumFunctionOnSet(f, s \ {x}) = f[m] + SumFunctionOnSet(f, r \ {x})
      <3>1. (s \ {x}) \ {m} = r \ {x}
        OBVIOUS
      <3>2. QED
        BY <2>8, <3>1
    <2>10. f[x] \in Int /\ f[m] \in Int /\ SumFunctionOnSet(f, r \ {x}) \in Int
      <3>1. \A z \in r \ {x} : f[z] \in Int
        OBVIOUS
      <3>2. QED
        BY <2>3, <2>4, <3>1, SumType
    <2> HIDE DEF m, r
    <2>11. SumFunctionOnSet(f, s) = f[x] + SumFunctionOnSet(f, s \ {x})
      BY <2>5, <2>7, <2>9, <2>10
    <2>12. QED
      BY <2>2, <2>11
  <1>2. S \in SUBSET S
    OBVIOUS
  <1>3. QED
    BY <1>1, <1>2

\* A sum of as many terms, each between 0 and M.
LEMMA SumBounds ==
    ASSUME NEW S, IsFiniteSet(S), NEW M \in Nat, NEW f, \A x \in S : f[x] \in 0 .. M
    PROVE  0 <= SumFunctionOnSet(f, S) /\ SumFunctionOnSet(f, S) <= Cardinality(S) * M
  <1> DEFINE T == {s \in SUBSET S : ~(/\ 0 <= SumFunctionOnSet(f, s)
                                      /\ SumFunctionOnSet(f, s) <= Cardinality(s) * M)}
  <1>0. T \in SUBSET (SUBSET S)
    OBVIOUS
  <1>1. ASSUME T # {}
        PROVE  FALSE
    <2> HIDE DEF T
    <2>1. PICK s \in T : \A t \in T : ~(t \subseteq s /\ t # s)
      BY <1>0, <1>1, SmallestSet
    <2> USE DEF T
    <2>2. IsFiniteSet(s)
      BY FS_Subset
    <2>3. s # {}
      <3>1. ASSUME s = {}
            PROVE  SumFunctionOnSet(f, s) = 0 /\ Cardinality(s) * M = 0
        <4>1. SumFunctionOnSet(f, s) = 0
          BY <2>2, <3>1, SumTaken
        <4>2. Cardinality(s) = 0
          BY <3>1, FS_EmptySet
        <4>3. QED
          BY <4>1, <4>2
      <3>2. QED
        BY <2>1, <3>1
    <2> DEFINE r == s \ {Taken(s)}
               n == Cardinality(r)
    <2>4. Taken(s) \in s /\ r \in SUBSET S /\ r # s /\ IsFiniteSet(r)
      BY <2>2, <2>3, TakenIn, FS_Subset
    <2>5. 0 <= SumFunctionOnSet(f, r) /\ SumFunctionOnSet(f, r) <= n * M
      BY <2>1, <2>4
    <2>6. SumFunctionOnSet(f, s) = f[Taken(s)] + SumFunctionOnSet(f, r)
      BY <2>2, <2>3, SumTaken
    <2>7. SumFunctionOnSet(f, r) \in Int
      <3>1. \A x \in r : f[x] \in Int
        OBVIOUS
      <3>2. QED
        BY <2>4, <3>1, SumType
    <2>8. n \in Nat /\ Cardinality(s) = n + 1
      BY <2>2, <2>4, FS_RemoveElement, FS_CardinalityType
    <2>9. f[Taken(s)] \in 0 .. M
      BY <2>4
    <2> HIDE DEF n, r
    <2>10. (n + 1) * M = n * M + M
      BY <2>8
    <2>11. n * M \in Nat
      BY <2>8
    <2>12. 0 <= SumFunctionOnSet(f, s) /\ SumFunctionOnSet(f, s) <= Cardinality(s) * M
      BY <2>5, <2>6, <2>7, <2>8, <2>9, <2>10, <2>11
    <2>13. QED
      BY <2>1, <2>12
  <1>2. S \in SUBSET S
    OBVIOUS
  <1>3. QED
    BY <1>1, <1>2

-----------------------------------------------------------------------------
(* The ledger.                                                             *)

\* What a child is to charge is a price, and nothing for a user who does not
\* pay; what an uninitialized charge may hold is charged to disturbed users only.
ChargesKnown ==
    \A c \in Children :
        child[c].pc \in {"lock", "select", "update"} /\ child[c].user \notin disturbed
        => /\ child[c].charge \in 0 .. MaxCharge
           /\ account[child[c].user].active \/ child[c].charge = 0

\* What a child may take from the account of its user once it has passed the
\* check.
Committed ==
    [c \in Children |->
        IF child[c].pc = "print"
            THEN IF child[c].kind # "none" /\ account[child[c].user].active THEN MaxCharge ELSE 0
            ELSE Due[c]]

Of(u) == {c \in Children : child[c].user = u}

\* What the children at work may still take leaves the balance above the bound.
OverdraftRoom ==
    \A u \in Users :
        account[u].exists /\ u \notin disturbed
        => account[u].balance - SumFunctionOnSet(Committed, Of(u))
             > 0 - Cardinality(Children) * MaxCharge

LedgerInv == AccountInv /\ ChargesKnown /\ BalanceIsLedger /\ OverdraftRoom

\* A price is between 0 and the largest charge.
LEMMA PriceBounds ==
    ASSUME NEW k \in Kinds, NEW n \in 0 .. MaxPages
    PROVE  Price(k, n) \in 0 .. MaxCharge /\ MaxCharge \in Nat /\ MaxCharge >= 1
  BY AccountingAssumption DEF Price, Kinds, MaxCharge

\* What is due from a child and what it is committed to are integers; of a user
\* who is not disturbed, between 0 and the largest charge.
LEMMA DueBounds ==
    ASSUME TypeOK, NEW c \in Children
    PROVE  /\ Due[c] \in Int /\ Committed[c] \in Int
           /\ ChargesKnown /\ child[c].user \notin disturbed
              => Due[c] \in 0 .. MaxCharge /\ Committed[c] \in 0 .. MaxCharge
           /\ child[c].pc \in {"idle", "check"} => Due[c] = 0 /\ Committed[c] = 0
           /\ child[c].pc \in {"calculate", "lock", "select", "update"} => Committed[c] = Due[c]
  <1>1. child[c] \in ChildState
    BY TypeSets
  <1>2. /\ Price(child[c].kind, child[c].pages) \in 0 .. MaxCharge
        /\ MaxCharge \in Nat
    BY <1>1, PriceBounds DEF ChildState
  <1>3. child[c].charge \in Int
    BY <1>1, ChargesAreIntegers DEF ChildState
  <1>4. CASE child[c].pc = "calculate"
    <2>1. Due[c] = Price(child[c].kind, child[c].pages) \/ Due[c] = 0
      BY <1>4 DEF Due
    <2>2. Committed[c] = Due[c]
      BY <1>4 DEF Committed
    <2>3. QED
      BY <1>2, <1>4, <2>1, <2>2
  <1>5. CASE child[c].pc \in {"lock", "select", "update"}
    <2>1. Due[c] = child[c].charge
      BY <1>5 DEF Due
    <2>2. Committed[c] = Due[c]
      BY <1>5 DEF Committed
    <2>3. QED
      BY <1>2, <1>3, <1>5, <2>1, <2>2 DEF ChargesKnown
  <1>6. CASE child[c].pc = "print"
    <2>1. Due[c] = 0
      BY <1>6 DEF Due
    <2>2. Committed[c] = MaxCharge \/ Committed[c] = 0
      BY <1>6 DEF Committed
    <2>3. QED
      BY <1>2, <1>6, <2>1, <2>2
  <1>7. CASE child[c].pc \in {"idle", "check"}
    <2>1. Due[c] = 0
      BY <1>7 DEF Due
    <2>2. Committed[c] = Due[c]
      BY <1>7 DEF Committed
    <2>3. QED
      BY <1>2, <1>7, <2>1, <2>2
  <1>8. QED
    BY <1>1, <1>4, <1>5, <1>6, <1>7 DEF ChildState

\* When one child's part changes, or whether it is counted, so does the sum.
LEMMA PartMoves ==
    ASSUME NEW f, NEW g, NEW c \in Children,
           NEW A \in SUBSET Children, NEW B \in SUBSET Children, A \ {c} = B \ {c},
           \A d \in Children : f[d] \in Int /\ g[d] \in Int,
           \A d \in Children \ {c} : g[d] = f[d]
    PROVE  SumFunctionOnSet(g, B)
             = SumFunctionOnSet(f, A)
               - (IF c \in A THEN f[c] ELSE 0) + (IF c \in B THEN g[c] ELSE 0)
  <1>2. IsFiniteSet(A) /\ IsFiniteSet(B) /\ IsFiniteSet(A \ {c})
    BY AccountingAssumption, FS_Subset
  <1>3. (\A d \in A : f[d] \in Int) /\ (\A d \in B : g[d] \in Int)
    OBVIOUS
  <1>4. \A d \in A \ {c} : f[d] = g[d] /\ f[d] \in Int
    OBVIOUS
  <1>7. SumFunctionOnSet(f, A \ {c}) = SumFunctionOnSet(g, B \ {c})
    <2>1. SumFunctionOnSet(f, A \ {c}) = SumFunctionOnSet(g, A \ {c})
      BY <1>2, <1>4, SumSame
    <2>2. QED
      BY Zenon, <2>1
  <1>8. SumFunctionOnSet(f, A \ {c}) \in Int
    BY <1>2, <1>4, SumType
  <1>9. SumFunctionOnSet(f, A)
          = (IF c \in A THEN f[c] ELSE 0) + SumFunctionOnSet(f, A \ {c})
    <2>1. CASE c \in A
      BY <1>2, <1>3, <2>1, SumSplit
    <2>2. CASE c \notin A
      <3>1. A \ {c} = A
        BY <2>2
      <3>2. SumFunctionOnSet(f, A \ {c}) = SumFunctionOnSet(f, A)
        BY Zenon, <3>1
      <3>3. QED
        BY <1>8, <2>2, <3>2
    <2>3. QED
      BY <2>1, <2>2
  <1>10. SumFunctionOnSet(g, B)
           = (IF c \in B THEN g[c] ELSE 0) + SumFunctionOnSet(f, A \ {c})
    <2>1. CASE c \in B
      BY <1>2, <1>3, <1>7, <2>1, SumSplit
    <2>2. CASE c \notin B
      <3>1. B \ {c} = B
        BY <2>2
      <3>2. SumFunctionOnSet(g, B \ {c}) = SumFunctionOnSet(g, B)
        BY Zenon, <3>1
      <3>3. QED
        BY <1>7, <1>8, <2>2, <3>2
    <2>3. QED
      BY <2>1, <2>2
  <1>11. QED
    BY <1>3, <1>8, <1>9, <1>10

\* What is due and committed is in bounds.
PartsBounded ==
    \A c \in Children :
        /\ Due[c] \in Int /\ Committed[c] \in Int
        /\ ChargesKnown /\ child[c].user \notin disturbed
           => Due[c] \in 0 .. MaxCharge /\ Committed[c] \in 0 .. MaxCharge
        /\ child[c].pc \in {"idle", "check"} => Due[c] = 0 /\ Committed[c] = 0
        /\ child[c].pc \in {"calculate", "lock", "select", "update"} => Committed[c] = Due[c]

\* Well-typed children have such parts, before a step and after it.
LEMMA PartsAlwaysBounded == TypeOK => PartsBounded
  BY DueBounds DEF PartsBounded

\* A child's step touches its own record, and of the accounts the balance of
\* its user.
LEMMA ChildTouches ==
    ASSUME TypeOK, NEW c \in Children, ChildStep(c)
    PROVE  /\ \A d \in Children : d # c => child'[d] = child[d]
           /\ child'[c].user = child[c].user
              \/ (child[c].pc = "idle" /\ child'[c].pc = "check")
              \/ child'[c].pc = "idle"
           /\ \A u \in Users : /\ account'[u].active = account[u].active
                               /\ account'[u].exists = account[u].exists
           /\ \A u \in Users : u # child[c].user
                => account'[u] = account[u] /\ ledger'[u] = ledger[u]
           /\ disturbed \subseteq disturbed'
           /\ \A u \in Users : u # child[c].user => (u \in disturbed' <=> u \in disturbed)
  <1>1. /\ child \in [Children -> ChildState] /\ account \in [Users -> Accounts]
        /\ ledger \in [Users -> Int]
    BY TypeSets
  <1>2. Unused.pc = "idle" /\ Unused.user \in Users
    <2>1. Unused.pc = "idle"
      BY DEF Unused
    <2>2. QED
      BY <2>1, UnusedTyped DEF ChildState
  <1>3. \A d \in Children : d # c => child'[d] = child[d]
    BY <1>1 DEF ChildStep, ChildStart, ChildCheck, ChildCheckFails, ChildPrint, ChildCalculate,
       ChildCalculateFails, ChildLock, ChildLockCut, ChildSelect, ChildUpdate, ChildChargeFails,
       Exits
  <1>4. \/ child'[c].user = child[c].user
        \/ child[c].pc = "idle" /\ child'[c].pc = "check"
        \/ child'[c].pc = "idle"
    <2>1. CASE ChildStart(c)
      BY <1>1, <1>2, <2>1 DEF ChildStart, Unused
    <2>2. CASE ChildCheck(c) \/ ChildCheckFails(c)
      BY <1>1, <1>2, <2>2 DEF ChildCheck, ChildCheckFails, Exits, ChildState
    <2>3. CASE ChildPrint(c) \/ ChildCalculate(c) \/ ChildCalculateFails(c)
      BY <1>1, <2>3 DEF ChildPrint, ChildCalculate, ChildCalculateFails, ChildState
    <2>4. CASE ChildLock(c) \/ ChildLockCut(c)
      BY <1>1, <2>4 DEF ChildLock, ChildLockCut, ChildState
    <2>5. CASE ChildSelect(c) \/ ChildUpdate(c) \/ ChildChargeFails(c)
      BY <1>1, <1>2, <2>5 DEF ChildSelect, ChildUpdate, ChildChargeFails, Exits, ChildState
    <2>6. QED
      BY <2>1, <2>2, <2>3, <2>4, <2>5 DEF ChildStep
  <1>5. \A u \in Users :
          /\ account'[u].active = account[u].active /\ account'[u].exists = account[u].exists
          /\ u # child[c].user => account'[u] = account[u]
    <2>1. CASE ChildUpdate(c)
      BY <1>1, <2>1 DEF ChildUpdate, Accounts
    <2>2. CASE account' = account
      BY <2>2
    <2>3. QED
      BY <2>1, <2>2 DEF ChildStep, ChildStart, ChildCheck, ChildCheckFails, ChildPrint,
         ChildCalculate, ChildCalculateFails, ChildLock, ChildLockCut, ChildSelect,
         ChildChargeFails
  <1>6. \A u \in Users : u # child[c].user => ledger'[u] = ledger[u]
    BY <1>1 DEF ChildStep, ChildStart, ChildCheck, ChildCheckFails, ChildPrint, ChildCalculate,
       ChildCalculateFails, ChildLock, ChildLockCut, ChildSelect, ChildUpdate, ChildChargeFails
  <1>7. disturbed' = disturbed \/ disturbed' = disturbed \cup {child[c].user}
    BY DEF ChildStep, ChildStart, ChildCheck, ChildCheckFails, ChildPrint, ChildCalculate,
       ChildCalculateFails, ChildLock, ChildLockCut, ChildSelect, ChildUpdate, ChildChargeFails
  <1>8. QED
    BY <1>3, <1>4, <1>5, <1>6, <1>7

\* So what is due from each user changes by the child's own part.
LEMMA SumsMove ==
    ASSUME TypeOK, TypeOK', NEW c \in Children, ChildStep(c), NEW u \in Users
    PROVE  /\ DueFrom(u) \in Int /\ SumFunctionOnSet(Committed, Of(u)) \in Int
           /\ DueFrom(u)' = DueFrom(u) + IF u = child[c].user THEN Due'[c] - Due[c] ELSE 0
           /\ SumFunctionOnSet(Committed', Of(u)')
                = SumFunctionOnSet(Committed, Of(u))
                  + IF u = child[c].user THEN Committed'[c] - Committed[c] ELSE 0
  <1>1. PartsBounded /\ PartsBounded'
    BY PartsAlwaysBounded, PTL
  <1>2. \A d \in Children \ {c} : child'[d] = child[d] /\ child[d].user \in Users
    BY ChildTouches, TypeSets DEF ChildState
  <1>3. \A d \in Children \ {c} : account'[child[d].user].active = account[child[d].user].active
    BY <1>2, ChildTouches
  <1>4. \A d \in Children \ {c} : Due'[d] = Due[d]
    BY <1>2, <1>3 DEF Due
  <1>5. \A d \in Children \ {c} : Committed'[d] = Committed[d]
    BY <1>2, <1>3, <1>4 DEF Committed
  <1>6. ASSUME child'[c].user # child[c].user
        PROVE  /\ Due'[c] = 0 /\ Committed'[c] = 0
    <2>1. child'[c].pc \in {"idle", "check"}
      BY <1>6, ChildTouches
    <2>2. QED
      BY <1>1, <2>1 DEF PartsBounded
  <1>7. /\ \A d \in Children : Due[d] \in Int /\ Due'[d] \in Int
        /\ \A d \in Children : Committed[d] \in Int /\ Committed'[d] \in Int
    BY <1>1 DEF PartsBounded
  <1>8. \A d \in Children \ {c} : child'[d].user = child[d].user
    BY <1>2
  <1> DEFINE B == {d \in Children : child'[d].user = u}
             f == Due
             g == Due'
             h == Committed
             k == Committed'
  <1>9. DueFrom(u) = SumFunctionOnSet(f, Of(u)) /\ DueFrom(u)' = SumFunctionOnSet(g, B)
    BY DEF DueFrom, Of
  <1>10. Of(u)' = B
    BY DEF Of
  <1>11. SumFunctionOnSet(f, Of(u)) \in Int /\ SumFunctionOnSet(h, Of(u)) \in Int
    <2>1. IsFiniteSet(Of(u))
      BY AccountingAssumption, FS_Subset DEF Of
    <2>2. \A d \in Of(u) : f[d] \in Int /\ h[d] \in Int
      BY <1>7 DEF Of
    <2> HIDE DEF f, h
    <2>3. QED
      BY <2>1, <2>2, SumType
  <1>12. SumFunctionOnSet(g, B)
           = SumFunctionOnSet(f, Of(u))
             - (IF child[c].user = u THEN f[c] ELSE 0) + (IF child'[c].user = u THEN g[c] ELSE 0)
    <2>1. /\ \A d \in Children : f[d] \in Int /\ g[d] \in Int
          /\ \A d \in Children \ {c} : g[d] = f[d]
      BY <1>4, <1>7
    <2>2. /\ Of(u) \in SUBSET Children /\ B \in SUBSET Children
          /\ Of(u) \ {c} = B \ {c}
          /\ c \in Of(u) <=> child[c].user = u
          /\ c \in B <=> child'[c].user = u
      BY <1>8 DEF Of
    <2> DEFINE A == Of(u)
    <2> HIDE DEF f, g, A, B
    <2>3. A \in SUBSET Children /\ B \in SUBSET Children /\ A \ {c} = B \ {c}
      BY <2>2 DEF A
    <2>4. SumFunctionOnSet(g, B)
            = SumFunctionOnSet(f, A)
              - (IF c \in A THEN f[c] ELSE 0) + (IF c \in B THEN g[c] ELSE 0)
      BY <2>1, <2>3, PartMoves
    <2>5. QED
      BY <2>2, <2>4 DEF A
  <1>13. SumFunctionOnSet(k, B)
           = SumFunctionOnSet(h, Of(u))
             - (IF child[c].user = u THEN h[c] ELSE 0) + (IF child'[c].user = u THEN k[c] ELSE 0)
    <2>1. /\ \A d \in Children : h[d] \in Int /\ k[d] \in Int
          /\ \A d \in Children \ {c} : k[d] = h[d]
      BY <1>5, <1>7
    <2>2. /\ Of(u) \in SUBSET Children /\ B \in SUBSET Children
          /\ Of(u) \ {c} = B \ {c}
          /\ c \in Of(u) <=> child[c].user = u
          /\ c \in B <=> child'[c].user = u
      BY <1>8 DEF Of
    <2> DEFINE A == Of(u)
    <2> HIDE DEF h, k, A, B
    <2>3. A \in SUBSET Children /\ B \in SUBSET Children /\ A \ {c} = B \ {c}
      BY <2>2 DEF A
    <2>4. SumFunctionOnSet(k, B)
            = SumFunctionOnSet(h, A)
              - (IF c \in A THEN h[c] ELSE 0) + (IF c \in B THEN k[c] ELSE 0)
      BY <2>1, <2>3, PartMoves
    <2>5. QED
      BY <2>2, <2>4 DEF A
  <1>14. QED
    <2>1. (IF child'[c].user = u THEN g[c] ELSE 0) = (IF u = child[c].user THEN g[c] ELSE 0)
      BY <1>6
    <2>2. (IF child'[c].user = u THEN k[c] ELSE 0) = (IF u = child[c].user THEN k[c] ELSE 0)
      BY <1>6
    <2> HIDE DEF B, f, g, h, k
    <2>3. f[c] \in Int /\ g[c] \in Int /\ h[c] \in Int /\ k[c] \in Int
      BY <1>7 DEF f, g, h, k
    <2>4. /\ DueFrom(u) \in Int /\ SumFunctionOnSet(h, Of(u)) \in Int
          /\ DueFrom(u)' = DueFrom(u) + IF u = child[c].user THEN g[c] - f[c] ELSE 0
          /\ SumFunctionOnSet(k, B) = SumFunctionOnSet(h, Of(u))
               + IF u = child[c].user THEN k[c] - h[c] ELSE 0
      BY <1>9, <1>11, <1>12, <1>13, <2>1, <2>2, <2>3
    <2>5. QED
      BY <1>10, <2>4 DEF f, g, h, k

\* What a child takes from an account, or puts into the ledger, is due no more
\* or has come due; and it takes no more than it was committed to, having
\* been let in with a balance that was positive.
Settles(c) ==
    LET v == child[c].user
    IN  /\ account'[v].balance - ledger'[v] - Due'[c] = account[v].balance - ledger[v] - Due[c]
        /\ \/ account'[v].balance - Committed'[c] >= account[v].balance - Committed[c]
           \/ /\ account'[v].balance = account[v].balance
              /\ Committed[c] = 0
              /\ Committed'[c] = 0 \/ account[v].balance > 0
        /\ child'[c].pc \in {"lock", "select", "update"} /\ child'[c].user \notin disturbed'
           => /\ child'[c].charge \in 0 .. MaxCharge
              /\ account'[child'[c].user].active \/ child'[c].charge = 0

LEMMA ChildSettles ==
    ASSUME LedgerInv, TypeOK', NEW c \in Children, ChildStep(c),
           account[child[c].user].exists, child[c].user \notin disturbed'
    PROVE  Settles(c)
  <1> DEFINE v == child[c].user
  <1>1. /\ TypeOK /\ ReadIsFresh /\ ChargesKnown /\ BalanceIsLedger
        /\ child \in [Children -> ChildState] /\ account \in [Users -> Accounts]
        /\ ledger \in [Users -> Int] /\ child[c] \in ChildState /\ v \in Users
        /\ account[v] \in Accounts /\ account[v].balance \in Int /\ ledger[v] \in Int
    BY TypeSets DEF LedgerInv, AccountInv, ChildState, Accounts
  <1>2. PartsBounded /\ PartsBounded'
    BY <1>1, PartsAlwaysBounded, PTL
  <1>3. v \notin disturbed /\ account'[v].active = account[v].active
    BY <1>1, ChildTouches
  <1>4. Unused.pc = "idle"
    BY DEF Unused
  <1>5. /\ Due[c] \in Int /\ Due'[c] \in Int /\ Committed[c] \in Int /\ Committed'[c] \in Int
        /\ child[c].pc \in {"idle", "check"} => Due[c] = 0 /\ Committed[c] = 0
        /\ child'[c].pc \in {"idle", "check"} => Due'[c] = 0 /\ Committed'[c] = 0
        /\ child[c].pc \in {"calculate", "lock", "select", "update"} => Committed[c] = Due[c]
        /\ child'[c].pc \in {"calculate", "lock", "select", "update"} => Committed'[c] = Due'[c]
    BY <1>2 DEF PartsBounded
  <1>6. /\ child[c].pc \in {"lock", "select", "update"} => Due[c] = child[c].charge
        /\ child'[c].pc \in {"lock", "select", "update"} => Due'[c] = child'[c].charge
    BY DEF Due
  <1>7. child[c].pc = "print" => Due[c] = 0
    BY DEF Due
  <1>8. child'[c].pc = "print" => Due'[c] = 0
    BY DEF Due
  <1>9. CASE ChildStart(c)
    <2>1. /\ child[c].pc = "idle" /\ child'[c].pc = "check"
          /\ UNCHANGED <<account, ledger>>
      BY <1>1, <1>9 DEF ChildStart
    <2>2. QED
      BY <1>1, <1>5, <2>1 DEF Settles
  <1>10. CASE ChildCheck(c)
    <2>1. child[c].pc = "check" /\ UNCHANGED <<account, ledger>>
      BY <1>10 DEF ChildCheck
    <2>2. CASE child'[c].pc = "idle"
      BY <1>1, <1>5, <2>1, <2>2 DEF Settles
    <2>3. CASE child'[c].pc # "idle"
      <3>1. /\ child'[c].pc = "print" /\ child'[c].user = v /\ child'[c].kind = child[c].kind
            /\ child[c].kind = "none" \/ MayPrint(account[v])
        BY <1>1, <1>4, <1>10, <2>3 DEF ChildCheck, Exits, ChildState
      <3>2. Committed'[c] = 0 \/ account[v].balance > 0
        <4>1. CASE child[c].kind # "none" /\ account[v].active
          BY <3>1, <4>1 DEF MayPrint
        <4>2. CASE ~(child[c].kind # "none" /\ account[v].active)
          BY <2>1, <3>1, <4>2 DEF Committed
        <4>3. QED
          BY <4>1, <4>2
      <3>3. Due'[c] = 0
        BY <1>8, <3>1
      <3>4. QED
        BY <1>1, <1>5, <2>1, <3>1, <3>2, <3>3 DEF Settles
    <2>4. QED
      BY <2>2, <2>3
  <1>11. CASE ChildCheckFails(c)
    <2>1. /\ child[c].pc = "check" /\ child'[c].pc = "idle"
          /\ UNCHANGED <<account, ledger>>
      BY <1>1, <1>4, <1>11 DEF ChildCheckFails, Exits
    <2>2. QED
      BY <1>1, <1>5, <2>1 DEF Settles
  <1>12. CASE ChildPrint(c)
    <2>1. PICK n \in 0 .. MaxPages :
            /\ child' = [child EXCEPT ![c].pc = "calculate", ![c].pages = n]
            /\ ledger' = IF account[v].active
                            THEN [ledger EXCEPT ![v] = @ - Price(child[c].kind, n)]
                            ELSE ledger
      BY <1>12 DEF ChildPrint
    <2>2. child[c].pc = "print" /\ account' = account
      BY <1>12 DEF ChildPrint
    <2>3. /\ child'[c].pc = "calculate" /\ child'[c].user = v
          /\ child'[c].kind = child[c].kind /\ child'[c].pages = n
      BY <1>1, <2>1 DEF ChildState
    <2> DEFINE price == Price(child[c].kind, n)
    <2>4. price \in 0 .. MaxCharge /\ MaxCharge \in Nat
      BY <1>1, PriceBounds DEF ChildState
    <2>5. CASE account[v].active
      <3>1. ledger'[v] = ledger[v] - price
        BY <1>1, <2>1, <2>5
      <3>2. Due'[c] = price
        BY <2>2, <2>3, <2>5 DEF Due
      <3>3. Committed[c] >= price
        <4>1. CASE child[c].kind = "none"
          <5>1. price = 0
            BY <4>1 DEF Price
          <5>2. Committed[c] = 0
            BY <2>2, <4>1 DEF Committed
          <5>3. QED
            BY <5>1, <5>2
        <4>2. CASE child[c].kind # "none"
          <5>1. Committed[c] = MaxCharge
            BY <2>2, <2>5, <4>2 DEF Committed
          <5>2. QED
            BY <2>4, <5>1
        <4>3. QED
          BY <4>1, <4>2
      <3> HIDE DEF price
      <3>4. QED
        BY <1>1, <1>5, <1>7, <2>2, <2>3, <2>4, <3>1, <3>2, <3>3 DEF Settles
    <2>6. CASE ~account[v].active
      <3>1. ledger' = ledger
        BY <2>1, <2>6
      <3>2. Due'[c] = 0
        BY <2>2, <2>3, <2>6 DEF Due
      <3>3. Committed[c] = 0
        BY <2>2, <2>6 DEF Committed
      <3>4. QED
        BY <1>1, <1>5, <1>7, <2>2, <2>3, <3>1, <3>2, <3>3 DEF Settles
    <2>7. QED
      BY <2>5, <2>6
  <1>13. CASE ChildCalculate(c)
    <2> DEFINE price == Price(child[c].kind, child[c].pages)
    <2>1. /\ child[c].pc = "calculate" /\ child'[c].pc = "lock" /\ child'[c].user = v
          /\ child'[c].charge = IF account[v].active THEN price ELSE 0
          /\ UNCHANGED <<account, ledger>>
      BY <1>1, <1>13 DEF ChildCalculate, ChildState
    <2>2. Due[c] = IF account[v].active THEN price ELSE 0
      BY <2>1 DEF Due
    <2>3. price \in 0 .. MaxCharge /\ MaxCharge \in Nat
      BY <1>1, PriceBounds DEF ChildState
    <2> HIDE DEF price
    <2>4. Due'[c] = Due[c]
      BY <1>6, <2>1, <2>2
    <2>5. child'[c].charge \in 0 .. MaxCharge /\ (account'[v].active \/ child'[c].charge = 0)
      BY <2>1, <2>3
    <2>6. QED
      BY <1>1, <1>5, <2>1, <2>4, <2>5 DEF Settles
  <1>14. CASE ChildCalculateFails(c) \/ ChildLockCut(c)
    BY <1>14 DEF ChildCalculateFails, ChildLockCut
  <1>15. CASE ChildLock(c)
    <2>1. /\ child[c].pc = "lock" /\ child'[c].pc = "select" /\ child'[c].user = v
          /\ child'[c].charge = child[c].charge
          /\ UNCHANGED <<account, ledger>>
      BY <1>1, <1>15 DEF ChildLock, ChildState
    <2>2. QED
      BY <1>1, <1>3, <1>5, <1>6, <2>1 DEF Settles, ChargesKnown
  <1>16. CASE ChildSelect(c)
    <2>1. child[c].pc = "select" /\ UNCHANGED <<account, ledger>>
      BY <1>16 DEF ChildSelect
    <2>2. /\ child[c].charge \in 0 .. MaxCharge
          /\ account[v].active \/ child[c].charge = 0
      BY <1>1, <1>3, <2>1 DEF ChargesKnown
    <2>3. CASE NoCharge(c)
      <3>1. child'[c].pc = "idle"
        BY <1>1, <1>4, <1>16, <2>3 DEF ChildSelect, Exits
      <3>2. child[c].charge = 0
        BY <2>2, <2>3 DEF NoCharge
      <3>3. QED
        BY <1>1, <1>5, <1>6, <2>1, <3>1, <3>2 DEF Settles
    <2>4. CASE ~NoCharge(c)
      <3>1. /\ child'[c].pc = "update" /\ child'[c].user = v
            /\ child'[c].charge = child[c].charge
        BY <1>1, <1>16, <2>4 DEF ChildSelect, ChildState
      <3>2. QED
        BY <1>1, <1>5, <1>6, <2>1, <2>2, <3>1 DEF Settles
    <2>5. QED
      BY <2>3, <2>4
  <1>17. CASE ChildUpdate(c)
    <2>1. child[c].pc = "update" /\ child'[c].pc = "idle" /\ ledger' = ledger
      BY <1>1, <1>4, <1>17 DEF ChildUpdate, Exits
    <2>2. account'[v].balance = child[c].read - child[c].charge
      BY <1>1, <1>17 DEF ChildUpdate, Accounts
    <2>3. child[c].read = account[v].balance
      BY <1>1, <1>3, <2>1 DEF ReadIsFresh
    <2>4. QED
      BY <1>1, <1>5, <1>6, <2>1, <2>2, <2>3 DEF Settles
  <1>18. CASE ChildChargeFails(c)
    <2>1. child[c].pc \in {"select", "update"} /\ child'[c].pc = "idle" /\ account' = account
      BY <1>1, <1>4, <1>18 DEF ChildChargeFails, Exits
    <2>2. ledger'[v] = ledger[v] + child[c].charge
      BY <1>1, <1>18 DEF ChildChargeFails
    <2>3. child[c].charge \in 0 .. MaxCharge /\ MaxCharge \in Nat
      BY <1>1, <1>3, <2>1, PriceBounds DEF ChargesKnown, ChildState
    <2>4. QED
      BY <1>1, <1>5, <1>6, <2>1, <2>2, <2>3 DEF Settles
  <1>19. QED
    BY <1>9, <1>10, <1>11, <1>12, <1>13, <1>14, <1>15, <1>16, <1>17, <1>18 DEF ChildStep

\* The bound leaves room for a charge of one child beside those of the others.
LEMMA RoomForAll ==
    ASSUME NEW c \in Children
    PROVE  /\ MaxCharge \in Nat /\ MaxCharge >= 1
           /\ Cardinality(Children \ {c}) \in Nat
           /\ Cardinality(Children \ {c}) * MaxCharge \in Nat
           /\ Cardinality(Children) * MaxCharge
                = Cardinality(Children \ {c}) * MaxCharge + MaxCharge
  <1> DEFINE n == Cardinality(Children \ {c})
  <1>1. MaxCharge \in Nat /\ MaxCharge >= 1
    BY AccountingAssumption DEF MaxCharge
  <1>2. n \in Nat /\ Cardinality(Children) = n + 1
    <2>1. IsFiniteSet(Children) /\ IsFiniteSet(Children \ {c})
      BY AccountingAssumption, FS_Subset
    <2>2. n \in Nat /\ Cardinality(Children) \in Nat
      BY <2>1, FS_CardinalityType
    <2>3. n = Cardinality(Children) - 1
      BY <2>1, FS_RemoveElement
    <2>4. QED
      BY <2>2, <2>3
  <1> HIDE DEF n
  <1>3. n * MaxCharge \in Nat /\ (n + 1) * MaxCharge = n * MaxCharge + MaxCharge
    BY <1>1, <1>2
  <1>4. QED
    BY <1>1, <1>2, <1>3 DEF n

\* What the children of an undisturbed user may still take, and what all of
\* them but one may, stays below a charge for each.
LEMMA CommittedBounds ==
    ASSUME TypeOK, ChargesKnown, NEW u \in Users, u \notin disturbed, NEW c \in Children
    PROVE  /\ 0 <= SumFunctionOnSet(Committed, Of(u))
           /\ Committed[c] = 0
              => SumFunctionOnSet(Committed, Of(u)) <= Cardinality(Children \ {c}) * MaxCharge
  <1> DEFINE h == Committed
             A == Of(u)
             n == Cardinality(Children \ {c})
             k == Cardinality(A \ {c})
  <1>1. /\ A \in SUBSET Children /\ IsFiniteSet(Children)
        /\ A \ {c} \in SUBSET (Children \ {c})
    BY AccountingAssumption DEF Of
  <1>2. \A d \in A : h[d] \in 0 .. MaxCharge /\ h[d] \in Int
    BY DueBounds DEF Of
  <1>3. MaxCharge \in Nat /\ n \in Nat
    BY RoomForAll
  <1> HIDE DEF h, A
  <1>4. IsFiniteSet(A) /\ IsFiniteSet(A \ {c}) /\ IsFiniteSet(Children \ {c})
    BY <1>1, FS_Subset
  <1>5. k <= n /\ k \in Nat
    BY <1>1, <1>4, FS_Subset, FS_CardinalityType
  <1>6. SumFunctionOnSet(h, A) >= 0
    BY <1>2, <1>3, <1>4, SumBounds
  <1>7. ASSUME h[c] = 0
        PROVE  SumFunctionOnSet(h, A) <= n * MaxCharge
    <2>1. \A d \in A \ {c} : h[d] \in 0 .. MaxCharge /\ h[d] \in Int
      BY <1>2
    <2>2. /\ SumFunctionOnSet(h, A \ {c}) <= k * MaxCharge
          /\ SumFunctionOnSet(h, A \ {c}) \in Int
      BY <1>3, <1>4, <2>1, SumBounds, SumType
    <2>3. SumFunctionOnSet(h, A) = SumFunctionOnSet(h, A \ {c})
      <3>1. CASE c \in A
        <4>1. SumFunctionOnSet(h, A) = h[c] + SumFunctionOnSet(h, A \ {c})
          BY <1>2, <1>4, <3>1, SumSplit
        <4>2. QED
          BY <1>7, <2>2, <4>1
      <3>2. CASE c \notin A
        <4>1. A \ {c} = A
          BY <3>2
        <4>2. QED
          BY Zenon, <4>1
      <3>3. QED
        BY <3>1, <3>2
    <2>4. k * MaxCharge <= n * MaxCharge
      <3> HIDE DEF k, n
      <3>1. PICK j \in Nat : n = k + j
        <4>1. n - k \in Nat /\ n = k + (n - k)
          BY <1>3, <1>5
        <4>2. QED
          BY <4>1
      <3>2. j * MaxCharge \in Nat /\ (k + j) * MaxCharge = k * MaxCharge + j * MaxCharge
        BY <1>3, <1>5
      <3>3. k * MaxCharge \in Nat
        BY <1>3, <1>5
      <3>4. QED
        BY <3>1, <3>2, <3>3
    <2> HIDE DEF k, n
    <2>5. k * MaxCharge \in Nat /\ n * MaxCharge \in Nat
      BY <1>3, <1>5
    <2>6. QED
      BY <2>2, <2>3, <2>4, <2>5
  <1>8. QED
    BY <1>6, <1>7 DEF h, A

\* A child's step keeps the ledger.
LEMMA ChildLedger ==
    ASSUME LedgerInv, TypeOK', NEW c \in Children, ChildStep(c)
    PROVE  ChargesKnown' /\ BalanceIsLedger' /\ OverdraftRoom'
  <1> DEFINE v == child[c].user
  <1>1. /\ TypeOK /\ GoneAreDisturbed /\ ChargesKnown /\ BalanceIsLedger /\ OverdraftRoom
        /\ account \in [Users -> Accounts] /\ account' \in [Users -> Accounts]
        /\ ledger \in [Users -> Int] /\ ledger' \in [Users -> Int] /\ v \in Users
        /\ \A d \in Children : child[d].user \in Users
    BY TypeSets DEF LedgerInv, AccountInv, ChildState, TypeOK, Accounts
  <1>2. PartsBounded /\ PartsBounded'
    BY <1>1, PartsAlwaysBounded, PTL
  <1>3. v \notin disturbed' => Settles(c) /\ v \notin disturbed /\ account[v].exists
    BY <1>1, ChildSettles, ChildTouches DEF GoneAreDisturbed
  <1>4. ASSUME NEW d \in Children,
               child'[d].pc \in {"lock", "select", "update"}, child'[d].user \notin disturbed'
        PROVE  /\ child'[d].charge \in 0 .. MaxCharge
               /\ account'[child'[d].user].active \/ child'[d].charge = 0
    <2>1. CASE d = c
      <3>1. child'[c].user = v
        BY <1>1, <1>4, <2>1, ChildTouches
      <3>2. QED
        BY <1>3, <1>4, <2>1, <3>1 DEF Settles
    <2>2. CASE d # c
      <3>1. child'[d] = child[d] /\ child[d].user \notin disturbed
        BY <1>1, <1>4, <2>2, ChildTouches
      <3>2. account'[child[d].user].active = account[child[d].user].active
        BY <1>1, ChildTouches
      <3>3. QED
        BY <1>1, <1>4, <3>1, <3>2 DEF ChargesKnown
    <2>3. QED
      BY <2>1, <2>2
  <1>5. ChargesKnown'
    BY <1>4 DEF ChargesKnown
  <1>6. ASSUME NEW u \in Users, account'[u].exists, u \notin disturbed'
        PROVE  /\ account'[u].balance = ledger'[u] + DueFrom(u)'
               /\ account'[u].balance - SumFunctionOnSet(Committed', Of(u)')
                    > 0 - Cardinality(Children) * MaxCharge
    <2> DEFINE due == DueFrom(u)
               sum == SumFunctionOnSet(Committed, Of(u))
               N == Cardinality(Children) * MaxCharge
    <2>1. u \notin disturbed /\ account[u].exists
      BY <1>1, <1>6, ChildTouches
    <2>2. /\ due \in Int /\ sum \in Int
          /\ DueFrom(u)' = due + IF u = v THEN Due'[c] - Due[c] ELSE 0
          /\ SumFunctionOnSet(Committed', Of(u)')
               = sum + IF u = v THEN Committed'[c] - Committed[c] ELSE 0
      BY <1>1, SumsMove
    <2>3. account[u].balance = ledger[u] + due /\ account[u].balance - sum > 0 - N
      BY <1>1, <2>1 DEF BalanceIsLedger, OverdraftRoom
    <2>4. /\ Due[c] \in Int /\ Due'[c] \in Int /\ Committed[c] \in Int /\ Committed'[c] \in Int
      BY <1>2 DEF PartsBounded
    <2>5. /\ account[u].balance \in Int /\ account'[u].balance \in Int
          /\ ledger[u] \in Int /\ ledger'[u] \in Int
      BY <1>1 DEF Accounts
    <2>6. N \in Int
      <3>1. N = Cardinality(Children \ {c}) * MaxCharge + MaxCharge
        BY RoomForAll
      <3>2. MaxCharge \in Nat /\ Cardinality(Children \ {c}) * MaxCharge \in Nat
        BY RoomForAll
      <3> HIDE DEF N
      <3>3. QED
        BY <3>1, <3>2
    <2> HIDE DEF due, sum, N
    <2>7. CASE u # v
      <3>1. account'[u] = account[u] /\ ledger'[u] = ledger[u]
        BY <1>1, <2>7, ChildTouches
      <3>2. QED
        BY <2>2, <2>3, <2>5, <2>7, <3>1 DEF N
    <2>8. CASE u = v
      <3>1. Settles(c)
        BY <1>3, <1>6, <2>8
      <3>2. account'[u].balance - ledger'[u] - Due'[c] = account[u].balance - ledger[u] - Due[c]
        BY <2>8, <3>1 DEF Settles
      <3>0. DueFrom(u)' = due + (Due'[c] - Due[c])
        BY <2>2, <2>8
      <3>3. account'[u].balance = ledger'[u] + DueFrom(u)'
        BY <2>2, <2>3, <2>4, <2>5, <3>0, <3>2
      <3>4. SumFunctionOnSet(Committed', Of(u)') = sum + Committed'[c] - Committed[c]
        BY <2>2, <2>4, <2>8
      <3>5. CASE account'[u].balance - Committed'[c] >= account[u].balance - Committed[c]
        BY <2>2, <2>3, <2>4, <2>5, <2>6, <3>3, <3>4, <3>5 DEF N
      <3>6. CASE /\ account'[u].balance = account[u].balance
                 /\ Committed[c] = 0 /\ Committed'[c] = 0
        BY <2>2, <2>3, <2>4, <2>5, <2>6, <3>3, <3>4, <3>6 DEF N
      <3>7. CASE /\ account'[u].balance = account[u].balance
                 /\ Committed[c] = 0 /\ account[u].balance > 0
        <4>1. sum <= Cardinality(Children \ {c}) * MaxCharge
          BY <1>1, <2>1, <3>7, CommittedBounds DEF sum
        <4>2. Committed'[c] <= MaxCharge
          <5>1. CASE child'[c].user = v
            BY <1>2, <1>5, <1>6, <2>8, <5>1, RoomForAll DEF PartsBounded
          <5>2. CASE child'[c].user # v
            <6>1. child'[c].pc \in {"idle", "check"}
              BY <1>1, <5>2, ChildTouches
            <6>2. Committed'[c] = 0
              BY <1>2, <6>1 DEF PartsBounded
            <6>3. MaxCharge \in Nat
              BY RoomForAll
            <6>4. QED
              BY <6>2, <6>3
          <5>3. QED
            BY <5>1, <5>2
        <4>3. /\ Cardinality(Children \ {c}) * MaxCharge \in Nat /\ MaxCharge \in Nat
              /\ N = Cardinality(Children \ {c}) * MaxCharge + MaxCharge
          BY RoomForAll DEF N
        <4>4. account'[u].balance - SumFunctionOnSet(Committed', Of(u)') > 0 - N
          BY <2>2, <2>4, <2>5, <2>6, <3>4, <3>7, <4>1, <4>2, <4>3
        <4>5. QED
          BY <3>3, <4>4 DEF N
      <3>8. QED
        BY <2>8, <3>1, <3>5, <3>6, <3>7 DEF Settles
    <2>9. QED
      BY <2>7, <2>8
  <1>7. QED
    BY <1>5, <1>6 DEF BalanceIsLedger, OverdraftRoom

\* Only an account nobody is to charge changes its status, and what a page
\* puts into an account it puts into the ledger -- or the account is new.
PageKeeps(u) ==
    \/ /\ u \notin disturbed
       /\ account'[u].exists => account[u].exists
       /\ account'[u].active = account[u].active \/ ~AtWork(u)
       /\ account'[u].balance - ledger'[u] = account[u].balance - ledger[u]
       /\ account'[u].balance >= account[u].balance
    \/ ~AtWork(u) /\ account'[u].balance = FirstBalance /\ ledger'[u] = FirstBalance

\* A page's step does so to every user it does not disturb.
LEMMA PageTouches ==
    ASSUME AccountInv, (\E p \in Pages : ShowUser(p) \/ UpdateUser(p) \/ DeleteUser(p)) \/ AddUser,
           NEW u \in Users, u \notin disturbed'
    PROVE  child' = child /\ PageKeeps(u)
  <1>1. /\ TypeOK /\ GoneAreDisturbed
        /\ account \in [Users -> Accounts] /\ ledger \in [Users -> Int]
        /\ account[u] \in Accounts /\ account[u].balance \in Int /\ ledger[u] \in Int
        /\ form \in [Pages -> Forms]
    BY TypeSets DEF AccountInv, Accounts
  <1>2. child' = child
    BY DEF ShowUser, UpdateUser, DeleteUser, AddUser
  <1>3. ASSUME u \notin disturbed, account'[u] = account[u], ledger'[u] = ledger[u]
        PROVE  PageKeeps(u)
    BY <1>1, <1>3 DEF PageKeeps
  <1>4. ASSUME NEW p \in Pages, ShowUser(p)
        PROVE  PageKeeps(u)
    BY <1>3, <1>4 DEF ShowUser
  <1>5. ASSUME NEW p \in Pages, UpdateUser(p)
        PROVE  PageKeeps(u)
    <2>0. u \notin disturbed
      BY <1>5 DEF UpdateUser
    <2>1. CASE form[p].user = u /\ account[u].exists
      <3>1. PICK d \in {0, Deposit}, active \in BOOLEAN :
              /\ account' = [account EXCEPT ![u].balance = form[p].balance + d,
                                            ![u].active = active]
              /\ ledger' = [ledger EXCEPT ![u] = @ + d]
              /\ disturbed' =
                   IF \/ account[u].balance # form[p].balance
                      \/ \E c \in Children : child[c].pc = "update" /\ child[c].user = u
                      \/ active # account[u].active /\ AtWork(u)
                   THEN disturbed \cup {u} ELSE disturbed
        BY <1>5, <2>1 DEF UpdateUser
      <3>2. /\ account[u].balance = form[p].balance
            /\ active = account[u].active \/ ~AtWork(u)
        BY <3>1
      <3>3. d \in Nat
        BY AccountingAssumption
      <3>4. /\ account'[u].balance = account[u].balance + d
            /\ account'[u].active = active /\ account'[u].exists = account[u].exists
            /\ ledger'[u] = ledger[u] + d
        BY <1>1, <3>1, <3>2 DEF Accounts
      <3>5. /\ account'[u].balance - ledger'[u] = account[u].balance - ledger[u]
            /\ account'[u].balance >= account[u].balance
        BY <1>1, <3>3, <3>4
      <3>6. QED
        BY <2>0, <3>2, <3>4, <3>5 DEF PageKeeps
    <2>2. CASE ~(form[p].user = u /\ account[u].exists)
      <3>1. account'[u] = account[u] /\ ledger'[u] = ledger[u]
        BY <1>1, <1>5, <2>2 DEF UpdateUser
      <3>2. QED
        BY <1>3, <2>0, <3>1
    <2>3. QED
      BY <2>1, <2>2
  <1>6. ASSUME NEW p \in Pages, DeleteUser(p)
        PROVE  PageKeeps(u)
    <2>1. form[p].user # u /\ u \notin disturbed
      BY <1>6 DEF DeleteUser
    <2>2. account'[u] = account[u] /\ ledger'[u] = ledger[u]
      BY <1>1, <1>6, <2>1 DEF DeleteUser
    <2>3. QED
      BY <1>3, <2>1, <2>2
  <1>7. CASE AddUser
    <2>1. PICK v \in Users, active \in BOOLEAN :
            /\ ~account[v].exists
            /\ account' = [account EXCEPT ![v] = [exists |-> TRUE, active |-> active,
                                                  balance |-> FirstBalance]]
            /\ ledger' = [ledger EXCEPT ![v] = FirstBalance]
            /\ disturbed' = IF AtWork(v) THEN disturbed ELSE disturbed \ {v}
      BY <1>7 DEF AddUser
    <2>2. CASE u = v
      <3>1. ~AtWork(u)
        BY <1>1, <2>1, <2>2 DEF GoneAreDisturbed
      <3>2. account'[u].balance = FirstBalance /\ ledger'[u] = FirstBalance
        BY <1>1, <2>1, <2>2
      <3>3. QED
        BY <1>2, <3>1, <3>2 DEF PageKeeps
    <2>3. CASE u # v
      <3>1. account'[u] = account[u] /\ ledger'[u] = ledger[u] /\ u \notin disturbed
        BY <1>1, <2>1, <2>3
      <3>2. QED
        BY <1>2, <1>3, <3>1
    <2>4. QED
      BY <2>2, <2>3
  <1>8. QED
    BY <1>2, <1>4, <1>5, <1>6, <1>7

\* Of a user without a child at work, nothing is due.
LEMMA NothingDue ==
    ASSUME TypeOK, NEW u \in Users, ~AtWork(u)
    PROVE  DueFrom(u) = 0 /\ SumFunctionOnSet(Committed, Of(u)) = 0
  <1> DEFINE A == Of(u)
             f == Due
             h == Committed
  <1>1. \A d \in A : child[d].pc \in {"idle", "check"}
    BY TypeSets DEF AtWork, Of, ChildState
  <1>2. \A d \in A : f[d] \in 0 .. 0 /\ h[d] \in 0 .. 0
    BY <1>1, DueBounds DEF Of
  <1>3. IsFiniteSet(A)
    BY AccountingAssumption, FS_Subset DEF Of
  <1>4. DueFrom(u) = SumFunctionOnSet(f, A)
    BY DEF DueFrom, Of
  <1> HIDE DEF A, f, h
  <1>5. Cardinality(A) * 0 = 0
    BY <1>3, FS_CardinalityType
  <1>6. \A d \in A : f[d] \in Int /\ h[d] \in Int
    BY <1>2
  <1>7. 0 <= SumFunctionOnSet(f, A) /\ SumFunctionOnSet(f, A) <= Cardinality(A) * 0
    BY <1>2, <1>3, SumBounds
  <1>8. 0 <= SumFunctionOnSet(h, A) /\ SumFunctionOnSet(h, A) <= Cardinality(A) * 0
    BY <1>2, <1>3, SumBounds
  <1>9. SumFunctionOnSet(f, A) \in Int /\ SumFunctionOnSet(h, A) \in Int
    BY <1>3, <1>6, SumType
  <1>10. SumFunctionOnSet(f, A) = 0 /\ SumFunctionOnSet(h, A) = 0
    BY <1>5, <1>7, <1>8, <1>9
  <1>11. QED
    BY <1>4, <1>10 DEF A, h

\* What is due from a user stays so while the children do nothing and the
\* user's status is not changed under them.
LEMMA DueStays ==
    ASSUME TypeOK, child' = child, NEW u \in Users,
           account'[u].active = account[u].active \/ ~AtWork(u)
    PROVE  /\ DueFrom(u)' = DueFrom(u)
           /\ SumFunctionOnSet(Committed', Of(u)') = SumFunctionOnSet(Committed, Of(u))
  <1> DEFINE A == Of(u)
             f == Due
             g == Due'
             h == Committed
             k == Committed'
  <1>1. \A d \in A : f[d] = g[d]
    <2>1. ASSUME NEW d \in A, account'[u].active = account[u].active
          PROVE  f[d] = g[d]
      BY <2>1 DEF Due, Of
    <2>2. ASSUME NEW d \in A, ~AtWork(u)
          PROVE  f[d] = g[d]
      <3>1. child[d].pc \in {"idle", "check"}
        BY <2>2, TypeSets DEF AtWork, Of, ChildState
      <3>2. QED
        BY <3>1 DEF Due, Of
    <2>3. QED
      BY <2>1, <2>2
  <1>2. \A d \in A : h[d] = k[d]
    <2>1. ASSUME NEW d \in A, child[d].pc # "print"
          PROVE  h[d] = k[d]
      BY <1>1, <2>1 DEF Committed, Of
    <2>2. ASSUME NEW d \in A, child[d].pc = "print"
          PROVE  h[d] = k[d]
      <3>1. AtWork(u)
        BY <2>2 DEF AtWork, Of
      <3>2. child[d].user = u /\ account'[u].active = account[u].active
        BY <3>1 DEF Of
      <3>3. QED
        BY <2>2, <3>2 DEF Committed, Of
    <2>3. QED
      BY <2>1, <2>2
  <1>3. IsFiniteSet(A)
    BY AccountingAssumption, FS_Subset DEF Of
  <1>4. DueFrom(u) = SumFunctionOnSet(f, A) /\ DueFrom(u)' = SumFunctionOnSet(g, A)
    BY DEF DueFrom, Of
  <1>5. Of(u)' = A
    BY DEF Of
  <1> HIDE DEF A, f, g, h, k
  <1>6. SumFunctionOnSet(f, A) = SumFunctionOnSet(g, A)
    BY <1>1, <1>3, SumSame
  <1>7. SumFunctionOnSet(h, A) = SumFunctionOnSet(k, A)
    BY <1>2, <1>3, SumSame
  <1>8. SumFunctionOnSet(k, Of(u)') = SumFunctionOnSet(k, A)
    BY Zenon, <1>5
  <1>9. QED
    BY <1>4, <1>6, <1>7, <1>8 DEF h, k, A

\* The room that is left is below nothing at all.
LEMMA RoomBelowZero == Cardinality(Children) * MaxCharge \in Nat \ {0}
  <1>1. PICK c \in Children : TRUE
    BY AccountingAssumption
  <1> DEFINE n == Cardinality(Children \ {c}) * MaxCharge
             N == Cardinality(Children) * MaxCharge
  <1>2. n \in Nat /\ MaxCharge \in Nat /\ MaxCharge >= 1 /\ N = n + MaxCharge
    BY RoomForAll
  <1> HIDE DEF n, N
  <1>3. N \in Nat \ {0}
    BY <1>2
  <1>4. QED
    BY <1>3 DEF N

\* A page's step keeps the ledger.
LEMMA PageLedger ==
    ASSUME LedgerInv, TypeOK',
           (\E p \in Pages : ShowUser(p) \/ UpdateUser(p) \/ DeleteUser(p)) \/ AddUser
    PROVE  ChargesKnown' /\ BalanceIsLedger' /\ OverdraftRoom'
  <1>1. /\ TypeOK /\ AccountInv /\ ChargesKnown /\ BalanceIsLedger /\ OverdraftRoom
        /\ account \in [Users -> Accounts] /\ account' \in [Users -> Accounts]
        /\ ledger \in [Users -> Int] /\ ledger' \in [Users -> Int]
        /\ \A d \in Children : child[d].user \in Users
    BY TypeSets DEF LedgerInv, AccountInv, ChildState, TypeOK, Accounts
  <1>2. child' = child
    BY DEF ShowUser, UpdateUser, DeleteUser, AddUser
  <1>3. ASSUME NEW d \in Children,
               child[d].pc \in {"lock", "select", "update"}, child[d].user \notin disturbed'
        PROVE  /\ child[d].charge \in 0 .. MaxCharge
               /\ account'[child[d].user].active \/ child[d].charge = 0
    <2>1. AtWork(child[d].user)
      BY <1>3 DEF AtWork
    <2>2. PageKeeps(child[d].user)
      BY <1>1, <1>3, PageTouches
    <2>3. /\ child[d].user \notin disturbed
          /\ account'[child[d].user].active = account[child[d].user].active
      BY <2>1, <2>2 DEF PageKeeps
    <2>4. QED
      BY <1>1, <1>3, <2>3 DEF ChargesKnown
  <1>4. ChargesKnown'
    BY <1>2, <1>3 DEF ChargesKnown
  <1>5. ASSUME NEW u \in Users, account'[u].exists, u \notin disturbed'
        PROVE  /\ account'[u].balance = ledger'[u] + DueFrom(u)'
               /\ account'[u].balance - SumFunctionOnSet(Committed', Of(u)')
                    > 0 - Cardinality(Children) * MaxCharge
    <2> DEFINE due == DueFrom(u)
               sum == SumFunctionOnSet(Committed, Of(u))
               N == Cardinality(Children) * MaxCharge
    <2>1. PageKeeps(u)
      BY <1>1, <1>5, PageTouches
    <2>2. /\ account[u].balance \in Int /\ account'[u].balance \in Int
          /\ ledger[u] \in Int /\ ledger'[u] \in Int
      BY <1>1 DEF Accounts
    <2>3. ASSUME account'[u].active = account[u].active \/ ~AtWork(u)
          PROVE  DueFrom(u)' = due /\ SumFunctionOnSet(Committed', Of(u)') = sum
      BY <1>1, <1>2, <2>3, DueStays
    <2>4. N \in Nat \ {0}
      BY RoomBelowZero
    <2>5. due \in Int /\ sum \in Int
      <3>1. \A d \in Of(u) : Due[d] \in Int /\ Committed[d] \in Int
        BY <1>1, DueBounds DEF Of
      <3>2. IsFiniteSet(Of(u)) /\ DueFrom(u) = SumFunctionOnSet(Due, Of(u))
        BY AccountingAssumption, FS_Subset DEF Of, DueFrom
      <3> DEFINE f == Due
                 h == Committed
      <3>3. (\A d \in Of(u) : f[d] \in Int) /\ (\A d \in Of(u) : h[d] \in Int)
        BY <3>1
      <3> HIDE DEF f, h
      <3>4. SumFunctionOnSet(f, Of(u)) \in Int /\ SumFunctionOnSet(h, Of(u)) \in Int
        BY <3>2, <3>3, SumType
      <3>5. QED
        BY <3>2, <3>4 DEF f, h
    <2> HIDE DEF due, sum, N
    <2>6. CASE /\ u \notin disturbed
               /\ account'[u].exists => account[u].exists
               /\ account'[u].active = account[u].active \/ ~AtWork(u)
               /\ account'[u].balance - ledger'[u] = account[u].balance - ledger[u]
               /\ account'[u].balance >= account[u].balance
      <3>1. account[u].balance = ledger[u] + due /\ account[u].balance - sum > 0 - N
        BY <1>1, <1>5, <2>6 DEF BalanceIsLedger, OverdraftRoom, due, sum, N
      <3>2. DueFrom(u)' = due /\ SumFunctionOnSet(Committed', Of(u)') = sum
        BY <2>3, <2>6
      <3>3. account'[u].balance = ledger'[u] + due /\ account'[u].balance - sum > 0 - N
        BY <2>2, <2>4, <2>5, <2>6, <3>1
      <3>4. QED
        BY <3>2, <3>3 DEF N
    <2>7. CASE ~AtWork(u) /\ account'[u].balance = FirstBalance /\ ledger'[u] = FirstBalance
      <3>1. due = 0 /\ sum = 0
        BY <1>1, <2>7, NothingDue DEF due, sum
      <3>2. DueFrom(u)' = 0 /\ SumFunctionOnSet(Committed', Of(u)') = 0
        BY <2>3, <2>7, <3>1
      <3>3. FirstBalance \in Nat
        BY AccountingAssumption
      <3>4. account'[u].balance = ledger'[u] + 0 /\ account'[u].balance - 0 > 0 - N
        BY <2>4, <2>7, <3>3
      <3>5. QED
        BY <3>2, <3>4 DEF N
    <2>8. QED
      BY <2>1, <2>6, <2>7 DEF PageKeeps
  <1>6. QED
    BY <1>4, <1>5 DEF BalanceIsLedger, OverdraftRoom

\* The ledger is right before the first job.
LEMMA LedgerInit == Init => LedgerInv
  <1> SUFFICES ASSUME Init PROVE LedgerInv
    OBVIOUS
  <1>1. AccountInv
    BY AccountInitTypes, FreshInit DEF AccountInv
  <1>2. /\ \A c \in Children : child[c].pc = "idle"
        /\ \A u \in Users : account[u].balance = FirstBalance /\ ledger[u] = FirstBalance
    BY DEF Init, Unused
  <1>3. ChargesKnown
    BY <1>2 DEF ChargesKnown
  <1>4. ASSUME NEW u \in Users
        PROVE  /\ account[u].balance = ledger[u] + DueFrom(u)
               /\ account[u].balance - SumFunctionOnSet(Committed, Of(u))
                    > 0 - Cardinality(Children) * MaxCharge
    <2>1. ~AtWork(u)
      BY <1>2 DEF AtWork
    <2>2. DueFrom(u) = 0 /\ SumFunctionOnSet(Committed, Of(u)) = 0
      BY <1>1, <2>1, NothingDue DEF AccountInv
    <2> DEFINE N == Cardinality(Children) * MaxCharge
    <2>3. N \in Nat \ {0} /\ FirstBalance \in Nat
      BY RoomBelowZero, AccountingAssumption
    <2> HIDE DEF N
    <2>4. FirstBalance = FirstBalance + 0 /\ FirstBalance - 0 > 0 - N
      BY <2>3
    <2>5. QED
      BY <1>2, <2>2, <2>4 DEF N
  <1>5. QED
    BY <1>1, <1>3, <1>4 DEF LedgerInv, BalanceIsLedger, OverdraftRoom

\* Every step keeps it right.
LEMMA LedgerKept == LedgerInv /\ [Next]_vars => LedgerInv'
  <1> SUFFICES ASSUME LedgerInv, [Next]_vars PROVE LedgerInv'
    OBVIOUS
  <1>1. AccountInv'
    BY AccountInvKept DEF LedgerInv
  <1>2. TypeOK'
    BY <1>1 DEF AccountInv
  <1>3. CASE Next
    BY <1>1, <1>2, <1>3, ChildLedger, PageLedger DEF Next, LedgerInv
  <1>4. CASE UNCHANGED vars
    <2>1. /\ account' = account /\ child' = child /\ ledger' = ledger
          /\ disturbed' = disturbed
      BY <1>4 DEF vars
    <2>2. ChargesKnown' /\ Due' = Due
      BY <2>1 DEF LedgerInv, ChargesKnown, Due
    <2>3. Committed' = Committed /\ \A u \in Users : DueFrom(u)' = DueFrom(u) /\ Of(u)' = Of(u)
      BY <2>1, <2>2 DEF Committed, DueFrom, Of
    <2>4. \A u \in Users :
            SumFunctionOnSet(Committed', Of(u)') = SumFunctionOnSet(Committed, Of(u))
      BY Zenon, <2>3
    <2>5. BalanceIsLedger'
      BY <2>1, <2>3 DEF LedgerInv, BalanceIsLedger
    <2>6. OverdraftRoom'
      BY <2>1, <2>4 DEF LedgerInv, OverdraftRoom
    <2>7. QED
      BY <1>1, <2>2, <2>5, <2>6 DEF LedgerInv
  <1>5. QED
    BY <1>3, <1>4

\* The ledger is right in every state.
LEMMA LedgerInvariant == Spec => []LedgerInv
  BY LedgerInit, LedgerKept, PTL DEF Spec

\* Every page printed is paid for once, for any number of users, children and
\* pages, and charges that fail: the balance is what has been paid in less what
\* has been printed and not waived, but for the charges still due -- except for
\* users disturbed by an overwriting page, a failed calculation, a wait for the
\* lock that was cut, or a deletion (ppd.c 1935-2032, 2113-2170, update_user.c
\* 339-380).
THEOREM BooksBalance == Spec => []BalanceIsLedger
  <1>1. LedgerInv => BalanceIsLedger
    BY DEF LedgerInv
  <1>2. QED
    BY <1>1, LedgerInvariant, PTL

\* The account of an undisturbed user is overdrawn by less than the largest
\* charge for each child, for any number of users, children and pages: no more children can have found
\* the balance positive than there are, and each takes one charge (ppd.c
\* 1193-1205, 1233, 2050-2109).
THEOREM OverdraftsBounded == Spec => []OverdraftBounded
  <1>1. ASSUME LedgerInv
        PROVE  OverdraftBounded
    <2>1. TypeOK /\ ChargesKnown /\ OverdraftRoom
      BY <1>1 DEF LedgerInv, AccountInv
    <2>2. ASSUME NEW u \in Users, account[u].exists, u \notin disturbed
          PROVE  account[u].balance > 0 - Cardinality(Children) * MaxCharge
      <3> DEFINE N == Cardinality(Children) * MaxCharge
                 sum == SumFunctionOnSet(Committed, Of(u))
      <3>1. PICK c \in Children : TRUE
        BY AccountingAssumption
      <3>2. 0 <= sum
        BY <2>1, <2>2, CommittedBounds
      <3>3. sum \in Int
        <4> DEFINE h == Committed
        <4>1. (\A d \in Of(u) : h[d] \in Int) /\ IsFiniteSet(Of(u))
          BY <2>1, DueBounds, AccountingAssumption, FS_Subset DEF Of
        <4> HIDE DEF h
        <4>2. SumFunctionOnSet(h, Of(u)) \in Int
          BY <4>1, SumType
        <4>3. QED
          BY <4>2 DEF h
      <3>4. account[u].balance \in Int
        BY <2>1, TypeSets DEF Accounts
      <3>5. account[u].balance - sum > 0 - N
        BY <2>1, <2>2 DEF OverdraftRoom
      <3>6. N \in Nat
        BY RoomBelowZero
      <3> HIDE DEF N, sum
      <3>7. account[u].balance > 0 - N
        BY <3>2, <3>3, <3>4, <3>5, <3>6
      <3>8. QED
        BY <3>7 DEF N
    <2>3. QED
      BY <2>2 DEF OverdraftBounded
  <1>2. QED
    BY <1>1, LedgerInvariant, PTL
=============================================================================
