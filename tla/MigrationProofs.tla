--------------------------- MODULE MigrationProofs ---------------------------
(* The ledger of any number of racing, failing and rerun bootstraps is the   *)
(* beginning of one deployment's sequence, and what completed stays ready.   *)
EXTENDS MigrationRunner, TLAPS

\* The whole ledger is the beginning of one deployment's sequence.
LedgerIsOne == \E d \in Deployments : Matches(d)

\* What a bootstrap has read or written of its own sequence is in the ledger.
WalksItsSequence ==
    \A d \in Deployments :
        /\ pc[d] = "apply" => /\ nextOrder[d] \in 1..(Len(Carries[d]) + 1)
                              /\ Prefix(d, nextOrder[d] - 1) \subseteq ledger
        /\ pc[d] = "grant" => Prefix(d, Len(Carries[d])) \subseteq ledger

\* The statements before the ledger was read have committed.
RolesComeFirst ==
    \A d \in Deployments :
        /\ pc[d] \notin {"idle", "failed"} => roles
        /\ pc[d] \in {"login", "member", "apply", "grant"} => login # NoLogin
        /\ pc[d] \in {"member", "apply", "grant"} => member

MigrationInv ==
    /\ TypeOK
    /\ LedgerIsOne
    /\ WalksItsSequence
    /\ RolesComeFirst
    /\ SchemaIsLedger
    /\ CompletedIsReady

-----------------------------------------------------------------------------
(* A deployment's sequence has the length and the members its type says.    *)
LEMMA CarriesAreTyped ==
    ASSUME NEW d \in Deployments
    PROVE  /\ Carries[d] \in Seq(Migrations)
           /\ Len(Carries[d]) \in Nat
           /\ \A n \in 1..Len(Carries[d]) : Carries[d][n] \in Migrations
BY MigrationAssumption

(* A bootstrap that found its next order free has read the whole ledger:    *)
(* everything stored is the beginning of its own sequence.                  *)
LEMMA FreeOrderIsNext ==
    ASSUME LedgerIsOne, NEW d \in Deployments, NEW n \in 1..Len(Carries[d]),
           Prefix(d, n - 1) \subseteq ledger, n \notin Orders
    PROVE  ledger = Prefix(d, n - 1)
<1>0. PICK e \in Deployments : Matches(e)
  BY DEF LedgerIsOne
<1>1. PICK k \in 0..Len(Carries[e]) : ledger = Prefix(e, k)
  BY <1>0 DEF Matches
<1>2. k \in Nat /\ n \in Nat /\ n >= 1
  BY <1>1, CarriesAreTyped
<1>3. \A i \in 1..k : Row(e, i) \in ledger /\ Row(e, i).order = i
  BY <1>1 DEF Prefix, Row
<1>4. ~(n \in 1..k)
  BY <1>3 DEF Orders
<1>5. k =< n - 1
  BY <1>2, <1>4
<1>6. ASSUME NEW row \in ledger PROVE row \in Prefix(d, n - 1)
  <2>1. PICK i \in 1..k : row = Row(e, i)
    BY <1>1, <1>6 DEF Prefix
  <2>2. i \in 1..(n - 1)
    BY <1>2, <1>5, <2>1
  <2>3. Row(d, i) \in ledger
    BY <2>2 DEF Prefix
  <2>4. PICK j \in 1..k : Row(d, i) = Row(e, j)
    BY <1>1, <2>3 DEF Prefix
  <2>5. i = j
    BY <2>4 DEF Row
  <2> QED BY <2>1, <2>2, <2>4, <2>5 DEF Prefix
<1> QED BY <1>6

(* The first n migrations are the first n - 1 and the n-th.                 *)
LEMMA PrefixGrows ==
    ASSUME NEW d \in Deployments, NEW n \in Nat \ {0}
    PROVE  Prefix(d, n) = Prefix(d, n - 1) \cup {Row(d, n)}
<1>1. 1..n = (1..(n - 1)) \cup {n}
  OBVIOUS
<1> QED BY <1>1 DEF Prefix

(* An applied migration extends the beginning of its own sequence.          *)
LEMMA ApplyExtends ==
    ASSUME TypeOK, LedgerIsOne, WalksItsSequence, NEW d \in Deployments, Apply(d)
    PROVE  /\ nextOrder[d] \in 1..Len(Carries[d])
           /\ ledger = Prefix(d, nextOrder[d] - 1)
           /\ ledger' = Prefix(d, nextOrder[d])
           /\ schema' = schema \cup {Row(d, nextOrder[d]).migration}
<1>1. nextOrder[d] \in 1..Len(Carries[d])
  BY CarriesAreTyped DEF Apply, WalksItsSequence
<1>2. ledger = Prefix(d, nextOrder[d] - 1)
  BY <1>1, FreeOrderIsNext DEF Apply, WalksItsSequence
<1>3. ledger' = ledger \cup {Row(d, nextOrder[d])}
  BY DEF Apply
<1>4. nextOrder[d] \in Nat \ {0}
  BY <1>1, CarriesAreTyped
<1>5. Prefix(d, nextOrder[d]) = Prefix(d, nextOrder[d] - 1) \cup {Row(d, nextOrder[d])}
  BY <1>4, PrefixGrows
<1>6. schema' = schema \cup {Row(d, nextOrder[d]).migration}
  BY DEF Apply, Row
<1> QED BY <1>1, <1>2, <1>3, <1>5, <1>6

-----------------------------------------------------------------------------
(* Every step keeps the types.                                              *)
LEMMA StepsKeepTypes ==
    ASSUME MigrationInv, [Next]_vars
    PROVE  TypeOK'
<1> USE MigrationAssumption DEF MigrationInv, TypeOK, Goto, Places
<1>1. ASSUME NEW d \in Deployments, CreateRoles(d) PROVE TypeOK'
  BY <1>1 DEF CreateRoles
<1>2. ASSUME NEW d \in Deployments, SetLogin(d) PROVE TypeOK'
  BY <1>2 DEF SetLogin
<1>3. ASSUME NEW d \in Deployments, GrantMembership(d) PROVE TypeOK'
  BY <1>3 DEF GrantMembership
<1>4. ASSUME NEW d \in Deployments, ReadLedger(d) PROVE TypeOK'
  <2>1. PICK k \in 0..Len(Carries[d]) : nextOrder' = [nextOrder EXCEPT ![d] = k + 1]
    BY <1>4 DEF ReadLedger
  <2>2. k + 1 \in Nat
    BY CarriesAreTyped
  <2>3. nextOrder' \in [Deployments -> Nat]
    BY <2>1, <2>2
  <2> QED BY <1>4, <2>3 DEF ReadLedger
<1>5. ASSUME NEW d \in Deployments, Refuse(d) PROVE TypeOK'
  BY <1>5 DEF Refuse
<1>6. ASSUME NEW d \in Deployments, Apply(d) PROVE TypeOK'
  <2>1. nextOrder[d] \in 1..Len(Carries[d])
    BY <1>6, ApplyExtends
  <2>2. nextOrder[d] \in Nat \ {0} /\ Carries[d][nextOrder[d]] \in Migrations
    BY <2>1, CarriesAreTyped
  <2>3. ledger' \subseteq Rows
    BY <1>6, <2>2 DEF Apply, Row, Rows
  <2>4. schema' \subseteq Migrations
    BY <1>6, <2>2 DEF Apply
  <2>5. nextOrder' \in [Deployments -> Nat]
    BY <1>6, <2>2 DEF Apply
  <2>6. \/ pc' = pc /\ faults' = faults
        \/ pc' = [pc EXCEPT ![d] = "failed"] /\ faults < MaxFaults /\ faults' = faults + 1
    BY <1>6 DEF Apply
  <2>7. UNCHANGED <<roles, login, member, granted, completed>>
    BY <1>6 DEF Apply
  <2>8. pc' \in [Deployments -> Places] /\ faults' \in 0..MaxFaults
    <3>1. CASE pc' = pc /\ faults' = faults
      BY <3>1
    <3>2. CASE pc' = [pc EXCEPT ![d] = "failed"] /\ faults < MaxFaults /\ faults' = faults + 1
      <4>1. pc' \in [Deployments -> Places]
        BY <3>2
      <4>2. faults' \in 0..MaxFaults
        BY <3>2
      <4> QED BY <4>1, <4>2
    <3> QED BY <2>6, <3>1, <3>2
  <2>9. /\ roles' \in BOOLEAN /\ member' \in BOOLEAN
        /\ login' \in Deployments \cup {NoLogin}
        /\ granted' \subseteq Migrations /\ completed' \subseteq Deployments
    BY <2>7
  <2> QED BY <2>3, <2>4, <2>5, <2>8, <2>9
<1>7. ASSUME NEW d \in Deployments, ApplyConflicts(d) PROVE TypeOK'
  BY <1>7 DEF ApplyConflicts
<1>8. ASSUME NEW d \in Deployments, ResetRole(d) PROVE TypeOK'
  BY <1>8 DEF ResetRole
<1>9. ASSUME NEW d \in Deployments, GrantTables(d) PROVE TypeOK'
  <2>1. granted' \subseteq Migrations
    BY <1>9, CarriesAreTyped DEF GrantTables, Carried
  <2> QED BY <1>9, <2>1 DEF GrantTables
<1>10. ASSUME NEW d \in Deployments, Restart(d) PROVE TypeOK'
  BY <1>10 DEF Restart
<1>11. ASSUME NEW d \in Deployments, Break(d) PROVE TypeOK'
  BY <1>11 DEF Break
<1>12. CASE UNCHANGED vars
  BY <1>12 DEF vars
<1> QED
  BY <1>1, <1>2, <1>3, <1>4, <1>5, <1>6, <1>7, <1>8, <1>9, <1>10, <1>11, <1>12
  DEF Next, Step

(* Only Apply writes the ledger and the schema, and it writes both.         *)
LEMMA LedgerSteps ==
    ASSUME MigrationInv, [Next]_vars
    PROVE  \/ ledger' = ledger /\ schema' = schema
           \/ \E d \in Deployments :
                /\ Apply(d)
                /\ nextOrder[d] \in 1..Len(Carries[d])
                /\ ledger = Prefix(d, nextOrder[d] - 1)
                /\ ledger' = Prefix(d, nextOrder[d])
                /\ schema' = schema \cup {Row(d, nextOrder[d]).migration}
<1>1. CASE \E d \in Deployments : Apply(d)
  BY <1>1, ApplyExtends DEF MigrationInv
<1>2. CASE UNCHANGED vars
  BY <1>2 DEF vars
<1>3. ASSUME NEW d \in Deployments, Step(d) \/ Break(d), ~Apply(d)
      PROVE  ledger' = ledger /\ schema' = schema
  BY <1>3 DEF Step, CreateRoles, SetLogin, GrantMembership, ReadLedger, Refuse,
              ApplyConflicts, ResetRole, GrantTables, Restart, Break
<1> QED BY <1>1, <1>2, <1>3 DEF Next

(* The ledger only grows, stays one sequence, and agrees with the schema.   *)
LEMMA LedgerGrows ==
    ASSUME MigrationInv, [Next]_vars
    PROVE  ledger \subseteq ledger' /\ LedgerIsOne' /\ SchemaIsLedger'
<1>1. CASE ledger' = ledger /\ schema' = schema
  BY <1>1 DEF MigrationInv, LedgerIsOne, Matches, Prefix, Row, SchemaIsLedger
<1>2. ASSUME NEW d \in Deployments,
             nextOrder[d] \in 1..Len(Carries[d]),
             ledger = Prefix(d, nextOrder[d] - 1),
             ledger' = Prefix(d, nextOrder[d]),
             schema' = schema \cup {Row(d, nextOrder[d]).migration}
      PROVE  ledger \subseteq ledger' /\ LedgerIsOne' /\ SchemaIsLedger'
  <2>1. nextOrder[d] \in Nat \ {0} /\ nextOrder[d] \in 0..Len(Carries[d])
    BY <1>2, CarriesAreTyped
  <2>2. ledger' = ledger \cup {Row(d, nextOrder[d])}
    BY <1>2, <2>1, PrefixGrows
  <2>3. LedgerIsOne'
    BY <1>2, <2>1 DEF LedgerIsOne, Matches, Prefix, Row
  <2>4. SchemaIsLedger'
    BY <1>2, <2>2 DEF MigrationInv, SchemaIsLedger
  <2> QED BY <2>2, <2>3, <2>4
<1> QED BY <1>1, <1>2, LedgerSteps

(* A bootstrap keeps walking its own sequence.                              *)
LEMMA StepsKeepWalks ==
    ASSUME MigrationInv, [Next]_vars
    PROVE  WalksItsSequence'
<1> SUFFICES ASSUME NEW d \in Deployments
             PROVE  /\ pc'[d] = "apply" =>
                         /\ nextOrder'[d] \in 1..(Len(Carries[d]) + 1)
                         /\ Prefix(d, nextOrder'[d] - 1) \subseteq ledger'
                    /\ pc'[d] = "grant" => Prefix(d, Len(Carries[d])) \subseteq ledger'
  BY DEF WalksItsSequence, Prefix, Row
<1> USE MigrationAssumption, LedgerGrows DEF MigrationInv, TypeOK, WalksItsSequence
<1>1. CASE pc'[d] = pc[d] /\ nextOrder'[d] = nextOrder[d]
  BY <1>1
<1>2. CASE pc'[d] \notin {"apply", "grant"}
  BY <1>2
<1>3. CASE ReadLedger(d)
  <2>1. PICK k \in 0..Len(Carries[d]) :
            ledger = Prefix(d, k) /\ nextOrder' = [nextOrder EXCEPT ![d] = k + 1]
    BY <1>3 DEF ReadLedger
  <2>2. nextOrder'[d] = k + 1 /\ pc'[d] = "apply" /\ ledger' = ledger
    BY <1>3, <2>1 DEF ReadLedger, Goto
  <2>3. (k + 1) - 1 = k /\ k + 1 \in 1..(Len(Carries[d]) + 1)
    BY CarriesAreTyped
  <2> QED BY <2>1, <2>2, <2>3
<1>4. CASE Apply(d)
  <2>1. nextOrder[d] \in 1..Len(Carries[d]) /\ ledger' = Prefix(d, nextOrder[d])
    BY <1>4, ApplyExtends
  <2>2. \/ pc'[d] = "failed"
        \/ nextOrder'[d] = nextOrder[d] + 1 /\ pc'[d] = "apply"
    BY <1>4 DEF Apply, Goto
  <2>3. /\ nextOrder[d] \in Nat
        /\ (nextOrder[d] + 1) - 1 = nextOrder[d]
        /\ nextOrder[d] + 1 \in 1..(Len(Carries[d]) + 1)
    BY <2>1, CarriesAreTyped
  <2> QED BY <2>1, <2>2, <2>3
<1>5. CASE ResetRole(d)
  <2>1. pc[d] = "apply" /\ nextOrder[d] > Len(Carries[d]) /\ pc'[d] = "grant"
    BY <1>5 DEF ResetRole, Goto
  <2>2. nextOrder[d] - 1 = Len(Carries[d])
    BY <2>1, CarriesAreTyped
  <2> QED BY <2>1, <2>2
<1>6. CASE UNCHANGED vars
  BY <1>6, <1>1 DEF vars
<1>7. ASSUME NEW e \in Deployments, Step(e) \/ Break(e), e # d
      PROVE  pc'[d] = pc[d] /\ nextOrder'[d] = nextOrder[d]
  BY <1>7 DEF Step, CreateRoles, SetLogin, GrantMembership, ReadLedger, Refuse, Apply,
              ApplyConflicts, ResetRole, GrantTables, Restart, Break, Goto
<1>8. ASSUME Step(d) \/ Break(d), ~ReadLedger(d), ~Apply(d), ~ResetRole(d)
      PROVE  pc'[d] \notin {"apply", "grant"}
  BY <1>8 DEF Step, CreateRoles, SetLogin, GrantMembership, Refuse,
              ApplyConflicts, GrantTables, Restart, Break, Goto
<1> QED BY <1>1, <1>2, <1>3, <1>4, <1>5, <1>6, <1>7, <1>8 DEF Next

(* Roles, password and membership, once there, are never taken away, and no *)
(* bootstrap gets past them before it made them.                            *)
LEMMA StepsKeepRoles ==
    ASSUME MigrationInv, [Next]_vars
    PROVE  /\ RolesComeFirst'
           /\ roles => roles'
           /\ member => member'
           /\ login # NoLogin => login' # NoLogin
<1> USE MigrationAssumption DEF MigrationInv, TypeOK, RolesComeFirst, Goto
<1>1. CASE UNCHANGED vars
  BY <1>1 DEF vars
<1>2. ASSUME NEW d \in Deployments, CreateRoles(d)
      PROVE  RolesComeFirst' /\ roles' /\ UNCHANGED <<member, login>>
  BY <1>2 DEF CreateRoles
<1>3. ASSUME NEW d \in Deployments, SetLogin(d)
      PROVE  RolesComeFirst' /\ login' # NoLogin /\ UNCHANGED <<roles, member>>
  BY <1>3 DEF SetLogin
<1>4. ASSUME NEW d \in Deployments, GrantMembership(d)
      PROVE  RolesComeFirst' /\ member' /\ UNCHANGED <<roles, login>>
  BY <1>4 DEF GrantMembership
<1>5. ASSUME NEW d \in Deployments, ReadLedger(d)
      PROVE  RolesComeFirst' /\ UNCHANGED <<roles, login, member>>
  BY <1>5 DEF ReadLedger
<1>6. ASSUME NEW d \in Deployments, Apply(d)
      PROVE  RolesComeFirst' /\ UNCHANGED <<roles, login, member>>
  BY <1>6 DEF Apply
<1>7. ASSUME NEW d \in Deployments, ResetRole(d)
      PROVE  RolesComeFirst' /\ UNCHANGED <<roles, login, member>>
  BY <1>7 DEF ResetRole
<1>8. ASSUME NEW d \in Deployments,
             Refuse(d) \/ ApplyConflicts(d) \/ GrantTables(d) \/ Restart(d) \/ Break(d)
      PROVE  RolesComeFirst' /\ UNCHANGED <<roles, login, member>>
  BY <1>8 DEF Refuse, ApplyConflicts, GrantTables, Restart, Break
<1> QED BY <1>1, <1>2, <1>3, <1>4, <1>5, <1>6, <1>7, <1>8 DEF Next, Step

(* What completed stays ready: the ledger and the privileges only grow.     *)
LEMMA StepsKeepReady ==
    ASSUME MigrationInv, [Next]_vars
    PROVE  CompletedIsReady'
<1>1. ASSUME NEW d \in Deployments, GrantTables(d) PROVE CompletedIsReady'
  <2>1. /\ roles' /\ member' /\ login' # NoLogin
        /\ Prefix(d, Len(Carries[d])) \subseteq ledger'
        /\ ledger' = ledger /\ completed' = completed \cup {d}
        /\ granted' = granted \cup Carried(d)
    BY <1>1 DEF GrantTables, MigrationInv, RolesComeFirst, WalksItsSequence
  <2> QED BY <2>1 DEF MigrationInv, CompletedIsReady, Prefix, Row, Carried
<1>2. ASSUME completed' = completed, granted' = granted PROVE CompletedIsReady'
  <2>1. ledger \subseteq ledger'
    BY LedgerGrows
  <2>2. /\ roles => roles'
        /\ member => member'
        /\ login # NoLogin => login' # NoLogin
    BY StepsKeepRoles
  <2> QED BY <1>2, <2>1, <2>2 DEF MigrationInv, CompletedIsReady, Prefix, Row, Carried
<1>3. ASSUME NEW d \in Deployments, Step(d) \/ Break(d), ~GrantTables(d)
      PROVE  completed' = completed /\ granted' = granted
  BY <1>3 DEF Step, CreateRoles, SetLogin, GrantMembership, ReadLedger, Refuse, Apply,
              ApplyConflicts, ResetRole, Restart, Break
<1>4. CASE UNCHANGED vars
  BY <1>2, <1>4 DEF vars
<1> QED BY <1>1, <1>2, <1>3, <1>4 DEF Next

-----------------------------------------------------------------------------
(* The inductive invariant: at all times the ledger is the beginning of one *)
(* deployment's sequence, whoever wrote its rows.                           *)
THEOREM MigrationSafe == Spec => []MigrationInv
<1>1. ASSUME Init, Deployments # {} PROVE MigrationInv
  <2>1. PICK d \in Deployments : TRUE
    BY <1>1
  <2>2. ledger = Prefix(d, 0) /\ 0 \in 0..Len(Carries[d])
    BY <1>1, CarriesAreTyped DEF Init, Prefix
  <2>3. LedgerIsOne
    BY <2>2 DEF LedgerIsOne, Matches
  <2>4. TypeOK
    <3>1. roles \in BOOLEAN /\ member \in BOOLEAN
      BY <1>1 DEF Init
    <3>2. login \in Deployments \cup {NoLogin} /\ completed \subseteq Deployments
      BY <1>1 DEF Init
    <3>3. ledger \subseteq Rows /\ schema \subseteq Migrations /\ granted \subseteq Migrations
      BY <1>1 DEF Init
    <3>4. pc \in [Deployments -> Places] /\ nextOrder \in [Deployments -> Nat]
      BY <1>1 DEF Init, Places
    <3>5. faults \in 0..MaxFaults
      BY <1>1, MigrationAssumption DEF Init
    <3> QED BY <3>1, <3>2, <3>3, <3>4, <3>5 DEF TypeOK
  <2>5. WalksItsSequence /\ RolesComeFirst
    BY <1>1 DEF Init, WalksItsSequence, RolesComeFirst
  <2>6. SchemaIsLedger /\ CompletedIsReady
    BY <1>1 DEF Init, SchemaIsLedger, CompletedIsReady
  <2> QED BY <2>3, <2>4, <2>5, <2>6 DEF MigrationInv
<1>2. ASSUME MigrationInv, [Next]_vars PROVE MigrationInv'
  BY <1>2, StepsKeepTypes, LedgerGrows, StepsKeepWalks, StepsKeepRoles, StepsKeepReady
  DEF MigrationInv
<1>3. Deployments # {}
  BY MigrationAssumption
<1> QED BY <1>1, <1>2, <1>3, PTL DEF Spec

(* Body and ledger row are one: after any crash the tables are those of the *)
(* ledger.                                                                  *)
THEOREM SchemaFollowsLedger == Spec => []SchemaIsLedger
<1>1. MigrationInv => SchemaIsLedger
  BY DEF MigrationInv
<1> QED BY <1>1, MigrationSafe, PTL

(* A deployment that bootstrapped once is ready for ever.                   *)
THEOREM CompletedStaysReady == Spec => []CompletedIsReady
<1>1. MigrationInv => CompletedIsReady
  BY DEF MigrationInv
<1> QED BY <1>1, MigrationSafe, PTL

-----------------------------------------------------------------------------
\* What a set of stored rows says when it is read by order.
ReadBack(rows) ==
    [n \in {row.order : row \in rows} |-> (CHOOSE row \in rows : row.order = n).migration]

(* Stored rows at the orders 1..k of one sequence are read back, by order,  *)
(* as the first k migrations of that sequence.                              *)
LEMMA PrefixReadsBack ==
    ASSUME NEW d \in Deployments, NEW k \in Nat
    PROVE  ReadBack(Prefix(d, k)) = [n \in 1..k |-> Carries[d][n]]
<1> DEFINE TheRow(n) == CHOOSE row \in Prefix(d, k) : row.order = n
<1>1. {row.order : row \in Prefix(d, k)} = 1..k
  <2>1. \A n \in 1..k : Row(d, n) \in Prefix(d, k) /\ Row(d, n).order = n
    BY DEF Prefix, Row
  <2>2. \A row \in Prefix(d, k) : row.order \in 1..k
    BY DEF Prefix, Row
  <2> QED BY <2>1, <2>2
<1>2. ASSUME NEW n \in 1..k
      PROVE  TheRow(n).migration = Carries[d][n]
  <2>1. Row(d, n) \in Prefix(d, k) /\ Row(d, n).order = n
    BY DEF Prefix, Row
  <2>2. \A row \in Prefix(d, k) : row.order = n => row = Row(d, n)
    BY DEF Prefix, Row
  <2>3. TheRow(n) = Row(d, n)
    BY <2>1, <2>2
  <2> HIDE DEF TheRow
  <2> QED BY <2>3 DEF Row
<1>3. ReadBack(Prefix(d, k)) =
          [n \in {row.order : row \in Prefix(d, k)} |-> TheRow(n).migration]
  BY DEF ReadBack
<1> HIDE DEF TheRow
<1> QED BY <1>1, <1>2, <1>3

(* The first k migrations of a sequence are a sequence of length k.         *)
LEMMA BeginningIsSequence ==
    ASSUME NEW d \in Deployments, NEW k \in 0..Len(Carries[d]),
           NEW h, h = [n \in 1..k |-> Carries[d][n]]
    PROVE  /\ k \in Nat
           /\ h \in Seq(Migrations)
           /\ Len(h) = k
           /\ \A i \in 1..k : h[i] = Carries[d][i]
<1>1. k \in Nat /\ \A n \in 1..k : Carries[d][n] \in Migrations
  BY CarriesAreTyped
<1>2. h \in [1..k -> Migrations]
  BY <1>1
<1>3. h \in Seq(Migrations) /\ Len(h) = k
  BY <1>1, <1>2
<1> QED BY <1>1, <1>3

(* An applied migration appends the next one of its sequence to the history *)
(* and leaves the beginning of that sequence.                               *)
LEMMA ApplyAppends ==
    ASSUME NEW d \in Deployments, NEW k \in Nat, k < Len(Carries[d]),
           ledger = Prefix(d, k),
           ledger' = Prefix(d, k + 1)
    PROVE  History!HistoryNext
<1>1. k \in 0..Len(Carries[d]) /\ k + 1 \in 0..Len(Carries[d]) /\ k + 1 \in Nat
  BY CarriesAreTyped
<1>2. AppliedHistory = ReadBack(ledger) /\ AppliedHistory' = ReadBack(ledger')
  BY DEF AppliedHistory, Orders, ReadBack
<1>3. /\ AppliedHistory = [n \in 1..k |-> Carries[d][n]]
      /\ AppliedHistory' = [n \in 1..(k + 1) |-> Carries[d][n]]
  BY <1>1, <1>2, PrefixReadsBack
<1>4. /\ AppliedHistory \in Seq(Migrations) /\ Len(AppliedHistory) = k
      /\ \A i \in 1..k : AppliedHistory[i] = Carries[d][i]
  BY <1>1, <1>3, BeginningIsSequence
<1>5. /\ AppliedHistory' \in Seq(Migrations) /\ Len(AppliedHistory') = k + 1
      /\ \A i \in 1..(k + 1) : AppliedHistory'[i] = Carries[d][i]
  BY <1>1, <1>3, BeginningIsSequence
<1>6. AppliedHistory' = Append(AppliedHistory, Carries[d][k + 1])
  <2>1. k + 1 \in 1..Len(Carries[d]) /\ Carries[d][k + 1] \in Migrations
    BY <1>1, CarriesAreTyped
  <2>2. /\ Append(AppliedHistory, Carries[d][k + 1]) \in Seq(Migrations)
        /\ Len(Append(AppliedHistory, Carries[d][k + 1])) = k + 1
    BY <1>4, <2>1
  <2>3. ASSUME NEW i \in 1..(k + 1)
        PROVE  AppliedHistory'[i] = Append(AppliedHistory, Carries[d][k + 1])[i]
    <3>1. CASE i = k + 1
      BY <1>1, <1>4, <1>5, <2>1, <3>1
    <3>2. CASE i # k + 1
      <4>1. i \in 1..k
        BY <3>2
      <4> QED BY <1>1, <1>4, <1>5, <2>1, <4>1
    <3> QED BY <3>1, <3>2
  <2> QED BY <1>1, <1>5, <2>2, <2>3
<1>7. Carries[d] \in {Carries[e] : e \in Deployments}
  OBVIOUS
<1>8. /\ Len(AppliedHistory') =< Len(Carries[d])
      /\ \A i \in 1..Len(AppliedHistory') : AppliedHistory'[i] = Carries[d][i]
  BY <1>1, <1>5
<1> QED BY <1>1, <1>4, <1>6, <1>7, <1>8 DEF History!HistoryNext, History!BeginsOne

(* Whatever raced, failed or was run again, the migrations of the database  *)
(* only ever grow at the end, along one deployment's sequence: bootstrap    *)
(* implements SchemaHistory.                                                *)
THEOREM BootstrapImplementsHistory == Spec => ImplementsHistory
<1>1. ASSUME Init PROVE History!HistoryInit
  <2>1. ledger = {}
    BY <1>1 DEF Init
  <2>2. AppliedHistory = <<>>
    BY <2>1 DEF AppliedHistory, Orders
  <2> QED BY <2>2 DEF History!HistoryInit
<1>2. ASSUME MigrationInv, [Next]_vars
      PROVE  [History!HistoryNext]_AppliedHistory
  <2>1. CASE ledger' = ledger
    BY <2>1 DEF AppliedHistory, Orders
  <2>2. ASSUME NEW d \in Deployments,
               nextOrder[d] \in 1..Len(Carries[d]),
               ledger = Prefix(d, nextOrder[d] - 1),
               ledger' = Prefix(d, nextOrder[d])
        PROVE  History!HistoryNext
    <3>1. /\ nextOrder[d] - 1 \in Nat /\ nextOrder[d] - 1 < Len(Carries[d])
          /\ (nextOrder[d] - 1) + 1 = nextOrder[d]
      BY <2>2, CarriesAreTyped
    <3> QED BY <2>2, <3>1, ApplyAppends
  <2> QED BY <1>2, <2>1, <2>2, LedgerSteps
<1> QED
  BY <1>1, <1>2, MigrationSafe, PTL DEF Spec, ImplementsHistory, History!HistorySpec
=============================================================================
