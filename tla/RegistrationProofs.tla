------------------------- MODULE RegistrationProofs --------------------------
(***************************************************************************)
(* Proofs about Registration, for any number of people, nicknames and      *)
(* connections.  The inductive invariant adds to what is claimed that the  *)
(* table has each nickname once and that a handler about to read its row   *)
(* back has inserted it.                                                   *)
(***************************************************************************)
EXTENDS Registration, FiniteSetTheorems, TLAPS

UniqueKey ==
  \A i, j \in DOMAIN users : users[i].nickname = users[j].nickname => i = j

OwnRow(c) ==
  \E i \in DOMAIN users : users[i] = [nickname |-> nickname[c], owner |-> c]

Inserted == \A c \in Clients : pc[c] = "reread" => OwnRow(c)

IInv == TypeOK /\ UniqueKey /\ Inserted /\ WelcomedOwnRow

(* Types are preserved by every statement of the handler. *)
LEMMA TypeStep == TypeOK /\ [Next]_vars => TypeOK'
<1> SUFFICES ASSUME TypeOK, [Next]_vars PROVE TypeOK'
  OBVIOUS
<1>1. CASE UNCHANGED vars
  BY <1>1 DEF vars, TypeOK
<1>2. ASSUME NEW c \in Clients, NEW n \in Nicknames, doGet(c, n) PROVE TypeOK'
  BY <1>2 DEF doGet, TypeOK, Goto, Answer, NoAnswer
<1>3. ASSUME NEW c \in Clients, getRWConnection(c) PROVE TypeOK'
  BY <1>3 DEF getRWConnection, TypeOK, Goto
<1>4. ASSUME NEW c \in Clients, CheckNickname(c) PROVE TypeOK'
  BY <1>4 DEF CheckNickname, TypeOK, Goto, Answer
<1>5. ASSUME NEW c \in Clients, InsertUser(c) PROVE TypeOK'
  <2> DEFINE row == [nickname |-> nickname[c], owner |-> c]
  <2>1. row \in [nickname : Nicknames, owner : Clients]
    BY DEF TypeOK
  <2>2. Append(users, row) \in Seq([nickname : Nicknames, owner : Clients])
    BY <2>1 DEF TypeOK
  <2>3. users' \in Seq([nickname : Nicknames, owner : Clients])
    BY <1>5, <2>2 DEF InsertUser, TypeOK
  <2> HIDE DEF row
  <2>4. /\ pc' \in [Clients -> {"idle", "connect", "check", "insert", "reread", "close"}]
        /\ answer' \in [Clients -> {NoAnswer, "taken", "exception", "welcome"}]
    BY <1>5 DEF InsertUser, TypeOK, Goto, Answer
  <2> QED BY <1>5, <2>3, <2>4 DEF InsertUser, TypeOK
<1>6. ASSUME NEW c \in Clients, RereadUser(c) PROVE TypeOK'
  <2>1. PICK i \in DOMAIN users : id' = [id EXCEPT ![c] = i]
    BY <1>6 DEF RereadUser
  <2>2. i \in Nat
    BY DEF TypeOK
  <2> QED BY <1>6, <2>1, <2>2 DEF RereadUser, TypeOK, Goto, Answer
<1>7. ASSUME NEW c \in Clients, SqlException(c) PROVE TypeOK'
  BY <1>7 DEF SqlException, TypeOK, Goto, Answer
<1>8. ASSUME NEW c \in Clients, closeConnection(c) PROVE TypeOK'
  BY <1>8 DEF closeConnection, TypeOK, Goto
<1> QED BY <1>1, <1>2, <1>3, <1>4, <1>5, <1>6, <1>7, <1>8 DEF Next

(* What the INSERT does to the table: old rows stay, the new one is last. *)
LEMMA InsertKeepsRows ==
  ASSUME TypeOK, NEW c \in Clients,
         users' = Append(users, [nickname |-> nickname[c], owner |-> c])
  PROVE  /\ DOMAIN users' = DOMAIN users \union {Len(users) + 1}
         /\ \A i \in DOMAIN users : users'[i] = users[i]
         /\ users'[Len(users) + 1] = [nickname |-> nickname[c], owner |-> c]
         /\ Len(users) + 1 \notin DOMAIN users
BY DEF TypeOK

(* The invariant holds initially. *)
LEMMA InitIInv == Init => IInv
BY RegistrationAssumption DEF Init, IInv, TypeOK, UniqueKey, Inserted, WelcomedOwnRow, NoAnswer

(* The INSERT, guarded by the UNIQUE key, preserves the invariant. *)
LEMMA InsertPreserves ==
  ASSUME IInv, TypeOK', NEW c \in Clients, InsertUser(c)
  PROVE  IInv'
<1>1. CASE Taken(nickname[c])
  <2>1. /\ UNCHANGED <<users, nickname, id>>
        /\ answer' = [answer EXCEPT ![c] = "exception"]
        /\ pc' = [pc EXCEPT ![c] = "close"]
    BY <1>1 DEF InsertUser, Answer, Goto
  <2>2. UniqueKey'
    BY <2>1 DEF IInv, UniqueKey
  <2>3. Inserted'
    BY <2>1 DEF IInv, Inserted, OwnRow, TypeOK
  <2>4. WelcomedOwnRow'
    BY <2>1 DEF IInv, WelcomedOwnRow, TypeOK
  <2> QED BY <2>2, <2>3, <2>4 DEF IInv
<1>2. CASE ~Taken(nickname[c])
  <2> DEFINE row == [nickname |-> nickname[c], owner |-> c]
  <2>1. /\ users' = Append(users, row)
        /\ UNCHANGED <<nickname, id, answer>>
        /\ pc' = [pc EXCEPT ![c] = "reread"]
    BY <1>2 DEF InsertUser, Goto
  <2>2. /\ DOMAIN users' = DOMAIN users \union {Len(users) + 1}
        /\ \A i \in DOMAIN users : users'[i] = users[i]
        /\ users'[Len(users) + 1] = row
        /\ Len(users) + 1 \notin DOMAIN users
    BY <2>1, InsertKeepsRows DEF IInv
  <2>3. UniqueKey'
    BY <1>2, <2>2 DEF IInv, UniqueKey, Taken
  <2>4. Inserted'
    <3> SUFFICES ASSUME NEW d \in Clients, pc'[d] = "reread" PROVE OwnRow(d)'
      BY DEF Inserted
    <3>1. CASE d = c
      BY <3>1, <2>1, <2>2 DEF OwnRow
    <3>2. CASE d # c
      <4>1. OwnRow(d)
        BY <3>2, <2>1 DEF IInv, Inserted, TypeOK
      <4> QED BY <4>1, <2>1, <2>2 DEF OwnRow
    <3> QED BY <3>1, <3>2
  <2>5. WelcomedOwnRow'
    BY <2>1, <2>2 DEF IInv, WelcomedOwnRow
  <2> QED BY <2>3, <2>4, <2>5 DEF IInv
<1> QED BY <1>1, <1>2

(* Reading back finds, among rows with distinct nicknames, the own row. *)
LEMMA RereadPreserves ==
  ASSUME IInv, TypeOK', NEW c \in Clients, RereadUser(c)
  PROVE  IInv'
<1>1. PICK i \in DOMAIN users : users[i].nickname = nickname[c] /\ id' = [id EXCEPT ![c] = i]
  BY DEF RereadUser
<1>2. PICK j \in DOMAIN users : users[j] = [nickname |-> nickname[c], owner |-> c]
  BY DEF RereadUser, IInv, Inserted, OwnRow
<1>3. i = j
  BY <1>1, <1>2 DEF IInv, UniqueKey
<1>4. /\ UNCHANGED <<users, nickname>>
      /\ answer' = [answer EXCEPT ![c] = "welcome"]
      /\ pc' = [pc EXCEPT ![c] = "close"]
  BY DEF RereadUser, Answer, Goto
<1>5. UniqueKey'
  BY <1>4 DEF IInv, UniqueKey
<1>6. Inserted'
  BY <1>4 DEF IInv, Inserted, OwnRow, TypeOK
<1>7. WelcomedOwnRow'
  BY <1>1, <1>2, <1>3, <1>4 DEF IInv, WelcomedOwnRow, TypeOK
<1> QED BY <1>5, <1>6, <1>7 DEF IInv

(* The invariant is inductive. *)
LEMMA StepIInv == IInv /\ [Next]_vars => IInv'
<1> SUFFICES ASSUME IInv, [Next]_vars PROVE IInv'
  OBVIOUS
<1>0. TypeOK'
  BY TypeStep DEF IInv
<1>1. CASE UNCHANGED vars
  BY <1>0, <1>1 DEF vars, IInv, UniqueKey, Inserted, OwnRow, WelcomedOwnRow
<1>2. ASSUME NEW c \in Clients, NEW n \in Nicknames, doGet(c, n) PROVE IInv'
  <2>1. UniqueKey'
    BY <1>2 DEF doGet, IInv, UniqueKey
  <2>2. Inserted'
    BY <1>2 DEF doGet, Goto, IInv, Inserted, OwnRow, TypeOK
  <2>3. WelcomedOwnRow'
    BY <1>2 DEF doGet, Answer, NoAnswer, IInv, WelcomedOwnRow, TypeOK
  <2> QED BY <1>0, <2>1, <2>2, <2>3 DEF IInv
<1>3. ASSUME NEW c \in Clients, getRWConnection(c) PROVE IInv'
  BY <1>0, <1>3 DEF getRWConnection, Goto, IInv, UniqueKey, Inserted, OwnRow, WelcomedOwnRow, TypeOK
<1>4. ASSUME NEW c \in Clients, CheckNickname(c) PROVE IInv'
  <2>1. UniqueKey'
    BY <1>4 DEF CheckNickname, IInv, UniqueKey
  <2>2. Inserted'
    BY <1>4 DEF CheckNickname, Goto, IInv, Inserted, OwnRow, TypeOK
  <2>3. WelcomedOwnRow'
    BY <1>4 DEF CheckNickname, Answer, IInv, WelcomedOwnRow, TypeOK
  <2> QED BY <1>0, <2>1, <2>2, <2>3 DEF IInv
<1>5. ASSUME NEW c \in Clients, InsertUser(c) PROVE IInv'
  BY <1>0, <1>5, InsertPreserves
<1>6. ASSUME NEW c \in Clients, RereadUser(c) PROVE IInv'
  BY <1>0, <1>6, RereadPreserves
<1>7. ASSUME NEW c \in Clients, SqlException(c) PROVE IInv'
  BY <1>0, <1>7 DEF SqlException, Goto, Answer, IInv, UniqueKey, Inserted, OwnRow, WelcomedOwnRow, TypeOK
<1>8. ASSUME NEW c \in Clients, closeConnection(c) PROVE IInv'
  BY <1>0, <1>8 DEF closeConnection, Goto, IInv, UniqueKey, Inserted, OwnRow, WelcomedOwnRow, TypeOK
<1> QED BY <1>1, <1>2, <1>3, <1>4, <1>5, <1>6, <1>7, <1>8 DEF Next

(* Types, the UNIQUE key and own rows hold in every reachable state. *)
THEOREM RegistrationInvariant == Spec => []IInv
BY InitIInv, StepIInv, PTL DEF Spec

(* RegisterUser's table and locals keep their types. *)
THEOREM RegistrationTypeCorrect == Spec => []TypeOK
<1>1. IInv => TypeOK
  BY DEF IInv
<1> QED BY <1>1, RegistrationInvariant, PTL

(* Whoever RegisterUser welcomes is shown the row they inserted. *)
THEOREM WelcomeShowsOwnRow == Spec => []WelcomedOwnRow
<1>1. IInv => WelcomedOwnRow
  BY DEF IInv
<1> QED BY <1>1, RegistrationInvariant, PTL

(* RegisterUser never welcomes two people under one nickname. *)
THEOREM OneWelcomePerNickname == Spec => []NicknamesAreOnes
<1>1. IInv => NicknamesAreOnes
  <2> SUFFICES ASSUME IInv, NEW c \in Clients, NEW d \in Clients,
                      answer[c] = "welcome", answer[d] = "welcome", nickname[c] = nickname[d]
               PROVE  c = d
    BY DEF NicknamesAreOnes
  <2>1. /\ id[c] \in DOMAIN users /\ users[id[c]] = [nickname |-> nickname[c], owner |-> c]
        /\ id[d] \in DOMAIN users /\ users[id[d]] = [nickname |-> nickname[d], owner |-> d]
    BY DEF IInv, WelcomedOwnRow
  <2>2. id[c] = id[d]
    BY <2>1 DEF IInv, UniqueKey
  <2>3. users[id[c]].owner = c /\ users[id[d]].owner = d
    BY <2>1
  <2> QED BY <2>2, <2>3
<1> QED BY <1>1, RegistrationInvariant, PTL

-----------------------------------------------------------------------------
(* Busy only changes by the client that takes the step. *)
LEMMA BusyIsFinite == IsFiniteSet(Busy)
BY RegistrationAssumption, FS_Subset DEF Busy

(* The pool count and the busy handlers change together. *)
LEMMA ReturnStep == TypeOK /\ ConnectionsReturned /\ [Next]_vars => ConnectionsReturned'
<1> SUFFICES ASSUME TypeOK, ConnectionsReturned, [Next]_vars PROVE ConnectionsReturned'
  OBVIOUS
<1>0. IsFiniteSet(Busy) /\ Cardinality(Busy) \in Nat
  BY BusyIsFinite, FS_CardinalityType
<1>1. CASE UNCHANGED <<pc, avail>>
  BY <1>1 DEF ConnectionsReturned, Busy
<1>2. ASSUME NEW c \in Clients, getRWConnection(c) PROVE ConnectionsReturned'
  <2>1. c \notin Busy /\ Busy' = Busy \union {c}
    BY <1>2 DEF getRWConnection, Goto, Busy, TypeOK
  <2>2. Cardinality(Busy') = Cardinality(Busy) + 1
    BY <1>0, <2>1, FS_AddElement
  <2>3. avail' = avail - 1
    BY <1>2 DEF getRWConnection
  <2> QED BY <1>0, <2>2, <2>3, RegistrationAssumption DEF ConnectionsReturned, TypeOK
<1>3. ASSUME NEW c \in Clients, closeConnection(c) PROVE ConnectionsReturned'
  <2>1. c \in Busy /\ Busy' = Busy \ {c}
    BY <1>3 DEF closeConnection, Goto, Busy, TypeOK
  <2>2. Cardinality(Busy') = Cardinality(Busy) - 1
    BY <1>0, <2>1, FS_RemoveElement
  <2>3. avail' = avail + 1
    BY <1>3 DEF closeConnection
  <2> QED BY <1>0, <2>2, <2>3, RegistrationAssumption DEF ConnectionsReturned, TypeOK
<1>4. ASSUME NEW c \in Clients, avail' = avail,
             \/ \E n \in Nicknames : doGet(c, n)
             \/ CheckNickname(c) \/ InsertUser(c) \/ RereadUser(c) \/ SqlException(c)
      PROVE  ConnectionsReturned'
  <2>1. Busy' = Busy
    BY <1>4 DEF doGet, CheckNickname, InsertUser, RereadUser, SqlException, Goto, Busy, TypeOK
  <2> QED BY <1>4, <2>1 DEF ConnectionsReturned
<1>5. ASSUME NEW c \in Clients,
             \/ \E n \in Nicknames : doGet(c, n)
             \/ CheckNickname(c) \/ InsertUser(c) \/ RereadUser(c) \/ SqlException(c)
      PROVE  avail' = avail
  BY <1>5 DEF doGet, CheckNickname, InsertUser, RereadUser, SqlException
<1> QED BY <1>1, <1>2, <1>3, <1>4, <1>5 DEF Next, vars

(* No path through RegisterUser keeps or doubles its connection. *)
THEOREM RegistrationReturnsConnections == Spec => []ConnectionsReturned
<1>1. Init => ConnectionsReturned
  <2> SUFFICES ASSUME Init PROVE ConnectionsReturned
    OBVIOUS
  <2>1. Busy = {}
    BY DEF Init, Busy
  <2> QED BY <2>1, FS_EmptySet, RegistrationAssumption DEF Init, ConnectionsReturned
<1> QED BY <1>1, ReturnStep, RegistrationTypeCorrect, PTL DEF Spec
=============================================================================
