---------------------------- MODULE Registration -----------------------------
(***************************************************************************)
(* RegisterUser.java: look the nickname up, insert the user, look the      *)
(* nickname up again to show what was stored.  The check and the insert    *)
(* are separate statements; what keeps nicknames apart is the UNIQUE key   *)
(* of the users table, whose violation is an exception of the INSERT.      *)
(*                                                                         *)
(* Each client is a person who has at most one request in flight and tries *)
(* again, with any nickname, until welcomed.                               *)
(***************************************************************************)
EXTENDS Integers, Sequences, FiniteSets

CONSTANTS
  Clients,      \* people registering
  Nicknames,
  poolSize,     \* connections of the servlet's pool
  MaxRequests,  \* bound: requests in all
  SqlMayFail    \* TRUE: any statement may throw an SQLException

ASSUME RegistrationAssumption ==
  /\ poolSize \in Nat /\ MaxRequests \in Nat
  /\ IsFiniteSet(Clients)
  /\ SqlMayFail \in BOOLEAN

NoAnswer == "none"

VARIABLES
  users,      \* rows of the users table; a row's id is its place
  avail,      \* free connections
  requests,   \* requests started so far
  pc,         \* per client: next statement of the handler
  nickname,   \* per client: parameter
  id,         \* per client: the id shown, 0 before
  answer      \* per client: how the last request ended

vars == <<users, avail, requests, pc, nickname, id, answer>>

Taken(n) == \E i \in DOMAIN users : users[i].nickname = n

Init ==
  /\ users = <<>>
  /\ avail = poolSize
  /\ requests = 0
  /\ pc = [c \in Clients |-> "idle"]
  /\ nickname \in [Clients -> Nicknames]
  /\ id = [c \in Clients |-> 0]
  /\ answer = [c \in Clients |-> NoAnswer]

Goto(c, l) == pc' = [pc EXCEPT ![c] = l]
Answer(c, a) == answer' = [answer EXCEPT ![c] = a]

doGet(c, n) ==
  /\ pc[c] = "idle" /\ answer[c] # "welcome"
  /\ requests < MaxRequests
  /\ requests' = requests + 1
  /\ nickname' = [nickname EXCEPT ![c] = n]
  /\ Answer(c, NoAnswer)
  /\ Goto(c, "connect")
  /\ UNCHANGED <<users, avail, id>>

getRWConnection(c) ==
  /\ pc[c] = "connect"
  /\ avail > 0
  /\ avail' = avail - 1
  /\ Goto(c, "check")
  /\ UNCHANGED <<users, requests, nickname, id, answer>>

CheckNickname(c) ==
  /\ pc[c] = "check"
  /\ IF Taken(nickname[c]) THEN Answer(c, "taken") /\ Goto(c, "close")
     ELSE UNCHANGED answer /\ Goto(c, "insert")
  /\ UNCHANGED <<users, avail, requests, nickname, id>>

(* Mutant: the table has no UNIQUE key and the check is relied upon. *)
InsertUser_NoUniqueKey(c) ==
  /\ pc[c] = "insert"
  /\ users' = Append(users, [nickname |-> nickname[c], owner |-> c])
  /\ Goto(c, "reread")
  /\ UNCHANGED <<avail, requests, nickname, id, answer>>

(* Mutant: a duplicate key is taken for success. *)
InsertUser_IgnoresDuplicate(c) ==
  /\ pc[c] = "insert"
  /\ users' = IF Taken(nickname[c]) THEN users
              ELSE Append(users, [nickname |-> nickname[c], owner |-> c])
  /\ Goto(c, "reread")
  /\ UNCHANGED <<avail, requests, nickname, id, answer>>

(* INSERT: the UNIQUE key makes it throw if the nickname has come in since. *)
InsertUser(c) ==
  /\ pc[c] = "insert"
  /\ IF Taken(nickname[c])
     THEN UNCHANGED users /\ Answer(c, "exception") /\ Goto(c, "close")
     ELSE /\ users' = Append(users, [nickname |-> nickname[c], owner |-> c])
          /\ UNCHANGED answer
          /\ Goto(c, "reread")
  /\ UNCHANGED <<avail, requests, nickname, id>>

(* The row that is found is shown, with "processed successfully". *)
RereadUser(c) ==
  /\ pc[c] = "reread"
  /\ \E i \in DOMAIN users :
       /\ users[i].nickname = nickname[c]
       /\ id' = [id EXCEPT ![c] = i]
  /\ Answer(c, "welcome")
  /\ Goto(c, "close")
  /\ UNCHANGED <<users, avail, requests, nickname>>

SqlException(c) ==
  /\ SqlMayFail
  /\ pc[c] \in {"check", "insert", "reread"}
  /\ Answer(c, "exception")
  /\ Goto(c, "close")
  /\ UNCHANGED <<users, avail, requests, nickname, id>>

closeConnection(c) ==
  /\ pc[c] = "close"
  /\ avail' = avail + 1
  /\ Goto(c, "idle")
  /\ UNCHANGED <<users, requests, nickname, id, answer>>

Next == \E c \in Clients :
  \/ \E n \in Nicknames : doGet(c, n)
  \/ getRWConnection(c) \/ CheckNickname(c) \/ InsertUser(c) \/ RereadUser(c)
  \/ SqlException(c) \/ closeConnection(c)

Spec == Init /\ [][Next]_vars

-----------------------------------------------------------------------------
Busy == {c \in Clients : pc[c] \notin {"idle", "connect"}}

(* Types of the table, the pool and the clients' progress. *)
TypeOK ==
  /\ users \in Seq([nickname : Nicknames, owner : Clients])
  /\ avail \in Nat
  /\ requests \in Nat
  /\ pc \in [Clients -> {"idle", "connect", "check", "insert", "reread", "close"}]
  /\ nickname \in [Clients -> Nicknames]
  /\ id \in [Clients -> Nat]
  /\ answer \in [Clients -> {NoAnswer, "taken", "exception", "welcome"}]

(* However the lookups and inserts of several requests interleave, whoever *)
(* is welcomed is shown the row that they themselves inserted.             *)
WelcomedOwnRow ==
  \A c \in Clients : answer[c] = "welcome" =>
    /\ id[c] \in DOMAIN users
    /\ users[id[c]] = [nickname |-> nickname[c], owner |-> c]

(* Two people are never welcomed under one nickname. *)
NicknamesAreOnes ==
  \A c, d \in Clients :
    answer[c] = "welcome" /\ answer[d] = "welcome" /\ nickname[c] = nickname[d] => c = d

(* Every path through the handler gives its connection back once. *)
ConnectionsReturned == avail + Cardinality(Busy) = poolSize
=============================================================================
