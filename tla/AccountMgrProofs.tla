-------------------------- MODULE AccountMgrProofs --------------------------
(***************************************************************************)
(* Theorems about AccountMgr, for any accounts, data types and requests    *)
(* and any bounds on requests and restarts.                                *)
(***************************************************************************)
EXTENDS AccountMgr, TLAPS

\* The inductive invariant: a number that has not been given out yet has no answer.
\* RepliedOnce needs it when a request gets its number.  RightHeldWhileAsked is kept
\* because only one request is in hand.
IInv ==
    /\ TypeOK
    /\ RepliedOnce
    /\ RightHeldWhileAsked
    /\ \A i \in 1..MaxRequests : i > m_nIndex => replies[i] = 0

\* what the steps of the logic thread that answer and drop a request have in common
Answers(i) ==
    /\ Reply(i)
    /\ m_httpReqMap' = RemoveHttpReq(i)
    /\ UNCHANGED <<m_nIndex, restarts>>

\* the right maps of the accounts
AccountsOK(f) == DOMAIN f \subseteq Accounts /\ \A a \in DOMAIN f : f[a] \in RightMaps

-----------------------------------------------------------------------------
\* Operators

\* A right map is a function on data types.
LEMMA RightMapFacts ==
    /\ \A f \in RightMaps : /\ DOMAIN f \subseteq DataTypes
                            /\ f \in [DOMAIN f -> SUBSET Bits]
    /\ \A S \in SUBSET DataTypes : \A f \in [S -> SUBSET Bits] : f \in RightMaps
    /\ NoMap \in RightMaps /\ DOMAIN NoMap = {}
BY DEF RightMaps, NoMap

\* std::map::insert gives a right map.
LEMMA InsertAllFacts ==
    ASSUME NEW f \in RightMaps, NEW g \in RightMaps
    PROVE  InsertAll(f, g) \in RightMaps
<1>1. DOMAIN f \cup DOMAIN g \in SUBSET DataTypes
  BY RightMapFacts
<1>2. InsertAll(f, g) \in [DOMAIN f \cup DOMAIN g -> SUBSET Bits]
  BY RightMapFacts DEF InsertAll
<1> QED
  BY <1>1, <1>2, RightMapFacts

\* A right map that covers part of another one is a right map.
LEMMA RestrictFacts ==
    ASSUME NEW f \in RightMaps, NEW S \in SUBSET DOMAIN f
    PROVE  Restrict(f, S) \in RightMaps
<1>1. S \in SUBSET DataTypes
  BY RightMapFacts
<1>2. Restrict(f, S) \in [S -> SUBSET Bits]
  BY RightMapFacts DEF Restrict
<1> QED
  BY <1>1, <1>2, RightMapFacts

\* The right map of a known or an unknown account.
LEMMA RightsOfType ==
    ASSUME AccountsOK(m_accountMap), NEW a
    PROVE  RightsOf(a) \in RightMaps
BY RightMapFacts DEF AccountsOK, RightsOf

\* Giving an account a right map.
LEMMA SetRightsFacts ==
    ASSUME AccountsOK(m_accountMap), NEW a \in Accounts, NEW rights \in RightMaps
    PROVE  /\ AccountsOK(SetRights(a, rights))
           /\ a \in DOMAIN SetRights(a, rights) /\ SetRights(a, rights)[a] = rights
<1>1. /\ DOMAIN SetRights(a, rights) = DOMAIN m_accountMap \cup {a}
      /\ SetRights(a, rights)[a] = rights
      /\ \A x \in DOMAIN m_accountMap \ {a} : SetRights(a, rights)[x] = m_accountMap[x]
  BY DEF SetRights
<1> QED
  BY <1>1 DEF AccountsOK

\* The fields of the requests the logic thread looks at.
LEMMA RequestFields ==
    ASSUME NEW r \in Requests
    PROVE  /\ r.op \in {"write", "read"} => r.account \in Accounts /\ r.dataType \in DataTypes
           /\ r.op = "grant" => /\ r.main \in Accounts /\ r.other \in Accounts
                                /\ r.rights \in RightMaps
           /\ r.op = "delete" => /\ r.main \in Accounts /\ r.other \in Accounts
                                 /\ r.types \in SUBSET DataTypes
<1>1. r \in RequestType
  BY RequestAssumption
<1>2. CASE r \in [op : {"write", "read"}, account : Accounts, dataType : DataTypes]
  BY <1>2
<1>3. CASE r \in [op : {"grant"}, main : Accounts, other : Accounts, rights : RightMaps]
  BY <1>3
<1>4. CASE r \in [op : {"delete"}, main : Accounts, other : Accounts, types : SUBSET DataTypes]
  BY <1>4
<1>5. CASE r \in [op : {"malformed", "null", "other optType"}]
  BY <1>5
<1> QED
  BY <1>1, <1>2, <1>3, <1>4, <1>5 DEF RequestType

-----------------------------------------------------------------------------
\* The accounts

\* WriteDataToSys asks the chain only with the right to write in the new map.
LEMMA WriteAccounts ==
    ASSUME IInv, NEW i, WriteDataToSys(i)
    PROVE  /\ AccountsOK(m_accountMap')
           /\ asking' = i /\ i # 0 =>
                  LET r == m_httpReqMap[i]
                  IN /\ r.account \in DOMAIN m_accountMap'
                     /\ CheckRight(m_accountMap'[r.account], r.dataType, "write")
<1> DEFINE a == m_httpReqMap[i].account
           t == m_httpReqMap[i].dataType
           one == [x \in {t} |-> Right0077]
           two == [x \in {2} |-> Right0066]
           rights == IF a \in DOMAIN m_accountMap THEN InsertAll(RightsOf(a), one)
                     ELSE InsertAll(one, two)
<1>1. a \in Accounts /\ t \in DataTypes
  <2>1. m_httpReqMap[i] \in Requests /\ m_httpReqMap[i].op = "write"
    BY DEF IInv, TypeOK, WriteDataToSys, Takes
  <2> QED
    BY <2>1, RequestFields
<1>2. AccountsOK(m_accountMap)
  BY DEF IInv, TypeOK, AccountsOK
<1>3. one \in RightMaps /\ two \in RightMaps
  <2>1. one \in [{t} -> SUBSET Bits] /\ two \in [{2} -> SUBSET Bits]
    BY DEF Right0077, Right0066
  <2>2. {t} \in SUBSET DataTypes /\ {2} \in SUBSET DataTypes
    BY <1>1, RequestAssumption
  <2> HIDE DEF one, two, t
  <2> QED
    BY <2>1, <2>2, RightMapFacts
<1>4. /\ m_accountMap' = SetRights(a, rights)
      /\ asking' = i /\ i # 0 => CheckRight(rights, t, "write")
  BY DEF WriteDataToSys, Takes
<1> HIDE DEF one, two, a, t
<1>5. rights \in RightMaps
  BY <1>2, <1>3, RightsOfType, InsertAllFacts
<1> HIDE DEF rights
<1>6. AccountsOK(m_accountMap') /\ a \in DOMAIN m_accountMap' /\ m_accountMap'[a] = rights
  BY <1>1, <1>2, <1>4, <1>5, SetRightsFacts
<1> QED
  BY <1>4, <1>6 DEF a, t

\* A grant leaves right maps.
LEMMA GrantAccounts ==
    ASSUME IInv, NEW i, AuthorizeGrant(i)
    PROVE  AccountsOK(m_accountMap')
<1> DEFINE r == m_httpReqMap[i]
           own == RightsOf(r.main)
<1>1. r.main \in Accounts /\ r.other \in Accounts /\ r.rights \in RightMaps
  <2>1. r \in Requests /\ r.op = "grant"
    BY DEF IInv, TypeOK, AuthorizeGrant, Takes
  <2> QED
    BY <2>1, RequestFields
<1>2. AccountsOK(m_accountMap)
  BY DEF IInv, TypeOK, AccountsOK
<1>3. \/ UNCHANGED m_accountMap
      \/ m_accountMap' = SetRights(r.other, r.rights)
      \/ m_accountMap' = SetRights(r.main, InsertAll(own, r.rights))
  BY DEF AuthorizeGrant
<1>4. InsertAll(own, r.rights) \in RightMaps
  BY <1>1, <1>2, RightsOfType, InsertAllFacts
<1> HIDE DEF r, own
<1> QED
  BY <1>1, <1>2, <1>3, <1>4, SetRightsFacts DEF AccountsOK

\* A deletion leaves right maps.
LEMMA DeleteAccounts ==
    ASSUME IInv, NEW i, AuthorizeDelete(i)
    PROVE  AccountsOK(m_accountMap')
<1> DEFINE r == m_httpReqMap[i]
           deleted == {t \in r.types : CheckRight(RightsOf(r.main), t, "delete")}
           had == RightsOf(r.other)
           left == Restrict(had, DOMAIN had \ deleted)
<1>1. r.main \in Accounts /\ r.other \in Accounts
  <2>1. r \in Requests /\ r.op = "delete"
    BY DEF IInv, TypeOK, AuthorizeDelete, Takes
  <2> QED
    BY <2>1, RequestFields
<1>2. AccountsOK(m_accountMap)
  BY DEF IInv, TypeOK, AccountsOK
<1>3. \/ UNCHANGED m_accountMap
      \/ m_accountMap' = Restrict(m_accountMap, DOMAIN m_accountMap \ {r.other})
      \/ m_accountMap' = SetRights(r.other, left)
  BY DEF AuthorizeDelete
<1>4. left \in RightMaps
  <2>1. DOMAIN had \ deleted \in SUBSET DOMAIN had
    OBVIOUS
  <2>2. had \in RightMaps
    BY <1>2, RightsOfType
  <2> HIDE DEF had, deleted
  <2> QED
    BY <2>1, <2>2, RestrictFacts
<1> HIDE DEF r, left, had
<1>5. CASE UNCHANGED m_accountMap
  BY <1>2, <1>5
<1>6. CASE m_accountMap' = Restrict(m_accountMap, DOMAIN m_accountMap \ {r.other})
  BY <1>2, <1>6 DEF AccountsOK, Restrict
<1>7. CASE m_accountMap' = SetRights(r.other, left)
  BY <1>1, <1>2, <1>4, <1>7, SetRightsFacts
<1> QED
  BY <1>3, <1>5, <1>6, <1>7

-----------------------------------------------------------------------------
\* The requests

\* A request that is answered is dropped with its only answer.
LEMMA AnswersOnce ==
    ASSUME IInv, NEW i \in DOMAIN m_httpReqMap, Answers(i)
    PROVE  /\ DOMAIN m_httpReqMap' = DOMAIN m_httpReqMap \ {i}
           /\ \A j \in DOMAIN m_httpReqMap' : m_httpReqMap'[j] \in Requests
           /\ replies' \in [1..MaxRequests -> Nat]
           /\ RepliedOnce'
           /\ \A j \in 1..MaxRequests : j > m_nIndex' => replies'[j] = 0
<1>1. /\ m_nIndex \in 0..MaxRequests /\ MaxRequests \in Nat
      /\ DOMAIN m_httpReqMap \subseteq 1..m_nIndex
      /\ replies \in [1..MaxRequests -> Nat]
  BY RequestAssumption DEF IInv, TypeOK
<1>2. i \in 1..MaxRequests /\ ~(i > m_nIndex) /\ replies[i] = 0
  <2>1. i \in 1..MaxRequests /\ ~(i > m_nIndex)
    BY <1>1
  <2> QED
    BY <2>1 DEF IInv, RepliedOnce
<1>3. /\ replies' \in [1..MaxRequests -> Nat]
      /\ replies'[i] = 1
      /\ \A j \in 1..MaxRequests \ {i} : replies'[j] = replies[j]
  BY <1>1, <1>2 DEF Answers, Reply
<1>4. /\ DOMAIN m_httpReqMap' = DOMAIN m_httpReqMap \ {i}
      /\ \A j \in DOMAIN m_httpReqMap' : m_httpReqMap'[j] \in Requests
  BY DEF Answers, RemoveHttpReq, Restrict, IInv, TypeOK
<1>5. RepliedOnce'
  BY <1>3, <1>4 DEF IInv, RepliedOnce
<1>6. \A j \in 1..MaxRequests : j > m_nIndex' => replies'[j] = 0
  BY <1>2, <1>3 DEF IInv, Answers
<1> QED
  BY <1>3, <1>4, <1>5, <1>6

\* The right of the request in hand stays if the accounts do not change and neither does
\* the request.
LEMMA RightStays ==
    ASSUME RightHeldWhileAsked, UNCHANGED <<m_accountMap, asking>>,
           asking # 0 => m_httpReqMap'[asking] = m_httpReqMap[asking]
    PROVE  RightHeldWhileAsked'
BY DEF RightHeldWhileAsked, RightsOf

\* What a step that answers keeps, if the accounts stay right maps.
LEMMA AnswersStep ==
    ASSUME IInv, NEW i \in DOMAIN m_httpReqMap, Answers(i),
           asking' = 0, AccountsOK(m_accountMap'), DOMAIN saved' \subseteq Accounts
    PROVE  IInv'
<1>1. /\ DOMAIN m_httpReqMap' = DOMAIN m_httpReqMap \ {i}
      /\ \A j \in DOMAIN m_httpReqMap' : m_httpReqMap'[j] \in Requests
      /\ replies' \in [1..MaxRequests -> Nat]
      /\ RepliedOnce'
      /\ \A j \in 1..MaxRequests : j > m_nIndex' => replies'[j] = 0
  BY AnswersOnce
<1>2. UNCHANGED <<m_nIndex, restarts>>
  BY DEF Answers
<1>3. TypeOK'
  BY <1>1, <1>2 DEF IInv, TypeOK, AccountsOK
<1>4. RightHeldWhileAsked'
  BY DEF RightHeldWhileAsked
<1> QED
  BY <1>1, <1>3, <1>4 DEF IInv

\* The gateway starts with no request and no account.
LEMMA InitIInv == Init => IInv
BY RequestAssumption DEF Init, IInv, TypeOK, RepliedOnce, RightHeldWhileAsked, NoMap

\* Every step of the gateway keeps the invariant.
LEMMA NextIInv == ASSUME IInv, [Next]_vars PROVE IInv'
<1>1. AccountsOK(m_accountMap) /\ DOMAIN saved \subseteq Accounts
  BY DEF IInv, TypeOK, AccountsOK
<1>2. /\ m_nIndex \in 0..MaxRequests /\ MaxRequests \in Nat
      /\ DOMAIN m_httpReqMap \subseteq 1..m_nIndex
      /\ replies \in [1..MaxRequests -> Nat]
  BY RequestAssumption DEF IInv, TypeOK
<1>3. ASSUME NEW r \in Requests, DealHttpRequest(r) PROVE IInv'
  <2> DEFINE n == m_nIndex + 1
  <2>1. n \in 1..MaxRequests /\ n > m_nIndex /\ m_nIndex' = n
    BY <1>2, <1>3 DEF DealHttpRequest
  <2>2. /\ DOMAIN m_httpReqMap' = DOMAIN m_httpReqMap \cup {n}
        /\ m_httpReqMap'[n] = r
        /\ \A i \in DOMAIN m_httpReqMap \ {n} : m_httpReqMap'[i] = m_httpReqMap[i]
        /\ UNCHANGED <<m_accountMap, saved, asking, replies, restarts>>
    BY <1>3 DEF DealHttpRequest
  <2>3. replies[n] = 0
    BY <2>1 DEF IInv
  <2>4. DOMAIN m_httpReqMap' \subseteq 1..m_nIndex' /\ m_nIndex' \in 0..MaxRequests
    BY <1>2, <2>1, <2>2
  <2>5. TypeOK'
    BY <2>2, <2>4 DEF IInv, TypeOK
  <2>6. RepliedOnce'
    BY <2>2, <2>3 DEF IInv, RepliedOnce
  <2>7. \A i \in 1..MaxRequests : i > m_nIndex' => replies'[i] = 0
    BY <1>2, <2>1, <2>2 DEF IInv
  <2>8. RightHeldWhileAsked'
    <3>1. asking # 0 => asking \in DOMAIN m_httpReqMap \ {n}
      BY <1>2, <2>1 DEF IInv, TypeOK
    <3> QED
      BY <2>2, <3>1, RightStays DEF IInv
  <2> QED
    BY <2>5, <2>6, <2>7, <2>8 DEF IInv
<1>4. ASSUME EmptyPost PROVE IInv'
  <2>1. /\ m_nIndex' = m_nIndex + 1 /\ m_nIndex < MaxRequests
        /\ UNCHANGED <<m_httpReqMap, m_accountMap, saved, asking, replies, restarts>>
    BY <1>4 DEF EmptyPost
  <2>2. TypeOK'
    BY <1>2, <2>1 DEF IInv, TypeOK
  <2>3. \A i \in 1..MaxRequests : i > m_nIndex' => replies'[i] = 0
    BY <1>2, <2>1 DEF IInv
  <2>4. RightHeldWhileAsked'
    BY <2>1, RightStays DEF IInv
  <2> QED
    BY <2>1, <2>2, <2>3, <2>4 DEF IInv, RepliedOnce
<1>5. ASSUME NEW i, WriteDataToSys(i) PROVE IInv'
  <2>1. AccountsOK(m_accountMap') /\ i \in DOMAIN m_httpReqMap /\ asking = 0
    BY <1>5, WriteAccounts DEF WriteDataToSys, Takes
  <2>2. \/ /\ asking' = i
           /\ UNCHANGED <<replies, saved, m_httpReqMap, m_nIndex, restarts>>
        \/ Answers(i) /\ saved' = m_accountMap' /\ asking' = 0
    BY <1>5, <2>1 DEF WriteDataToSys, Answers
  <2>3. CASE /\ asking' = i
             /\ UNCHANGED <<replies, saved, m_httpReqMap, m_nIndex, restarts>>
    <3>1. m_httpReqMap[i].op = "write" /\ i # 0
      BY <1>2, <1>5, <2>1 DEF WriteDataToSys, Takes
    <3>2. /\ m_httpReqMap[i].account \in DOMAIN m_accountMap'
          /\ CheckRight(m_accountMap'[m_httpReqMap[i].account], m_httpReqMap[i].dataType, "write")
      BY <1>5, <2>3, <3>1, WriteAccounts
    <3>3. RightHeldWhileAsked'
      BY <2>3, <3>1, <3>2 DEF RightHeldWhileAsked, RightsOf
    <3> QED
      BY <2>1, <2>3, <3>3 DEF IInv, TypeOK, RepliedOnce, AccountsOK
  <2>4. CASE Answers(i) /\ saved' = m_accountMap' /\ asking' = 0
    BY <2>1, <2>4, AnswersStep DEF AccountsOK
  <2> QED
    BY <2>2, <2>3, <2>4
<1>6. ASSUME NEW i, ReadData(i) PROVE IInv'
  <2>1. i \in DOMAIN m_httpReqMap /\ asking = 0 /\ UNCHANGED <<m_accountMap, saved>>
    BY <1>6 DEF ReadData, Takes
  <2>2. \/ asking' = i /\ UNCHANGED <<replies, m_httpReqMap, m_nIndex, restarts>>
        \/ Answers(i) /\ asking' = 0
    BY <1>6, <2>1 DEF ReadData, Answers
  <2>3. CASE asking' = i /\ UNCHANGED <<replies, m_httpReqMap, m_nIndex, restarts>>
    <3>1. m_httpReqMap[i].op = "read" /\ i # 0
      BY <1>2, <1>6, <2>1 DEF ReadData, Takes
    <3>2. CheckRight(RightsOf(m_httpReqMap[i].account), m_httpReqMap[i].dataType, "read")
      BY <1>6, <2>1, <2>3, <3>1 DEF ReadData
    <3>3. RightHeldWhileAsked'
      BY <2>1, <2>3, <3>1, <3>2 DEF RightHeldWhileAsked, RightsOf
    <3> QED
      BY <2>1, <2>3, <3>3 DEF IInv, TypeOK, RepliedOnce
  <2>4. CASE Answers(i) /\ asking' = 0
    BY <1>1, <2>1, <2>4, AnswersStep
  <2> QED
    BY <2>2, <2>3, <2>4
<1>7. ASSUME NEW i, AuthorizeGrant(i) \/ AuthorizeDelete(i) \/ AuthorizeNothing(i)
      PROVE  IInv'
  <2>1. /\ i \in DOMAIN m_httpReqMap /\ asking' = 0 /\ Answers(i) /\ UNCHANGED saved
    BY <1>7 DEF AuthorizeGrant, AuthorizeDelete, AuthorizeNothing, Takes, Answers
  <2>2. AccountsOK(m_accountMap')
    BY <1>1, <1>7, GrantAccounts, DeleteAccounts DEF AuthorizeNothing
  <2> QED
    BY <1>1, <2>1, <2>2, AnswersStep
<1>8. ASSUME NEW i, Discard(i) PROVE IInv'
  <2>1. /\ m_httpReqMap' = RemoveHttpReq(i) /\ asking = 0
        /\ UNCHANGED <<m_nIndex, m_accountMap, saved, asking, replies, restarts>>
    BY <1>8 DEF Discard, Takes
  <2>2. /\ DOMAIN m_httpReqMap' = DOMAIN m_httpReqMap \ {i}
        /\ \A j \in DOMAIN m_httpReqMap' : m_httpReqMap'[j] \in Requests
    BY <2>1 DEF RemoveHttpReq, Restrict, IInv, TypeOK
  <2>3. RightHeldWhileAsked'
    BY <2>1 DEF RightHeldWhileAsked
  <2> QED
    BY <2>1, <2>2, <2>3 DEF IInv, TypeOK, RepliedOnce
<1>9. ASSUME ChainAnswers PROVE IInv'
  <2>1. asking \in DOMAIN m_httpReqMap /\ Answers(asking) /\ asking' = 0
    BY <1>9 DEF ChainAnswers, Answers, IInv, TypeOK
  <2>2. AccountsOK(m_accountMap') /\ DOMAIN saved' \subseteq Accounts
    BY <1>1, <1>9 DEF ChainAnswers, AccountsOK
  <2> QED
    BY <2>1, <2>2, AnswersStep
<1>10. ASSUME Restart PROVE IInv'
  <2>1. TypeOK'
    BY <1>1, <1>10, RequestAssumption DEF Restart, IInv, TypeOK, NoMap, AccountsOK
  <2> QED
    BY <1>10, <2>1 DEF Restart, IInv, RepliedOnce, RightHeldWhileAsked
<1>11. CASE UNCHANGED vars
  BY <1>11, RightStays DEF vars, IInv, TypeOK, RepliedOnce
<1> QED
  BY <1>3, <1>4, <1>5, <1>6, <1>7, <1>8, <1>9, <1>10, <1>11 DEF Next, LogicStep

-----------------------------------------------------------------------------
\* The inductive invariant holds in every reachable state.
THEOREM Consistent == Spec => []IInv
BY InitIInv, NextIInv, PTL DEF Spec

\* Every variable keeps its type: requests are dropped under the number they have, and
\* the request in hand is always in the map.
THEOREM TypeCorrect == Spec => []TypeOK
<1>1. IInv => TypeOK
  BY DEF IInv
<1> QED
  BY <1>1, Consistent, PTL

\* However the logic thread's iterator goes through the map, no request is answered
\* twice, and none is answered while it waits.
THEOREM NoSecondReply == Spec => []RepliedOnce
<1>1. IInv => RepliedOnce
  BY DEF IInv
<1> QED
  BY <1>1, Consistent, PTL

\* The right a request was let through with stands for as long as the chain is asked,
\* whatever requests arrive meanwhile and however the iterator goes through the map.
THEOREM RightStands == Spec => []RightHeldWhileAsked
<1>1. IInv => RightHeldWhileAsked
  BY DEF IInv
<1> QED
  BY <1>1, Consistent, PTL

=============================================================================
