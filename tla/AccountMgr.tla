----------------------------- MODULE AccountMgr -----------------------------
(***************************************************************************)
(* The account gateway in front of the chain                               *)
(* (src/AccountMgr/libAccountMgr).                                         *)
(*                                                                         *)
(* The HTTP thread numbers the requests and puts them in m_httpReqMap; the *)
(* logic thread takes them out one by one, checks the rights of the        *)
(* account, asks the chain, answers and appends all accounts to            *)
(* AccData.dat.  No lock protects the map of requests, and DealLogicFun    *)
(* steps its iterator after erasing the entry it points to: the model lets *)
(* it go on with any request that is in the map.                           *)
(*                                                                         *)
(* A right is a set of bits; data types are numbers, in the order of their *)
(* strings.                                                                *)
(***************************************************************************)
EXTENDS Naturals, FiniteSets, Functions, FiniteSetsExt

CONSTANTS
    Accounts,     \* the account strings that occur in requests
    DataTypes,    \* the data types that occur in requests, "2" among them
    Requests,     \* the requests clients send
    MaxRequests,  \* bound: requests between two starts of the gateway
    MaxRestarts   \* bound: restarts

Bits == {"read", "write", "execute", "create", "modify", "delete"}
Right0077 == Bits
Right0066 == Bits \ {"read", "create"}

RightMaps == UNION {[S -> SUBSET Bits] : S \in SUBSET DataTypes}

\* what a POST body can say once it is parsed.  "malformed" stands for a body
\* that is no JSON (any GET among them), "null" for an unknown interface.
RequestType ==
    [op : {"write", "read"}, account : Accounts, dataType : DataTypes]
    \cup [op : {"grant"}, main : Accounts, other : Accounts, rights : RightMaps]
    \cup [op : {"delete"}, main : Accounts, other : Accounts,
          types : SUBSET DataTypes]
    \cup [op : {"malformed", "null", "other optType"}]

ASSUME RequestAssumption ==
    /\ DataTypes \subseteq Nat /\ 2 \in DataTypes
    /\ Requests \subseteq RequestType
    /\ MaxRequests \in Nat /\ MaxRestarts \in Nat

VARIABLES
    m_nIndex,      \* HttpServer::m_nIndex, the number of the last request
    m_httpReqMap,  \* the requests that wait or are being handled, by number
    m_accountMap,  \* the right maps of the accounts, by account
    saved,         \* the last snapshot in AccData.dat
    asking,        \* the request the chain is being asked about, 0 for none
    replies,       \* how often each request was answered
    restarts       \* how often the gateway was started anew

vars == <<m_nIndex, m_httpReqMap, m_accountMap, saved, asking, replies, restarts>>

NoMap == [x \in {} |-> {}]

\* std::map::insert: a key that is there keeps its value
InsertAll(f, g) == [x \in DOMAIN f \cup DOMAIN g |-> IF x \in DOMAIN f THEN f[x] ELSE g[x]]

\* the right map of a, empty when there is no such account
RightsOf(a) == IF a \in DOMAIN m_accountMap THEN m_accountMap[a] ELSE NoMap

CheckRight(rights, t, bit) == t \in DOMAIN rights /\ bit \in rights[t]

SetRights(a, rights) ==
    [x \in DOMAIN m_accountMap \cup {a} |->
        IF x = a THEN rights ELSE m_accountMap[x]]

-----------------------------------------------------------------------------
\* HttpServer::DealHttpRequest; a POST without a body, or a request that is no
\* GET and no POST, takes a number only
DealHttpRequest(r) ==
    /\ m_nIndex < MaxRequests
    /\ m_nIndex' = m_nIndex + 1
    /\ m_httpReqMap' = [i \in DOMAIN m_httpReqMap \cup {m_nIndex'} |->
                           IF i = m_nIndex' THEN r ELSE m_httpReqMap[i]]
    /\ UNCHANGED <<m_accountMap, saved, asking, replies, restarts>>

EmptyPost ==
    /\ m_nIndex < MaxRequests
    /\ m_nIndex' = m_nIndex + 1
    /\ UNCHANGED <<m_httpReqMap, m_accountMap, saved, asking, replies, restarts>>

\* mutant: the first request is not removed
KeepsFirst(i) == Restrict(m_httpReqMap, DOMAIN m_httpReqMap \ ({i} \ {1}))

RemoveHttpReq(i) == Restrict(m_httpReqMap, DOMAIN m_httpReqMap \ {i})

\* mutant: a second logic thread does not wait for the one that asks the chain
TakesAnyTime(i, op) ==
    /\ i \in DOMAIN m_httpReqMap
    /\ m_httpReqMap[i].op = op

\* the logic thread has nothing else in hand and comes to request i
Takes(i, op) ==
    /\ asking = 0
    /\ i \in DOMAIN m_httpReqMap
    /\ m_httpReqMap[i].op = op

Reply(i) == replies' = [replies EXCEPT ![i] = @ + 1]

\* WriteDataToSys up to the question to the chain: an unknown account, or an
\* unknown data type of an account, gets its rights here
WriteDataToSys(i) ==
    /\ Takes(i, "write")
    /\ LET a == m_httpReqMap[i].account
           t == m_httpReqMap[i].dataType
           first == InsertAll([x \in {t} |-> Right0077], [x \in {2} |-> Right0066])
           known == a \in DOMAIN m_accountMap
           rights == IF known THEN InsertAll(RightsOf(a), [x \in {t} |-> Right0077])
                     ELSE first
       IN /\ m_accountMap' = SetRights(a, rights)
          /\ IF CheckRight(rights, t, "write")
             THEN /\ asking' = i
                  /\ UNCHANGED <<replies, saved, m_httpReqMap>>
             ELSE /\ Reply(i)
                  /\ saved' = m_accountMap'
                  /\ m_httpReqMap' = RemoveHttpReq(i)
                  /\ UNCHANGED asking
    /\ UNCHANGED <<m_nIndex, restarts>>

\* ReadData up to the question to the chain
ReadData(i) ==
    /\ Takes(i, "read")
    /\ IF CheckRight(RightsOf(m_httpReqMap[i].account), m_httpReqMap[i].dataType, "read")
       THEN asking' = i /\ UNCHANGED <<replies, m_httpReqMap>>
       ELSE Reply(i) /\ m_httpReqMap' = RemoveHttpReq(i) /\ UNCHANGED asking
    /\ UNCHANGED <<m_nIndex, m_accountMap, saved, restarts>>

\* mutant: a request that fails at the chain is dropped
SilentFailure ==
    /\ asking # 0
    /\ m_httpReqMap' = RemoveHttpReq(asking)
    /\ asking' = 0
    /\ UNCHANGED <<m_nIndex, m_accountMap, saved, replies, restarts>>

\* mutant: the request stays in hand
StillAsking ==
    /\ asking # 0
    /\ Reply(asking)
    /\ m_httpReqMap' = RemoveHttpReq(asking)
    /\ UNCHANGED <<m_nIndex, m_accountMap, saved, asking, restarts>>

\* the chain answers, or the request fails or times out: the client is told
\* either way, and a write saves the accounts
ChainAnswers ==
    /\ asking # 0
    /\ Reply(asking)
    /\ saved' = IF m_httpReqMap[asking].op = "write" THEN m_accountMap ELSE saved
    /\ m_httpReqMap' = RemoveHttpReq(asking)
    /\ asking' = 0
    /\ UNCHANGED <<m_nIndex, m_accountMap, restarts>>

\* The loop over the data types of a grant keeps the result of the last type
\* it looked at; it ends early at a type the main account does not have.
LoopRight(own, types, bit) ==
    LET missing == types \ DOMAIN own
        checked == {t \in types : \A m \in missing : t < m}
    IN checked # {} /\ bit \in own[Max(checked)]

\* Authorize, optType "0".  For an account that exists iIter has been moved to the
\* main account, whose map the rights then go to; a type that is there keeps its
\* value.  The client is told "Mod account right success".
AuthorizeGrant(i) ==
    /\ Takes(i, "grant")
    /\ LET r == m_httpReqMap[i]
           own == RightsOf(r.main)
           granted(bit) == LoopRight(own, DOMAIN r.rights, bit)
       IN m_accountMap' =
            IF r.other \notin DOMAIN m_accountMap
            THEN IF granted("create") THEN SetRights(r.other, r.rights)
                                      ELSE m_accountMap
            ELSE IF granted("modify") THEN SetRights(r.main, InsertAll(own, r.rights))
                                      ELSE m_accountMap
    /\ Reply(i)
    /\ m_httpReqMap' = RemoveHttpReq(i)
    /\ UNCHANGED <<m_nIndex, saved, asking, restarts>>

\* Authorize, optType "1": the types the main account may delete are taken
\* from the other account, which goes when these are all the types named
AuthorizeDelete(i) ==
    /\ Takes(i, "delete")
    /\ LET r == m_httpReqMap[i]
           deleted == {t \in r.types : CheckRight(RightsOf(r.main), t, "delete")}
           left == RightsOf(r.other)
       IN m_accountMap' =
            IF r.other \notin DOMAIN m_accountMap THEN m_accountMap
            ELSE IF deleted = r.types
            THEN Restrict(m_accountMap, DOMAIN m_accountMap \ {r.other})
            ELSE SetRights(r.other, Restrict(left, DOMAIN left \ deleted))
    /\ Reply(i)
    /\ m_httpReqMap' = RemoveHttpReq(i)
    /\ UNCHANGED <<m_nIndex, saved, asking, restarts>>

\* Authorize with any other optType: an empty answer
AuthorizeNothing(i) ==
    /\ Takes(i, "other optType")
    /\ Reply(i)
    /\ m_httpReqMap' = RemoveHttpReq(i)
    /\ UNCHANGED <<m_nIndex, m_accountMap, saved, asking, restarts>>

\* no JSON, or no such interface: the request goes without an answer
Discard(i) ==
    /\ Takes(i, "malformed") \/ Takes(i, "null")
    /\ m_httpReqMap' = RemoveHttpReq(i)
    /\ UNCHANGED <<m_nIndex, m_accountMap, saved, asking, replies, restarts>>

\* StopSvr saves the accounts, a crash does not.  After the start
\* ReadAccInfoFromFile reads the lines of AccData.dat, but its nIndex stays 1,
\* so that it makes no account of them.
Restart ==
    /\ restarts < MaxRestarts
    /\ restarts' = restarts + 1
    /\ saved' \in {saved, m_accountMap}
    /\ m_nIndex' = 0
    /\ m_httpReqMap' = NoMap
    /\ m_accountMap' = NoMap
    /\ asking' = 0
    /\ replies' = [i \in 1..MaxRequests |-> 0]

-----------------------------------------------------------------------------
Init ==
    /\ m_nIndex = 0
    /\ m_httpReqMap = NoMap
    /\ m_accountMap = NoMap
    /\ saved = NoMap
    /\ asking = 0
    /\ replies = [i \in 1..MaxRequests |-> 0]
    /\ restarts = 0

LogicStep ==
    \/ \E i \in 1..MaxRequests :
          \/ WriteDataToSys(i) \/ ReadData(i)
          \/ AuthorizeGrant(i) \/ AuthorizeDelete(i) \/ AuthorizeNothing(i)
          \/ Discard(i)
    \/ ChainAnswers

Next ==
    \/ \E r \in Requests : DealHttpRequest(r)
    \/ EmptyPost
    \/ LogicStep
    \/ Restart

Spec == Init /\ [][Next]_vars

\* DealLogicThread never ends, and curl gives up after 30 seconds
FairSpec == Spec /\ WF_vars(LogicStep)

-----------------------------------------------------------------------------
\* Properties

\* Every variable has its type.
TypeOK ==
    /\ m_nIndex \in 0..MaxRequests
    /\ DOMAIN m_httpReqMap \subseteq 1..m_nIndex
    /\ \A i \in DOMAIN m_httpReqMap : m_httpReqMap[i] \in Requests
    /\ DOMAIN m_accountMap \subseteq Accounts
    /\ \A a \in DOMAIN m_accountMap : m_accountMap[a] \in RightMaps
    /\ DOMAIN saved \subseteq Accounts
    /\ asking \in DOMAIN m_httpReqMap \cup {0}
    /\ replies \in [1..MaxRequests -> Nat]
    /\ restarts \in 0..MaxRestarts

\* No request is answered twice, and none is answered while it still waits:
\* evhttp frees a request with its answer.
RepliedOnce ==
    \A i \in 1..MaxRequests :
        /\ replies[i] <= 1
        /\ i \in DOMAIN m_httpReqMap => replies[i] = 0

\* The right that WriteDataToSys or ReadData checked before the chain was asked still
\* stands when the chain answers, up to 30 seconds later: no request to delete the
\* account or its data type gets in between, whatever order the requests are met in.
RightHeldWhileAsked ==
    asking # 0 =>
        LET r == m_httpReqMap[asking]
        IN /\ r.op \in {"read", "write"}
           /\ CheckRight(RightsOf(r.account), r.dataType, r.op)

Answerable(i) ==
    /\ i \in DOMAIN m_httpReqMap
    /\ m_httpReqMap[i].op \notin {"malformed", "null"}

\* Every request the gateway understands is answered, unless the gateway is
\* restarted: a slow chain, bodies that are no JSON and requests that keep
\* coming hold up nobody for ever.
Answered ==
    \A i \in 1..MaxRequests : \A k \in 0..MaxRestarts :
        (Answerable(i) /\ restarts = k) ~> (replies[i] = 1 \/ restarts # k)

=============================================================================
