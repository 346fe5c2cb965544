SPECIFICATION FairSpec
CONSTANTS
    Accounts <- MCAccounts
    DataTypes = {1, 2}
    Requests <- MCRequests
    MaxRequests = 3
    MaxRestarts = 1
INVARIANT TypeOK
INVARIANT RepliedOnce
INVARIANT RightHeldWhileAsked
PROPERTY Answered
\* the bounds on requests and restarts stop the gateway
CHECK_DEADLOCK FALSE
