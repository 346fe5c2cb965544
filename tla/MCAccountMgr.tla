---------------------------- MODULE MCAccountMgr ----------------------------
(***************************************************************************)
(* Requests for AccountMgr: two accounts, the data types 1 and 2, writes   *)
(* and reads, grants with and without the right to write, of one and of    *)
(* both types, deletions, and bodies the gateway does not understand.      *)
(***************************************************************************)
EXTENDS AccountMgr

MCAccounts == {"alice", "bob"}

ReadOnly == {"read"}

MCRequests ==
    [op : {"write"}, account : MCAccounts, dataType : {1, 2}]
    \cup [op : {"read"}, account : {"bob"}, dataType : {1}]
    \cup [op : {"grant"}, main : {"alice"}, other : {"bob"},
          rights : {[t \in {1} |-> ReadOnly], [t \in {2} |-> Right0077],
                    [t \in {1, 2} |-> ReadOnly]}]
    \cup [op : {"delete"}, main : {"alice"}, other : {"bob"}, types : {{1}, {1, 2}}]
    \cup [op : {"malformed", "null", "other optType"}]
=============================================================================
