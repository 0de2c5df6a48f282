---------------------------- MODULE AuditedTable ----------------------------
(***************************************************************************)
(* What the backend promises about the tables of its customers, without    *)
(* saying how: a request changes at most one row, at most once and by the  *)
(* operation it asked for, and writes at most one record into the log;     *)
(* the record names that operation, and once it is written the request     *)
(* changes nothing any more.                                               *)
(***************************************************************************)
CONSTANTS Requests, Rows, NoRecord

Operations == {"rows", "add", "update", "delete"}
Statuses   == {"successfully", "unsuccessfully"}

VARIABLES table,   \* the rows of the table
          did,     \* did[r]: the change r made, or "nothing"
          log      \* log[r]: the operation and the status r recorded, or NoRecord

vars == <<table, did, log>>

AtMostOne(S) == \A a, b \in S : a = b

Init == /\ table \subseteq Rows
        /\ did = [r \in Requests |-> "nothing"]
        /\ log = [r \in Requests |-> NoRecord]

\* One row may leave the table and one may come into it.
Change(r, op) ==
  /\ did[r] = "nothing" /\ log[r] = NoRecord
  /\ table' \subseteq Rows
  /\ AtMostOne(table \ table') /\ AtMostOne(table' \ table)
  /\ op = "add" => table \subseteq table'
  /\ op = "delete" => table' \subseteq table
  /\ did' = [did EXCEPT ![r] = op]
  /\ UNCHANGED log

\* A row that is recorded as added was added.  (An update or a deletion of a
\* row that is gone meanwhile is a success that changes nothing.)
Record(r, op, status) ==
  /\ log[r] = NoRecord
  /\ did[r] \in {"nothing", op}
  /\ op = "add" /\ status = "successfully" => did[r] = "add"
  /\ log' = [log EXCEPT ![r] = <<op, status>>]
  /\ UNCHANGED <<table, did>>

Next == \E r \in Requests :
           \/ \E op \in {"add", "update", "delete"} : Change(r, op)
           \/ \E op \in Operations, status \in Statuses : Record(r, op, status)

Spec == Init /\ [][Next]_vars
=============================================================================
