----------------------------- MODULE SimpleCrud -----------------------------
(***************************************************************************)
(* The key-value contract of contracts/simple-crud (CosmWasm): the map     *)
(* DATA from string keys to string values, written by Create, Update and   *)
(* Delete.  Each invocation is one transaction; an Err leaves DATA as it   *)
(* was.  The caller's identity is not read by the code and is left out.    *)
(* Keys and values are model values: the code only compares keys for       *)
(* equality (DATA.has, save, remove).                                      *)
(***************************************************************************)
EXTENDS Naturals, Sequences

CONSTANTS
    Key,      \* the keys callers use
    Value,    \* the values callers store
    Absent    \* no entry for a key in DATA

ASSUME AbsentAssumption == Absent \notin Value

Outcomes == {"none", "ok", "KeyAlreadyExists", "KeyNotFound"}

VARIABLES
    data,     \* DATA: key -> value, or Absent
    outcome,  \* the result of the last invocation
    log       \* history: the successful invocations, in order

vars == <<data, outcome, log>>

-----------------------------------------------------------------------------

\* DATA.has(key)
Has(k) == data[k] # Absent

\* query_read: DATA.may_load, the optional value of a key (Absent stands
\* for None).
query_read(k) == data[k]

Fail(err) == outcome' = err /\ UNCHANGED <<data, log>>

Commit(e) == outcome' = "ok" /\ log' = Append(log, e)

\* Mutant: create without the DATA.has test.
execute_createBlind(k, v) ==
    /\ data' = [data EXCEPT ![k] = v]
    /\ Commit([op |-> "create", key |-> k, value |-> v])

execute_create(k, v) ==
    IF Has(k) THEN Fail("KeyAlreadyExists")
    ELSE /\ data' = [data EXCEPT ![k] = v]
         /\ Commit([op |-> "create", key |-> k, value |-> v])

execute_update(k, v) ==
    IF ~Has(k) THEN Fail("KeyNotFound")
    ELSE /\ data' = [data EXCEPT ![k] = v]
         /\ Commit([op |-> "update", key |-> k, value |-> v])

\* Mutant: delete that reports success but does not remove the entry.
execute_deleteNoRemove(k) ==
    IF ~Has(k) THEN Fail("KeyNotFound")
    ELSE /\ UNCHANGED data
         /\ Commit([op |-> "delete", key |-> k, value |-> Absent])

execute_delete(k) ==
    IF ~Has(k) THEN Fail("KeyNotFound")
    ELSE /\ data' = [data EXCEPT ![k] = Absent]
         /\ Commit([op |-> "delete", key |-> k, value |-> Absent])

\* instantiate writes nothing: DATA starts empty.
Init ==
    /\ data = [k \in Key |-> Absent]
    /\ outcome = "none"
    /\ log = <<>>

Next ==
    \E k \in Key :
        \/ \E v \in Value : execute_create(k, v) \/ execute_update(k, v)
        \/ execute_delete(k)

Spec == Init /\ [][Next]_vars

-----------------------------------------------------------------------------
(* Properties.                                                             *)

(***************************************************************************)
(* Replaying the first n entries of a history s on an empty map leaves x   *)
(* at key k: x is the value of the last of those entries for k, or Absent  *)
(* when there is none (a delete's entry carries Absent as its value).      *)
(***************************************************************************)
HeldAfter(s, n, k, x) ==
    \/ /\ \A i \in 1..n : s[i].key # k
       /\ x = Absent
    \/ \E i \in 1..n :
          /\ s[i].key = k
          /\ x = s[i].value
          /\ \A j \in i+1..n : s[j].key # k

(***************************************************************************)
(* The store behaves as the map of spec 4.3: in the replay of the          *)
(* successful invocations on an empty map, every create found its key      *)
(* absent and every update and delete found it present, and the replay     *)
(* ends in what query_read returns for every key.  This is what the        *)
(* DATA.has tests of execute_create, execute_update and execute_delete,    *)
(* with their save and remove, must achieve over any sequence of calls.    *)
(***************************************************************************)
DataIsReplayOfHistory ==
    /\ \A k \in Key : HeldAfter(log, Len(log), k, query_read(k))
    /\ \A i \in 1..Len(log) :
          (log[i].op = "create") <=> HeldAfter(log, i - 1, log[i].key, Absent)

=============================================================================
