-------------------------- MODULE SimpleCrudProofs --------------------------
(***************************************************************************)
(* Proofs about the simple-crud store, for every set of keys and values:   *)
(* its variables keep their types, and DATA is always the replay of the    *)
(* successful create, update and delete calls, none of which broke the     *)
(* precondition the map of spec 4.3 gives it.                              *)
(***************************************************************************)
EXTENDS SimpleCrud, TLAPS

\* A successful invocation as recorded in the history.
Entry == [op : {"create", "update", "delete"}, key : Key, value : Value \cup {Absent}]

\* The type invariant: DATA maps every key to a value or to no entry.
TypeOK ==
    /\ data \in [Key -> Value \cup {Absent}]
    /\ outcome \in Outcomes
    /\ log \in Seq(Entry)

-----------------------------------------------------------------------------
(* What a replay of a history is, as its history grows by one entry.       *)

\* Nothing is held after no entries: the store starts empty.
LEMMA HeldEmpty ==
    ASSUME NEW s, NEW k
    PROVE  HeldAfter(s, 0, k, Absent)
BY DEF HeldAfter

\* Appending an entry does not change the replay of a prefix of the old
\* history.
LEMMA HeldPrefix ==
    ASSUME NEW s \in Seq(Entry), NEW e \in Entry, NEW n \in 0..Len(s),
           NEW k, NEW x
    PROVE  HeldAfter(Append(s, e), n, k, x) = HeldAfter(s, n, k, x)
<1>1. \A i \in 1..n : Append(s, e)[i] = s[i]
  OBVIOUS
<1>. QED
  BY <1>1 DEF HeldAfter

\* After an appended entry its key holds the entry's value ...
LEMMA HeldLast ==
    ASSUME NEW s \in Seq(Entry), NEW e \in Entry
    PROVE  HeldAfter(Append(s, e), Len(s) + 1, e.key, e.value)
<1>1. /\ Append(s, e)[Len(s) + 1] = e
      /\ Len(s) + 1 \in 1..Len(s) + 1
      /\ \A j \in (Len(s) + 1) + 1..Len(s) + 1 : FALSE
  OBVIOUS
<1>. QED
  BY <1>1 DEF HeldAfter

\* ... and every other key holds what it held before.
LEMMA HeldOther ==
    ASSUME NEW s \in Seq(Entry), NEW e \in Entry, NEW k, k # e.key, NEW x
    PROVE  HeldAfter(Append(s, e), Len(s) + 1, k, x) = HeldAfter(s, Len(s), k, x)
<1> DEFINE t == Append(s, e)
           n == Len(s)
<1>1. /\ \A i \in 1..n : t[i] = s[i]
      /\ t[n + 1].key # k
      /\ 1..n + 1 = (1..n) \cup {n + 1}
  OBVIOUS
<1>2. ASSUME NEW i \in 1..n
      PROVE  (\A j \in i+1..n+1 : t[j].key # k) = (\A j \in i+1..n : s[j].key # k)
  BY <1>1
<1>. QED
  BY <1>1, <1>2 DEF HeldAfter

\* A replay holds one value at a key: of two last entries for the key,
\* neither comes after the other.
LEMMA HeldUnique ==
    ASSUME NEW s \in Seq(Entry), NEW n \in 0..Len(s), NEW k, NEW x, NEW y,
           HeldAfter(s, n, k, x), HeldAfter(s, n, k, y)
    PROVE  x = y
BY DEF HeldAfter

-----------------------------------------------------------------------------
(* The inductive invariant.                                                *)

IInv == TypeOK /\ DataIsReplayOfHistory

\* A committed write of value v at key k, recorded as an entry whose op is
\* create exactly when the key was absent, preserves the invariant.
LEMMA CommitStep ==
    ASSUME IInv, NEW k \in Key, NEW v \in Value \cup {Absent},
           NEW op \in {"create", "update", "delete"},
           (op = "create") = (data[k] = Absent),
           data' = [data EXCEPT ![k] = v],
           Commit([op |-> op, key |-> k, value |-> v])
    PROVE  IInv'
<1> DEFINE e == [op |-> op, key |-> k, value |-> v]
<1>1. e \in Entry /\ log \in Seq(Entry) /\ log' = Append(log, e)
      /\ data \in [Key -> Value \cup {Absent}]
  BY DEF IInv, TypeOK, Commit, Entry
<1>2. TypeOK'
  BY <1>1 DEF TypeOK, Commit, Outcomes
<1>3. ASSUME NEW j \in Key
      PROVE  HeldAfter(log', Len(log'), j, query_read(j)')
  <2>1. CASE j = k
    BY <1>1, <2>1, HeldLast DEF query_read
  <2>2. CASE j # k
    <3>1. HeldAfter(log, Len(log), j, data[j])
      BY DEF IInv, DataIsReplayOfHistory, query_read
    <3>. QED
      BY <1>1, <2>2, <3>1, HeldOther DEF query_read
  <2>. QED
    BY <2>1, <2>2
<1>4. (op = "create") <=> HeldAfter(log, Len(log), k, Absent)
  <2>1. HeldAfter(log, Len(log), k, data[k])
    BY DEF IInv, DataIsReplayOfHistory, query_read
  <2>2. HeldAfter(log, Len(log), k, Absent) => data[k] = Absent
    <3>1. Len(log) \in 0..Len(log)
      BY <1>1
    <3>. QED
      BY <1>1, <2>1, <3>1, HeldUnique
  <2>3. data[k] = Absent => HeldAfter(log, Len(log), k, Absent)
    BY <2>1
  <2>4. (op = "create") <=> (data[k] = Absent)
    OBVIOUS
  <2>. QED
    BY <2>2, <2>3, <2>4, Zenon
<1>5. ASSUME NEW i \in 1..Len(log')
      PROVE  (log'[i].op = "create") <=> HeldAfter(log', i - 1, log'[i].key, Absent)
  <2>1. CASE i \in 1..Len(log)
    <3>1. log'[i] = log[i] /\ i - 1 \in 0..Len(log)
      BY <1>1, <2>1
    <3>2. (log[i].op = "create") <=> HeldAfter(log, i - 1, log[i].key, Absent)
      BY <2>1 DEF IInv, DataIsReplayOfHistory
    <3>. QED
      BY <1>1, <3>1, <3>2, HeldPrefix
  <2>2. CASE i = Len(log) + 1
    <3>1. log'[i] = e /\ i - 1 = Len(log)
      BY <1>1, <2>2
    <3>. QED
      BY <1>1, <1>4, <3>1, HeldPrefix
  <2>. QED
    BY <1>1, <2>1, <2>2
<1>. QED
  BY <1>2, <1>3, <1>5 DEF IInv, DataIsReplayOfHistory

\* A refused invocation changes neither DATA nor the history.
LEMMA FailStep ==
    ASSUME IInv, NEW err \in Outcomes, Fail(err)
    PROVE  IInv'
<1>1. data' = data /\ log' = log /\ outcome' \in Outcomes
  BY DEF Fail
<1>2. TypeOK'
  BY <1>1 DEF IInv, TypeOK
<1>3. DataIsReplayOfHistory'
  BY <1>1 DEF IInv, DataIsReplayOfHistory, query_read
<1>. QED
  BY <1>2, <1>3 DEF IInv

LEMMA InvStep == IInv /\ [Next]_vars => IInv'
<1> SUFFICES ASSUME IInv, [Next]_vars PROVE IInv'
  OBVIOUS
<1>0. data \in [Key -> Value \cup {Absent}]
  BY DEF IInv, TypeOK
<1>1. ASSUME NEW k \in Key, NEW v \in Value, execute_create(k, v)
      PROVE  IInv'
  <2>1. CASE Has(k)
    BY <1>1, <2>1, FailStep DEF execute_create, Outcomes
  <2>2. CASE ~Has(k)
    BY <1>0, <1>1, <2>2, CommitStep DEF execute_create, Has
  <2>. QED
    BY <2>1, <2>2
<1>2. ASSUME NEW k \in Key, NEW v \in Value, execute_update(k, v)
      PROVE  IInv'
  <2>1. CASE ~Has(k)
    BY <1>2, <2>1, FailStep DEF execute_update, Outcomes
  <2>2. CASE Has(k)
    BY <1>0, <1>2, <2>2, CommitStep DEF execute_update, Has
  <2>. QED
    BY <2>1, <2>2
<1>3. ASSUME NEW k \in Key, execute_delete(k)
      PROVE  IInv'
  <2>1. CASE ~Has(k)
    BY <1>3, <2>1, FailStep DEF execute_delete, Outcomes
  <2>2. CASE Has(k)
    BY <1>0, <1>3, <2>2, CommitStep DEF execute_delete, Has
  <2>. QED
    BY <2>1, <2>2
<1>4. CASE UNCHANGED vars
  <2>1. data' = data /\ log' = log /\ outcome' = outcome
    BY <1>4 DEF vars
  <2>. QED
    BY <2>1 DEF IInv, TypeOK, DataIsReplayOfHistory, query_read
<1>. QED
  BY <1>1, <1>2, <1>3, <1>4 DEF Next

\* For every set of keys and values, DATA is always the replay of the
\* successful calls, and no successful create, update or delete broke the
\* precondition its DATA.has test stands for.
THEOREM ReplayInvariant == Spec => []DataIsReplayOfHistory
<1>1. Init => IInv
  BY HeldEmpty DEF Init, IInv, TypeOK, DataIsReplayOfHistory, query_read, Outcomes
<1>2. IInv => DataIsReplayOfHistory
  BY DEF IInv
<1>. QED
  BY <1>1, <1>2, InvStep, PTL DEF Spec

=============================================================================
