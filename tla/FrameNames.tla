------------------------------ MODULE FrameNames ------------------------------
(***************************************************************************)
(* What frame interning promises, whatever the interleaving and whoever    *)
(* dies: a name's hash gets at most one terminal value, an id that no      *)
(* other hash has or ID_FAILED, and keeps it; calls answer accordingly.    *)
(***************************************************************************)
EXTENDS Naturals

CONSTANTS Threads, Names, Hash, Stored, Capacity, None

VARIABLES
    id,       \* by hash: 0, an id, or Failed
    stored,   \* by hash: the stored name of its record, once it has an id
    call,     \* by thread: the call under way, with the value it began on
    answer    \* by thread: the answer to its last call

vars == <<id, stored, call, answer>>

Hashes == {Hash[n] : n \in Names}
Failed == Capacity + 1      \* ID_FAILED: no id is as large
Id(v)  == v \in 1 .. Capacity
Idle   == [op |-> "none"]

Ok(v)     == [status |-> "ok", id |-> v]
Status(s) == [status |-> s, id |-> 0]

Init ==
    /\ id = [h \in Hashes |-> 0]
    /\ stored = [h \in Hashes |-> None]
    /\ call = [t \in Threads |-> Idle]
    /\ answer = [t \in Threads |-> Status("none")]

Begin(t, op, n) ==
    /\ call[t] = Idle
    /\ call' = [call EXCEPT ![t] = [op |-> op, name |-> n, known |-> id[Hash[n]]]]
    /\ answer' = [answer EXCEPT ![t] = Status("none")]
    /\ UNCHANGED <<id, stored>>

\* A hash gets its value: an id nobody has, with the stored form of one of the
\* names that have this hash, or Failed.
Settle(h) ==
    /\ id[h] = 0
    /\ \/ \E v \in 1 .. Capacity, n \in Names :
             /\ \A g \in Hashes : id[g] # v
             /\ Hash[n] = h
             /\ id' = [id EXCEPT ![h] = v]
             /\ stored' = [stored EXCEPT ![h] = Stored[n]]
       \/ id' = [id EXCEPT ![h] = Failed] /\ UNCHANGED stored

\* What a call may answer when its hash has value v and stored form s.  A name
\* that had its id when the call began is always found.
Answers(c, v, s) ==
    (IF Id(v) THEN {IF s = Stored[c.name] THEN Ok(v) ELSE Status("collision")} ELSE {})
    \cup (IF c.known = 0 THEN {Status("contended")} ELSE {})
    \cup (IF Id(c.known) THEN {} ELSE {Status(IF c.op = "find" THEN "absent" ELSE "capacity")})

Return(t) ==
    /\ call[t] # Idle
    /\ LET h == Hash[call[t].name] IN
       /\ Settle(h) \/ UNCHANGED <<id, stored>>
       /\ \E x \in Answers(call[t], id'[h], stored'[h]) : answer' = [answer EXCEPT ![t] = x]
    /\ call' = [call EXCEPT ![t] = Idle]

\* Threads die with their process.
Die(ts) ==
    /\ call' = [t \in Threads |-> IF t \in ts THEN Idle ELSE call[t]]
    /\ answer' = [t \in Threads |-> IF t \in ts THEN Status("none") ELSE answer[t]]
    /\ UNCHANGED <<id, stored>>

Next ==
    \/ \E t \in Threads : \/ \E op \in {"intern", "find"}, n \in Names : Begin(t, op, n)
                          \/ Return(t)
    \/ \E ts \in SUBSET Threads : Die(ts)

Spec == Init /\ [][Next]_vars
===============================================================================
