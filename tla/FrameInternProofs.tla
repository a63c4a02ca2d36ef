--------------------------- MODULE FrameInternProofs ---------------------------
(***************************************************************************)
(* Proofs about FrameIntern, for any threads, names, hashes and capacity,  *)
(* any interleaving of their steps, and any kills, restarts and erasures.  *)
(***************************************************************************)
EXTENDS FrameIntern, FiniteSets, FiniteSetTheorems, FunctionTheorems, TLAPS

--------------------------------------------------------------------------------
(* The inductive invariant. *)

\* The distance of entry i from entry k along a probe.
Dist(k, i) == IF i >= k THEN i - k ELSE i + TableLen - k

\* How far thread t is on the probe of its name.
Far(t)      == Dist(Home[MyHash(t)], at[t])
Before(t)   == {i \in Entries : Dist(Home[MyHash(t)], i) < Far(t)}
Probing     == {"load", "count", "claim"}
Finishing   == {"alloc", "undo", "write", "publish"}
Waiting     == {"wait", "owner", "judge", "take", "reload"}

\* A thread has a call exactly while it is busy.
Call1  == [op : {"intern", "find"}, name : Names, known : 0 .. ID_FAILED]
Tables == call \in [Threads -> Call1 \cup {Idle}] /\ answer = [t \in Threads |-> answer[t]]
Calls  == \A t \in Threads : IF Busy(t) THEN call[t] \in Call1 ELSE call[t] = Idle
FinderWaits == \A t \in Threads :
    pc[t] \in {"count", "claim", "record", "alloc", "undo", "write", "publish", "take", "reload"}
        => Interns(t)

\* An entry is reached from its hash's home over claimed entries only.
Reached == \A e, i \in Entries :
    hashes[e] # None /\ Dist(Home[hashes[e]], i) < Dist(Home[hashes[e]], e) => hashes[i] # None

\* A probe has seen other hashes in every entry it went past, and has the turns
\* left to see every entry of the table, or has seen them all; who is past the
\* probe is at the entry of its hash.
Passed(t) == pc[t] \in Probing \cup {"record"} =>
    \A i \in Before(t) : hashes[i] # None /\ hashes[i] # MyHash(t)
Crowded(t) == \A i \in Entries : hashes[i] # None /\ hashes[i] # MyHash(t)
Enough(t) ==
    IF ~Interns(t) THEN left[t] >= TableLen - Far(t)
    ELSE left[t] >= 2 * TableLen - 2 * Far(t)
                    - (IF pc[t] = "load" /\ hashes[at[t]] # None THEN 1 ELSE 0)
Turns(t) == pc[t] \in Probing \cup {"record"} => Crowded(t) \/ Enough(t)
Placed(t) == pc[t] \in {"record"} \cup Finishing \cup Waiting => hashes[at[t]] = MyHash(t)
Probes == \A t \in Threads : Passed(t) /\ Turns(t) /\ Placed(t)

\* Values are only in claimed entries, and a value that was there when a call
\* began still is; who waits or finishes began without one.
Blank == \A i \in Entries : hashes[i] = None => ids[i] = ID_UNPUBLISHED
Known == \A t \in Threads : Busy(t) =>
    /\ call[t].known # 0 => Value(MyHash(t)) = call[t].known
    /\ pc[t] \notin {"load", "wait"} => call[t].known = 0

\* Every id was handed out once, to one thread or one entry, and its record is
\* written before it is published.
HasId(t) == pc[t] \in {"write", "publish"} /\ mine[t] # ID_FAILED
Given ==
    /\ \A t \in Threads : HasId(t) => mine[t] \in 1 .. Capacity /\ mine[t] <= frame_count
    /\ \A i \in Entries : ids[i] \in 1 .. Capacity => ids[i] <= frame_count
Distinct ==
    /\ \A t, u \in Threads : HasId(t) /\ HasId(u) /\ mine[t] = mine[u] => t = u
    /\ \A t \in Threads, i \in Entries : HasId(t) => ids[i] # mine[t]
    /\ \A i, j \in Entries : ids[i] \in 1 .. Capacity /\ ids[i] = ids[j] => i = j
Written ==
    /\ \A t \in Threads : HasId(t) /\ pc[t] = "publish" => records[mine[t]] = Stored[call[t].name]
    /\ \A i \in Entries : ids[i] \in 1 .. Capacity =>
          \E n \in Names : Hash[n] = hashes[i] /\ records[ids[i]] = Stored[n]

\* The counts that losers have yet to take back do not hide a free id.
Losers == {t \in Threads : pc[t] = "undo"}
Full   == frame_count >= Capacity + Cardinality(Losers)
Counted == IsFiniteSet(Losers) /\ (frame_count >= Capacity => Full)
FailedWhenFull ==
    /\ \A i \in Entries : ids[i] = ID_FAILED => Full
    /\ \A t \in Threads : pc[t] = "undo" \/ (pc[t] = "publish" /\ mine[t] = ID_FAILED) => Full
    /\ \A t \in Threads : pc[t] \in {"write"} => mine[t] # ID_FAILED
FullTable == \E h \in Hashes : \A i \in Entries : hashes[i] # None /\ hashes[i] # h
SaidFull == \A t \in Threads : answer[t].status = "capacity" => Full \/ FullTable

\* What every reachable state satisfies, and every step keeps.
IInv ==
    /\ TypeOK /\ Tables /\ Calls /\ FinderWaits
    /\ OneEntry /\ Reached /\ Probes
    /\ Blank /\ Known /\ Given /\ Distinct /\ Written
    /\ Counted /\ FailedWhenFull /\ SaidFull

--------------------------------------------------------------------------------
(* The ring of entries. *)

LEMMA NextEntry ==
    ASSUME NEW i \in Entries
    PROVE  /\ (i + 1) % TableLen = IF i + 1 = TableLen THEN 0 ELSE i + 1
           /\ (i + 1) % TableLen \in Entries
  <1>0. TableLen \in Nat /\ TableLen > 0 /\ i \in 0 .. TableLen - 1
    BY TableAssumption DEF Entries
  <1>1. ASSUME NEW N \in Nat, N > 0 PROVE N % N = 0
    BY <1>1
  <1>2. ASSUME NEW N \in Nat, NEW j \in 0 .. N - 1, j + 1 < N PROVE (j + 1) % N = j + 1
    BY <1>2
  <1>3. CASE i + 1 = TableLen
    BY <1>0, <1>1, <1>3 DEF Entries
  <1>4. CASE i + 1 < TableLen
    BY <1>0, <1>2, <1>4 DEF Entries
  <1> QED
    BY <1>0, <1>3, <1>4

LEMMA DistFacts ==
    ASSUME NEW k \in Entries, NEW i \in Entries
    PROVE  /\ Dist(k, i) \in 0 .. TableLen - 1
           /\ Dist(k, k) = 0
           /\ \A j \in Entries : Dist(k, j) = Dist(k, i) => j = i
           /\ Dist(k, i) < TableLen - 1 => Dist(k, (i + 1) % TableLen) = Dist(k, i) + 1
           /\ Dist(k, i) = TableLen - 1 => (i + 1) % TableLen = k
  <1>0. TableLen \in Nat /\ TableLen > 0 /\ i \in 0 .. TableLen - 1 /\ k \in 0 .. TableLen - 1
    BY TableAssumption DEF Entries
  <1>1. /\ Dist(k, i) \in 0 .. TableLen - 1
        /\ Dist(k, k) = 0
        /\ \A j \in Entries : Dist(k, j) = Dist(k, i) => j = i
    BY <1>0 DEF Dist, Entries
  <1>2. (i + 1) % TableLen = IF i + 1 = TableLen THEN 0 ELSE i + 1
    BY NextEntry
  <1>3. /\ Dist(k, i) < TableLen - 1 => Dist(k, (i + 1) % TableLen) = Dist(k, i) + 1
        /\ Dist(k, i) = TableLen - 1 => (i + 1) % TableLen = k
    BY <1>0, <1>2 DEF Dist
  <1> QED
    BY <1>1, <1>3

--------------------------------------------------------------------------------
(* What the steps do to the thread that takes them and to the table. *)

\* No other thread moves.
Still(t) ==
    \A u \in Threads \ {t} :
        /\ pc'[u] = pc[u] /\ call'[u] = call[u] /\ at'[u] = at[u] /\ left'[u] = left[u]
        /\ mine'[u] = mine[u] /\ answer'[u] = answer[u]
Goes(t, l) ==
    /\ Still(t) /\ pc'[t] = l
    /\ call'[t] = call[t] /\ at'[t] = at[t] /\ left'[t] = left[t] /\ answer'[t] = answer[t]
Leaves(t, r) == Still(t) /\ pc'[t] = "idle" /\ call'[t] = Idle /\ answer'[t] = r
Turned(t, i) ==
    \/ /\ Still(t) /\ left[t] > 1 /\ pc'[t] = "load" /\ at'[t] = i /\ left'[t] = left[t] - 1
       /\ call'[t] = call[t] /\ answer'[t] = answer[t]
    \/ left[t] <= 1 /\ Leaves(t, Status(IF Interns(t) THEN "capacity" ELSE "absent"))
Fixed == UNCHANGED <<hashes, ids, frame_count, records>>

LEMMA JumpMoves ==
    ASSUME TypeOK, NEW t \in Threads, NEW l, Jump(t, l)
    PROVE  pc'[t] = l /\ \A u \in Threads \ {t} : pc'[u] = pc[u]
  <1>1. pc \in [Threads -> {"idle", "dead", "load", "count", "claim", "record", "alloc", "undo",
                           "write", "publish", "wait", "owner", "judge", "take", "reload"}]
    BY DEF TypeOK
  <1> QED
    BY <1>1 DEF Jump

LEMMA WorkTypes ==
    ASSUME TypeOK
    PROVE  /\ at \in [Threads -> Entries] /\ left \in [Threads -> 0 .. 2 * TableLen]
           /\ owner \in [Threads -> Claims \cup {CLAIM_UNRECORDED}]
           /\ rounds \in [Threads -> 0 .. Rounds - 1]
           /\ mine \in [Threads -> 0 .. ID_FAILED]
  BY DEF TypeOK

LEMMA ReturnMoves ==
    ASSUME TypeOK, Tables, NEW t \in Threads, NEW r, Return(t, r)
    PROVE  Leaves(t, r)
  <1>1. pc'[t] = "idle" /\ \A u \in Threads \ {t} : pc'[u] = pc[u]
    BY JumpMoves DEF Return
  <1>2. answer'[t] = r /\ \A u \in Threads \ {t} : answer'[u] = answer[u]
    BY DEF Return, Tables
  <1>3. /\ call'[t] = Idle
        /\ \A u \in Threads \ {t} : /\ call'[u] = call[u] /\ at'[u] = at[u]
                                    /\ left'[u] = left[u] /\ mine'[u] = mine[u]
    BY DEF Return, Forget
  <1> QED
    BY <1>1, <1>2, <1>3 DEF Leaves, Still

LEMMA TurnMoves ==
    ASSUME TypeOK, Tables, NEW t \in Threads, NEW i, Turn(t, i)
    PROVE  Turned(t, i)
  <1>0. left[t] \in Nat /\ at \in [Threads -> Entries] /\ left \in [Threads -> 0 .. 2 * TableLen]
    BY WorkTypes, TableAssumption
  <1>1. CASE left[t] > 1
    <2>1. pc'[t] = "load" /\ \A u \in Threads \ {t} : pc'[u] = pc[u]
      BY <1>1, JumpMoves DEF Turn
    <2>2. /\ at'[t] = i /\ left'[t] = left[t] - 1 /\ UNCHANGED <<call, mine, answer>>
          /\ \A u \in Threads \ {t} : at'[u] = at[u] /\ left'[u] = left[u]
      BY <1>0, <1>1 DEF Turn
    <2> QED
      BY <1>1, <2>1, <2>2 DEF Turned, Still
  <1>2. CASE ~(left[t] > 1)
    <2>1. Leaves(t, Status(IF Interns(t) THEN "capacity" ELSE "absent"))
      BY <1>2, ReturnMoves DEF Turn
    <2> QED
      BY <1>0, <1>2, <2>1 DEF Turned
  <1> QED
    BY <1>1, <1>2

LEMMA GoMoves ==
    ASSUME TypeOK, NEW t \in Threads, NEW l, Jump(t, l), UNCHANGED <<call, at, left, answer>>,
           \A u \in Threads \ {t} : mine'[u] = mine[u]
    PROVE  Goes(t, l)
  BY JumpMoves DEF Goes, Still

LEMMA LoadHashEffect ==
    ASSUME TypeOK, Tables, NEW t \in Threads, LoadHash(t)
    PROVE  /\ pc[t] = "load" /\ Fixed
           /\ \/ hashes[at[t]] = MyHash(t) /\ Goes(t, "wait")
              \/ hashes[at[t]] = None /\ Interns(t) /\ Goes(t, "count")
              \/ hashes[at[t]] = None /\ ~Interns(t) /\ Leaves(t, Status("absent"))
              \/ hashes[at[t]] \notin {None, MyHash(t)} /\ Turned(t, (at[t] + 1) % TableLen)
  <1>1. pc[t] = "load" /\ Fixed
    BY DEF LoadHash, At, Fixed, table
  <1>2. \/ hashes[at[t]] = MyHash(t) /\ Jump(t, "wait") /\ UNCHANGED <<call, work, answer>>
        \/ hashes[at[t]] = None /\ Interns(t) /\ Jump(t, "count") /\ UNCHANGED <<call, work, answer>>
        \/ hashes[at[t]] = None /\ ~Interns(t) /\ Return(t, Status("absent"))
        \/ hashes[at[t]] \notin {None, MyHash(t)} /\ Turn(t, (at[t] + 1) % TableLen)
    BY DEF LoadHash
  <1> QED
    BY <1>1, <1>2, GoMoves, ReturnMoves, TurnMoves DEF work

LEMMA CheckCountEffect ==
    ASSUME TypeOK, Tables, NEW t \in Threads, CheckCount(t)
    PROVE  /\ pc[t] = "count" /\ Fixed
           /\ \/ frame_count >= Capacity /\ Leaves(t, Status("capacity"))
              \/ Goes(t, "claim")
  <1>1. pc[t] = "count" /\ Fixed
    BY DEF CheckCount, At, Fixed, table
  <1>2. \/ frame_count >= Capacity /\ Return(t, Status("capacity"))
        \/ Jump(t, "claim") /\ UNCHANGED <<call, work, answer>>
    BY DEF CheckCount
  <1> QED
    BY <1>1, <1>2, GoMoves, ReturnMoves DEF work

LEMMA ClaimHashEffect ==
    ASSUME TypeOK, Tables, NEW t \in Threads, ClaimHash(t)
    PROVE  /\ pc[t] = "claim" /\ UNCHANGED <<ids, frame_count, records>>
           /\ \/ /\ hashes[at[t]] = None /\ Goes(t, "record")
                 /\ hashes' = [hashes EXCEPT ![at[t]] = MyHash(t)]
              \/ hashes[at[t]] # None /\ UNCHANGED hashes /\ Turned(t, at[t])
  <1>1. pc[t] = "claim" /\ UNCHANGED <<ids, frame_count, records>>
    BY DEF ClaimHash, At
  <1>2. \/ /\ hashes[at[t]] = None /\ Jump(t, "record") /\ UNCHANGED <<call, work, answer>>
           /\ hashes' = [hashes EXCEPT ![at[t]] = MyHash(t)]
        \/ hashes[at[t]] # None /\ UNCHANGED hashes /\ Turn(t, at[t])
    BY DEF ClaimHash
  <1> QED
    BY <1>1, <1>2, GoMoves, TurnMoves DEF work

LEMMA RecordClaimEffect ==
    ASSUME TypeOK, Tables, NEW t \in Threads, RecordClaim(t)
    PROVE  pc[t] = "record" /\ Fixed /\ (Goes(t, "alloc") \/ Turned(t, at[t]))
  <1>1. pc[t] = "record" /\ Fixed
    BY DEF RecordClaim, At, Fixed
  <1>2. (Jump(t, "alloc") /\ UNCHANGED <<call, work, answer>>) \/ Turn(t, at[t])
    BY DEF RecordClaim
  <1> QED
    BY <1>1, <1>2, GoMoves, TurnMoves DEF work

LEMMA AllocEffect ==
    ASSUME TypeOK, NEW t \in Threads, Alloc(t)
    PROVE  /\ pc[t] = "alloc" /\ UNCHANGED <<hashes, ids, records>>
           /\ frame_count' = frame_count + 1
           /\ \/ frame_count >= Capacity /\ Goes(t, "undo")
              \/ /\ frame_count < Capacity /\ Goes(t, "write")
                 /\ mine'[t] = frame_count + 1
  <1>1. pc[t] = "alloc" /\ UNCHANGED <<hashes, ids, records>> /\ frame_count' = frame_count + 1
    BY DEF Alloc, At, table
  <1>2. UNCHANGED <<call, at, left, answer>>
    BY DEF Alloc
  <1>3. CASE frame_count >= Capacity
    BY <1>1, <1>2, <1>3, GoMoves DEF Alloc
  <1>4. CASE ~(frame_count >= Capacity)
    <2>1. Jump(t, "write") /\ mine' = [mine EXCEPT ![t] = frame_count + 1]
      BY <1>4 DEF Alloc
    <2>2. mine'[t] = frame_count + 1 /\ \A u \in Threads \ {t} : mine'[u] = mine[u]
      BY <2>1, WorkTypes
    <2>3. frame_count < Capacity
      BY <1>4, TableAssumption DEF TypeOK
    <2> QED
      BY <1>1, <1>2, <2>1, <2>2, <2>3, GoMoves
  <1> QED
    BY <1>3, <1>4

LEMMA UndoEffect ==
    ASSUME TypeOK, NEW t \in Threads, Undo(t)
    PROVE  /\ pc[t] = "undo" /\ UNCHANGED <<hashes, ids, records>>
           /\ frame_count' = frame_count - 1
           /\ Goes(t, "publish") /\ mine'[t] = ID_FAILED
  <1>1. /\ pc[t] = "undo" /\ UNCHANGED <<hashes, ids, records>> /\ frame_count' = frame_count - 1
        /\ UNCHANGED <<call, at, left, answer>> /\ Jump(t, "publish")
        /\ mine' = [mine EXCEPT ![t] = ID_FAILED]
    BY DEF Undo, At, table
  <1>2. mine'[t] = ID_FAILED /\ \A u \in Threads \ {t} : mine'[u] = mine[u]
    BY <1>1, WorkTypes
  <1> QED
    BY <1>1, <1>2, GoMoves

LEMMA WriteRecordEffect ==
    ASSUME TypeOK, NEW t \in Threads, WriteRecord(t)
    PROVE  /\ pc[t] = "write" /\ UNCHANGED <<hashes, ids, frame_count, mine>>
           /\ records' = [records EXCEPT ![mine[t]] = Stored[call[t].name]]
           /\ Goes(t, "publish")
  <1>1. /\ pc[t] = "write" /\ UNCHANGED <<hashes, ids, frame_count, mine>>
        /\ records' = [records EXCEPT ![mine[t]] = Stored[call[t].name]]
        /\ UNCHANGED <<call, at, left, answer>> /\ Jump(t, "publish")
    BY DEF WriteRecord, At, table, work
  <1> QED
    BY <1>1, GoMoves

LEMMA PublishEffect ==
    ASSUME TypeOK, Tables, NEW t \in Threads, Publish(t)
    PROVE  /\ pc[t] = "publish" /\ UNCHANGED <<hashes, frame_count, records>>
           /\ \/ /\ ids[at[t]] = ID_UNPUBLISHED /\ Leaves(t, Resolved(t, mine[t]))
                 /\ ids' = [ids EXCEPT ![at[t]] = mine[t]]
              \/ /\ ids[at[t]] # ID_UNPUBLISHED /\ UNCHANGED ids
                 /\ Leaves(t, Resolved(t, ids[at[t]]))
  <1>1. pc[t] = "publish" /\ UNCHANGED <<hashes, frame_count, records>>
    BY DEF Publish, At
  <1>2. \/ /\ ids[at[t]] = ID_UNPUBLISHED /\ Return(t, Resolved(t, mine[t]))
           /\ ids' = [ids EXCEPT ![at[t]] = mine[t]]
        \/ /\ ids[at[t]] # ID_UNPUBLISHED /\ UNCHANGED ids
           /\ Return(t, Resolved(t, ids[at[t]]))
    BY DEF Publish
  <1> QED
    BY <1>1, <1>2, ReturnMoves

\* A step of wait_for_publish.
Wait(t) == WaitLoad(t) \/ LoadClaim(t) \/ Judge(t) \/ TakeOver(t) \/ Reload(t)
LEMMA WaitEffect ==
    ASSUME TypeOK, Tables, NEW t \in Threads, Wait(t)
    PROVE  /\ pc[t] \in Waiting /\ Fixed
           /\ \/ ids[at[t]] # ID_UNPUBLISHED /\ Leaves(t, Resolved(t, ids[at[t]]))
              \/ pc[t] # "wait" /\ Leaves(t, Status("contended"))
              \/ pc[t] # "wait" /\ ~Interns(t) /\ Leaves(t, Status("absent"))
              \/ pc[t] # "take" /\ pc[t] # "reload" /\ Goes(t, "wait")
              \/ pc[t] = "take" /\ Goes(t, "wait")
              \/ pc[t] = "wait" /\ ids[at[t]] = ID_UNPUBLISHED /\ Goes(t, "owner")
              \/ pc[t] = "owner" /\ Goes(t, "judge")
              \/ pc[t] \in {"owner", "judge"} /\ Interns(t) /\ Goes(t, "take")
              \/ pc[t] = "take" /\ Goes(t, "reload")
              \/ pc[t] = "reload" /\ Goes(t, "alloc")
  <1> DEFINE Kept == UNCHANGED <<call, at, left, mine, answer>>
  <1>0. ASSUME NEW r, Patience(t, r) PROVE (Jump(t, "wait") /\ Kept) \/ Return(t, r)
    BY <1>0 DEF Patience
  <1>1. ASSUME NEW l, Jump(t, l), Kept PROVE Goes(t, l)
    BY <1>1, GoMoves
  <1>2. CASE WaitLoad(t)
    <2>1. pc[t] = "wait" /\ Fixed
      BY <1>2 DEF WaitLoad, At, Fixed, table
    <2>2. \/ ids[at[t]] # ID_UNPUBLISHED /\ Return(t, Resolved(t, ids[at[t]]))
          \/ ids[at[t]] = ID_UNPUBLISHED /\ Jump(t, "owner") /\ Kept
      BY <1>2 DEF WaitLoad, work
    <2> QED
      BY <1>1, <2>1, <2>2, ReturnMoves DEF Waiting
  <1>3. CASE LoadClaim(t)
    <2>1. pc[t] = "owner" /\ Fixed
      BY <1>3 DEF LoadClaim, At, Fixed, table
    <2>2. \/ Patience(t, Status("contended"))
          \/ ~Interns(t) /\ Patience(t, Status("absent"))
          \/ Jump(t, "wait") /\ Kept
          \/ Interns(t) /\ Jump(t, "take") /\ Kept
          \/ Jump(t, "judge") /\ Kept
      BY <1>3 DEF LoadClaim, work
    <2> QED
      BY <1>0, <1>1, <2>1, <2>2, ReturnMoves DEF Waiting
  <1>4. CASE Judge(t)
    <2>1. pc[t] = "judge" /\ Fixed
      BY <1>4 DEF Judge, At, Fixed, table
    <2>2. \/ Jump(t, "wait") /\ Kept
          \/ Interns(t) /\ Jump(t, "take") /\ Kept
          \/ ~Interns(t) /\ Return(t, Status("absent"))
      BY <1>4 DEF Judge, work
    <2> QED
      BY <1>1, <2>1, <2>2, ReturnMoves DEF Waiting
  <1>5. CASE TakeOver(t)
    <2>1. pc[t] = "take" /\ Fixed /\ Kept /\ (Jump(t, "reload") \/ Jump(t, "wait"))
      BY <1>5 DEF TakeOver, At, Fixed, work
    <2> QED
      BY <1>1, <2>1 DEF Waiting
  <1>6. CASE Reload(t)
    <2>1. pc[t] = "reload" /\ Fixed
      BY <1>6 DEF Reload, At, Fixed, table
    <2>2. \/ ids[at[t]] # ID_UNPUBLISHED /\ Return(t, Resolved(t, ids[at[t]]))
          \/ Jump(t, "alloc") /\ Kept
      BY <1>6 DEF Reload, work
    <2> QED
      BY <1>1, <2>1, <2>2, ReturnMoves DEF Waiting
  <1> QED
    BY <1>2, <1>3, <1>4, <1>5, <1>6 DEF Wait

LEMMA CallEffect ==
    ASSUME TypeOK, Tables, NEW t \in Threads, NEW op, NEW n, Call(t, op, n)
    PROVE  /\ pc[t] = "idle" /\ Fixed /\ Still(t) /\ pc'[t] = "load"
           /\ call'[t] = [op |-> op, name |-> n, known |-> Value(Hash[n])]
           /\ at'[t] = Home[Hash[n]]
           /\ left'[t] = (IF op = "intern" THEN 2 * TableLen ELSE TableLen)
           /\ answer'[t] = Status("none") /\ UNCHANGED mine
  <1>1. pc[t] = "idle" /\ Fixed /\ UNCHANGED mine
    BY DEF Call, At, Fixed, table
  <1>2. pc'[t] = "load" /\ \A u \in Threads \ {t} : pc'[u] = pc[u]
    BY JumpMoves DEF Call
  <1>3. /\ call'[t] = [op |-> op, name |-> n, known |-> Value(Hash[n])]
        /\ at'[t] = Home[Hash[n]]
        /\ left'[t] = (IF op = "intern" THEN 2 * TableLen ELSE TableLen)
        /\ answer'[t] = Status("none")
    BY WorkTypes DEF Call, Tables
  <1>4. \A u \in Threads \ {t} : /\ call'[u] = call[u] /\ at'[u] = at[u] /\ left'[u] = left[u]
                                 /\ answer'[u] = answer[u]
    BY WorkTypes DEF Call, Tables
  <1> QED
    BY <1>1, <1>2, <1>3, <1>4 DEF Still

\* A kill, a restart, an erasure or nothing: the table stays, and a thread either
\* stays, dies without a call and an answer, or is idle again.
LEMMA EnvironmentEffect ==
    ASSUME TypeOK, NEW m, Kill(m) \/ Restart(m) \/ Erase(m) \/ UNCHANGED vars
    PROVE  /\ Fixed
           /\ \A t \in Threads :
                 \/ /\ pc'[t] = pc[t] /\ call'[t] = call[t] /\ at'[t] = at[t]
                    /\ left'[t] = left[t] /\ mine'[t] = mine[t] /\ answer'[t] = answer[t]
                 \/ pc'[t] = "dead" /\ call'[t] = Idle /\ answer'[t] = Status("none")
                 \/ pc[t] = "dead" /\ pc'[t] = "idle" /\ call'[t] = call[t] /\ answer'[t] = answer[t]
  <1>1. CASE Kill(m)
    BY <1>1 DEF Kill, Forget, Fixed, table
  <1>2. CASE Restart(m)
    BY <1>2 DEF Restart, Of, At, Fixed, table, work
  <1>3. CASE Erase(m) \/ UNCHANGED vars
    BY <1>3 DEF Erase, vars, Fixed, table, work
  <1> QED
    BY <1>1, <1>2, <1>3

--------------------------------------------------------------------------------
(* Types. *)

Labels == {"idle", "dead", "load", "count", "claim", "record", "alloc", "undo", "write",
           "publish", "wait", "owner", "judge", "take", "reload"}
ThreadTypes ==
    /\ pc \in [Threads -> Labels]
    /\ at \in [Threads -> Entries] /\ left \in [Threads -> 0 .. 2 * TableLen]
    /\ owner \in [Threads -> Claims \cup {CLAIM_UNRECORDED}]
    /\ rounds \in [Threads -> 0 .. Rounds - 1]
    /\ mine \in [Threads -> 0 .. ID_FAILED]
TableTypes ==
    /\ hashes \in [Entries -> Hashes \cup {None}]
    /\ ids \in [Entries -> 0 .. ID_FAILED]
    /\ claiming \in [Entries -> Claims \cup {CLAIM_UNRECORDED, CLAIM_ANONYMOUS}]
    /\ frame_count \in Nat
    /\ records \in [1 .. Capacity -> {Stored[n] : n \in Names} \cup {None}]
    /\ live \in [Claims -> BOOLEAN]
    /\ strange \subseteq Entries

LEMMA TypesSplit == /\ TypeOK <=> ThreadTypes /\ TableTypes
                    /\ TypeOK' <=> ThreadTypes' /\ TableTypes'
  <1>1. TypeOK <=> ThreadTypes /\ TableTypes
    BY DEF TypeOK, ThreadTypes, TableTypes, Labels
  <1>2. TypeOK' <=> ThreadTypes' /\ TableTypes'
    BY DEF TypeOK, ThreadTypes, TableTypes, Labels
  <1> QED
    BY <1>1, <1>2

LEMMA JumpTypes ==
    ASSUME ThreadTypes, NEW t \in Threads, NEW l \in Labels, Jump(t, l)
    PROVE  pc' \in [Threads -> Labels]
  BY DEF ThreadTypes, Jump

LEMMA StayTypes ==
    ASSUME ThreadTypes, NEW t \in Threads, NEW l \in Labels, Jump(t, l), UNCHANGED work
    PROVE  ThreadTypes'
  BY JumpTypes DEF ThreadTypes, work

LEMMA ReturnTypes ==
    ASSUME ThreadTypes, NEW t \in Threads, NEW r, Return(t, r)
    PROVE  ThreadTypes'
  <1>1. Forget({t})
    BY DEF Return
  <1>2. 0 \in Entries /\ 0 \in 0 .. 2 * TableLen /\ 0 \in 0 .. Rounds - 1 /\ 0 \in 0 .. ID_FAILED
        /\ 0 \in Claims \cup {CLAIM_UNRECORDED}
    BY TableAssumption DEF Entries, ID_FAILED, CLAIM_UNRECORDED
  <1>3. pc' \in [Threads -> Labels]
    BY JumpTypes DEF Return, Labels
  <1>4. at' \in [Threads -> Entries] /\ left' \in [Threads -> 0 .. 2 * TableLen]
    BY <1>1, <1>2 DEF Forget, ThreadTypes
  <1>5. /\ owner' \in [Threads -> Claims \cup {CLAIM_UNRECORDED}]
        /\ rounds' \in [Threads -> 0 .. Rounds - 1]
        /\ mine' \in [Threads -> 0 .. ID_FAILED]
    BY <1>1, <1>2 DEF Forget, ThreadTypes
  <1> QED
    BY <1>3, <1>4, <1>5 DEF ThreadTypes

LEMMA TurnTypes ==
    ASSUME ThreadTypes, NEW t \in Threads, NEW i \in Entries, Turn(t, i)
    PROVE  ThreadTypes'
  <1>1. CASE left[t] > 1
    <2>1. pc' \in [Threads -> Labels]
      BY <1>1, JumpTypes DEF Turn, Labels
    <2>2. left[t] - 1 \in 0 .. 2 * TableLen
      BY <1>1, TableAssumption DEF ThreadTypes
    <2>3. at' \in [Threads -> Entries] /\ left' \in [Threads -> 0 .. 2 * TableLen]
      BY <1>1, <2>2 DEF Turn, ThreadTypes
    <2> QED
      BY <1>1, <2>1, <2>3 DEF Turn, ThreadTypes
  <1>2. CASE ~(left[t] > 1)
    BY <1>2, ReturnTypes DEF Turn
  <1> QED
    BY <1>1, <1>2

LEMMA PatienceTypes ==
    ASSUME ThreadTypes, NEW t \in Threads, NEW r, Patience(t, r)
    PROVE  ThreadTypes'
  <1>1. CASE rounds[t] + 1 < Rounds
    <2>1. pc' \in [Threads -> Labels]
      BY <1>1, JumpTypes DEF Patience, Labels
    <2>2. rounds[t] + 1 \in 0 .. Rounds - 1
      BY <1>1, TableAssumption DEF ThreadTypes
    <2>3. rounds' \in [Threads -> 0 .. Rounds - 1]
      BY <1>1, <2>2 DEF Patience, ThreadTypes
    <2> QED
      BY <1>1, <2>1, <2>3 DEF Patience, ThreadTypes
  <1>2. CASE ~(rounds[t] + 1 < Rounds)
    BY <1>2, ReturnTypes DEF Patience
  <1> QED
    BY <1>1, <1>2

LEMMA CallType ==
    ASSUME Calls, NEW t \in Threads, Busy(t)
    PROVE  /\ call[t].name \in Names /\ MyHash(t) \in Hashes /\ MyHash(t) # None
           /\ Home[MyHash(t)] \in Entries /\ call[t].op \in {"intern", "find"}
           /\ call[t].known \in 0 .. ID_FAILED
           /\ Stored[call[t].name] \in {Stored[n] : n \in Names}
  <1>1. call[t] \in Call1
    BY DEF Calls
  <1>2. call[t].name \in Names /\ call[t].op \in {"intern", "find"} /\ call[t].known \in 0 .. ID_FAILED
    BY <1>1 DEF Call1
  <1>3. MyHash(t) \in Hashes
    BY <1>2 DEF MyHash, Hashes
  <1> QED
    BY <1>2, <1>3, TableAssumption

LEMMA StepTypes == IInv /\ [Next]_vars => TypeOK'
  <1> SUFFICES ASSUME IInv, [Next]_vars PROVE TypeOK'
    OBVIOUS
  <1>0. TypeOK /\ ThreadTypes /\ TableTypes /\ Calls
    BY TypesSplit DEF IInv
  <1>1. ASSUME NEW t \in Threads, LoadHash(t) PROVE TypeOK'
    <2>1. TableTypes'
      BY <1>0, <1>1 DEF LoadHash, table, TableTypes
    <2>2. at[t] \in Entries /\ (at[t] + 1) % TableLen \in Entries
      BY <1>0, NextEntry DEF ThreadTypes
    <2>3. \/ \E l \in Labels : Jump(t, l) /\ UNCHANGED work
          \/ \E r : Return(t, r)
          \/ Turn(t, (at[t] + 1) % TableLen)
      BY <1>1 DEF LoadHash, Labels
    <2> QED
      BY <1>0, <2>1, <2>2, <2>3, StayTypes, ReturnTypes, TurnTypes, TypesSplit
  <1>2. ASSUME NEW t \in Threads, CheckCount(t) PROVE TypeOK'
    <2>1. TableTypes'
      BY <1>0, <1>2 DEF CheckCount, table, TableTypes
    <2>2. (\E l \in Labels : Jump(t, l) /\ UNCHANGED work) \/ (\E r : Return(t, r))
      BY <1>2 DEF CheckCount, Labels
    <2> QED
      BY <1>0, <2>1, <2>2, StayTypes, ReturnTypes, TypesSplit
  <1>3. ASSUME NEW t \in Threads, ClaimHash(t) PROVE TypeOK'
    <2>0. Busy(t)
      BY <1>3 DEF ClaimHash, At, Busy
    <2>1. hashes' \in [Entries -> Hashes \cup {None}]
      BY <1>0, <1>3, <2>0, CallType DEF ClaimHash, TableTypes
    <2>2. TableTypes'
      BY <1>0, <1>3, <2>1 DEF ClaimHash, TableTypes
    <2>3. (\E l \in Labels : Jump(t, l) /\ UNCHANGED work) \/ Turn(t, at[t])
      BY <1>3 DEF ClaimHash, Labels
    <2>4. at[t] \in Entries
      BY <1>0 DEF ThreadTypes
    <2> QED
      BY <1>0, <2>2, <2>3, <2>4, StayTypes, TurnTypes, TypesSplit
  <1>4. ASSUME NEW t \in Threads, RecordClaim(t) PROVE TypeOK'
    <2>1. claiming' \in [Entries -> Claims \cup {CLAIM_UNRECORDED, CLAIM_ANONYMOUS}]
      BY <1>0, <1>4 DEF RecordClaim, TableTypes, Claims
    <2>2. TableTypes'
      BY <1>0, <1>4, <2>1 DEF RecordClaim, TableTypes
    <2>3. (\E l \in Labels : Jump(t, l) /\ UNCHANGED work) \/ Turn(t, at[t])
      BY <1>4 DEF RecordClaim, Labels
    <2>4. at[t] \in Entries
      BY <1>0 DEF ThreadTypes
    <2> QED
      BY <1>0, <2>2, <2>3, <2>4, StayTypes, TurnTypes, TypesSplit
  <1>5. ASSUME NEW t \in Threads, Alloc(t) PROVE TypeOK'
    <2>1. TableTypes'
      BY <1>0, <1>5 DEF Alloc, table, TableTypes
    <2>2. pc' \in [Threads -> Labels]
      <3>1. \E l \in Labels : Jump(t, l)
        BY <1>5 DEF Alloc, Labels
      <3> QED
        BY <1>0, <3>1, JumpTypes
    <2>3. mine' \in [Threads -> 0 .. ID_FAILED]
      <3>1. frame_count < Capacity => frame_count + 1 \in 0 .. ID_FAILED
        BY <1>0, TableAssumption DEF TableTypes, ID_FAILED
      <3>2. frame_count \in Nat /\ Capacity \in Nat
        BY <1>0, TableAssumption DEF TableTypes
      <3>3. UNCHANGED mine \/ (frame_count < Capacity /\ mine' = [mine EXCEPT ![t] = frame_count + 1])
        BY <1>5, <3>2 DEF Alloc
      <3> QED
        BY <1>0, <3>1, <3>3 DEF ThreadTypes
    <2>4. ThreadTypes'
      BY <1>0, <1>5, <2>2, <2>3 DEF Alloc, ThreadTypes
    <2> QED
      BY <2>1, <2>4, TypesSplit
  <1>6. ASSUME NEW t \in Threads, Undo(t) PROVE TypeOK'
    <2>0. Full /\ pc[t] = "undo"
      BY <1>6 DEF Undo, At, IInv, FailedWhenFull
    <2>1. frame_count' \in Nat
      <3>1. Cardinality(Losers) \in Nat
        BY FS_CardinalityType DEF IInv, Counted
      <3>2. frame_count >= 1
        BY <1>0, <2>0, <3>1, TableAssumption DEF Full, TableTypes
      <3> QED
        BY <1>0, <1>6, <3>2 DEF Undo, TableTypes
    <2>2. TableTypes'
      BY <1>0, <1>6, <2>1 DEF Undo, table, TableTypes
    <2>3. pc' \in [Threads -> Labels]
      BY <1>0, <1>6, JumpTypes DEF Undo, Labels
    <2>4. mine' \in [Threads -> 0 .. ID_FAILED]
      <3>1. ID_FAILED \in 0 .. ID_FAILED
        BY TableAssumption DEF ID_FAILED
      <3> QED
        BY <1>0, <1>6, <3>1 DEF Undo, ThreadTypes
    <2>5. ThreadTypes'
      BY <1>0, <1>6, <2>3, <2>4 DEF Undo, ThreadTypes
    <2> QED
      BY <2>2, <2>5, TypesSplit
  <1>7. ASSUME NEW t \in Threads, WriteRecord(t) PROVE TypeOK'
    <2>0. Busy(t)
      BY <1>7 DEF WriteRecord, At, Busy
    <2>1. records' \in [1 .. Capacity -> {Stored[n] : n \in Names} \cup {None}]
      BY <1>0, <1>7, <2>0, CallType DEF WriteRecord, TableTypes
    <2>2. TableTypes'
      BY <1>0, <1>7, <2>1 DEF WriteRecord, table, TableTypes
    <2>3. \E l \in Labels : Jump(t, l) /\ UNCHANGED work
      BY <1>7 DEF WriteRecord, Labels
    <2> QED
      BY <1>0, <2>2, <2>3, StayTypes, TypesSplit
  <1>8. ASSUME NEW t \in Threads, Publish(t) PROVE TypeOK'
    <2>1. ids' \in [Entries -> 0 .. ID_FAILED]
      BY <1>0, <1>8 DEF Publish, TableTypes, ThreadTypes
    <2>2. TableTypes'
      BY <1>0, <1>8, <2>1 DEF Publish, TableTypes
    <2>3. \E r : Return(t, r)
      BY <1>8 DEF Publish
    <2> QED
      BY <1>0, <2>2, <2>3, ReturnTypes, TypesSplit
  <1>9. ASSUME NEW t \in Threads, WaitLoad(t) \/ Judge(t) \/ Reload(t) PROVE TypeOK'
    <2>1. TableTypes'
      BY <1>0, <1>9 DEF WaitLoad, Judge, Reload, table, TableTypes
    <2>2. (\E l \in Labels : Jump(t, l) /\ UNCHANGED work) \/ (\E r : Return(t, r))
      BY <1>9 DEF WaitLoad, Judge, Reload, Labels
    <2> QED
      BY <1>0, <2>1, <2>2, StayTypes, ReturnTypes, TypesSplit
  <1>10. ASSUME NEW t \in Threads, LoadClaim(t) PROVE TypeOK'
    <2>1. TableTypes'
      BY <1>0, <1>10 DEF LoadClaim, table, TableTypes
    <2>2. \/ \E r : Patience(t, r)
          \/ \E l \in Labels : Jump(t, l) /\ UNCHANGED work
          \/ /\ \E l \in Labels : Jump(t, l)
             /\ claiming[at[t]] # CLAIM_ANONYMOUS \/ claiming[at[t]] = CLAIM_UNRECORDED
             /\ owner' = [owner EXCEPT ![t] = claiming[at[t]]]
             /\ UNCHANGED <<at, left, rounds, mine>>
      BY <1>10 DEF LoadClaim, Labels
    <2>3. ASSUME NEW l \in Labels, Jump(t, l),
                 claiming[at[t]] # CLAIM_ANONYMOUS \/ claiming[at[t]] = CLAIM_UNRECORDED,
                 owner' = [owner EXCEPT ![t] = claiming[at[t]]],
                 UNCHANGED <<at, left, rounds, mine>>
          PROVE  ThreadTypes'
      <3>1. claiming[at[t]] \in Claims \cup {CLAIM_UNRECORDED}
        BY <1>0, <2>3 DEF ThreadTypes, TableTypes
      <3>2. owner' \in [Threads -> Claims \cup {CLAIM_UNRECORDED}]
        BY <1>0, <2>3, <3>1 DEF ThreadTypes
      <3> QED
        BY <1>0, <2>3, <3>2, JumpTypes DEF ThreadTypes
    <2> QED
      BY <1>0, <2>1, <2>2, <2>3, StayTypes, PatienceTypes, TypesSplit
  <1>11. ASSUME NEW t \in Threads, TakeOver(t) PROVE TypeOK'
    <2>1. claiming' \in [Entries -> Claims \cup {CLAIM_UNRECORDED, CLAIM_ANONYMOUS}]
      BY <1>0, <1>11 DEF TakeOver, TableTypes, Claims
    <2>2. TableTypes'
      BY <1>0, <1>11, <2>1 DEF TakeOver, TableTypes
    <2>3. \E l \in Labels : Jump(t, l) /\ UNCHANGED work
      BY <1>11 DEF TakeOver, Labels
    <2> QED
      BY <1>0, <2>2, <2>3, StayTypes, TypesSplit
  <1>12. ASSUME NEW t \in Threads, NEW c \in Plans[t], Call(t, c[1], c[2]) PROVE TypeOK'
    <2>0. c[2] \in Names
      BY BoundAssumption
    <2>1. TableTypes'
      BY <1>0, <1>12 DEF Call, table, TableTypes
    <2>2. Home[Hash[c[2]]] \in Entries
      BY <2>0, TableAssumption DEF Hashes
    <2>3. TableLen \in 0 .. 2 * TableLen /\ 2 * TableLen \in 0 .. 2 * TableLen
      BY TableAssumption
    <2>4. at' \in [Threads -> Entries] /\ left' \in [Threads -> 0 .. 2 * TableLen]
      BY <1>0, <1>12, <2>2, <2>3 DEF Call, ThreadTypes
    <2>5. pc' \in [Threads -> Labels]
      BY <1>0, <1>12, JumpTypes DEF Call, Labels
    <2> QED
      BY <1>0, <1>12, <2>1, <2>4, <2>5, TypesSplit DEF Call, ThreadTypes
  <1>13. ASSUME NEW m \in Claims, Kill(m) PROVE TypeOK'
    <2>1. TableTypes'
      BY <1>0, <1>13 DEF Kill, table, TableTypes
    <2>2. 0 \in Entries /\ 0 \in 0 .. 2 * TableLen /\ 0 \in 0 .. Rounds - 1 /\ 0 \in 0 .. ID_FAILED
          /\ 0 \in Claims \cup {CLAIM_UNRECORDED}
      BY TableAssumption DEF Entries, ID_FAILED, CLAIM_UNRECORDED
    <2>3. Forget(Of(m))
      BY <1>13 DEF Kill
    <2>4. at' \in [Threads -> Entries] /\ left' \in [Threads -> 0 .. 2 * TableLen]
      BY <1>0, <2>2, <2>3 DEF Forget, ThreadTypes
    <2>5. /\ owner' \in [Threads -> Claims \cup {CLAIM_UNRECORDED}]
          /\ rounds' \in [Threads -> 0 .. Rounds - 1]
          /\ mine' \in [Threads -> 0 .. ID_FAILED]
      BY <1>0, <2>2, <2>3 DEF Forget, ThreadTypes
    <2>6. pc' \in [Threads -> Labels]
      BY <1>0, <1>13 DEF Kill, ThreadTypes, Labels
    <2> QED
      BY <2>1, <2>4, <2>5, <2>6, TypesSplit DEF ThreadTypes
  <1>14. ASSUME NEW m \in Claims, Restart(m) PROVE TypeOK'
    <2>1. TableTypes'
      BY <1>0, <1>14 DEF Restart, table, TableTypes
    <2>2. pc' \in [Threads -> Labels]
      BY <1>0, <1>14 DEF Restart, ThreadTypes, Labels
    <2> QED
      BY <1>0, <1>14, <2>1, <2>2, TypesSplit DEF Restart, work, ThreadTypes
  <1>15. ASSUME NEW m \in Claims, Erase(m) PROVE TypeOK'
    BY <1>0, <1>15 DEF Erase, table, work, TypeOK
  <1>16. CASE UNCHANGED vars
    BY <1>0, <1>16 DEF vars, table, work, TypeOK
  <1> QED
    BY <1>1, <1>2, <1>3, <1>4, <1>5, <1>6, <1>7, <1>8, <1>9, <1>10, <1>11, <1>12, <1>13,
       <1>14, <1>15, <1>16 DEF Next, Step

LEMMA StepTables == IInv /\ [Next]_vars => Tables'
  <1> SUFFICES ASSUME IInv, [Next]_vars PROVE Tables'
    OBVIOUS
  <1>0. Tables
    BY DEF IInv
  <1>1. ASSUME NEW t \in Threads, NEW r, Return(t, r) PROVE Tables'
    BY <1>0, <1>1 DEF Return, Forget, Tables
  <1>2. ASSUME UNCHANGED <<call, answer>> PROVE Tables'
    BY <1>0, <1>2 DEF Tables
  <1>3. ASSUME NEW t \in Threads, NEW i, Turn(t, i) PROVE Tables'
    BY <1>1, <1>2, <1>3 DEF Turn
  <1>4. ASSUME NEW t \in Threads, NEW r, Patience(t, r) PROVE Tables'
    BY <1>1, <1>2, <1>4 DEF Patience
  <1>5. ASSUME NEW t \in Threads, LoadHash(t) \/ CheckCount(t) \/ ClaimHash(t) \/ RecordClaim(t)
        PROVE  Tables'
    BY <1>1, <1>2, <1>3, <1>5 DEF LoadHash, CheckCount, ClaimHash, RecordClaim
  <1>6. ASSUME NEW t \in Threads, Alloc(t) \/ Undo(t) \/ WriteRecord(t) \/ Publish(t)
        PROVE  Tables'
    BY <1>1, <1>2, <1>6 DEF Alloc, Undo, WriteRecord, Publish
  <1>7. ASSUME NEW t \in Threads, Wait(t)
        PROVE  Tables'
    BY <1>1, <1>2, <1>4, <1>7 DEF Wait, WaitLoad, LoadClaim, Judge, TakeOver, Reload
  <1>8. ASSUME NEW t \in Threads, NEW c \in Plans[t], Call(t, c[1], c[2]) PROVE Tables'
    <2>1. c[1] \in {"intern", "find"} /\ c[2] \in Names
      BY BoundAssumption
    <2>2. Value(Hash[c[2]]) \in 0 .. ID_FAILED
      <3>1. ids \in [Entries -> 0 .. ID_FAILED] /\ ID_UNPUBLISHED \in 0 .. ID_FAILED
        BY TableAssumption DEF IInv, TypeOK, ID_UNPUBLISHED, ID_FAILED
      <3> QED
        BY <3>1 DEF Value
    <2>3. [op |-> c[1], name |-> c[2], known |-> Value(Hash[c[2]])] \in Call1
      BY <2>1, <2>2 DEF Call1
    <2> QED
      BY <1>0, <1>8, <2>3 DEF Call, Tables
  <1>9. ASSUME NEW m \in Claims, Kill(m) \/ Restart(m) \/ Erase(m) PROVE Tables'
    <2>1. CASE Kill(m)
      BY <1>0, <2>1 DEF Kill, Forget, Tables
    <2>2. CASE Restart(m) \/ Erase(m)
      BY <1>2, <2>2 DEF Restart, Erase
    <2> QED
      BY <1>9, <2>1, <2>2
  <1>10. CASE UNCHANGED vars
    BY <1>2, <1>10 DEF vars
  <1> QED
    BY <1>5, <1>6, <1>7, <1>8, <1>9, <1>10 DEF Next, Step, Wait

\* The ways a step is taken.
LEMMA NextCases ==
    ASSUME [Next]_vars
    PROVE  \/ \E t \in Threads : \/ LoadHash(t) \/ CheckCount(t) \/ ClaimHash(t) \/ RecordClaim(t)
                                 \/ Alloc(t) \/ Undo(t) \/ WriteRecord(t) \/ Publish(t)
                                 \/ Wait(t)
           \/ \E t \in Threads, op \in {"intern", "find"}, n \in Names : Call(t, op, n)
           \/ \E m : Kill(m) \/ Restart(m) \/ Erase(m) \/ UNCHANGED vars
  <1>1. ASSUME NEW t \in Threads, NEW c \in Plans[t], Call(t, c[1], c[2])
        PROVE  \E op \in {"intern", "find"}, n \in Names : Call(t, op, n)
    <2>1. c[1] \in {"intern", "find"} /\ c[2] \in Names
      BY BoundAssumption
    <2> QED
      BY <1>1, <2>1
  <1> QED
    BY <1>1 DEF Next, Step, Wait

LEMMA StepCalls == IInv /\ [Next]_vars => Calls' /\ FinderWaits'
  <1> SUFFICES ASSUME IInv, [Next]_vars PROVE Calls' /\ FinderWaits'
    OBVIOUS
  <1>0. TypeOK /\ Tables /\ Calls /\ FinderWaits
    BY DEF IInv
  <1> DEFINE Fine(u) == /\ IF Busy(u)' THEN call'[u] \in Call1 ELSE call'[u] = Idle
                        /\ pc'[u] \in {"count", "claim", "record", "alloc", "undo", "write",
                                       "publish", "take", "reload"} => Interns(u)'
  <1> SUFFICES \A u \in Threads : Fine(u)
    BY DEF Calls, FinderWaits
  <1>1. ASSUME NEW u \in Threads, pc'[u] = pc[u], call'[u] = call[u] PROVE Fine(u)
    BY <1>0, <1>1 DEF Calls, FinderWaits, Busy, Interns
  <1>2. ASSUME NEW t \in Threads, Still(t), Fine(t) PROVE \A u \in Threads : Fine(u)
    BY <1>1, <1>2 DEF Still
  <1>3. ASSUME NEW t \in Threads, NEW l, Goes(t, l), Busy(t), l \notin {"idle", "dead"},
               Interns(t) \/ l \in {"load", "wait", "owner", "judge"}
        PROVE  \A u \in Threads : Fine(u)
    <2>1. Fine(t)
      BY <1>0, <1>3 DEF Goes, Calls, Busy, Interns
    <2> QED
      BY <1>2, <1>3, <2>1 DEF Goes
  <1>4. ASSUME NEW t \in Threads, NEW r, Leaves(t, r) PROVE \A u \in Threads : Fine(u)
    <2>1. Fine(t)
      BY <1>4 DEF Leaves, Busy
    <2> QED
      BY <1>2, <1>4, <2>1 DEF Leaves
  <1>5. ASSUME NEW t \in Threads, NEW i, Turned(t, i), Busy(t) PROVE \A u \in Threads : Fine(u)
    <2>1. CASE left[t] <= 1 /\ \E r : Leaves(t, r)
      BY <1>4, <2>1
    <2>2. CASE Still(t) /\ pc'[t] = "load" /\ call'[t] = call[t]
      <3>1. Fine(t)
        BY <1>0, <1>5, <2>2 DEF Calls, Busy
      <3> QED
        BY <1>2, <2>2, <3>1
    <2> QED
      BY <1>5, <2>1, <2>2 DEF Turned
  <1>6. ASSUME NEW t \in Threads, LoadHash(t) PROVE \A u \in Threads : Fine(u)
    <2>1. Busy(t)
      BY <1>0, <1>6, LoadHashEffect DEF Busy
    <2> QED
      BY <1>0, <1>6, <2>1, <1>3, <1>4, <1>5, LoadHashEffect
  <1>7. ASSUME NEW t \in Threads, CheckCount(t) PROVE \A u \in Threads : Fine(u)
    <2>1. Busy(t) /\ Interns(t)
      BY <1>0, <1>7, CheckCountEffect DEF Busy, FinderWaits
    <2> QED
      BY <1>0, <1>7, <2>1, <1>3, <1>4, CheckCountEffect
  <1>8. ASSUME NEW t \in Threads, ClaimHash(t) PROVE \A u \in Threads : Fine(u)
    <2>1. Busy(t) /\ Interns(t)
      BY <1>0, <1>8, ClaimHashEffect DEF Busy, FinderWaits
    <2> QED
      BY <1>0, <1>8, <2>1, <1>3, <1>5, ClaimHashEffect
  <1>9. ASSUME NEW t \in Threads, RecordClaim(t) PROVE \A u \in Threads : Fine(u)
    <2>1. Busy(t) /\ Interns(t)
      BY <1>0, <1>9, RecordClaimEffect DEF Busy, FinderWaits
    <2> QED
      BY <1>0, <1>9, <2>1, <1>3, <1>5, RecordClaimEffect
  <1>10. ASSUME NEW t \in Threads, Alloc(t) PROVE \A u \in Threads : Fine(u)
    <2>1. Busy(t) /\ Interns(t)
      BY <1>0, <1>10, AllocEffect DEF Busy, FinderWaits
    <2> QED
      BY <1>0, <1>10, <2>1, <1>3, AllocEffect
  <1>11. ASSUME NEW t \in Threads, Undo(t) PROVE \A u \in Threads : Fine(u)
    <2>1. Busy(t) /\ Interns(t)
      BY <1>0, <1>11, UndoEffect DEF Busy, FinderWaits
    <2> QED
      BY <1>0, <1>11, <2>1, <1>3, UndoEffect
  <1>12. ASSUME NEW t \in Threads, WriteRecord(t) PROVE \A u \in Threads : Fine(u)
    <2>1. Busy(t) /\ Interns(t)
      BY <1>0, <1>12, WriteRecordEffect DEF Busy, FinderWaits
    <2> QED
      BY <1>0, <1>12, <2>1, <1>3, WriteRecordEffect
  <1>13. ASSUME NEW t \in Threads, Publish(t) PROVE \A u \in Threads : Fine(u)
    BY <1>0, <1>13, <1>4, PublishEffect
  <1>14. ASSUME NEW t \in Threads, Wait(t) PROVE \A u \in Threads : Fine(u)
    <2>1. Busy(t) /\ (pc[t] \in {"take", "reload"} => Interns(t))
      BY <1>0, <1>14, WaitEffect DEF Busy, FinderWaits, Waiting
    <2> QED
      BY <1>0, <1>14, <2>1, <1>3, <1>4, WaitEffect
  <1>15. ASSUME NEW t \in Threads, NEW op \in {"intern", "find"}, NEW n \in Names, Call(t, op, n)
         PROVE  \A u \in Threads : Fine(u)
    <2>1. /\ Still(t) /\ pc'[t] = "load"
          /\ call'[t] = [op |-> op, name |-> n, known |-> Value(Hash[n])]
      BY <1>0, <1>15, CallEffect
    <2>2. Value(Hash[n]) \in 0 .. ID_FAILED
      <3>1. ids \in [Entries -> 0 .. ID_FAILED] /\ ID_UNPUBLISHED \in 0 .. ID_FAILED
        BY <1>0, TableAssumption DEF TypeOK, ID_UNPUBLISHED, ID_FAILED
      <3> QED
        BY <3>1 DEF Value
    <2>3. call'[t] \in Call1
      BY <2>1, <2>2 DEF Call1
    <2>4. Fine(t)
      BY <2>1, <2>3 DEF Busy
    <2> QED
      BY <1>2, <2>1, <2>4
  <1>16. ASSUME NEW m, Kill(m) \/ Restart(m) \/ Erase(m) \/ UNCHANGED vars, NEW u \in Threads
         PROVE  Fine(u)
    <2>1. CASE pc'[u] = "dead" /\ call'[u] = Idle
      BY <2>1 DEF Busy
    <2>2. CASE pc[u] = "dead" /\ pc'[u] = "idle" /\ call'[u] = call[u]
      BY <1>0, <2>2 DEF Busy, Calls
    <2> QED
      BY <1>0, <1>1, <1>16, <2>1, <2>2, EnvironmentEffect
  <1> HIDE DEF Fine
  <1> QED
    BY NextCases, <1>6, <1>7, <1>8, <1>9, <1>10, <1>11, <1>12, <1>13, <1>14, <1>15, <1>16

--------------------------------------------------------------------------------
(* The probe. *)

\* An empty entry on the probe: the hash is nowhere in the table.
LEMMA NotThereYet ==
    ASSUME IInv, NEW t \in Threads, pc[t] \in Probing, hashes[at[t]] = None
    PROVE  \A e \in Entries : hashes[e] # MyHash(t)
  <1> SUFFICES ASSUME NEW e \in Entries, hashes[e] = MyHash(t) PROVE FALSE
    OBVIOUS
  <1> DEFINE k == Home[MyHash(t)]
  <1>1. k \in Entries /\ MyHash(t) # None
    BY CallType DEF IInv, Busy, Probing
  <1>2. at[t] \in Entries
    BY WorkTypes DEF IInv
  <1>3. /\ Dist(k, e) \in Nat /\ Dist(k, at[t]) \in Nat
        /\ Dist(k, e) = Dist(k, at[t]) => e = at[t]
    BY <1>1, <1>2, DistFacts
  <1>4. CASE Dist(k, e) < Dist(k, at[t])
    <2>1. e \in Before(t)
      BY <1>4 DEF Before, Far
    <2> QED
      BY <2>1 DEF IInv, Probes, Passed
  <1>5. CASE Dist(k, e) = Dist(k, at[t])
    BY <1>1, <1>3, <1>5
  <1>6. CASE Dist(k, at[t]) < Dist(k, e)
    BY <1>1, <1>2, <1>6 DEF IInv, Reached
  <1> QED
    BY <1>3, <1>4, <1>5, <1>6

LEMMA ClaimTypes ==
    ASSUME IInv, NEW t \in Threads, hashes' = [hashes EXCEPT ![at[t]] = MyHash(t)]
    PROVE  /\ at[t] \in Entries /\ hashes'[at[t]] = MyHash(t)
           /\ \A i \in Entries \ {at[t]} : hashes'[i] = hashes[i]
  BY DEF IInv, TypeOK

\* Claimed entries stay as they are.
Grows == \A i \in Entries : hashes[i] # None => hashes'[i] = hashes[i]

LEMMA StepEntries == IInv /\ [Next]_vars => OneEntry' /\ Reached' /\ Grows
  <1> SUFFICES ASSUME IInv, [Next]_vars PROVE OneEntry' /\ Reached' /\ Grows
    OBVIOUS
  <1>0. TypeOK /\ Tables /\ OneEntry /\ Reached
    BY DEF IInv
  <1>1. CASE UNCHANGED hashes
    BY <1>0, <1>1 DEF OneEntry, Reached, Grows
  <1>2. ASSUME NEW t \in Threads, pc[t] = "claim", hashes[at[t]] = None,
               hashes' = [hashes EXCEPT ![at[t]] = MyHash(t)]
        PROVE  OneEntry' /\ Reached' /\ Grows
    <2>1. /\ at[t] \in Entries /\ hashes'[at[t]] = MyHash(t)
          /\ \A i \in Entries \ {at[t]} : hashes'[i] = hashes[i]
      BY <1>2, ClaimTypes
    <2>2. \A e \in Entries : hashes[e] # MyHash(t)
      BY <1>2, NotThereYet DEF Probing
    <2>3. MyHash(t) # None
      BY <1>2, CallType DEF IInv, Busy
    <2>4. OneEntry'
      BY <1>0, <2>1, <2>2 DEF OneEntry
    <2>5. Grows
      BY <1>2, <2>1 DEF Grows
    <2>6. \A i \in Entries : hashes[i] # None => hashes'[i] # None
      BY <2>5 DEF Grows
    <2>7. ASSUME NEW e \in Entries, NEW i \in Entries, hashes'[e] # None,
                 Dist(Home[hashes'[e]], i) < Dist(Home[hashes'[e]], e)
          PROVE  hashes'[i] # None
      <3>1. CASE e = at[t]
        <4>1. i \in Before(t)
          BY <2>1, <2>7, <3>1 DEF Before, Far
        <4> QED
          BY <1>2, <2>6, <4>1 DEF IInv, Probes, Passed, Probing
      <3>2. CASE e # at[t]
        BY <1>0, <2>1, <2>6, <2>7, <3>2 DEF Reached
      <3> QED
        BY <3>1, <3>2
    <2>8. Reached'
      BY <2>7 DEF Reached, Dist
    <2> QED
      BY <2>4, <2>5, <2>8
  <1>3. ASSUME NEW t \in Threads, ClaimHash(t) PROVE OneEntry' /\ Reached' /\ Grows
    BY <1>0, <1>1, <1>2, <1>3, ClaimHashEffect
  <1>4. ASSUME NEW t \in Threads, LoadHash(t) \/ CheckCount(t) \/ RecordClaim(t) \/ Wait(t)
        PROVE  UNCHANGED hashes
    BY <1>0, <1>4, LoadHashEffect, CheckCountEffect, RecordClaimEffect, WaitEffect DEF Fixed
  <1>5. ASSUME NEW t \in Threads, Alloc(t) \/ Undo(t) \/ WriteRecord(t) \/ Publish(t)
        PROVE  UNCHANGED hashes
    BY <1>0, <1>5, AllocEffect, UndoEffect, WriteRecordEffect, PublishEffect
  <1>6. ASSUME NEW t \in Threads, NEW op, NEW n, Call(t, op, n) PROVE UNCHANGED hashes
    BY <1>6 DEF Call, table
  <1>7. ASSUME NEW m, Kill(m) \/ Restart(m) \/ Erase(m) \/ UNCHANGED vars PROVE UNCHANGED hashes
    BY <1>0, <1>7, EnvironmentEffect DEF Fixed
  <1> QED
    BY NextCases, <1>1, <1>3, <1>4, <1>5, <1>6, <1>7

\* The probe of a thread that does not move.
LEMMA ProbeKept ==
    ASSUME IInv, Grows, NEW u \in Threads, pc'[u] = pc[u], call'[u] = call[u],
           at'[u] = at[u], left'[u] = left[u]
    PROVE  Passed(u)' /\ Turns(u)' /\ Placed(u)'
  <1>0. Passed(u) /\ Turns(u) /\ Placed(u) /\ at[u] \in Entries /\ left[u] \in Nat
    BY WorkTypes, TableAssumption DEF IInv, Probes
  <1>1. /\ MyHash(u)' = MyHash(u) /\ Interns(u)' = Interns(u) /\ Far(u)' = Far(u)
        /\ Before(u)' = Before(u)
    BY DEF MyHash, Interns, Far, Before, Dist, Entries
  <1>2. Passed(u)'
    BY <1>0, <1>1 DEF Passed, Grows, Before
  <1>3. pc[u] \in {"record"} \cup Finishing \cup Waiting => MyHash(u) # None
    BY CallType DEF IInv, Busy, Finishing, Waiting
  <1>4. Placed(u)'
    BY <1>0, <1>1, <1>3 DEF Placed, Grows
  <1>5. Crowded(u) => Crowded(u)'
    BY <1>1 DEF Crowded, Grows
  <1>6. ASSUME pc[u] \in Probing \cup {"record"}, Enough(u) PROVE Enough(u)'
    <2>1. Far(u) \in Nat /\ TableLen \in Nat
      <3>1. Home[MyHash(u)] \in Entries
        BY <1>6, CallType DEF IInv, Busy, Probing
      <3> QED
        BY <1>0, <3>1, DistFacts, TableAssumption DEF Far
    <2>2. hashes[at[u]] # None => hashes'[at[u]] # None
      BY <1>0 DEF Grows
    <2> QED
      BY <1>0, <1>1, <1>6, <2>1, <2>2 DEF Enough
  <1> QED
    BY <1>0, <1>2, <1>4, <1>5, <1>6 DEF Turns

\* The probe of a thread that goes on to the next entry, or starts over.
LEMMA ProbeTurns ==
    ASSUME IInv, UNCHANGED hashes, NEW t \in Threads, pc[t] = "load",
           hashes[at[t]] # None, hashes[at[t]] # MyHash(t),
           left[t] > 1, pc'[t] = "load", at'[t] = (at[t] + 1) % TableLen,
           left'[t] = left[t] - 1, call'[t] = call[t]
    PROVE  Passed(t)' /\ Turns(t)' /\ Placed(t)'
  <1> DEFINE k == Home[MyHash(t)]
             i == (at[t] + 1) % TableLen
  <1>0. Passed(t) /\ Turns(t) /\ at[t] \in Entries /\ left[t] \in Nat /\ i \in Entries
    BY WorkTypes, NextEntry, TableAssumption DEF IInv, Probes
  <1>1. k \in Entries /\ TableLen \in Nat /\ TableLen > 0
    BY CallType, TableAssumption DEF IInv, Busy
  <1>2. MyHash(t)' = MyHash(t) /\ Interns(t)' = Interns(t)
    BY DEF MyHash, Interns
  <1>3. Far(t)' = Dist(k, i) /\ Far(t) = Dist(k, at[t])
    BY <1>2 DEF Far, Dist
  <1>4. Before(t)' = {j \in Entries : Dist(k, j) < Dist(k, i)}
    BY <1>2, <1>3 DEF Before, Dist
  <1>5. /\ Far(t) \in 0 .. TableLen - 1
        /\ Far(t) < TableLen - 1 => Dist(k, i) = Far(t) + 1
        /\ Far(t) = TableLen - 1 => i = k
        /\ \A j \in Entries : /\ Dist(k, j) \in 0 .. TableLen - 1
                              /\ Dist(k, j) = Far(t) => j = at[t]
        /\ Dist(k, k) = 0
    BY <1>0, <1>1, <1>3, DistFacts
  <1>6. ASSUME NEW j \in Entries, Dist(k, j) <= Far(t)
        PROVE  hashes[j] # None /\ hashes[j] # MyHash(t)
    <2>1. CASE Dist(k, j) = Far(t)
      BY <1>5, <2>1
    <2>2. CASE Dist(k, j) < Far(t)
      BY <1>0, <2>2 DEF Passed, Before, Probing
    <2> QED
      BY <1>5, <1>6, <2>1, <2>2
  <1>7. CASE Far(t) < TableLen - 1
    <2>1. Passed(t)'
      <3>1. \A j \in Before(t)' : j \in Entries /\ Dist(k, j) <= Far(t)
        BY <1>4, <1>5, <1>7
      <3> QED
        BY <1>2, <1>6, <3>1 DEF Passed
    <2>2. Crowded(t) => Crowded(t)'
      BY <1>2 DEF Crowded
    <2>3. Enough(t) => Enough(t)'
      BY <1>0, <1>1, <1>2, <1>3, <1>5, <1>7 DEF Enough
    <2>4. Turns(t)'
      BY <1>0, <2>2, <2>3 DEF Turns, Probing
    <2> QED
      BY <2>1, <2>4 DEF Placed, Finishing, Waiting
  <1>8. CASE Far(t) = TableLen - 1
    <2>1. Before(t)' = {}
      BY <1>4, <1>5, <1>8
    <2>2. Crowded(t)'
      <3>1. \A j \in Entries : Dist(k, j) <= Far(t)
        BY <1>1, <1>5, <1>8
      <3> QED
        BY <1>2, <1>6, <3>1 DEF Crowded
    <2> QED
      BY <2>1, <2>2 DEF Passed, Turns, Placed, Finishing, Waiting
  <1> QED
    BY <1>1, <1>5, <1>7, <1>8

\* The probe of a thread that lost a race for its entry looks at it again.
LEMMA ProbeAgain ==
    ASSUME IInv, UNCHANGED hashes, NEW t \in Threads, pc[t] \in {"claim", "record"},
           hashes[at[t]] # None, left[t] > 1, pc'[t] = "load", at'[t] = at[t],
           left'[t] = left[t] - 1, call'[t] = call[t]
    PROVE  Passed(t)' /\ Turns(t)' /\ Placed(t)'
  <1>0. Passed(t) /\ Turns(t) /\ left[t] \in Nat /\ at[t] \in Entries /\ Interns(t)
    BY WorkTypes, TableAssumption DEF IInv, Probes, FinderWaits
  <1>1. Far(t) \in Nat /\ TableLen \in Nat
    <2>1. Home[MyHash(t)] \in Entries
      BY CallType DEF IInv, Busy
    <2> QED
      BY <1>0, <2>1, DistFacts, TableAssumption DEF Far
  <1>2. /\ MyHash(t)' = MyHash(t) /\ Interns(t)' = Interns(t) /\ Far(t)' = Far(t)
        /\ Before(t)' = Before(t)
    BY DEF MyHash, Interns, Far, Before, Dist, Entries
  <1>3. Passed(t)'
    BY <1>0, <1>2 DEF Passed, Probing
  <1>4. Crowded(t) => Crowded(t)'
    BY <1>2 DEF Crowded
  <1>5. Enough(t) => Enough(t)'
    BY <1>0, <1>1, <1>2 DEF Enough
  <1> QED
    BY <1>0, <1>3, <1>4, <1>5 DEF Turns, Placed, Probing, Finishing, Waiting

\* The probe of a thread that stays at its entry.
LEMMA ProbeStays ==
    ASSUME IInv, Grows, NEW t \in Threads, NEW l, Goes(t, l),
           pc[t] = "load" => l \in {"count", "wait"},
           pc[t] = "load" /\ l = "count" => hashes[at[t]] = None,
           pc[t] = "count" => l = "claim",
           pc[t] = "claim" => l = "record",
           l \in Probing \cup {"record"} => pc[t] \in Probing /\ Interns(t),
           l \in {"record"} \cup Finishing \cup Waiting => hashes'[at[t]] = MyHash(t)
    PROVE  Passed(t)' /\ Turns(t)' /\ Placed(t)'
  <1>0. /\ Passed(t) /\ Turns(t) /\ left[t] \in Nat /\ at[t] \in Entries
        /\ pc'[t] = l /\ call'[t] = call[t] /\ at'[t] = at[t] /\ left'[t] = left[t]
    BY WorkTypes, TableAssumption DEF IInv, Probes, Goes
  <1>1. /\ MyHash(t)' = MyHash(t) /\ Interns(t)' = Interns(t) /\ Far(t)' = Far(t)
        /\ Before(t)' = Before(t)
    BY <1>0 DEF MyHash, Interns, Far, Before, Dist, Entries
  <1>2. Placed(t)'
    BY <1>0, <1>1 DEF Placed
  <1>3. ASSUME l \in Probing \cup {"record"} PROVE Passed(t)' /\ Turns(t)'
    <2>0. pc[t] \in Probing /\ Interns(t)
      BY <1>3
    <2>1. Far(t) \in Nat /\ TableLen \in Nat
      <3>1. Home[MyHash(t)] \in Entries
        BY <2>0, CallType DEF IInv, Busy, Probing
      <3> QED
        BY <1>0, <3>1, DistFacts, TableAssumption DEF Far
    <2>2. Passed(t)'
      BY <1>0, <1>1, <2>0 DEF Passed, Grows, Before
    <2>3. Crowded(t) => Crowded(t)'
      BY <1>1 DEF Crowded, Grows
    <2>4. l # "load"
      BY <2>0 DEF Probing
    <2>5. Enough(t) => Enough(t)'
      BY <1>0, <1>1, <1>3, <2>0, <2>1, <2>4 DEF Enough, Probing
    <2> QED
      BY <1>0, <2>0, <2>2, <2>3, <2>5 DEF Turns
  <1> QED
    BY <1>0, <1>2, <1>3 DEF Passed, Turns

\* A thread that has no call.
LEMMA ProbeEnds ==
    ASSUME NEW t \in Threads, pc'[t] \in {"idle", "dead"}
    PROVE  Passed(t)' /\ Turns(t)' /\ Placed(t)'
  BY DEF Passed, Turns, Placed, Probing, Finishing, Waiting

LEMMA ProbeTurned ==
    ASSUME IInv, UNCHANGED hashes, NEW t \in Threads, NEW i, Turned(t, i),
           \/ /\ pc[t] = "load" /\ i = (at[t] + 1) % TableLen
              /\ hashes[at[t]] # None /\ hashes[at[t]] # MyHash(t)
           \/ pc[t] \in {"claim", "record"} /\ i = at[t] /\ hashes[at[t]] # None
    PROVE  Passed(t)' /\ Turns(t)' /\ Placed(t)'
  <1>1. CASE left[t] > 1 /\ pc'[t] = "load" /\ at'[t] = i /\ left'[t] = left[t] - 1
             /\ call'[t] = call[t]
    BY <1>1, ProbeTurns, ProbeAgain
  <1>2. CASE pc'[t] = "idle"
    BY <1>2, ProbeEnds
  <1> QED
    BY <1>1, <1>2 DEF Turned, Leaves

LEMMA StepProbes == IInv /\ [Next]_vars => Probes'
  <1> SUFFICES ASSUME IInv, [Next]_vars PROVE Probes'
    OBVIOUS
  <1> DEFINE Fine(u) == Passed(u)' /\ Turns(u)' /\ Placed(u)'
  <1> SUFFICES \A u \in Threads : Fine(u)
    BY DEF Probes
  <1>0. TypeOK /\ Tables /\ FinderWaits /\ Grows
    BY StepEntries DEF IInv
  <1>1. ASSUME NEW t \in Threads, Still(t), Fine(t) PROVE \A u \in Threads : Fine(u)
    BY <1>0, <1>1, ProbeKept DEF Still
  <1>2. ASSUME NEW t \in Threads, NEW r, Leaves(t, r) PROVE \A u \in Threads : Fine(u)
    BY <1>1, <1>2, ProbeEnds DEF Leaves
  <1>3. ASSUME NEW t \in Threads, NEW i, Turned(t, i), Fine(t) PROVE \A u \in Threads : Fine(u)
    BY <1>1, <1>3 DEF Turned, Leaves
  <1>4. ASSUME NEW t \in Threads, NEW l, Goes(t, l), Fine(t) PROVE \A u \in Threads : Fine(u)
    BY <1>1, <1>4 DEF Goes
  <1>5. ASSUME NEW t \in Threads, LoadHash(t) PROVE \A u \in Threads : Fine(u)
    <2>0. pc[t] = "load" /\ UNCHANGED hashes
      BY <1>0, <1>5, LoadHashEffect DEF Fixed
    <2>1. CASE hashes[at[t]] = MyHash(t) /\ Goes(t, "wait")
      BY <1>0, <1>4, <2>0, <2>1, ProbeStays DEF Probing, Finishing, Waiting
    <2>2. CASE hashes[at[t]] = None /\ Interns(t) /\ Goes(t, "count")
      BY <1>0, <1>4, <2>0, <2>2, ProbeStays DEF Probing, Finishing, Waiting
    <2>3. CASE hashes[at[t]] \notin {None, MyHash(t)} /\ Turned(t, (at[t] + 1) % TableLen)
      BY <1>3, <2>0, <2>3, ProbeTurned
    <2> QED
      BY <1>0, <1>2, <1>5, <2>1, <2>2, <2>3, LoadHashEffect
  <1>6. ASSUME NEW t \in Threads, CheckCount(t) PROVE \A u \in Threads : Fine(u)
    <2>0. pc[t] = "count" /\ UNCHANGED hashes /\ Interns(t)
      BY <1>0, <1>6, CheckCountEffect DEF Fixed, FinderWaits
    <2>1. CASE Goes(t, "claim")
      BY <1>0, <1>4, <2>0, <2>1, ProbeStays DEF Probing, Finishing, Waiting
    <2> QED
      BY <1>0, <1>2, <1>6, <2>1, CheckCountEffect
  <1>7. ASSUME NEW t \in Threads, ClaimHash(t) PROVE \A u \in Threads : Fine(u)
    <2>0. pc[t] = "claim" /\ Interns(t)
      BY <1>0, <1>7, ClaimHashEffect DEF FinderWaits
    <2>1. CASE Goes(t, "record") /\ hashes' = [hashes EXCEPT ![at[t]] = MyHash(t)]
      <3>1. hashes'[at[t]] = MyHash(t)
        BY <2>1, ClaimTypes
      <3> QED
        BY <1>0, <1>4, <2>0, <2>1, <3>1, ProbeStays DEF Probing, Finishing, Waiting
    <2>2. CASE hashes[at[t]] # None /\ UNCHANGED hashes /\ Turned(t, at[t])
      BY <1>3, <2>0, <2>2, ProbeTurned
    <2> QED
      BY <1>0, <1>7, <2>1, <2>2, ClaimHashEffect
  <1>8. ASSUME NEW t \in Threads, RecordClaim(t) PROVE \A u \in Threads : Fine(u)
    <2>0. pc[t] = "record" /\ UNCHANGED hashes
      BY <1>0, <1>8, RecordClaimEffect DEF Fixed
    <2>1. hashes[at[t]] = MyHash(t) /\ MyHash(t) # None
      BY <2>0, CallType DEF IInv, Probes, Placed, Busy
    <2>2. CASE Goes(t, "alloc")
      BY <1>0, <1>4, <2>0, <2>1, <2>2, ProbeStays DEF Probing, Finishing, Waiting
    <2>3. CASE Turned(t, at[t])
      BY <1>3, <2>0, <2>1, <2>3, ProbeTurned
    <2> QED
      BY <1>0, <1>8, <2>2, <2>3, RecordClaimEffect
  <1>9. ASSUME NEW t \in Threads, pc[t] \in Finishing \cup Waiting, UNCHANGED hashes,
               NEW l \in Finishing \cup Waiting, Goes(t, l)
        PROVE  \A u \in Threads : Fine(u)
    <2>1. hashes[at[t]] = MyHash(t)
      BY <1>9 DEF IInv, Probes, Placed
    <2> QED
      BY <1>0, <1>4, <1>9, <2>1, ProbeStays DEF Probing, Finishing, Waiting
  <1>10. ASSUME NEW t \in Threads, Alloc(t) PROVE \A u \in Threads : Fine(u)
    BY <1>0, <1>9, <1>10, AllocEffect DEF Finishing
  <1>11. ASSUME NEW t \in Threads, Undo(t) PROVE \A u \in Threads : Fine(u)
    BY <1>0, <1>9, <1>11, UndoEffect DEF Finishing
  <1>12. ASSUME NEW t \in Threads, WriteRecord(t) PROVE \A u \in Threads : Fine(u)
    BY <1>0, <1>9, <1>12, WriteRecordEffect DEF Finishing
  <1>13. ASSUME NEW t \in Threads, Publish(t) PROVE \A u \in Threads : Fine(u)
    BY <1>0, <1>2, <1>13, PublishEffect
  <1>14. ASSUME NEW t \in Threads, Wait(t) PROVE \A u \in Threads : Fine(u)
    <2>1. pc[t] \in Waiting /\ UNCHANGED hashes
      BY <1>0, <1>14, WaitEffect DEF Fixed
    <2>2. (\E r : Leaves(t, r)) \/ (\E l \in Finishing \cup Waiting : Goes(t, l))
      BY <1>0, <1>14, WaitEffect DEF Finishing, Waiting
    <2> QED
      BY <1>2, <1>9, <2>1, <2>2
  <1>15. ASSUME NEW t \in Threads, NEW op \in {"intern", "find"}, NEW n \in Names, Call(t, op, n)
         PROVE  \A u \in Threads : Fine(u)
    <2>1. /\ Still(t) /\ pc'[t] = "load" /\ UNCHANGED hashes
          /\ call'[t] = [op |-> op, name |-> n, known |-> Value(Hash[n])]
          /\ at'[t] = Home[Hash[n]]
          /\ left'[t] = (IF op = "intern" THEN 2 * TableLen ELSE TableLen)
      BY <1>0, <1>15, CallEffect DEF Fixed
    <2>2. MyHash(t)' = Hash[n] /\ Interns(t)' = (op = "intern")
      BY <2>1 DEF MyHash, Interns
    <2>3. Home[Hash[n]] \in Entries /\ TableLen \in Nat
      BY TableAssumption DEF Hashes
    <2>4. /\ Dist(Home[Hash[n]], Home[Hash[n]]) = 0
          /\ \A i \in Entries : Dist(Home[Hash[n]], i) \in Nat
      BY <2>3, DistFacts
    <2>5. Far(t)' = 0 /\ Before(t)' = {}
      BY <2>1, <2>2, <2>4 DEF Far, Before, Dist
    <2>6. Enough(t)'
      <3>1. CASE op = "intern"
        BY <2>1, <2>2, <2>3, <2>5, <3>1 DEF Enough
      <3>2. CASE op # "intern"
        <4>1. ~Interns(t)' /\ left'[t] = TableLen
          BY <2>1, <2>2, <3>2
        <4> QED
          BY <2>3, <2>5, <4>1 DEF Enough
      <3> QED
        BY <3>1, <3>2
    <2>7. Fine(t)
      BY <2>1, <2>5, <2>6 DEF Passed, Turns, Placed, Finishing, Waiting
    <2> QED
      BY <1>1, <2>1, <2>7
  <1>16. ASSUME NEW m, Kill(m) \/ Restart(m) \/ Erase(m) \/ UNCHANGED vars, NEW u \in Threads
         PROVE  Fine(u)
    BY <1>0, <1>16, EnvironmentEffect, ProbeKept, ProbeEnds
  <1> HIDE DEF Fine
  <1> QED
    BY NextCases, <1>5, <1>6, <1>7, <1>8, <1>10, <1>11, <1>12, <1>13, <1>14, <1>15, <1>16

\* A loop that ran out of turns has seen another hash in every entry.
LEMMA OutOfTurns ==
    ASSUME IInv, NEW t \in Threads, left[t] <= 1,
           \/ pc[t] = "load" /\ hashes[at[t]] # None /\ hashes[at[t]] # MyHash(t)
           \/ pc[t] \in {"claim", "record"}
    PROVE  Crowded(t)
  <1> DEFINE k == Home[MyHash(t)]
  <1>0. /\ Passed(t) /\ Turns(t) /\ at[t] \in Entries /\ left[t] \in Nat
        /\ pc[t] \in Probing \cup {"record"}
        /\ pc[t] \in {"claim", "record"} => Interns(t)
    BY WorkTypes, TableAssumption DEF IInv, Probes, Probing, FinderWaits
  <1>1. k \in Entries /\ TableLen \in Nat /\ TableLen > 0
    BY <1>0, CallType, TableAssumption DEF IInv, Busy, Probing
  <1>2. /\ Far(t) \in 0 .. TableLen - 1
        /\ \A j \in Entries : /\ Dist(k, j) \in 0 .. TableLen - 1
                              /\ Dist(k, j) = Far(t) => j = at[t]
    BY <1>0, <1>1, DistFacts DEF Far
  <1>3. CASE Enough(t)
    <2>1. pc[t] = "load" /\ Far(t) = TableLen - 1
      BY <1>0, <1>1, <1>2, <1>3 DEF Enough
    <2>2. ASSUME NEW j \in Entries PROVE hashes[j] # None /\ hashes[j] # MyHash(t)
      <3>1. CASE Dist(k, j) = Far(t)
        BY <1>2, <2>1, <3>1
      <3>2. CASE Dist(k, j) < Far(t)
        BY <1>0, <3>2 DEF Passed, Before
      <3> QED
        BY <1>1, <1>2, <2>1, <3>1, <3>2
    <2> QED
      BY <2>2 DEF Crowded
  <1> QED
    BY <1>0, <1>3 DEF Turns

--------------------------------------------------------------------------------
(* Values. *)

\* The value of a hash is the one in its entry, or none.
LEMMA ValueOf ==
    ASSUME OneEntry, NEW i \in Entries, hashes[i] # None
    PROVE  Value(hashes[i]) = ids[i]
  <1> DEFINE c == CHOOSE j \in Entries : hashes[j] = hashes[i]
  <1>1. c \in Entries /\ hashes[c] = hashes[i]
    OBVIOUS
  <1>2. c = i
    BY <1>1 DEF OneEntry
  <1> QED
    BY <1>2 DEF Value

LEMMA ValueOfNext ==
    ASSUME OneEntry', NEW i \in Entries, hashes'[i] # None
    PROVE  Value(hashes[i])' = ids'[i]
  <1> DEFINE c == CHOOSE j \in Entries : hashes'[j] = hashes'[i]
  <1>1. c \in Entries /\ hashes'[c] = hashes'[i]
    OBVIOUS
  <1>2. c = i
    BY <1>1 DEF OneEntry
  <1> QED
    BY <1>2 DEF Value

LEMMA ValueEntry ==
    ASSUME NEW h \in Hashes, Value(h) # 0
    PROVE  \E i \in Entries : hashes[i] = h /\ ids[i] = Value(h) /\ h # None
  <1>1. \E i \in Entries : hashes[i] = h
    BY DEF Value, ID_UNPUBLISHED
  <1> DEFINE c == CHOOSE i \in Entries : hashes[i] = h
  <1>2. c \in Entries /\ hashes[c] = h
    BY <1>1
  <1>3. Value(h) = ids[c]
    BY <1>1 DEF Value
  <1> QED
    BY <1>2, <1>3, TableAssumption

LEMMA NoValue ==
    ASSUME NEW h, \A i \in Entries : hashes[i] # h
    PROVE  Value(h) = 0
  BY DEF Value, ID_UNPUBLISHED

\* Published values stay.
IdsGrow == \A i \in Entries : ids[i] # 0 => ids'[i] = ids[i]

LEMMA ValueStays ==
    ASSUME OneEntry', Grows, IdsGrow, NEW h \in Hashes, Value(h) # 0
    PROVE  Value(h)' = Value(h)
  <1>1. PICK i \in Entries : hashes[i] = h /\ ids[i] = Value(h) /\ h # None
    BY ValueEntry
  <1>2. hashes'[i] = h /\ ids'[i] = Value(h)
    BY <1>1 DEF Grows, IdsGrow
  <1>3. Value(hashes[i])' = ids'[i]
    BY <1>1, <1>2, ValueOfNext
  <1> QED
    BY <1>2, <1>3 DEF Value

LEMMA PublishTypes ==
    ASSUME IInv, NEW t \in Threads, ids' = [ids EXCEPT ![at[t]] = mine[t]]
    PROVE  /\ at[t] \in Entries /\ ids'[at[t]] = mine[t]
           /\ \A i \in Entries \ {at[t]} : ids'[i] = ids[i]
  BY DEF IInv, TypeOK

LEMMA StepBlank == IInv /\ [Next]_vars => Blank' /\ IdsGrow
  <1> SUFFICES ASSUME IInv, [Next]_vars PROVE Blank' /\ IdsGrow
    OBVIOUS
  <1>0. TypeOK /\ Tables /\ Blank /\ Grows
    BY StepEntries DEF IInv
  <1>1. CASE UNCHANGED ids
    BY <1>0, <1>1 DEF Blank, IdsGrow, Grows
  <1>2. ASSUME NEW t \in Threads, Publish(t) PROVE Blank' /\ IdsGrow
    <2>1. pc[t] = "publish" /\ UNCHANGED hashes
      BY <1>0, <1>2, PublishEffect
    <2>2. hashes[at[t]] = MyHash(t) /\ MyHash(t) # None
      BY <2>1, CallType DEF IInv, Probes, Placed, Finishing, Busy
    <2>3. CASE ids[at[t]] = ID_UNPUBLISHED /\ ids' = [ids EXCEPT ![at[t]] = mine[t]]
      <3>1. at[t] \in Entries /\ \A i \in Entries \ {at[t]} : ids'[i] = ids[i]
        BY <2>3, PublishTypes
      <3> QED
        BY <1>0, <2>1, <2>2, <2>3, <3>1 DEF Blank, IdsGrow, ID_UNPUBLISHED
    <2> QED
      BY <1>0, <1>1, <1>2, <2>3, PublishEffect
  <1>3. ASSUME NEW t \in Threads, \/ LoadHash(t) \/ CheckCount(t) \/ ClaimHash(t)
                                  \/ RecordClaim(t) \/ Wait(t)
        PROVE  UNCHANGED ids
    BY <1>0, <1>3, LoadHashEffect, CheckCountEffect, ClaimHashEffect, RecordClaimEffect,
       WaitEffect DEF Fixed
  <1>4. ASSUME NEW t \in Threads, Alloc(t) \/ Undo(t) \/ WriteRecord(t) PROVE UNCHANGED ids
    BY <1>0, <1>4, AllocEffect, UndoEffect, WriteRecordEffect
  <1>5. ASSUME NEW t \in Threads, NEW op, NEW n, Call(t, op, n) PROVE UNCHANGED ids
    BY <1>5 DEF Call, table
  <1>6. ASSUME NEW m, Kill(m) \/ Restart(m) \/ Erase(m) \/ UNCHANGED vars PROVE UNCHANGED ids
    BY <1>0, <1>6, EnvironmentEffect DEF Fixed
  <1> QED
    BY NextCases, <1>1, <1>2, <1>3, <1>4, <1>5, <1>6

\* Whoever finds no value began without one.
LEMMA BeganWithout ==
    ASSUME IInv, NEW t \in Threads, Busy(t), Value(MyHash(t)) = 0
    PROVE  call[t].known = 0
  BY DEF IInv, Known

LEMMA EntryValue ==
    ASSUME IInv, NEW t \in Threads, pc[t] \in {"record"} \cup Finishing \cup Waiting
    PROVE  Value(MyHash(t)) = ids[at[t]] /\ MyHash(t) # None
  <1>1. hashes[at[t]] = MyHash(t) /\ at[t] \in Entries
    BY WorkTypes DEF IInv, Probes, Placed
  <1>2. MyHash(t) # None
    BY CallType DEF IInv, Busy, Finishing, Waiting
  <1> QED
    BY <1>1, <1>2, ValueOf DEF IInv

LEMMA StepKnown == IInv /\ [Next]_vars => Known'
  <1> SUFFICES ASSUME IInv, [Next]_vars PROVE Known'
    OBVIOUS
  <1> DEFINE Fine(u) == Busy(u)' => /\ call'[u].known # 0 => Value(MyHash(u))' = call'[u].known
                                    /\ pc'[u] \notin {"load", "wait"} => call'[u].known = 0
  <1> SUFFICES \A u \in Threads : Fine(u)
    BY DEF Known
  <1>0. TypeOK /\ Tables /\ Known /\ Grows /\ IdsGrow /\ OneEntry'
    BY StepEntries, StepBlank DEF IInv
  <1>1. ASSUME NEW u \in Threads, Busy(u), call'[u] = call[u]
        PROVE  call'[u].known # 0 => Value(MyHash(u))' = call'[u].known
    <2>1. MyHash(u)' = MyHash(u) /\ MyHash(u) \in Hashes
      BY <1>1, CallType DEF MyHash, IInv
    <2>2. call[u].known # 0 => Value(MyHash(u)) = call[u].known
      BY <1>0, <1>1 DEF Known
    <2>3. Value(MyHash(u)) # 0 => Value(MyHash(u))' = Value(MyHash(u))
      <3>1. ASSUME NEW h \in Hashes, Value(h) # 0 PROVE Value(h)' = Value(h)
        BY <1>0, <3>1, ValueStays
      <3> QED
        BY <2>1, <3>1 DEF Value
    <2> QED
      BY <1>1, <2>2, <2>3
  <1>2. ASSUME NEW t \in Threads, Still(t), Fine(t) PROVE \A u \in Threads : Fine(u)
    <2>1. ASSUME NEW u \in Threads \ {t} PROVE Fine(u)
      BY <1>0, <1>1, <1>2, <2>1 DEF Still, Busy, Known
    <2> QED
      BY <1>2, <2>1
  <1>3. ASSUME NEW t \in Threads, NEW r, Leaves(t, r) PROVE \A u \in Threads : Fine(u)
    BY <1>2, <1>3 DEF Leaves, Busy
  <1>4. ASSUME NEW t \in Threads, Busy(t), NEW l, Goes(t, l),
               l \notin {"load", "wait"} => call[t].known = 0
        PROVE  \A u \in Threads : Fine(u)
    <2>1. Fine(t)
      BY <1>1, <1>4 DEF Goes
    <2> QED
      BY <1>2, <1>4, <2>1 DEF Goes
  <1>5. ASSUME NEW t \in Threads, Busy(t), NEW i, Turned(t, i) PROVE \A u \in Threads : Fine(u)
    <2>1. CASE Still(t) /\ pc'[t] = "load" /\ call'[t] = call[t]
      BY <1>1, <1>2, <1>5, <2>1
    <2> QED
      BY <1>3, <1>5, <2>1 DEF Turned
  <1>6. ASSUME NEW t \in Threads, Busy(t), pc[t] \notin {"load", "wait"} PROVE call[t].known = 0
    BY <1>0, <1>6 DEF Known
  <1>7. ASSUME NEW t \in Threads, LoadHash(t) PROVE \A u \in Threads : Fine(u)
    <2>0. pc[t] = "load" /\ Busy(t)
      BY <1>0, <1>7, LoadHashEffect DEF Busy
    <2>1. hashes[at[t]] = None => call[t].known = 0
      BY <2>0, NotThereYet, NoValue, BeganWithout DEF Probing
    <2> QED
      BY <1>0, <1>3, <1>4, <1>5, <1>7, <2>0, <2>1, LoadHashEffect
  <1>8. ASSUME NEW t \in Threads, CheckCount(t) PROVE \A u \in Threads : Fine(u)
    <2>0. pc[t] = "count" /\ Busy(t)
      BY <1>0, <1>8, CheckCountEffect DEF Busy
    <2> QED
      BY <1>0, <1>3, <1>4, <1>6, <1>8, <2>0, CheckCountEffect
  <1>9. ASSUME NEW t \in Threads, ClaimHash(t) PROVE \A u \in Threads : Fine(u)
    <2>0. pc[t] = "claim" /\ Busy(t)
      BY <1>0, <1>9, ClaimHashEffect DEF Busy
    <2> QED
      BY <1>0, <1>4, <1>5, <1>6, <1>9, <2>0, ClaimHashEffect
  <1>10. ASSUME NEW t \in Threads, RecordClaim(t) PROVE \A u \in Threads : Fine(u)
    <2>0. pc[t] = "record" /\ Busy(t)
      BY <1>0, <1>10, RecordClaimEffect DEF Busy
    <2> QED
      BY <1>0, <1>4, <1>5, <1>6, <1>10, <2>0, RecordClaimEffect
  <1>11. ASSUME NEW t \in Threads, Alloc(t) PROVE \A u \in Threads : Fine(u)
    <2>0. pc[t] = "alloc" /\ Busy(t)
      BY <1>0, <1>11, AllocEffect DEF Busy
    <2> QED
      BY <1>0, <1>4, <1>6, <1>11, <2>0, AllocEffect
  <1>12. ASSUME NEW t \in Threads, Undo(t) PROVE \A u \in Threads : Fine(u)
    <2>0. pc[t] = "undo" /\ Busy(t)
      BY <1>0, <1>12, UndoEffect DEF Busy
    <2> QED
      BY <1>0, <1>4, <1>6, <1>12, <2>0, UndoEffect
  <1>13. ASSUME NEW t \in Threads, WriteRecord(t) PROVE \A u \in Threads : Fine(u)
    <2>0. pc[t] = "write" /\ Busy(t)
      BY <1>0, <1>13, WriteRecordEffect DEF Busy
    <2> QED
      BY <1>0, <1>4, <1>6, <1>13, <2>0, WriteRecordEffect
  <1>14. ASSUME NEW t \in Threads, Publish(t) PROVE \A u \in Threads : Fine(u)
    BY <1>0, <1>3, <1>14, PublishEffect
  <1>15. ASSUME NEW t \in Threads, Wait(t) PROVE \A u \in Threads : Fine(u)
    <2>0. pc[t] \in Waiting /\ Busy(t)
      BY <1>0, <1>15, WaitEffect DEF Busy, Waiting
    <2>1. ids[at[t]] = ID_UNPUBLISHED => call[t].known = 0
      BY <2>0, EntryValue, BeganWithout DEF ID_UNPUBLISHED
    <2>2. \/ \E r : Leaves(t, r)
          \/ Goes(t, "wait")
          \/ \E l : Goes(t, l) /\ (pc[t] # "wait" \/ ids[at[t]] = ID_UNPUBLISHED)
      BY <1>0, <1>15, WaitEffect
    <2> QED
      BY <1>3, <1>4, <1>6, <2>0, <2>1, <2>2 DEF Waiting
  <1>16. ASSUME NEW t \in Threads, NEW op \in {"intern", "find"}, NEW n \in Names, Call(t, op, n)
         PROVE  \A u \in Threads : Fine(u)
    <2>1. /\ Still(t) /\ pc'[t] = "load" /\ UNCHANGED <<hashes, ids>>
          /\ call'[t] = [op |-> op, name |-> n, known |-> Value(Hash[n])]
      BY <1>0, <1>16, CallEffect DEF Fixed
    <2>2. Value(MyHash(t))' = Value(Hash[n])
      BY <2>1 DEF MyHash, Value, Entries
    <2>3. Fine(t)
      BY <2>1, <2>2
    <2> QED
      BY <1>2, <2>1, <2>3
  <1>17. ASSUME NEW m, Kill(m) \/ Restart(m) \/ Erase(m) \/ UNCHANGED vars, NEW u \in Threads
         PROVE  Fine(u)
    <2>1. CASE pc'[u] = pc[u] /\ call'[u] = call[u]
      BY <1>0, <1>1, <2>1 DEF Busy, Known
    <2>2. CASE pc'[u] \in {"dead", "idle"}
      BY <2>2 DEF Busy
    <2> QED
      BY <1>0, <1>17, <2>1, <2>2, EnvironmentEffect
  <1> HIDE DEF Fine
  <1> QED
    BY NextCases, <1>7, <1>8, <1>9, <1>10, <1>11, <1>12, <1>13, <1>14, <1>15, <1>16, <1>17

--------------------------------------------------------------------------------
(* The allocator. *)

\* Who is about to take its count back was counted past the capacity.
LEMMA LosersMove ==
    ASSUME IInv, [Next]_vars
    PROVE  \/ UNCHANGED frame_count /\ Losers' \subseteq Losers
           \/ \E t \in Threads : /\ frame_count >= Capacity /\ frame_count' = frame_count + 1
                                 /\ Losers' = Losers \cup {t} /\ t \notin Losers
           \/ frame_count < Capacity /\ frame_count' = frame_count + 1 /\ Losers' = Losers
           \/ \E t \in Losers : frame_count' = frame_count - 1 /\ Losers' = Losers \ {t}
  <1>0. TypeOK /\ Tables
    BY DEF IInv
  <1>1. ASSUME NEW t \in Threads, Still(t), pc'[t] # "undo" PROVE Losers' \subseteq Losers
    BY <1>1 DEF Still, Losers
  <1>2. ASSUME NEW t \in Threads, LoadHash(t) \/ CheckCount(t) \/ ClaimHash(t) \/ RecordClaim(t)
        PROVE  UNCHANGED frame_count /\ Losers' \subseteq Losers
    <2>1. UNCHANGED frame_count /\ Still(t) /\ pc'[t] # "undo"
      BY <1>0, <1>2, LoadHashEffect, CheckCountEffect, ClaimHashEffect, RecordClaimEffect
         DEF Fixed, Goes, Leaves, Turned
    <2> QED
      BY <1>1, <2>1
  <1>3. ASSUME NEW t \in Threads, WriteRecord(t) \/ Publish(t) \/ Wait(t)
        PROVE  UNCHANGED frame_count /\ Losers' \subseteq Losers
    <2>1. UNCHANGED frame_count /\ Still(t) /\ pc'[t] # "undo"
      BY <1>0, <1>3, WriteRecordEffect, PublishEffect, WaitEffect DEF Fixed, Goes, Leaves
    <2> QED
      BY <1>1, <2>1
  <1>4. ASSUME NEW t \in Threads, NEW op, NEW n, Call(t, op, n)
        PROVE  UNCHANGED frame_count /\ Losers' \subseteq Losers
    <2>1. UNCHANGED frame_count /\ Still(t) /\ pc'[t] # "undo"
      BY <1>0, <1>4, CallEffect DEF Fixed
    <2> QED
      BY <1>1, <2>1
  <1>5. ASSUME NEW m, Kill(m) \/ Restart(m) \/ Erase(m) \/ UNCHANGED vars
        PROVE  UNCHANGED frame_count /\ Losers' \subseteq Losers
    BY <1>0, <1>5, EnvironmentEffect DEF Fixed, Losers
  <1>6. ASSUME NEW t \in Threads, Alloc(t)
        PROVE  /\ frame_count' = frame_count + 1
               /\ \/ frame_count >= Capacity /\ Losers' = Losers \cup {t} /\ t \notin Losers
                  \/ frame_count < Capacity /\ Losers' = Losers
    <2>1. pc[t] = "alloc" /\ frame_count' = frame_count + 1
      BY <1>0, <1>6, AllocEffect
    <2>2. CASE frame_count >= Capacity /\ Goes(t, "undo")
      BY <2>1, <2>2 DEF Goes, Still, Losers
    <2>3. CASE frame_count < Capacity /\ Goes(t, "write")
      BY <2>1, <2>3 DEF Goes, Still, Losers
    <2> QED
      BY <1>0, <1>6, <2>1, <2>2, <2>3, AllocEffect
  <1>7. ASSUME NEW t \in Threads, Undo(t)
        PROVE  t \in Losers /\ frame_count' = frame_count - 1 /\ Losers' = Losers \ {t}
    BY <1>0, <1>7, UndoEffect DEF Goes, Still, Losers
  <1> QED
    BY NextCases, <1>2, <1>3, <1>4, <1>5, <1>6, <1>7

LEMMA StepCounted == IInv /\ [Next]_vars => Counted' /\ (Full => Full')
  <1> SUFFICES ASSUME IInv, [Next]_vars PROVE Counted' /\ (Full => Full')
    OBVIOUS
  <1>0. /\ IsFiniteSet(Losers) /\ frame_count \in Nat /\ Capacity \in Nat
        /\ Cardinality(Losers) \in Nat /\ (frame_count >= Capacity => Full)
        /\ \A t \in Losers : Full
    BY FS_CardinalityType, TableAssumption DEF IInv, Counted, TypeOK, FailedWhenFull, Losers
  <1>1. CASE UNCHANGED frame_count /\ Losers' \subseteq Losers
    <2>1. IsFiniteSet(Losers') /\ Cardinality(Losers') <= Cardinality(Losers)
      BY <1>0, <1>1, FS_Subset
    <2>2. Cardinality(Losers') \in Nat
      BY <2>1, FS_CardinalityType
    <2>3. Full => Full'
      BY <1>0, <1>1, <2>1, <2>2 DEF Full
    <2> QED
      BY <1>0, <1>1, <2>1, <2>3 DEF Counted
  <1>2. CASE \E t \in Threads : /\ frame_count >= Capacity /\ frame_count' = frame_count + 1
                                /\ Losers' = Losers \cup {t} /\ t \notin Losers
    <2>1. IsFiniteSet(Losers') /\ Cardinality(Losers') = Cardinality(Losers) + 1
      BY <1>0, <1>2, FS_AddElement
    <2>2. Full'
      BY <1>0, <1>2, <2>1 DEF Full
    <2> QED
      BY <2>1, <2>2 DEF Counted
  <1>3. CASE frame_count < Capacity /\ frame_count' = frame_count + 1 /\ Losers' = Losers
    <2>1. ~Full
      BY <1>0, <1>3 DEF Full
    <2>2. Losers = {}
      BY <1>0, <2>1
    <2>3. Cardinality(Losers') = 0
      BY <1>3, <2>2, FS_EmptySet
    <2>4. IsFiniteSet(Losers')
      BY <1>0, <1>3
    <2> QED
      BY <1>0, <2>1, <2>3, <2>4 DEF Counted, Full
  <1>4. CASE \E t \in Losers : frame_count' = frame_count - 1 /\ Losers' = Losers \ {t}
    <2>1. IsFiniteSet(Losers') /\ Cardinality(Losers') = Cardinality(Losers) - 1
      BY <1>0, <1>4, FS_RemoveElement
    <2>2. Full
      BY <1>0, <1>4
    <2>3. Full'
      BY <1>0, <1>4, <2>1, <2>2 DEF Full
    <2> QED
      BY <2>1, <2>3 DEF Counted
  <1> QED
    BY <1>1, <1>2, <1>3, <1>4, LosersMove

\* What a thread is told, and what it is about to say, of a full table.
LEMMA FailedAnswer ==
    ASSUME NEW t, NEW v, Resolved(t, v).status = "capacity"
    PROVE  v = ID_FAILED
  BY DEF Resolved, Status, Ok

LEMMA StepFailed == IInv /\ [Next]_vars => FailedWhenFull' /\ SaidFull'
  <1> SUFFICES ASSUME IInv, [Next]_vars PROVE FailedWhenFull' /\ SaidFull'
    OBVIOUS
  <1>0. TypeOK /\ Tables /\ FailedWhenFull /\ SaidFull /\ Grows /\ (Full => Full')
        /\ (frame_count >= Capacity => Full)
    BY StepEntries, StepCounted DEF IInv, Counted
  <1>a. FullTable => FullTable'
    BY <1>0 DEF Grows, FullTable
  <1> DEFINE Fine(u) ==
        /\ pc'[u] = "undo" \/ (pc'[u] = "publish" /\ mine'[u] = ID_FAILED) => Full'
        /\ pc'[u] = "write" => mine'[u] # ID_FAILED
        /\ answer'[u].status = "capacity" => Full' \/ FullTable'
      Sound == \A i \in Entries : ids'[i] = ID_FAILED => Full'
  <1> SUFFICES Sound /\ \A u \in Threads : Fine(u)
    BY DEF FailedWhenFull, SaidFull
  <1>1. ASSUME UNCHANGED ids PROVE Sound
    BY <1>0, <1>1 DEF FailedWhenFull
  <1>2. ASSUME NEW u \in Threads, pc'[u] = pc[u], mine'[u] = mine[u], answer'[u] = answer[u]
        PROVE  Fine(u)
    BY <1>0, <1>a, <1>2 DEF FailedWhenFull, SaidFull
  <1>3. ASSUME NEW t \in Threads, Still(t), Fine(t) PROVE \A u \in Threads : Fine(u)
    BY <1>2, <1>3 DEF Still
  <1>4. ASSUME NEW t \in Threads, NEW r, Leaves(t, r), r.status = "capacity" => Full \/ FullTable
        PROVE  \A u \in Threads : Fine(u)
    BY <1>0, <1>a, <1>3, <1>4 DEF Leaves
  <1>5. ASSUME NEW t \in Threads, NEW l, Goes(t, l), l \notin {"undo", "write", "publish"}
        PROVE  \A u \in Threads : Fine(u)
    <2>1. Fine(t)
      BY <1>0, <1>a, <1>5 DEF Goes, SaidFull
    <2> QED
      BY <1>3, <1>5, <2>1 DEF Goes
  <1>6. ASSUME NEW t \in Threads, NEW i, Turned(t, i),
               \/ pc[t] = "load" /\ hashes[at[t]] # None /\ hashes[at[t]] # MyHash(t)
               \/ pc[t] \in {"claim", "record"}
        PROVE  \A u \in Threads : Fine(u)
    <2>1. CASE Still(t) /\ pc'[t] = "load" /\ answer'[t] = answer[t]
      <3>1. Fine(t)
        BY <1>0, <1>a, <2>1 DEF SaidFull
      <3> QED
        BY <1>3, <2>1, <3>1
    <2>2. CASE left[t] <= 1 /\ \E r : Leaves(t, r)
      <3>1. FullTable
        <4>1. MyHash(t) \in Hashes
          BY <1>6, CallType DEF IInv, Busy
        <4> QED
          BY <1>6, <2>2, <4>1, OutOfTurns DEF Crowded, FullTable
      <3> QED
        BY <1>4, <2>2, <3>1
    <2> QED
      BY <1>6, <2>1, <2>2 DEF Turned
  <1>7. ASSUME NEW t \in Threads, LoadHash(t) PROVE Sound /\ \A u \in Threads : Fine(u)
    <2>1. Status("absent").status # "capacity"
      BY DEF Status
    <2> HIDE DEF Fine, Sound
    <2> QED
      BY <1>0, <1>1, <1>4, <1>5, <1>6, <1>7, <2>1, LoadHashEffect DEF Fixed
  <1>8. ASSUME NEW t \in Threads, CheckCount(t) PROVE Sound /\ \A u \in Threads : Fine(u)
    <2> HIDE DEF Fine, Sound
    <2> QED
      BY <1>0, <1>1, <1>4, <1>5, <1>8, CheckCountEffect DEF Fixed
  <1>9. ASSUME NEW t \in Threads, ClaimHash(t) PROVE Sound /\ \A u \in Threads : Fine(u)
    <2> HIDE DEF Fine, Sound
    <2> QED
      BY <1>0, <1>1, <1>5, <1>6, <1>9, ClaimHashEffect
  <1>10. ASSUME NEW t \in Threads, RecordClaim(t) PROVE Sound /\ \A u \in Threads : Fine(u)
    <2> HIDE DEF Fine, Sound
    <2> QED
      BY <1>0, <1>1, <1>5, <1>6, <1>10, RecordClaimEffect DEF Fixed
  <1>11. ASSUME NEW t \in Threads, Alloc(t) PROVE Sound /\ \A u \in Threads : Fine(u)
    <2>0. Sound
      BY <1>0, <1>1, <1>11, AllocEffect
    <2>1. CASE frame_count >= Capacity /\ Goes(t, "undo")
      <3>1. Fine(t)
        BY <1>0, <1>a, <2>1 DEF Goes, SaidFull
      <3> QED
        BY <1>3, <2>0, <2>1, <3>1 DEF Goes
    <2>2. CASE frame_count < Capacity /\ Goes(t, "write") /\ mine'[t] = frame_count + 1
      <3>1. frame_count + 1 # ID_FAILED
        BY <1>0, <2>2, TableAssumption DEF TypeOK, ID_FAILED
      <3>2. Fine(t)
        BY <1>0, <1>a, <2>2, <3>1 DEF Goes, SaidFull
      <3> QED
        BY <1>3, <2>0, <2>2, <3>2 DEF Goes
    <2> QED
      BY <1>0, <1>11, <2>1, <2>2, AllocEffect
  <1>12. ASSUME NEW t \in Threads, Undo(t) PROVE Sound /\ \A u \in Threads : Fine(u)
    <2>0. Sound /\ pc[t] = "undo" /\ Goes(t, "publish")
      BY <1>0, <1>1, <1>12, UndoEffect
    <2>1. Fine(t)
      BY <1>0, <1>a, <2>0 DEF Goes, SaidFull, FailedWhenFull
    <2> QED
      BY <1>3, <2>0, <2>1 DEF Goes
  <1>13. ASSUME NEW t \in Threads, WriteRecord(t) PROVE Sound /\ \A u \in Threads : Fine(u)
    <2>0. Sound /\ pc[t] = "write" /\ Goes(t, "publish") /\ mine'[t] = mine[t]
      BY <1>0, <1>1, <1>13, WriteRecordEffect
    <2>1. Fine(t)
      BY <1>0, <1>a, <2>0 DEF Goes, SaidFull, FailedWhenFull
    <2> QED
      BY <1>3, <2>0, <2>1 DEF Goes
  <1>14. ASSUME NEW t \in Threads, Publish(t) PROVE Sound /\ \A u \in Threads : Fine(u)
    <2>0. pc[t] = "publish" /\ at[t] \in Entries
      BY <1>0, <1>14, PublishEffect, WorkTypes
    <2>1. CASE Leaves(t, Resolved(t, mine[t])) /\ ids' = [ids EXCEPT ![at[t]] = mine[t]]
      <3>1. mine[t] = ID_FAILED => Full
        BY <1>0, <2>0 DEF FailedWhenFull
      <3>2. Sound
        BY <1>0, <2>1, <3>1, PublishTypes DEF FailedWhenFull
      <3>3. Resolved(t, mine[t]).status = "capacity" => Full
        BY <3>1, FailedAnswer
      <3> HIDE DEF Sound, Fine
      <3> QED
        BY <1>4, <2>1, <3>2, <3>3
    <2>2. CASE Leaves(t, Resolved(t, ids[at[t]])) /\ UNCHANGED ids
      <3>1. Resolved(t, ids[at[t]]).status = "capacity" => Full
        BY <1>0, <2>0, FailedAnswer DEF FailedWhenFull
      <3> HIDE DEF Sound, Fine
      <3> QED
        BY <1>1, <1>4, <2>2, <3>1
    <2> QED
      BY <1>0, <1>14, <2>1, <2>2, PublishEffect
  <1>15. ASSUME NEW t \in Threads, Wait(t) PROVE Sound /\ \A u \in Threads : Fine(u)
    <2>0. UNCHANGED ids /\ at[t] \in Entries
      BY <1>0, <1>15, WaitEffect, WorkTypes DEF Fixed
    <2>1. \/ Leaves(t, Resolved(t, ids[at[t]]))
          \/ Leaves(t, Status("contended"))
          \/ Leaves(t, Status("absent"))
          \/ \E l : Goes(t, l) /\ l \notin {"undo", "write", "publish"}
      BY <1>0, <1>15, WaitEffect
    <2>2. Resolved(t, ids[at[t]]).status = "capacity" => Full
      BY <1>0, <2>0, FailedAnswer DEF FailedWhenFull
    <2>3. Status("contended").status # "capacity" /\ Status("absent").status # "capacity"
      BY DEF Status
    <2> HIDE DEF Sound, Fine
    <2> QED
      BY <1>1, <1>4, <1>5, <2>0, <2>1, <2>2, <2>3
  <1>16. ASSUME NEW t \in Threads, NEW op \in {"intern", "find"}, NEW n \in Names, Call(t, op, n)
         PROVE  Sound /\ \A u \in Threads : Fine(u)
    <2>1. Still(t) /\ pc'[t] = "load" /\ UNCHANGED ids /\ answer'[t] = Status("none")
      BY <1>0, <1>16, CallEffect DEF Fixed
    <2>2. Fine(t)
      BY <2>1 DEF Status
    <2> QED
      BY <1>1, <1>3, <2>1, <2>2
  <1>17. ASSUME NEW m, Kill(m) \/ Restart(m) \/ Erase(m) \/ UNCHANGED vars
         PROVE  Sound /\ \A u \in Threads : Fine(u)
    <2>1. ASSUME NEW u \in Threads PROVE Fine(u)
      <3>1. CASE pc'[u] = "dead" /\ answer'[u] = Status("none")
        BY <3>1 DEF Status
      <3>2. CASE pc'[u] = "idle" /\ answer'[u] = answer[u]
        BY <1>0, <1>a, <3>2 DEF SaidFull
      <3> HIDE DEF Fine
      <3> QED
        BY <1>0, <1>2, <1>17, <3>1, <3>2, EnvironmentEffect
    <2> QED
      BY <1>0, <1>1, <1>17, <2>1, EnvironmentEffect DEF Fixed
  <1> HIDE DEF Fine, Sound
  <1> QED
    BY NextCases, <1>7, <1>8, <1>9, <1>10, <1>11, <1>12, <1>13, <1>14, <1>15, <1>16, <1>17
--------------------------------------------------------------------------------
(* Ids. *)

\* The ids of the threads and of the table stay, or some are lost with a thread.
LEMMA IdsKept ==
    ASSUME IInv, Grows, UNCHANGED <<ids, records>>, frame_count' \in Nat,
           frame_count' >= frame_count \/ frame_count' >= Capacity,
           \A u \in Threads : HasId(u)' => /\ HasId(u) /\ mine'[u] = mine[u] /\ call'[u] = call[u]
                                           /\ pc'[u] = pc[u]
    PROVE  Given' /\ Distinct' /\ Written'
  <1>0. Given /\ Distinct /\ Written /\ Blank /\ Capacity \in Nat /\ frame_count \in Nat
    BY TableAssumption DEF IInv, TypeOK
  <1>1. Given'
    <2>1. ASSUME NEW v \in 1 .. Capacity, v <= frame_count PROVE v <= frame_count'
      BY <1>0, <2>1
    <2> QED
      BY <1>0, <2>1 DEF Given
  <1>2. Distinct'
    BY <1>0 DEF Distinct
  <1>3. ASSUME NEW i \in Entries, ids'[i] \in 1 .. Capacity
        PROVE  \E n \in Names : Hash[n] = hashes'[i] /\ records'[ids'[i]] = Stored[n]
    <2>1. ids[i] \in 1 .. Capacity /\ ids[i] # ID_UNPUBLISHED
      BY <1>0, <1>3 DEF ID_UNPUBLISHED
    <2>2. hashes'[i] = hashes[i]
      BY <1>0, <2>1 DEF Blank, Grows
    <2> QED
      BY <1>0, <2>1, <2>2 DEF Written
  <1>4. Written'
    BY <1>0, <1>3 DEF Written
  <1> QED
    BY <1>1, <1>2, <1>4

LEMMA IdsStill ==
    ASSUME IInv, Grows, UNCHANGED <<ids, records>>, frame_count' \in Nat,
           frame_count' >= frame_count \/ frame_count' >= Capacity,
           NEW t \in Threads, Still(t), ~HasId(t)'
    PROVE  Given' /\ Distinct' /\ Written'
  BY IdsKept DEF Still, HasId

LEMMA StepGiven == IInv /\ [Next]_vars => Given' /\ Distinct' /\ Written'
  <1> SUFFICES ASSUME IInv, [Next]_vars PROVE Given' /\ Distinct' /\ Written'
    OBVIOUS
  <1>0. /\ TypeOK /\ Tables /\ Given /\ Distinct /\ Written /\ Blank /\ Grows
        /\ Capacity \in Nat /\ frame_count \in Nat /\ frame_count' \in Nat
        /\ \A u \in Threads : mine[u] \in 0 .. ID_FAILED /\ at[u] \in Entries
        /\ \A i \in Entries : ids[i] \in 0 .. ID_FAILED
    BY StepEntries, StepTypes, TableAssumption DEF IInv, TypeOK
  <1>1. ASSUME NEW t \in Threads, Still(t), pc'[t] \notin {"write", "publish"}, Fixed
        PROVE  Given' /\ Distinct' /\ Written'
    <2>1. ~HasId(t)'
      BY <1>1 DEF HasId
    <2> QED
      BY <1>0, <1>1, <2>1, IdsStill DEF Fixed
  <1>2. ASSUME NEW t \in Threads, LoadHash(t) \/ CheckCount(t) \/ RecordClaim(t) \/ Wait(t)
        PROVE  Given' /\ Distinct' /\ Written'
    <2>1. Fixed
      BY <1>0, <1>2, LoadHashEffect, CheckCountEffect, RecordClaimEffect, WaitEffect
    <2>2. Still(t) /\ pc'[t] \notin {"write", "publish"}
      BY <1>0, <1>2, LoadHashEffect, CheckCountEffect, RecordClaimEffect, WaitEffect
         DEF Goes, Leaves, Turned
    <2> QED
      BY <1>1, <2>1, <2>2
  <1>3. ASSUME NEW t \in Threads, ClaimHash(t) PROVE Given' /\ Distinct' /\ Written'
    <2>1. /\ UNCHANGED <<ids, frame_count, records>> /\ Still(t)
          /\ pc'[t] \notin {"write", "publish"}
      BY <1>0, <1>3, ClaimHashEffect DEF Goes, Leaves, Turned
    <2>2. ~HasId(t)'
      BY <2>1 DEF HasId
    <2> QED
      BY <1>0, <2>1, <2>2, IdsStill
  <1>4. ASSUME NEW t \in Threads, Alloc(t) PROVE Given' /\ Distinct' /\ Written'
    <2>0. UNCHANGED <<hashes, ids, records>> /\ frame_count' = frame_count + 1
      BY <1>0, <1>4, AllocEffect
    <2>1. CASE Goes(t, "undo")
      <3>1. ~HasId(t)' /\ Still(t)
        BY <2>1 DEF HasId, Goes
      <3> QED
        BY <1>0, <2>0, <3>1, IdsStill
    <2>2. CASE frame_count < Capacity /\ Goes(t, "write") /\ mine'[t] = frame_count + 1
      <3>1. mine'[t] \in 1 .. Capacity /\ mine'[t] <= frame_count' /\ pc'[t] = "write"
        BY <1>0, <2>0, <2>2 DEF Goes
      <3>2. ASSUME NEW u \in Threads \ {t}, HasId(u)'
            PROVE  /\ HasId(u) /\ mine'[u] = mine[u] /\ pc'[u] = pc[u] /\ call'[u] = call[u]
                   /\ mine[u] \in 1 .. Capacity /\ mine[u] <= frame_count
        BY <1>0, <2>2, <3>2 DEF Goes, Still, HasId, Given
      <3>3. Given'
        <4>1. ASSUME NEW u \in Threads, HasId(u)'
              PROVE  mine'[u] \in 1 .. Capacity /\ mine'[u] <= frame_count'
          BY <1>0, <2>0, <3>1, <3>2, <4>1
        <4>2. ASSUME NEW i \in Entries, ids'[i] \in 1 .. Capacity PROVE ids'[i] <= frame_count'
          BY <1>0, <2>0, <4>2 DEF Given
        <4> QED
          BY <4>1, <4>2 DEF Given
      <3>4. Distinct'
        <4>1. ASSUME NEW u \in Threads \ {t}, HasId(u)' PROVE mine'[u] # mine'[t]
          BY <1>0, <2>2, <3>2, <4>1
        <4>2. ASSUME NEW i \in Entries PROVE ids[i] # mine'[t]
          BY <1>0, <2>2, <3>1 DEF Given
        <4>3. ASSUME NEW u \in Threads, NEW w \in Threads, HasId(u)', HasId(w)', mine'[u] = mine'[w]
              PROVE  u = w
          <5>1. CASE u # t /\ w # t
            BY <1>0, <3>2, <4>3, <5>1 DEF Distinct
          <5> QED
            BY <4>1, <4>3, <5>1
        <4>4. ASSUME NEW u \in Threads, NEW i \in Entries, HasId(u)' PROVE ids'[i] # mine'[u]
          BY <1>0, <2>0, <3>2, <4>2, <4>4 DEF Distinct
        <4> QED
          BY <1>0, <2>0, <4>3, <4>4 DEF Distinct
      <3>5. Written'
        <4>1. ASSUME NEW u \in Threads, HasId(u)', pc'[u] = "publish"
              PROVE  records'[mine'[u]] = Stored[call'[u].name]
          BY <1>0, <2>0, <3>1, <3>2, <4>1 DEF Written
        <4> QED
          BY <1>0, <2>0, <4>1 DEF Written
      <3> QED
        BY <3>3, <3>4, <3>5
    <2> QED
      BY <1>0, <1>4, <2>1, <2>2, AllocEffect
  <1>5. ASSUME NEW t \in Threads, Undo(t) PROVE Given' /\ Distinct' /\ Written'
    <2>1. /\ pc[t] = "undo" /\ UNCHANGED <<ids, records>> /\ frame_count' = frame_count - 1
          /\ Still(t) /\ ~HasId(t)'
      BY <1>0, <1>5, UndoEffect DEF Goes, HasId
    <2>2. Full' /\ IsFiniteSet(Losers')
      BY <2>1, StepCounted DEF IInv, FailedWhenFull, Counted
    <2>3. frame_count' >= Capacity
      BY <1>0, <2>2, FS_CardinalityType DEF Full
    <2> QED
      BY <1>0, <2>1, <2>3, IdsStill
  <1>6. ASSUME NEW t \in Threads, WriteRecord(t) PROVE Given' /\ Distinct' /\ Written'
    <2>1. /\ pc[t] = "write" /\ UNCHANGED <<hashes, ids, frame_count, mine>> /\ Goes(t, "publish")
          /\ records' = [records EXCEPT ![mine[t]] = Stored[call[t].name]]
      BY <1>0, <1>6, WriteRecordEffect
    <2>2. HasId(t) /\ mine[t] \in 1 .. Capacity
      BY <1>0, <2>1 DEF HasId, IInv, FailedWhenFull, Given
    <2>3. /\ records'[mine[t]] = Stored[call[t].name]
          /\ \A v \in 1 .. Capacity : v # mine[t] => records'[v] = records[v]
      BY <1>0, <2>1, <2>2 DEF TypeOK
    <2>4. ASSUME NEW u \in Threads, HasId(u)'
          PROVE  /\ HasId(u) /\ call'[u] = call[u] /\ mine[u] \in 1 .. Capacity
                 /\ u # t => pc'[u] = pc[u]
      BY <1>0, <2>1, <2>2, <2>4 DEF Goes, Still, HasId, Given
    <2>5. Given' /\ Distinct'
      BY <1>0, <2>1, <2>4 DEF Given, Distinct
    <2>6. ASSUME NEW u \in Threads, HasId(u)', pc'[u] = "publish"
          PROVE  records'[mine'[u]] = Stored[call'[u].name]
      <3>1. CASE u = t
        BY <2>1, <2>3, <2>4, <2>6, <3>1
      <3>2. CASE u # t
        <4>1. mine[u] # mine[t]
          BY <1>0, <2>2, <2>4, <2>6, <3>2 DEF Distinct
        <4> QED
          BY <1>0, <2>1, <2>3, <2>4, <2>6, <3>2, <4>1 DEF Written
      <3> QED
        BY <3>1, <3>2
    <2>7. ASSUME NEW i \in Entries, ids'[i] \in 1 .. Capacity
          PROVE  \E n \in Names : Hash[n] = hashes'[i] /\ records'[ids'[i]] = Stored[n]
      <3>1. ids[i] # mine[t] /\ ids[i] \in 1 .. Capacity
        BY <1>0, <2>1, <2>2, <2>7 DEF Distinct
      <3> QED
        BY <1>0, <2>1, <2>3, <3>1 DEF Written
    <2>8. Written'
      BY <2>6, <2>7 DEF Written
    <2> QED
      BY <2>5, <2>8
  <1>7. ASSUME NEW t \in Threads, Publish(t) PROVE Given' /\ Distinct' /\ Written'
    <2>0. pc[t] = "publish" /\ UNCHANGED <<hashes, frame_count, records>> /\ at[t] \in Entries
      BY <1>0, <1>7, PublishEffect
    <2>1. CASE UNCHANGED ids /\ \E r : Leaves(t, r)
      BY <1>1, <2>0, <2>1 DEF Leaves, Fixed
    <2>2. CASE ids' = [ids EXCEPT ![at[t]] = mine[t]] /\ \E r : Leaves(t, r)
      <3>1. ids'[at[t]] = mine[t] /\ \A i \in Entries \ {at[t]} : ids'[i] = ids[i]
        BY <2>2, PublishTypes
      <3>2. ASSUME NEW u \in Threads, HasId(u)'
            PROVE  /\ u # t /\ HasId(u) /\ mine'[u] = mine[u] /\ pc'[u] = pc[u] /\ call'[u] = call[u]
        BY <2>2, <3>2 DEF Leaves, Still, HasId
      <3>3. mine[t] # ID_FAILED => HasId(t) /\ mine[t] \in 1 .. Capacity
        BY <1>0, <2>0 DEF HasId, Given
      <3>4. ID_FAILED \notin 1 .. Capacity
        BY <1>0 DEF ID_FAILED
      <3>5. Given'
        BY <1>0, <2>0, <3>1, <3>2, <3>3, <3>4 DEF Given
      <3>6. Distinct'
        <4>1. ASSUME NEW u \in Threads, NEW w \in Threads, HasId(u)', HasId(w)', mine'[u] = mine'[w]
              PROVE  u = w
          BY <1>0, <3>2, <4>1 DEF Distinct
        <4>2. ASSUME NEW u \in Threads, NEW i \in Entries, HasId(u)' PROVE ids'[i] # mine'[u]
          <5>1. ids[i] # mine[u] /\ mine[u] # ID_FAILED /\ (HasId(t) => mine[u] # mine[t])
            BY <1>0, <3>2, <4>2 DEF Distinct, HasId
          <5> QED
            BY <3>1, <3>2, <3>3, <4>2, <5>1
        <4>3. ASSUME NEW i \in Entries, NEW j \in Entries, ids'[i] \in 1 .. Capacity, ids'[i] = ids'[j]
              PROVE  i = j
          <5>1. ASSUME NEW k \in Entries \ {at[t]}, ids'[at[t]] \in 1 .. Capacity
                PROVE  ids'[k] # ids'[at[t]]
            BY <1>0, <3>1, <3>3, <3>4, <5>1 DEF Distinct
          <5>2. CASE i # at[t] /\ j # at[t]
            BY <1>0, <3>1, <4>3, <5>2 DEF Distinct
          <5> QED
            BY <4>3, <5>1, <5>2
        <4> QED
          BY <4>1, <4>2, <4>3 DEF Distinct
      <3>7. Written'
        <4>1. ASSUME NEW i \in Entries, ids'[i] \in 1 .. Capacity
              PROVE  \E n \in Names : Hash[n] = hashes'[i] /\ records'[ids'[i]] = Stored[n]
          <5>1. CASE i = at[t]
            <6>1. HasId(t) /\ records[mine[t]] = Stored[call[t].name]
              BY <1>0, <2>0, <3>1, <3>3, <3>4, <4>1, <5>1 DEF Written
            <6>2. hashes[at[t]] = MyHash(t) /\ call[t].name \in Names
              BY <2>0, CallType DEF IInv, Probes, Placed, Finishing, Busy
            <6> QED
              BY <2>0, <3>1, <5>1, <6>1, <6>2 DEF MyHash
          <5>2. CASE i # at[t]
            BY <1>0, <2>0, <3>1, <4>1, <5>2 DEF Written
          <5> QED
            BY <5>1, <5>2
        <4>2. ASSUME NEW u \in Threads, HasId(u)', pc'[u] = "publish"
              PROVE  records'[mine'[u]] = Stored[call'[u].name]
          BY <1>0, <2>0, <3>2, <4>2 DEF Written
        <4> QED
          BY <4>1, <4>2 DEF Written
      <3> QED
        BY <3>5, <3>6, <3>7
    <2> QED
      BY <1>0, <1>7, <2>1, <2>2, PublishEffect
  <1>8. ASSUME NEW t \in Threads, NEW op, NEW n, Call(t, op, n) PROVE Given' /\ Distinct' /\ Written'
    <2>1. Fixed /\ Still(t) /\ pc'[t] \notin {"write", "publish"}
      BY <1>0, <1>8, CallEffect
    <2> QED
      BY <1>1, <2>1
  <1>9. ASSUME NEW m, Kill(m) \/ Restart(m) \/ Erase(m) \/ UNCHANGED vars
        PROVE  Given' /\ Distinct' /\ Written'
    <2>1. \A u \in Threads : HasId(u)' => /\ HasId(u) /\ mine'[u] = mine[u] /\ call'[u] = call[u]
                                          /\ pc'[u] = pc[u]
      BY <1>0, <1>9, EnvironmentEffect DEF HasId
    <2> QED
      BY <1>0, <1>9, <2>1, EnvironmentEffect, IdsKept DEF Fixed
  <1> QED
    BY NextCases, <1>2, <1>3, <1>4, <1>5, <1>6, <1>7, <1>8, <1>9
--------------------------------------------------------------------------------
(* The invariant holds. *)

LEMMA InitIInv == Init => IInv
  <1> SUFFICES ASSUME Init PROVE IInv
    OBVIOUS
  <1>0. /\ Capacity \in Nat /\ TableLen \in Nat /\ 0 \in Entries /\ 0 \in 0 .. 2 * TableLen
        /\ 0 \in 0 .. Rounds - 1 /\ 0 \in 0 .. ID_FAILED /\ ID_FAILED # 0
    BY TableAssumption DEF Entries, ID_FAILED
  <1>1. TypeOK
    <2>1. TableTypes
      BY <1>0, TableAssumption DEF Init, TableTypes, ID_UNPUBLISHED
    <2>2. ThreadTypes
      BY <1>0 DEF Init, ThreadTypes, Labels, CLAIM_UNRECORDED
    <2> QED
      BY <2>1, <2>2, TypesSplit
  <1>2. /\ \A t \in Threads : pc[t] = "idle" /\ call[t] = Idle /\ answer[t] = Status("none")
        /\ \A i \in Entries : hashes[i] = None /\ ids[i] = 0
    BY DEF Init, ID_UNPUBLISHED
  <1>3. Tables /\ Calls /\ FinderWaits
    BY <1>2 DEF Init, Tables, Calls, FinderWaits, Busy
  <1>4. OneEntry /\ Reached /\ Blank
    BY <1>2 DEF OneEntry, Reached, Blank, ID_UNPUBLISHED
  <1>5. Probes
    BY <1>2 DEF Probes, Passed, Turns, Placed, Probing, Finishing, Waiting
  <1>6. Known
    BY <1>2 DEF Known, Busy
  <1>7. Given /\ Distinct /\ Written
    <2>1. \A t \in Threads : ~HasId(t)
      BY <1>2 DEF HasId
    <2>2. \A i \in Entries : ids[i] \notin 1 .. Capacity
      BY <1>0, <1>2
    <2> QED
      BY <2>1, <2>2 DEF Given, Distinct, Written
  <1>8. Counted
    <2>1. Losers = {}
      BY <1>2 DEF Losers
    <2>2. frame_count = 0 /\ Capacity > 0
      BY TableAssumption DEF Init
    <2> QED
      BY <1>0, <2>1, <2>2, FS_EmptySet DEF Counted
  <1>9. FailedWhenFull /\ SaidFull
    BY <1>0, <1>2 DEF FailedWhenFull, SaidFull, Status
  <1> QED
    BY <1>1, <1>3, <1>4, <1>5, <1>6, <1>7, <1>8, <1>9 DEF IInv

LEMMA StepIInv == IInv /\ [Next]_vars => IInv'
  BY StepTypes, StepTables, StepCalls, StepEntries, StepProbes, StepBlank, StepKnown, StepGiven,
     StepCounted, StepFailed DEF IInv

\* Every reachable state satisfies the inductive invariant.
THEOREM InvariantHolds == Spec => []IInv
  <1> QED
    BY InitIInv, StepIInv, PTL DEF Spec

\* Every variable keeps its type, patience and the turns of a loop included
\* (frame.rs, InternEntry and wait_for_publish).
THEOREM TypesHold == Spec => []TypeOK
  <1>1. IInv => TypeOK
    BY DEF IInv
  <1> QED
    BY <1>1, InvariantHolds, PTL

\* However many interners race along however long a probe, a hash is in one
\* entry only (intern_core, the compare-exchange that was lost).
THEOREM OneEntryHolds == Spec => []OneEntry
  <1>1. IInv => OneEntry
    BY DEF IInv
  <1> QED
    BY <1>1, InvariantHolds, PTL

LEMMA FullCount == ASSUME IInv, Full PROVE frame_count >= Capacity
  <1>1. Cardinality(Losers) \in Nat /\ frame_count \in Nat /\ Capacity \in Nat
    BY FS_CardinalityType, TableAssumption DEF IInv, Counted, TypeOK
  <1> QED
    BY <1>1 DEF Full

\* Every id is handed out, or every entry claimed for other hashes.
CapacityMeansSpent ==
    \A t \in Threads : answer[t].status = "capacity" => frame_count >= Capacity \/ FullTable

\* CapacityExceeded is answered only when every id has been handed out, or when
\* every entry of the table is claimed for the hash of another name (finish, and
\* the end of intern_core's loop).
THEOREM CapacityMeansSpentHolds == Spec => []CapacityMeansSpent
  <1>1. IInv => CapacityMeansSpent
    BY FullCount DEF IInv, SaidFull, CapacityMeansSpent
  <1> QED
    BY <1>1, InvariantHolds, PTL

\* With no more hashes than entries, no hash finds every entry taken by others.
LEMMA RoomForAll ==
    ASSUME OneEntry, TypeOK, IsFiniteSet(Hashes), Cardinality(Hashes) <= TableLen
    PROVE  ~FullTable
  <1> SUFFICES ASSUME NEW h \in Hashes, \A i \in Entries : hashes[i] # None /\ hashes[i] # h
               PROVE  FALSE
    BY DEF FullTable
  <1> DEFINE T == Hashes \ {h}
  <1>1. TableLen \in Nat /\ Cardinality(Hashes) \in Nat
    BY FS_CardinalityType, TableAssumption
  <1>2. IsFiniteSet(T) /\ Cardinality(T) = Cardinality(Hashes) - 1
    BY FS_RemoveElement
  <1>3. IsFiniteSet(Entries) /\ Cardinality(Entries) = TableLen
    <2>1. 0 \in Int /\ TableLen - 1 \in Int /\ (0 > TableLen - 1 <=> TableLen = 0)
      BY <1>1
    <2>2. /\ IsFiniteSet(0 .. TableLen - 1)
          /\ Cardinality(0 .. TableLen - 1) = IF 0 > TableLen - 1 THEN 0 ELSE TableLen - 1 - 0 + 1
      BY <2>1, FS_Interval
    <2> QED
      BY <1>1, <2>1, <2>2 DEF Entries
  <1>4. hashes \in [Entries -> T]
    BY DEF TypeOK
  <1>5. \E i, j \in Entries : i # j /\ hashes[i] = hashes[j]
    <2>1. Cardinality(T) < Cardinality(Entries)
      BY <1>1, <1>2, <1>3
    <2> HIDE DEF T
    <2> QED
      BY <1>2, <1>3, <1>4, <2>1, FS_PigeonHole
  <1> QED
    BY <1>5 DEF OneEntry

\* With no more hashes than entries, CapacityExceeded is answered only when every
\* id has been handed out, and stays the right answer, whoever loses the race for
\* the last id and whoever dies (finish, fetch_add and fetch_sub).
THEOREM CapacityMeansFullHolds ==
    ASSUME IsFiniteSet(Hashes), Cardinality(Hashes) <= TableLen
    PROVE  Spec => []CapacityMeansFull
  <1>1. IInv => CapacityMeansFull
    <2> SUFFICES ASSUME IInv PROVE CapacityMeansFull
      OBVIOUS
    <2>1. ~FullTable
      BY RoomForAll DEF IInv
    <2> QED
      BY <2>1, FullCount DEF IInv, SaidFull, CapacityMeansFull
  <1> QED
    BY <1>1, InvariantHolds, PTL
--------------------------------------------------------------------------------
(* The table implements FrameNames. *)

LEMMA ValueEntryNext ==
    ASSUME NEW h \in Hashes, Value(h)' # 0
    PROVE  \E i \in Entries : hashes'[i] = h /\ ids'[i] = Value(h)' /\ h # None
  <1>1. \E i \in Entries : hashes'[i] = h
    BY DEF Value, ID_UNPUBLISHED
  <1> DEFINE c == CHOOSE i \in Entries : hashes'[i] = h
  <1>2. c \in Entries /\ hashes'[c] = h
    BY <1>1
  <1>3. Value(h)' = ids'[c]
    BY <1>1 DEF Value
  <1> QED
    BY <1>2, <1>3, TableAssumption

\* A hash without a value gets one only by a store in its entry.
LEMMA ValueNew ==
    ASSUME IInv, Grows, NEW h \in Hashes, Value(h) = 0, Value(h)' # 0
    PROVE  \E i \in Entries : hashes'[i] = h /\ ids'[i] # ids[i]
  <1>1. PICK i \in Entries : hashes'[i] = h /\ ids'[i] = Value(h)' /\ h # None
    BY ValueEntryNext
  <1>2. CASE ids'[i] = ids[i]
    <2>1. ids[i] # 0 /\ hashes[i] # None
      BY <1>1, <1>2 DEF IInv, Blank, ID_UNPUBLISHED
    <2>2. hashes[i] = h
      BY <1>1, <2>1 DEF Grows
    <2>3. Value(h) = ids[i]
      BY <2>1, <2>2, ValueOf DEF IInv
    <2> QED
      BY <2>1, <2>3
  <1> QED
    BY <1>1, <1>2

\* The value and the stored name of a hash stay, unless a store settles it.
LEMMA ValueKept ==
    ASSUME IInv, [Next]_vars, NEW h \in Hashes,
           \A i \in Entries : hashes'[i] = h => ids'[i] = ids[i],
           \A v \in 1 .. Capacity : records'[v] = records[v] \/ \A i \in Entries : ids[i] # v
    PROVE  Value(h)' = Value(h) /\ StoredOf(h)' = StoredOf(h)
  <1>0. OneEntry' /\ Grows /\ IdsGrow
    BY StepEntries, StepBlank
  <1>1. Value(h)' = Value(h)
    <2>1. CASE Value(h) # 0
      BY <1>0, <2>1, ValueStays
    <2>2. CASE Value(h) = 0
      BY <1>0, <2>2, ValueNew
    <2> QED
      BY <2>1, <2>2
  <1>2. CASE Value(h) \in 1 .. Capacity
    <2>1. Value(h) # 0
      BY <1>2
    <2>2. \E i \in Entries : ids[i] = Value(h)
      BY <2>1, ValueEntry
    <2>3. records'[Value(h)] = records[Value(h)]
      BY <1>2, <2>2
    <2> QED
      BY <1>1, <1>2, <2>3 DEF StoredOf
  <1>3. CASE Value(h) \notin 1 .. Capacity
    BY <1>1, <1>3 DEF StoredOf
  <1> QED
    BY <1>1, <1>2, <1>3

Named   == [h \in Hashes |-> Value(h)]
Kept    == [h \in Hashes |-> StoredOf(h)]

LEMMA SameTerms == /\ Promise!Hashes = Hashes /\ Promise!Failed = ID_FAILED
                   /\ Promise!Idle = Idle
                   /\ \A s : Promise!Status(s) = Status(s)
                   /\ \A v : Promise!Ok(v) = Ok(v)
                   /\ \A v : Promise!Id(v) <=> v \in 1 .. Capacity
  BY DEF Promise!Hashes, Promise!Failed, Promise!Idle, Promise!Status, Promise!Ok, Promise!Id,
         Hashes, ID_FAILED, Idle, Status, Ok

\* What Resolved answers, and what a loop that ends answers, FrameNames allows.
LEMMA ResolvedAllowed ==
    ASSUME IInv, NEW t \in Threads, pc[t] \in Finishing \cup Waiting, ids[at[t]] # ID_UNPUBLISHED
    PROVE  Resolved(t, ids[at[t]])
             \in Promise!Answers(call[t], Value(MyHash(t)), StoredOf(MyHash(t)))
  <1> DEFINE v == ids[at[t]]
  <1>0. /\ Value(MyHash(t)) = v /\ v \in 0 .. ID_FAILED /\ v # 0 /\ Capacity \in Nat
        /\ call[t].op \in {"intern", "find"}
    BY EntryValue, CallType, WorkTypes, TableAssumption
       DEF IInv, TypeOK, ID_UNPUBLISHED, Busy, Finishing, Waiting
  <1>1. CASE v = ID_FAILED
    <2>1. call[t].known \notin 1 .. Capacity
      BY <1>0, <1>1 DEF IInv, Known, Busy, Finishing, Waiting, ID_FAILED
    <2>2. Resolved(t, v) = Status(IF call[t].op = "find" THEN "absent" ELSE "capacity")
      BY <1>0, <1>1 DEF Resolved, Interns
    <2> QED
      BY <2>1, <2>2, SameTerms DEF Promise!Answers
  <1>2. CASE v # ID_FAILED
    <2>1. v \in 1 .. Capacity
      BY <1>0, <1>2 DEF ID_FAILED
    <2>2. Resolved(t, v) = IF StoredOf(MyHash(t)) = Stored[call[t].name] THEN Ok(v)
                           ELSE Status("collision")
      BY <1>0, <1>2, <2>1 DEF Resolved, StoredOf
    <2> QED
      BY <1>0, <2>1, <2>2, SameTerms DEF Promise!Answers
  <1> QED
    BY <1>1, <1>2

LEMMA EndAllowed ==
    ASSUME IInv, NEW t \in Threads, Busy(t), call[t].known = 0, NEW v, NEW s
    PROVE  /\ Status("contended") \in Promise!Answers(call[t], v, s)
           /\ Status(IF Interns(t) THEN "capacity" ELSE "absent") \in Promise!Answers(call[t], v, s)
  <1>1. call[t].op \in {"intern", "find"}
    BY CallType DEF IInv
  <1>2. 0 \notin 1 .. Capacity
    BY TableAssumption
  <1>3. (IF Interns(t) THEN "capacity" ELSE "absent") = (IF call[t].op = "find" THEN "absent" ELSE "capacity")
    BY <1>1 DEF Interns
  <1> QED
    BY <1>2, <1>3, SameTerms DEF Promise!Answers

\* A thread that goes on is not seen; one that leaves with an answer that
\* FrameNames allows returns.
LEMMA GoingHides ==
    ASSUME IInv, IInv', Named' = Named, Kept' = Kept,
           \A u \in Threads : call'[u] = call[u] /\ answer'[u] = answer[u]
    PROVE  UNCHANGED Promise!vars
  <1>1. call' = call
    BY DEF IInv, Tables
  <1>2. answer' = answer
    BY DEF IInv, Tables
  <1> QED
    BY <1>1, <1>2 DEF Promise!vars, Named, Kept

LEMMA LeavingReturns ==
    ASSUME IInv, IInv', NEW t \in Threads, Busy(t), NEW r, Leaves(t, r),
           NEW h \in Hashes, h = MyHash(t),
           \/ Promise!Settle(h)
           \/ Named' = Named /\ Kept' = Kept,
           r \in Promise!Answers(call[t], Value(h)', StoredOf(h)')
    PROVE  Promise!Next
  <1>0. call[t] # Promise!Idle
    <2>1. call[t] \in Call1
      BY DEF IInv, Calls
    <2>2. call[t].op # "none"
      BY <2>1 DEF Call1
    <2> QED
      BY <2>2, SameTerms DEF Idle
  <1>1. call' = [call EXCEPT ![t] = Promise!Idle]
    BY SameTerms DEF IInv, Tables, Leaves, Still
  <1>2. answer' = [answer EXCEPT ![t] = r]
    BY DEF IInv, Tables, Leaves, Still
  <1>3. /\ [g \in Hashes |-> Value(g)]'[h] = Value(h)'
        /\ [g \in Hashes |-> StoredOf(g)]'[h] = StoredOf(h)'
    OBVIOUS
  <1>4. Promise!Return(t)
    BY <1>0, <1>1, <1>2, <1>3 DEF Promise!Return, Named, Kept, MyHash
  <1> QED
    BY <1>4 DEF Promise!Next
\* Nothing is settled: the table's values and their stored names stay.
LEMMA Unsettled ==
    ASSUME IInv, [Next]_vars, UNCHANGED ids,
           \A v \in 1 .. Capacity : records'[v] = records[v] \/ \A i \in Entries : ids[i] # v
    PROVE  Named' = Named /\ Kept' = Kept
  <1>1. ASSUME NEW h \in Hashes PROVE Value(h)' = Value(h) /\ StoredOf(h)' = StoredOf(h)
    BY ValueKept
  <1> QED
    BY <1>1 DEF Named, Kept

\* A step of a probe, or of wait_for_publish, that leaves everything in place.
LEMMA QuietLeaves ==
    ASSUME IInv, IInv', [Next]_vars, NEW t \in Threads, Busy(t), NEW r, Leaves(t, r),
           UNCHANGED <<ids, records>>,
           r \in Promise!Answers(call[t], Value(MyHash(t)), StoredOf(MyHash(t)))
    PROVE  Promise!Next
  <1> DEFINE h == MyHash(t)
  <1>1. h \in Hashes
    BY CallType DEF IInv
  <1>2. Named' = Named /\ Kept' = Kept
    BY Unsettled
  <1>3. ASSUME NEW g \in Hashes PROVE Value(g)' = Value(g) /\ StoredOf(g)' = StoredOf(g)
    BY ValueKept
  <1>4. ASSUME NEW g \in Hashes, g = MyHash(t) PROVE Promise!Next
    <2>1. r \in Promise!Answers(call[t], Value(g), StoredOf(g))
      BY <1>4
    <2>2. r \in Promise!Answers(call[t], Value(g)', StoredOf(g)')
      BY <1>3, <2>1
    <2> QED
      BY <1>2, <1>4, <2>2, LeavingReturns
  <1> QED
    BY <1>1, <1>4

LEMMA QuietGoes ==
    ASSUME IInv, IInv', [Next]_vars, NEW t \in Threads, Still(t),
           call'[t] = call[t], answer'[t] = answer[t], UNCHANGED ids,
           \A v \in 1 .. Capacity : records'[v] = records[v] \/ \A i \in Entries : ids[i] # v
    PROVE  UNCHANGED Promise!vars
  <1>1. Named' = Named /\ Kept' = Kept
    BY Unsettled
  <1> QED
    BY <1>1, GoingHides DEF Still

\* A loop that ends without a value began without one.
LEMMA TurnedRefines ==
    ASSUME IInv, IInv', [Next]_vars, NEW t \in Threads, NEW i, Turned(t, i),
           UNCHANGED <<ids, records>>,
           \/ pc[t] = "load" /\ hashes[at[t]] # None /\ hashes[at[t]] # MyHash(t)
           \/ pc[t] \in {"claim", "record"}
    PROVE  Promise!Next \/ UNCHANGED Promise!vars
  <1>1. CASE Still(t) /\ call'[t] = call[t] /\ answer'[t] = answer[t]
    BY <1>1, QuietGoes
  <1>2. CASE left[t] <= 1 /\ Leaves(t, Status(IF Interns(t) THEN "capacity" ELSE "absent"))
    <2>1. Busy(t) /\ call[t].known = 0
      BY <1>2, OutOfTurns, NoValue, BeganWithout DEF Crowded, Busy
    <2>2. Status(IF Interns(t) THEN "capacity" ELSE "absent")
            \in Promise!Answers(call[t], Value(MyHash(t)), StoredOf(MyHash(t)))
      BY <2>1, EndAllowed
    <2> QED
      BY <1>2, <2>1, <2>2, QuietLeaves
  <1> QED
    BY <1>1, <1>2 DEF Turned

LEMMA ProbeRefines ==
    ASSUME IInv, IInv', [Next]_vars, NEW t \in Threads,
           LoadHash(t) \/ CheckCount(t) \/ ClaimHash(t) \/ RecordClaim(t)
    PROVE  Promise!Next \/ UNCHANGED Promise!vars
  <1>0. TypeOK /\ Tables
    BY DEF IInv
  <1>1. UNCHANGED <<ids, records>> /\ Busy(t)
    BY <1>0, LoadHashEffect, CheckCountEffect, ClaimHashEffect, RecordClaimEffect DEF Fixed, Busy
  <1>2. ASSUME NEW l, Goes(t, l) PROVE UNCHANGED Promise!vars
    BY <1>1, <1>2, QuietGoes DEF Goes
  <1>3. ASSUME call[t].known = 0, Leaves(t, Status(IF Interns(t) THEN "capacity" ELSE "absent"))
        PROVE  Promise!Next
    <2>1. Status(IF Interns(t) THEN "capacity" ELSE "absent")
            \in Promise!Answers(call[t], Value(MyHash(t)), StoredOf(MyHash(t)))
      BY <1>1, <1>3, EndAllowed
    <2> QED
      BY <1>1, <1>3, <2>1, QuietLeaves
  <1>4. CASE LoadHash(t)
    <2>1. pc[t] = "load"
      BY <1>0, <1>4, LoadHashEffect
    <2>2. hashes[at[t]] = None => call[t].known = 0
      BY <1>1, <2>1, NotThereYet, NoValue, BeganWithout DEF Probing
    <2> QED
      BY <1>0, <1>1, <1>2, <1>3, <1>4, <2>1, <2>2, LoadHashEffect, TurnedRefines
  <1>5. CASE CheckCount(t)
    <2>1. pc[t] = "count" /\ call[t].known = 0 /\ Interns(t)
      BY <1>0, <1>1, <1>5, CheckCountEffect DEF IInv, Known, FinderWaits
    <2> QED
      BY <1>0, <1>2, <1>3, <1>5, <2>1, CheckCountEffect
  <1>6. CASE ClaimHash(t)
    BY <1>0, <1>1, <1>2, <1>6, ClaimHashEffect, TurnedRefines
  <1>7. CASE RecordClaim(t)
    BY <1>0, <1>1, <1>2, <1>7, RecordClaimEffect, TurnedRefines
  <1> QED
    BY <1>4, <1>5, <1>6, <1>7

LEMMA WaitRefines ==
    ASSUME IInv, IInv', [Next]_vars, NEW t \in Threads, Wait(t)
    PROVE  Promise!Next \/ UNCHANGED Promise!vars
  <1>0. TypeOK /\ Tables
    BY DEF IInv
  <1>1. UNCHANGED <<ids, records>> /\ Busy(t) /\ pc[t] \in Waiting
    BY <1>0, WaitEffect DEF Fixed, Busy, Waiting
  <1>2. \/ \E l : Goes(t, l)
        \/ ids[at[t]] # ID_UNPUBLISHED /\ Leaves(t, Resolved(t, ids[at[t]]))
        \/ pc[t] # "wait" /\ Leaves(t, Status("contended"))
        \/ pc[t] # "wait" /\ ~Interns(t) /\ Leaves(t, Status("absent"))
    BY <1>0, WaitEffect
  <1>3. CASE \E l : Goes(t, l)
    BY <1>1, <1>3, QuietGoes DEF Goes
  <1>4. CASE ids[at[t]] # ID_UNPUBLISHED /\ Leaves(t, Resolved(t, ids[at[t]]))
    BY <1>1, <1>4, ResolvedAllowed, QuietLeaves
  <1>5. pc[t] # "wait" => call[t].known = 0
    BY <1>1 DEF IInv, Known, Waiting
  <1>6. CASE pc[t] # "wait" /\ Leaves(t, Status("contended"))
    BY <1>1, <1>5, <1>6, EndAllowed, QuietLeaves
  <1>7. CASE pc[t] # "wait" /\ ~Interns(t) /\ Leaves(t, Status("absent"))
    BY <1>1, <1>5, <1>7, EndAllowed, QuietLeaves
  <1> QED
    BY <1>2, <1>3, <1>4, <1>6, <1>7

\* The store that publishes settles the hash; a rescuer's that comes late
\* answers what is there.
LEMMA PublishRefines ==
    ASSUME IInv, IInv', [Next]_vars, NEW t \in Threads, Publish(t)
    PROVE  Promise!Next
  <1>0. TypeOK /\ Tables
    BY DEF IInv
  <1>1. pc[t] = "publish" /\ UNCHANGED <<hashes, records>> /\ Busy(t)
    BY <1>0, PublishEffect DEF Busy
  <1>2. CASE ids[at[t]] # ID_UNPUBLISHED /\ UNCHANGED ids /\ Leaves(t, Resolved(t, ids[at[t]]))
    BY <1>1, <1>2, ResolvedAllowed, QuietLeaves DEF Finishing
  <1>3. ASSUME ids[at[t]] = ID_UNPUBLISHED, Leaves(t, Resolved(t, mine[t])),
               ids' = [ids EXCEPT ![at[t]] = mine[t]], NEW h \in Hashes, h = MyHash(t)
        PROVE  Promise!Next
    <2>1. /\ at[t] \in Entries /\ ids'[at[t]] = mine[t]
          /\ \A i \in Entries \ {at[t]} : ids'[i] = ids[i]
      BY <1>3, PublishTypes
    <2>2. hashes[at[t]] = h /\ h # None /\ Value(h) = 0 /\ call[t].known = 0
      BY <1>1, <1>3, EntryValue, BeganWithout
         DEF IInv, Probes, Placed, Finishing, ID_UNPUBLISHED
    <2>3. Value(h)' = mine[t]
      <3>1. ASSUME NEW i \in Entries, i = at[t] PROVE Value(h)' = mine[t]
        <4>1. hashes'[i] = h /\ h # None /\ ids'[i] = mine[t]
          BY <1>1, <2>1, <2>2, <3>1
        <4>2. Value(hashes[i])' = ids'[i]
          BY <4>1, ValueOfNext DEF IInv
        <4> QED
          BY <4>1, <4>2 DEF Value
      <3> QED
        BY <2>1, <3>1
    <2>4. ASSUME NEW g \in Hashes, g # h PROVE Value(g)' = Value(g) /\ StoredOf(g)' = StoredOf(g)
      <3>1. \A i \in Entries : hashes'[i] = g => ids'[i] = ids[i]
        BY <1>1, <2>1, <2>2, <2>4
      <3> QED
        BY <1>1, <3>1, ValueKept
    <2>5. Named' = [Named EXCEPT ![h] = mine[t]]
      BY <2>3, <2>4 DEF Named
    <2>6. StoredOf(h) = None
      BY <2>2 DEF StoredOf
    <2>7. CASE mine[t] = ID_FAILED
      <3>1. ID_FAILED \notin 1 .. Capacity
        BY TableAssumption DEF ID_FAILED
      <3>2. StoredOf(h)' = StoredOf(h)
        BY <2>3, <2>6, <2>7, <3>1 DEF StoredOf
      <3>3. Kept' = Kept
        BY <2>4, <3>2 DEF Kept
      <3>4. Promise!Settle(h)
        BY <2>2, <2>5, <2>7, <3>3, SameTerms DEF Promise!Settle, Named, Kept
      <3>5. Resolved(t, mine[t]) = Status(IF Interns(t) THEN "capacity" ELSE "absent")
        BY <2>7 DEF Resolved
      <3>6. Resolved(t, mine[t]) \in Promise!Answers(call[t], Value(h)', StoredOf(h)')
        BY <1>1, <2>2, <3>5, EndAllowed
      <3> QED
        BY <1>1, <1>3, <3>4, <3>6, LeavingReturns
    <2>8. CASE mine[t] # ID_FAILED
      <3>1. HasId(t) /\ mine[t] \in 1 .. Capacity
        BY <1>1, <2>8 DEF HasId, IInv, Given
      <3>2. records[mine[t]] = Stored[call[t].name] /\ \A i \in Entries : ids[i] # mine[t]
        BY <1>1, <3>1 DEF IInv, Written, Distinct
      <3>3. StoredOf(h)' = Stored[call[t].name]
        BY <1>1, <2>3, <3>1, <3>2 DEF StoredOf
      <3>4. Kept' = [Kept EXCEPT ![h] = Stored[call[t].name]]
        BY <2>4, <3>3 DEF Kept
      <3>5. ASSUME NEW g \in Hashes PROVE Value(g) # mine[t]
        <4>1. Value(g) # 0 => \E i \in Entries : ids[i] = Value(g)
          BY ValueEntry
        <4> QED
          BY <3>1, <3>2, <4>1
      <3>6. call[t].name \in Names /\ Hash[call[t].name] = h
        BY <1>1, <1>3, CallType DEF IInv, MyHash
      <3>7. Promise!Settle(h)
        <4>1. [g \in Hashes |-> Value(g)][h] = 0
          BY <2>2
        <4>2. \A g \in Promise!Hashes : [f \in Hashes |-> Value(f)][g] # mine[t]
          BY <3>5, SameTerms
        <4>3. /\ [g \in Hashes |-> Value(g)]' = [[g \in Hashes |-> Value(g)] EXCEPT ![h] = mine[t]]
              /\ [g \in Hashes |-> StoredOf(g)]'
                   = [[g \in Hashes |-> StoredOf(g)] EXCEPT ![h] = Stored[call[t].name]]
          BY <2>5, <3>4 DEF Named, Kept
        <4> QED
          BY <3>1, <3>6, <4>1, <4>2, <4>3, ZenonT(30) DEF Promise!Settle
      <3>8. Resolved(t, mine[t]) = Ok(mine[t])
        BY <2>8, <3>2 DEF Resolved
      <3>9. Resolved(t, mine[t]) \in Promise!Answers(call[t], Value(h)', StoredOf(h)')
        BY <2>3, <3>1, <3>3, <3>8, SameTerms DEF Promise!Answers
      <3> QED
        BY <1>1, <1>3, <3>7, <3>9, LeavingReturns
    <2> QED
      BY <2>7, <2>8
  <1>4. MyHash(t) \in Hashes
    BY <1>1, CallType DEF IInv
  <1> QED
    BY <1>0, <1>2, <1>3, <1>4, PublishEffect

\* Allocating, giving back and writing a record are not seen: the record is of
\* an id that no entry has.
LEMMA FinishRefines ==
    ASSUME IInv, IInv', [Next]_vars, NEW t \in Threads, Alloc(t) \/ Undo(t) \/ WriteRecord(t)
    PROVE  UNCHANGED Promise!vars
  <1>0. TypeOK
    BY DEF IInv
  <1>1. UNCHANGED ids /\ \E l : Goes(t, l)
    BY <1>0, AllocEffect, UndoEffect, WriteRecordEffect
  <1>2. \A v \in 1 .. Capacity : records'[v] = records[v] \/ \A i \in Entries : ids[i] # v
    <2>1. CASE UNCHANGED records
      BY <2>1
    <2>2. CASE WriteRecord(t)
      <3>1. pc[t] = "write" /\ records' = [records EXCEPT ![mine[t]] = Stored[call[t].name]]
        BY <1>0, <2>2, WriteRecordEffect
      <3>2. HasId(t)
        BY <3>1 DEF IInv, FailedWhenFull, HasId
      <3>3. \A i \in Entries : ids[i] # mine[t]
        BY <3>2 DEF IInv, Distinct
      <3> QED
        BY <1>0, <3>1, <3>3 DEF TypeOK
    <2> QED
      BY <1>0, <2>1, <2>2, AllocEffect, UndoEffect
  <1> QED
    BY <1>1, <1>2, QuietGoes DEF Goes

LEMMA CallRefines ==
    ASSUME IInv, IInv', [Next]_vars, NEW t \in Threads, NEW op \in {"intern", "find"},
           NEW n \in Names, Call(t, op, n)
    PROVE  Promise!Next
  <1>0. TypeOK /\ Tables
    BY DEF IInv
  <1>1. /\ pc[t] = "idle" /\ UNCHANGED <<ids, records>> /\ Still(t)
        /\ call'[t] = [op |-> op, name |-> n, known |-> Value(Hash[n])]
        /\ answer'[t] = Status("none")
    BY <1>0, CallEffect DEF Fixed
  <1>2. Named' = Named /\ Kept' = Kept
    BY <1>1, Unsettled
  <1>3. call[t] = Promise!Idle
    BY <1>1, SameTerms DEF IInv, Calls, Busy
  <1>4. Hash[n] \in Hashes /\ [h \in Hashes |-> Value(h)][Hash[n]] = Value(Hash[n])
    BY DEF Hashes
  <1>5. call' = [call EXCEPT ![t] = [op |-> op, name |-> n, known |-> Value(Hash[n])]]
    BY <1>1 DEF IInv, Tables, Still
  <1>6. answer' = [answer EXCEPT ![t] = Promise!Status("none")]
    BY <1>1, SameTerms DEF IInv, Tables, Still
  <1>7. Promise!Begin(t, op, n)
    BY <1>2, <1>3, <1>4, <1>5, <1>6 DEF Promise!Begin, Named, Kept
  <1> QED
    BY <1>7 DEF Promise!Next

LEMMA EnvironmentRefines ==
    ASSUME IInv, IInv', [Next]_vars, NEW m, Kill(m) \/ Restart(m) \/ Erase(m) \/ UNCHANGED vars
    PROVE  Promise!Next \/ UNCHANGED Promise!vars
  <1>0. TypeOK
    BY DEF IInv
  <1>1. Named' = Named /\ Kept' = Kept
    BY <1>0, EnvironmentEffect, Unsettled DEF Fixed
  <1>2. CASE Kill(m)
    <2>1. /\ call' = [t \in Threads |-> IF t \in Of(m) THEN Idle ELSE call[t]]
          /\ answer' = [t \in Threads |-> IF t \in Of(m) THEN Status("none") ELSE answer[t]]
      BY <1>2 DEF Kill, Forget
    <2>2. Promise!Die(Of(m))
      BY <1>1, <2>1, SameTerms DEF Promise!Die, Named, Kept
    <2>3. Of(m) \in SUBSET Threads
      BY DEF Of
    <2> QED
      BY <2>2, <2>3 DEF Promise!Next
  <1>3. CASE Restart(m) \/ Erase(m) \/ UNCHANGED vars
    <2>1. UNCHANGED <<call, answer>>
      BY <1>3 DEF Restart, Erase, vars
    <2> QED
      BY <1>1, <2>1, GoingHides
  <1> QED
    BY <1>2, <1>3

\* The table implements FrameNames, for every interleaving of interners, finders,
\* rescuers, deaths, restarts and erasures: a hash gets one id and an id one hash,
\* for good, and a name that had its id when a call began is found by it (frame.rs,
\* publish, finish and wait_for_publish).
THEOREM InterningImplementsNames == Spec => ImplementsFrameNames
  <1>1. Init => Promise!Init
    <2> SUFFICES ASSUME Init PROVE Promise!Init
      OBVIOUS
    <2>1. \A i \in Entries : hashes[i] = None
      BY DEF Init
    <2>2. ASSUME NEW h \in Hashes PROVE Value(h) = 0 /\ StoredOf(h) = None
      <3>1. Value(h) = 0
        BY <2>1, NoValue, TableAssumption
      <3> QED
        BY <3>1 DEF StoredOf
    <2> QED
      BY <2>2, SameTerms DEF Init, Promise!Init
  <1>2. IInv /\ IInv' /\ [Next]_vars => [Promise!Next]_(Promise!vars)
    <2> SUFFICES ASSUME IInv, IInv', [Next]_vars PROVE Promise!Next \/ UNCHANGED Promise!vars
      OBVIOUS
    <2> QED
      BY NextCases, ProbeRefines, WaitRefines, PublishRefines, FinishRefines, CallRefines,
         EnvironmentRefines
  <1> QED
    BY <1>1, <1>2, InvariantHolds, PTL DEF Spec, ImplementsFrameNames, Promise!Spec
================================================================================
