------------------------------ MODULE FrameIntern ------------------------------
(***************************************************************************)
(* The lock-free table that gives every frame name one id                  *)
(* (tf_tree_core/src/frame.rs, called through arena_view.rs): an entry is  *)
(* claimed by a compare-exchange on its hash, its claimant records itself, *)
(* allocates an id, writes the record and publishes the id.  Whoever finds *)
(* an unpublished entry waits, and takes it over from a dead claimant.     *)
(*                                                                         *)
(* Every atomic access is a step.  Threads of a process share its          *)
(* participant slot and die with it; the slot may then belong to a new     *)
(* process.  INTERN_SPIN_LIMIT only delays and is left out.                *)
(***************************************************************************)
EXTENDS Naturals

CONSTANTS
    Threads,       \* threads that intern and find
    Me,            \* [Threads -> Nat]: participant slot + 1 of each, 0 if anonymous
    Names,         \* frame names
    Hash,          \* [Names -> hashes]: blake3_64
    Home,          \* hash & mask
    Stored,        \* [Names -> _]: the first 48 bytes, which the record keeps
    TableLen,      \* entries of the table
    Capacity,      \* max_frames - 1
    Rounds,        \* READER_UNRECORDED_ROUNDS
    None,          \* an empty entry, an unwritten record
    Plans,         \* [Threads -> SUBSET (operations \X Names)]: the calls each may make
    Frail,         \* the claims whose process may be killed, or lose its record
    MaxCalls,      \* bound on the number of calls
    MaxCrashes,    \* bound on the number of kills
    MaxRestarts,   \* bound on the number of processes that get a dead one's slot
    MaxErased      \* bound on the number of living participants whose record is freed

Hashes  == {Hash[n] : n \in Names}
Entries == 0 .. TableLen - 1
Claims  == {Me[t] : t \in Threads}

ASSUME TableAssumption ==
    /\ Capacity \in Nat \ {0} /\ TableLen \in Nat /\ TableLen >= 2 * (Capacity + 1)
    /\ Rounds \in Nat \ {0}
    /\ Me \in [Threads -> Nat]
    /\ Home \in [Hashes -> Entries]
    /\ None \notin Hashes /\ None \notin {Stored[n] : n \in Names}

\* Two names with one hash are told apart by what their records keep of them.
ASSUME HashAssumption ==
    \A m, n \in Names : Hash[m] = Hash[n] /\ Stored[m] = Stored[n] => m = n

ASSUME BoundAssumption == /\ Plans \in [Threads -> SUBSET ({"intern", "find"} \X Names)]
                          /\ Frail \subseteq Claims
                          /\ MaxCalls \in Nat /\ MaxCrashes \in Nat
                          /\ MaxRestarts \in Nat /\ MaxErased \in Nat

VARIABLES
    hashes, ids, claiming,   \* the table: hash, id and claimant of each entry
    frame_count,             \* the id allocator
    records,                 \* stored name of each id
    live,                    \* by claim: claimant_alive says so
    pc, call,                \* a thread: position; operation, name and first entry's value
    at, left,                \* its entry and the turns its loop has left
    owner, rounds,           \* the claim it observed, rounds it waited
    mine,                    \* the id it allocated
    answer,                  \* its last answer
    calls, crashes, restarts, erased,
    strange                  \* history: entries whose claimant's slot is another process's

table    == <<hashes, ids, claiming>>
work     == <<at, left, owner, rounds, mine>>
bounds   == <<calls, crashes, restarts, erased>>
vars     == <<table, frame_count, records, live, pc, call, work, answer, bounds, strange>>

-------------------------------------------------------------------------------
ID_UNPUBLISHED   == 0
ID_FAILED        == Capacity + 1    \* u32::MAX: no id is as large
CLAIM_UNRECORDED == 0
CLAIM_ANONYMOUS  == 1000            \* u32::MAX: no slot is as large

Idle      == [op |-> "none"]
Ok(v)     == [status |-> "ok", id |-> v]
Status(s) == [status |-> s, id |-> 0]

Init ==
    /\ hashes = [i \in Entries |-> None]
    /\ ids = [i \in Entries |-> ID_UNPUBLISHED]
    /\ claiming = [i \in Entries |-> CLAIM_UNRECORDED]
    /\ frame_count = 0
    /\ records = [v \in 1 .. Capacity |-> None]
    /\ live = [m \in Claims |-> TRUE]
    /\ pc = [t \in Threads |-> "idle"]
    /\ call = [t \in Threads |-> Idle]
    /\ at = [t \in Threads |-> 0] /\ left = [t \in Threads |-> 0]
    /\ owner = [t \in Threads |-> 0] /\ rounds = [t \in Threads |-> 0]
    /\ mine = [t \in Threads |-> 0]
    /\ answer = [t \in Threads |-> Status("none")]
    /\ calls = 0 /\ crashes = 0 /\ restarts = 0 /\ erased = 0
    /\ strange = {}

At(t, l)   == pc[t] = l
Jump(t, l) == pc' = [pc EXCEPT ![t] = l]
Interns(t) == call[t].op = "intern"
MyHash(t)  == Hash[call[t].name]

\* The thread's locals are reset when it is between calls.
Forget(ts) ==
    /\ call' = [t \in Threads |-> IF t \in ts THEN Idle ELSE call[t]]
    /\ at' = [t \in Threads |-> IF t \in ts THEN 0 ELSE at[t]]
    /\ left' = [t \in Threads |-> IF t \in ts THEN 0 ELSE left[t]]
    /\ owner' = [t \in Threads |-> IF t \in ts THEN 0 ELSE owner[t]]
    /\ rounds' = [t \in Threads |-> IF t \in ts THEN 0 ELSE rounds[t]]
    /\ mine' = [t \in Threads |-> IF t \in ts THEN 0 ELSE mine[t]]

Return(t, r) ==
    /\ answer' = [answer EXCEPT ![t] = r]
    /\ Jump(t, "idle")
    /\ Forget({t})

\* resolve; find_core takes ID_FAILED for an absent name.
Resolved(t, v) ==
    IF v = ID_FAILED THEN Status(IF Interns(t) THEN "capacity" ELSE "absent")
    ELSE IF records[v] = Stored[call[t].name] THEN Ok(v) ELSE Status("collision")

-------------------------------------------------------------------------------
(* The probe: intern_core and find_core. *)

Value(h) == IF \E i \in Entries : hashes[i] = h
            THEN ids[CHOOSE i \in Entries : hashes[i] = h] ELSE ID_UNPUBLISHED

Call(t, op, n) ==
    /\ At(t, "idle") /\ calls < MaxCalls
    /\ calls' = calls + 1
    /\ call' = [call EXCEPT ![t] = [op |-> op, name |-> n, known |-> Value(Hash[n])]]
    /\ at' = [at EXCEPT ![t] = Home[Hash[n]]]
    /\ left' = [left EXCEPT ![t] = IF op = "intern" THEN 2 * TableLen ELSE TableLen]
    /\ answer' = [answer EXCEPT ![t] = Status("none")]
    /\ Jump(t, "load")
    /\ UNCHANGED <<table, frame_count, records, live, owner, rounds, mine, crashes,
                   restarts, erased, strange>>

\* The next turn of the loop, at entry i; the last one is followed by an error.
Turn(t, i) ==
    IF left[t] > 1
    THEN /\ at' = [at EXCEPT ![t] = i]
         /\ left' = [left EXCEPT ![t] = @ - 1]
         /\ Jump(t, "load")
         /\ UNCHANGED <<call, owner, rounds, mine, answer>>
    ELSE Return(t, Status(IF Interns(t) THEN "capacity" ELSE "absent"))

LoadHash(t) ==
    /\ At(t, "load")
    /\ LET h == hashes[at[t]] IN
       \/ h = MyHash(t) /\ Jump(t, "wait") /\ UNCHANGED <<call, work, answer>>
       \/ h = None /\ Interns(t) /\ Jump(t, "count") /\ UNCHANGED <<call, work, answer>>
       \/ h = None /\ ~Interns(t) /\ Return(t, Status("absent"))
       \/ h \notin {None, MyHash(t)} /\ Turn(t, (at[t] + 1) % TableLen)
    /\ UNCHANGED <<table, frame_count, records, live, bounds, strange>>

CheckCount(t) ==
    /\ At(t, "count")
    /\ IF frame_count >= Capacity THEN Return(t, Status("capacity"))
       ELSE Jump(t, "claim") /\ UNCHANGED <<call, work, answer>>
    /\ UNCHANGED <<table, frame_count, records, live, bounds, strange>>

\* Fault: the loser of the race for an entry goes on to the next one.
ClaimHashNext(t) ==
    /\ At(t, "claim")
    /\ IF hashes[at[t]] = None
       THEN /\ hashes' = [hashes EXCEPT ![at[t]] = MyHash(t)]
            /\ Jump(t, "record")
            /\ UNCHANGED <<call, work, answer>>
       ELSE Turn(t, (at[t] + 1) % TableLen) /\ UNCHANGED hashes
    /\ UNCHANGED <<ids, claiming, frame_count, records, live, bounds, strange>>

ClaimHash(t) ==
    /\ At(t, "claim")
    /\ IF hashes[at[t]] = None
       THEN /\ hashes' = [hashes EXCEPT ![at[t]] = MyHash(t)]
            /\ Jump(t, "record")
            /\ UNCHANGED <<call, work, answer>>
       ELSE Turn(t, at[t]) /\ UNCHANGED hashes
    /\ UNCHANGED <<ids, claiming, frame_count, records, live, bounds, strange>>

\* The claimant records itself, unless a rescuer was faster.
RecordClaim(t) ==
    /\ At(t, "record")
    /\ IF claiming[at[t]] = CLAIM_UNRECORDED
       THEN /\ claiming' = [claiming EXCEPT ![at[t]] = IF Me[t] = 0 THEN CLAIM_ANONYMOUS
                                                       ELSE Me[t]]
            /\ Jump(t, "alloc")
            /\ UNCHANGED <<call, work, answer>>
       ELSE Turn(t, at[t]) /\ UNCHANGED claiming
    /\ UNCHANGED <<hashes, ids, frame_count, records, live, bounds, strange>>

-------------------------------------------------------------------------------
(* InternTable::finish. *)

Alloc(t) ==
    /\ At(t, "alloc")
    /\ frame_count' = frame_count + 1
    /\ IF frame_count >= Capacity
       THEN Jump(t, "undo") /\ UNCHANGED mine
       ELSE Jump(t, "write") /\ mine' = [mine EXCEPT ![t] = frame_count + 1]
    /\ UNCHANGED <<table, records, live, call, at, left, owner, rounds, answer, bounds, strange>>

Undo(t) ==
    /\ At(t, "undo")
    /\ frame_count' = frame_count - 1
    /\ mine' = [mine EXCEPT ![t] = ID_FAILED]
    /\ Jump(t, "publish")
    /\ UNCHANGED <<table, records, live, call, at, left, owner, rounds, answer, bounds, strange>>

WriteRecord(t) ==
    /\ At(t, "write")
    /\ records' = [records EXCEPT ![mine[t]] = Stored[call[t].name]]
    /\ Jump(t, "publish")
    /\ UNCHANGED <<table, frame_count, live, call, work, answer, bounds, strange>>

\* Fault: the id is stored, whatever is there.
PublishStore(t) ==
    /\ At(t, "publish")
    /\ ids' = [ids EXCEPT ![at[t]] = mine[t]]
    /\ Return(t, Resolved(t, mine[t]))
    /\ UNCHANGED <<hashes, claiming, frame_count, records, live, bounds, strange>>

\* Fault: whoever was overtaken gives its id back.
PublishReturning(t) ==
    /\ At(t, "publish")
    /\ IF ids[at[t]] = ID_UNPUBLISHED
       THEN /\ ids' = [ids EXCEPT ![at[t]] = mine[t]]
            /\ Return(t, Resolved(t, mine[t]))
            /\ UNCHANGED frame_count
       ELSE /\ frame_count' = frame_count - 1
            /\ Return(t, Resolved(t, ids[at[t]])) /\ UNCHANGED ids
    /\ UNCHANGED <<hashes, claiming, records, live, bounds, strange>>

\* The id, or ID_FAILED, unless a terminal value is there.
Publish(t) ==
    /\ At(t, "publish")
    /\ IF ids[at[t]] = ID_UNPUBLISHED
       THEN /\ ids' = [ids EXCEPT ![at[t]] = mine[t]]
            /\ Return(t, Resolved(t, mine[t]))
       ELSE Return(t, Resolved(t, ids[at[t]])) /\ UNCHANGED ids
    /\ UNCHANGED <<hashes, claiming, frame_count, records, live, bounds, strange>>

-------------------------------------------------------------------------------
(* InternTable::wait_for_publish. *)

WaitLoad(t) ==
    /\ At(t, "wait")
    /\ IF ids[at[t]] # ID_UNPUBLISHED
       THEN Return(t, Resolved(t, ids[at[t]]))
       ELSE Jump(t, "owner") /\ UNCHANGED <<call, work, answer>>
    /\ UNCHANGED <<table, frame_count, records, live, bounds, strange>>

\* One more round of patience, or the answer r.
Patience(t, r) ==
    IF rounds[t] + 1 < Rounds
    THEN /\ rounds' = [rounds EXCEPT ![t] = @ + 1]
         /\ Jump(t, "wait")
         /\ UNCHANGED <<call, at, left, owner, mine, answer>>
    ELSE Return(t, r)

LoadClaim(t) ==
    /\ At(t, "owner")
    /\ LET c == claiming[at[t]] IN
       \/ c = CLAIM_ANONYMOUS /\ Patience(t, Status("contended"))
       \/ c = CLAIM_UNRECORDED /\ ~Interns(t) /\ Patience(t, Status("absent"))
       \/ /\ c = CLAIM_UNRECORDED /\ Interns(t) /\ Me[t] = 0
          /\ Jump(t, "wait")
          /\ UNCHANGED <<call, work, answer>>
       \/ /\ \/ c = CLAIM_UNRECORDED /\ Interns(t) /\ Me[t] # 0 /\ Jump(t, "take")
             \/ c \notin {CLAIM_UNRECORDED, CLAIM_ANONYMOUS} /\ Jump(t, "judge")
          /\ owner' = [owner EXCEPT ![t] = c]
          /\ UNCHANGED <<call, at, left, rounds, mine, answer>>
    /\ UNCHANGED <<table, frame_count, records, live, bounds, strange>>

\* claimant_alive: the record is LIVE and the byte of its slot is held.
Judge(t) ==
    /\ At(t, "judge")
    /\ \/ /\ live[owner[t]]
          /\ Jump(t, "wait")
          /\ UNCHANGED <<call, work, answer>>
       \/ /\ ~live[owner[t]] /\ Interns(t)
          /\ Jump(t, "take")
          /\ UNCHANGED <<call, work, answer>>
       \/ ~live[owner[t]] /\ ~Interns(t) /\ Return(t, Status("absent"))
    /\ UNCHANGED <<table, frame_count, records, live, bounds, strange>>

\* Fault: a rescuer goes back to waiting.
TakeOverNever(t) ==
    /\ At(t, "take")
    /\ Jump(t, "wait")
    /\ UNCHANGED <<table, frame_count, records, live, call, work, answer, bounds, strange>>

TakeOver(t) ==
    /\ At(t, "take")
    /\ IF claiming[at[t]] = owner[t]
       THEN /\ claiming' = [claiming EXCEPT ![at[t]] = Me[t]]
            /\ strange' = strange \ {at[t]}
            /\ Jump(t, "reload")
       ELSE Jump(t, "wait") /\ UNCHANGED <<claiming, strange>>
    /\ UNCHANGED <<hashes, ids, frame_count, records, live, call, work, answer, bounds>>

\* The dead claimant may have published: its id stands.
Reload(t) ==
    /\ At(t, "reload")
    /\ IF ids[at[t]] # ID_UNPUBLISHED
       THEN Return(t, Resolved(t, ids[at[t]]))
       ELSE Jump(t, "alloc") /\ UNCHANGED <<call, work, answer>>
    /\ UNCHANGED <<table, frame_count, records, live, bounds, strange>>

-------------------------------------------------------------------------------
(* The environment: processes die, their slots are granted again, and a      *)
(* living participant's record may be freed (Rendezvous, HangupReclaim).     *)

Of(m) == {t \in Threads : Me[t] = m}

Kill(m) ==
    /\ m \in Frail /\ crashes < MaxCrashes
    /\ \E t \in Of(m) : pc[t] \notin {"idle", "dead"}
    /\ crashes' = crashes + 1
    /\ live' = [live EXCEPT ![m] = FALSE]
    /\ pc' = [t \in Threads |-> IF t \in Of(m) THEN "dead" ELSE pc[t]]
    /\ answer' = [t \in Threads |-> IF t \in Of(m) THEN Status("none") ELSE answer[t]]
    /\ Forget(Of(m))
    /\ UNCHANGED <<table, frame_count, records, calls, restarts, erased, strange>>

Restart(m) ==
    /\ m # 0 /\ restarts < MaxRestarts
    /\ \A t \in Of(m) : At(t, "dead")
    /\ restarts' = restarts + 1
    /\ live' = [live EXCEPT ![m] = TRUE]
    /\ pc' = [t \in Threads |-> IF t \in Of(m) THEN "idle" ELSE pc[t]]
    /\ strange' = strange \cup {i \in Entries : claiming[i] = m}
    /\ UNCHANGED <<table, frame_count, records, call, work, answer, calls, crashes, erased>>

Erase(m) ==
    /\ m \in Frail \ {0} /\ live[m] /\ erased < MaxErased
    /\ erased' = erased + 1
    /\ live' = [live EXCEPT ![m] = FALSE]
    /\ UNCHANGED <<table, frame_count, records, pc, call, work, answer, calls, crashes,
                   restarts, strange>>

-------------------------------------------------------------------------------
Step(t) ==
    \/ LoadHash(t) \/ CheckCount(t) \/ ClaimHash(t) \/ RecordClaim(t)
    \/ Alloc(t) \/ Undo(t) \/ WriteRecord(t) \/ Publish(t)
    \/ WaitLoad(t) \/ LoadClaim(t) \/ Judge(t) \/ TakeOver(t) \/ Reload(t)

Next ==
    \/ \E t \in Threads : \/ \E c \in Plans[t] : Call(t, c[1], c[2])
                          \/ Step(t)
    \/ \E m \in Claims : Kill(m) \/ Restart(m) \/ Erase(m)

Spec == Init /\ [][Next]_vars

\* Threads that are not killed keep running.
FairSpec == Spec /\ \A t \in Threads : WF_vars(Step(t))

-------------------------------------------------------------------------------
(* Properties. *)

\* Every variable has its type: a table entry holds a hash, an id or ID_FAILED
\* and a claim of somebody, and patience ends after Rounds rounds
\* (frame.rs, InternEntry and wait_for_publish).
TypeOK ==
    /\ hashes \in [Entries -> Hashes \cup {None}]
    /\ ids \in [Entries -> 0 .. ID_FAILED]
    /\ claiming \in [Entries -> Claims \cup {CLAIM_UNRECORDED, CLAIM_ANONYMOUS}]
    /\ frame_count \in Nat
    /\ records \in [1 .. Capacity -> {Stored[n] : n \in Names} \cup {None}]
    /\ live \in [Claims -> BOOLEAN]
    /\ pc \in [Threads -> {"idle", "dead", "load", "count", "claim", "record", "alloc", "undo",
                           "write", "publish", "wait", "owner", "judge", "take", "reload"}]
    /\ at \in [Threads -> Entries] /\ left \in [Threads -> 0 .. 2 * TableLen]
    /\ owner \in [Threads -> Claims \cup {CLAIM_UNRECORDED}]
    /\ rounds \in [Threads -> 0 .. Rounds - 1]
    /\ mine \in [Threads -> 0 .. ID_FAILED]
    /\ strange \subseteq Entries

\* A hash is in one entry of the table only, however many interners race for
\* the entries of its probe sequence (intern_core, the lost compare-exchange).
OneEntry ==
    \A i, j \in Entries : hashes[i] # None /\ hashes[i] = hashes[j] => i = j

\* CapacityExceeded is only ever answered when every id has been handed out,
\* and stays the right answer: the count that a loser takes back is its own
\* (finish, fetch_add and fetch_sub).
CapacityMeansFull ==
    \A t \in Threads : answer[t].status = "capacity" => frame_count >= Capacity

\* The table implements FrameNames: one id for each hash and one hash for each
\* id, for good, and a name that had its id when a call began is found by it,
\* in spite of takeovers, of claimants that were believed dead and of slots
\* with a new occupant (frame.rs, publish, finish and wait_for_publish).
StoredOf(h) == LET v == Value(h) IN IF v \in 1 .. Capacity THEN records[v] ELSE None

Promise == INSTANCE FrameNames WITH
    id <- [h \in Hashes |-> Value(h)], stored <- [h \in Hashes |-> StoredOf(h)]

ImplementsFrameNames == Promise!Spec

\* A call of a registered participant, and any find, returns: a dead claimant
\* wedges nobody, unless a new process has its slot (frame.rs, A8 and the
\* residual gap).
Busy(t) == pc[t] \notin {"idle", "dead"}
Judges(t) == Me[t] # 0 \/ ~Interns(t)
InternReturns == \A t \in Threads : Busy(t) /\ Judges(t) ~> (~Busy(t) \/ strange # {})

\* "If a live process recycles the dead claimant's slot first, recovery is
\* delayed, never lost" (frame.rs:35): a caller whose own process has the slot
\* that the unfinished entry names gets an answer as well.
WaitsForItself(t) ==
    /\ pc[t] \in {"wait", "owner", "judge"}
    /\ Me[t] # 0
    /\ hashes[at[t]] = MyHash(t) /\ claiming[at[t]] = Me[t]
DelayedNeverLost == \A t \in Threads : WaitsForItself(t) ~> ~Busy(t)
===============================================================================
