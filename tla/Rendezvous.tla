------------------------------ MODULE Rendezvous ------------------------------
(***************************************************************************)
(* How processes come to share one arena, and leave it: the lock file with *)
(* its ownership byte and one liveness byte per slot (tf_tree_ipc:         *)
(* lockfile.rs, open.rs), the attach socket (server.rs, client.rs), the    *)
(* participant table of the arena (tf_tree_core/src/participant.rs), and   *)
(* what tf_tree builds from them (tf_tree/src/open.rs, tree.rs).           *)
(*                                                                         *)
(* The process that holds the ownership byte serves the socket.  It grants *)
(* each client a slot; the client takes the byte of that slot and then     *)
(* writes the record of that slot.  A survivor of a dead owner inherits    *)
(* the ownership byte.  A process that finds neither a server nor a held   *)
(* byte creates an arena.                                                  *)
(*                                                                         *)
(* Every fcntl call, every atomic access of a record and every message is  *)
(* a step of its own, and a process can be killed between any two: the     *)
(* kernel then unlocks its bytes and closes its sockets, and nobody        *)
(* touches its record.                                                     *)
(***************************************************************************)
EXTENDS Integers

CONSTANTS
    Procs,        \* processes; a name is used again after an exit
    Writers,      \* those that attach read-write
    Creators,     \* those with CreatePolicy::IfAbsent; the others never create
    N,            \* participant slots, and bytes
    Quitters,     \* those that leave of their own accord
    Mortal,       \* those that may be killed
    Sweepers,     \* the writers that call reap_participants
    None,         \* no process
    MaxOpens,     \* bound on the number of calls of open
    MaxArenas,    \* bound on the number of arenas created
    MaxCrashes    \* bound on the number of kills

ASSUME ProcAssumption == /\ Creators \subseteq Writers /\ Sweepers \subseteq Writers
                         /\ Writers \subseteq Procs /\ Quitters \subseteq Procs
                         /\ Mortal \subseteq Procs
                         /\ None \notin Procs
ASSUME SlotAssumption == N \in Nat \ {0}
ASSUME BoundAssumption == MaxOpens \in Nat /\ MaxArenas \in Nat /\ MaxCrashes \in Nat

Slots  == 0 .. N - 1
Arenas == 1 .. MaxArenas

VARIABLES
    own, bytes,              \* holders of the ownership byte and of each slot's byte
    sock,                    \* the process whose listener the socket path names
    word, inc,               \* each arena's participant records: state word, incarnation
    pc, arena, slot, mine,   \* a process: position, arena, slot, incarnation
    peer,                    \* the process at the other end of its attach socket
    cur,                     \* the slot its loop over the slots has come to
    spc, client, conn, obs,  \* its serving thread: position, the client it answers,
                             \* its connections by slot, the word it observed
    wpc, wslot, wobs,        \* its sweep: position, slot, the word it observed
    opens, arenas, crashes,  \* counters
    late                     \* history: who took a byte while an opener had byte 0

lockfile == <<own, bytes>>
table    == <<word, inc>>
process  == <<pc, arena, slot, mine, peer>>
server   == <<spc, client, conn, obs>>
sweeper  == <<wpc, wslot, wobs>>
counters == <<opens, arenas, crashes>>
vars     == <<lockfile, sock, table, process, cur, server, sweeper, counters, late>>

-------------------------------------------------------------------------------
(* State words of a record: a live word is the incarnation of its occupant. *)

FREE == 0
RESERVED == -1
NoSlot == -1

\* A connection of the serving thread; one that is not "none" is a granted bit.
ConnStates == {"none", "open", "closed"}

Init ==
    /\ own = None /\ bytes = [s \in Slots |-> None] /\ sock = None
    /\ word = [a \in Arenas |-> [s \in Slots |-> FREE]]
    /\ inc = [a \in Arenas |-> [s \in Slots |-> 0]]
    /\ pc = [p \in Procs |-> "out"]
    /\ arena = [p \in Procs |-> 0]
    /\ slot = [p \in Procs |-> NoSlot]
    /\ mine = [p \in Procs |-> 0]
    /\ peer = [p \in Procs |-> None]
    /\ cur = [p \in Procs |-> 0]
    /\ spc = [p \in Procs |-> "off"]
    /\ client = [p \in Procs |-> None]
    /\ conn = [p \in Procs |-> [s \in Slots |-> "none"]]
    /\ obs = [p \in Procs |-> FREE]
    /\ wpc = [p \in Procs |-> "idle"]
    /\ wslot = [p \in Procs |-> 0]
    /\ wobs = [p \in Procs |-> FREE]
    /\ opens = 0 /\ arenas = 0 /\ crashes = 0
    /\ late = {}

At(p, l)   == pc[p] = l
Jump(p, l) == pc' = [pc EXCEPT ![p] = l]

\* The record at (a, s) becomes w if it is x: a compare-exchange.
CasWord(a, s, x, w) == word' = [word EXCEPT ![a][s] = IF @ = x THEN w ELSE @]

\* Closing p's attach socket: the serving thread at the other end sees a
\* hangup on the connection of p's slot, or has nobody left to answer.
Hangup(p) ==
    /\ conn' = IF peer[p] # None /\ slot[p] # NoSlot
               THEN [conn EXCEPT ![peer[p]][slot[p]] = "closed"] ELSE conn
    /\ client' = [q \in Procs |-> IF client[q] = p THEN None ELSE client[q]]

\* While an opener has the ownership byte it decides whether to create.
Opening(p) == pc[p] \in {"scan", "creator", "build", "bind"}
DropOwnership == own' = None /\ late' = {}

-------------------------------------------------------------------------------
(* Open::open: step 1, join whoever serves. *)

Open(p) ==
    /\ At(p, "out") /\ opens < MaxOpens
    /\ opens' = opens + 1
    /\ Jump(p, "probe")
    /\ UNCHANGED <<lockfile, sock, table, arena, slot, mine, peer, cur, server, sweeper,
                   arenas, crashes, late>>

\* A stale path refuses the connection as an absent one does.
Probe(p) ==
    /\ At(p, "probe")
    /\ IF sock # None THEN Jump(p, "hello") ELSE Jump(p, "own")
    /\ peer' = [peer EXCEPT ![p] = sock]
    /\ UNCHANGED <<lockfile, sock, table, arena, slot, mine, cur, server, sweeper, counters, late>>

\* The owner died before it answered, or the receive timed out: both are Absent.
NoAnswer(p) ==
    /\ At(p, "hello")
    /\ Hangup(p)
    /\ peer' = [peer EXCEPT ![p] = None]
    /\ Jump(p, "own")
    /\ UNCHANGED <<lockfile, sock, table, arena, slot, mine, cur, spc, obs, sweeper,
                   counters, late>>

\* Fault: a contended byte is taken for one's own.
RegisterAtAnyway(p) ==
    /\ At(p, "granted")
    /\ bytes' = [bytes EXCEPT ![slot[p]] = p]
    /\ late' = IF own # None /\ Opening(own) THEN late \cup {p} ELSE late
    /\ Jump(p, "attach")
    /\ UNCHANGED <<own, sock, table, arena, slot, mine, peer, cur, server, sweeper, counters>>

\* register_at: the byte of the granted slot.  When it is taken the attachment
\* is dropped and the loop goes on with step 2.
RegisterAt(p) ==
    /\ At(p, "granted")
    /\ \/ /\ bytes[slot[p]] = None
          /\ bytes' = [bytes EXCEPT ![slot[p]] = p]
          /\ late' = IF own # None /\ Opening(own) THEN late \cup {p} ELSE late
          /\ Jump(p, "attach")
          /\ UNCHANGED <<arena, slot, peer, client, conn>>
       \/ /\ bytes[slot[p]] # None
          /\ Hangup(p)
          /\ arena' = [arena EXCEPT ![p] = 0]
          /\ slot' = [slot EXCEPT ![p] = NoSlot]
          /\ peer' = [peer EXCEPT ![p] = None]
          /\ Jump(p, "own")
          /\ UNCHANGED <<bytes, late>>
    /\ UNCHANGED <<own, sock, table, mine, cur, spc, obs, sweeper, counters>>

\* attach_shared_inner: a writer reserves its record, a reader has none.
Attach(p) ==
    /\ At(p, "attach")
    /\ \/ /\ p \in Writers
          /\ word[arena[p]][slot[p]] = FREE
          /\ CasWord(arena[p], slot[p], FREE, RESERVED)
          /\ Jump(p, "publish")
       \/ /\ p \notin Writers
          /\ Jump(p, "member")
          /\ UNCHANGED word
    /\ UNCHANGED <<lockfile, sock, inc, arena, slot, mine, peer, cur, server, sweeper,
                   counters, late>>

\* The rest of fill_slot: the identity, the incarnation, the live word.
FillSlot(p) ==
    /\ At(p, "publish")
    /\ LET a == arena[p]  s == slot[p] IN
       /\ inc' = [inc EXCEPT ![a][s] = @ + 1]
       /\ mine' = [mine EXCEPT ![p] = inc[a][s] + 1]
       /\ word' = [word EXCEPT ![a][s] = inc[a][s] + 1]
    /\ Jump(p, "member")
    /\ UNCHANGED <<lockfile, sock, arena, slot, peer, cur, server, sweeper, counters, late>>

-------------------------------------------------------------------------------
(* Steps 2, 4 and 5: become the owner of a new arena. *)

TakeOwnership(p) ==
    /\ At(p, "own")
    /\ IF own = None
       THEN own' = p /\ Jump(p, "scan")
       ELSE Jump(p, "retry") /\ UNCHANGED own
    /\ UNCHANGED <<bytes, sock, table, arena, slot, mine, peer, cur, server, sweeper, counters, late>>

\* Fault: the scan leaves the last slot out.
ScanShort(p) ==
    /\ At(p, "scan") /\ cur[p] < N
    /\ IF bytes[cur[p]] # None
       THEN DropOwnership /\ Jump(p, "retry") /\ cur' = [cur EXCEPT ![p] = 0]
       ELSE /\ cur' = [cur EXCEPT ![p] = IF @ = N - 2 THEN N ELSE @ + 1]
            /\ UNCHANGED <<own, late, pc>>
    /\ UNCHANGED <<bytes, sock, table, arena, slot, mine, peer, server, sweeper, counters>>

\* any_participant_held, one byte at a time: a held byte means a live arena.
Scan(p) ==
    /\ At(p, "scan") /\ cur[p] < N
    /\ IF bytes[cur[p]] # None
       THEN DropOwnership /\ Jump(p, "retry") /\ cur' = [cur EXCEPT ![p] = 0]
       ELSE /\ cur' = [cur EXCEPT ![p] = @ + 1]
            /\ UNCHANGED <<own, late, pc>>
    /\ UNCHANGED <<bytes, sock, table, arena, slot, mine, peer, server, sweeper, counters>>

\* No byte was held; CreatePolicy::Never ends in ArenaAbsent.
Scanned(p) ==
    /\ At(p, "scan") /\ cur[p] = N
    /\ IF p \in Creators
       THEN Jump(p, "creator") /\ UNCHANGED <<own, late>>
       ELSE Jump(p, "out") /\ DropOwnership
    /\ cur' = [cur EXCEPT ![p] = 0]
    /\ UNCHANGED <<bytes, sock, table, arena, slot, mine, peer, server, sweeper, counters>>

\* register_creator: the byte of slot 0.
RegisterCreator(p) ==
    /\ At(p, "creator")
    /\ IF bytes[0] = None
       THEN /\ bytes' = [bytes EXCEPT ![0] = p]
            /\ slot' = [slot EXCEPT ![p] = 0]
            /\ Jump(p, "build")
            /\ UNCHANGED <<own, late>>
       ELSE DropOwnership /\ Jump(p, "retry") /\ UNCHANGED <<bytes, slot>>
    /\ UNCHANGED <<sock, table, arena, mine, peer, cur, server, sweeper, counters>>

\* build_shared: a new arena, in whose empty table its creator registers.
Build(p) ==
    /\ At(p, "build") /\ arenas < MaxArenas
    /\ arenas' = arenas + 1
    /\ arena' = [arena EXCEPT ![p] = arenas + 1]
    /\ word' = [word EXCEPT ![arenas + 1][0] = 1]
    /\ inc' = [inc EXCEPT ![arenas + 1][0] = 1]
    /\ mine' = [mine EXCEPT ![p] = 1]
    /\ Jump(p, "bind")
    /\ UNCHANGED <<lockfile, sock, slot, peer, cur, server, sweeper, opens, crashes, late>>

\* spawn_owner_server: the listener is renamed over the path, the thread runs
\* with no slot granted.
Bind(p) ==
    /\ pc[p] \in {"bind", "heir"}
    /\ sock' = p
    /\ spc' = [spc EXCEPT ![p] = "idle"]
    /\ late' = {}
    /\ Jump(p, "owner")
    /\ UNCHANGED <<lockfile, table, arena, slot, mine, peer, cur, client, conn, obs, sweeper,
                   counters>>

\* The end of a turn of the loop: sleep and try again, or the deadline.
Retry(p) ==
    /\ At(p, "retry")
    /\ Jump(p, "probe")
    /\ UNCHANGED <<lockfile, sock, table, arena, slot, mine, peer, cur, server, sweeper,
                   counters, late>>

GiveUp(p) ==
    /\ At(p, "retry")
    /\ Jump(p, "out")
    /\ UNCHANGED <<lockfile, sock, table, arena, slot, mine, peer, cur, server, sweeper,
                   counters, late>>

-------------------------------------------------------------------------------
(* Tree::inherit_ownership. *)

\* owner_lost, then take_over_ownership: the socket has hung up and nobody
\* holds the ownership byte.
TakeOver(p) ==
    /\ At(p, "member") /\ p \in Writers
    /\ peer[p] = None /\ own = None
    /\ own' = p
    /\ Jump(p, "heir")
    /\ UNCHANGED <<bytes, sock, table, arena, slot, mine, peer, cur, server, sweeper, counters, late>>

\* Fault: the heir that cannot bind keeps the byte.
BindFailsKeeping(p) ==
    /\ At(p, "heir")
    /\ Jump(p, "member")
    /\ UNCHANGED <<lockfile, sock, table, arena, slot, mine, peer, cur, server, sweeper,
                   counters, late>>

\* When it cannot bind, the heir hands the byte back.
BindFails(p) ==
    /\ At(p, "heir")
    /\ DropOwnership
    /\ Jump(p, "member")
    /\ UNCHANGED <<bytes, sock, table, arena, slot, mine, peer, cur, server, sweeper, counters>>

-------------------------------------------------------------------------------
(* The serving thread: the assigner. *)

Serve(q, l) == spc' = [spc EXCEPT ![q] = l]
NextSlot(q) == /\ Serve(q, "word")
               /\ cur' = [cur EXCEPT ![q] = @ + 1]
               /\ obs' = [obs EXCEPT ![q] = FREE]
Served(q)   == /\ Serve(q, "idle")
               /\ cur' = [cur EXCEPT ![q] = 0]
               /\ obs' = [obs EXCEPT ![q] = FREE]

Accept(q, p) ==
    /\ spc[q] = "idle"
    /\ At(p, "hello") /\ peer[p] = q
    /\ client' = [client EXCEPT ![q] = p]
    /\ Serve(q, "word")
    /\ UNCHANGED <<lockfile, sock, table, process, cur, conn, obs, sweeper, counters, late>>

\* A granted slot is passed over; a record may be in the way.
AssignWord(q) ==
    /\ spc[q] = "word" /\ cur[q] < N
    /\ \/ conn[q][cur[q]] # "none" /\ NextSlot(q)
       \/ /\ conn[q][cur[q]] = "none"
          /\ Serve(q, IF word[arena[q]][cur[q]] = FREE THEN "byte" ELSE "verdict")
          /\ UNCHANGED <<cur, obs>>
    /\ UNCHANGED <<lockfile, sock, table, process, client, conn, sweeper, counters, late>>

\* reclamation_verdict: never one's own slot; the word before the byte.
AssignVerdict(q) ==
    /\ spc[q] = "verdict"
    /\ LET w == word[arena[q]][cur[q]] IN
       \/ /\ cur[q] = slot[q] \/ w = FREE
          /\ NextSlot(q)
       \/ /\ cur[q] # slot[q] /\ w # FREE
          /\ obs' = [obs EXCEPT ![q] = w]
          /\ Serve(q, "probe")
          /\ UNCHANGED cur
    /\ UNCHANGED <<lockfile, sock, table, process, client, conn, sweeper, counters, late>>

AssignProbe(q) ==
    /\ spc[q] = "probe"
    /\ IF bytes[cur[q]] # None THEN NextSlot(q) ELSE Serve(q, "cas") /\ UNCHANGED <<cur, obs>>
    /\ UNCHANGED <<lockfile, sock, table, process, client, conn, sweeper, counters, late>>

AssignReclaim(q) ==
    /\ spc[q] = "cas"
    /\ CasWord(arena[q], cur[q], obs[q], FREE)
    /\ IF word[arena[q]][cur[q]] = obs[q]
       THEN Serve(q, "byte") /\ UNCHANGED <<cur, obs>>
       ELSE NextSlot(q)
    /\ UNCHANGED <<lockfile, sock, inc, process, client, conn, sweeper, counters, late>>

\* The byte must be free as well: a reader has a byte and no record.  The
\* reply carries the segment and the slot; with nobody there to receive it the
\* slot is given back as on a hangup.
Grant(q) ==
    /\ spc[q] = "byte"
    /\ \/ /\ bytes[cur[q]] # None
          /\ NextSlot(q)
          /\ UNCHANGED <<process, client, conn>>
       \/ /\ bytes[cur[q]] = None /\ client[q] # None
          /\ LET p == client[q] IN
             /\ arena' = [arena EXCEPT ![p] = arena[q]]
             /\ slot' = [slot EXCEPT ![p] = cur[q]]
             /\ Jump(p, "granted")
          /\ conn' = [conn EXCEPT ![q][cur[q]] = "open"]
          /\ client' = [client EXCEPT ![q] = None]
          /\ Served(q)
          /\ UNCHANGED <<mine, peer>>
       \/ /\ bytes[cur[q]] = None /\ client[q] = None
          /\ conn' = [conn EXCEPT ![q][cur[q]] = "closed"]
          /\ Serve(q, "hangup")
          /\ UNCHANGED <<process, client, cur, obs>>
    /\ UNCHANGED <<lockfile, sock, table, sweeper, counters, late>>

\* NoParticipantSlots is an answer: the client's open ends.
Reject(q) ==
    /\ spc[q] = "word" /\ cur[q] = N
    /\ LET p == client[q] IN
       IF p = None THEN UNCHANGED <<pc, peer>>
       ELSE Jump(p, "out") /\ peer' = [peer EXCEPT ![p] = None]
    /\ client' = [client EXCEPT ![q] = None]
    /\ Served(q)
    /\ UNCHANGED <<lockfile, sock, table, arena, slot, mine, conn, sweeper, counters, late>>

-------------------------------------------------------------------------------
(* The serving thread: the hangup callback. *)

HangupBegin(q, s) ==
    /\ spc[q] = "idle"
    /\ conn[q][s] = "closed"
    /\ cur' = [cur EXCEPT ![q] = s]
    /\ Serve(q, "hangup")
    /\ UNCHANGED <<lockfile, sock, table, process, client, conn, obs, sweeper, counters, late>>

HangupLoad(q) ==
    /\ spc[q] = "hangup"
    /\ LET w == word[arena[q]][cur[q]] IN
       IF w # FREE
       THEN obs' = [obs EXCEPT ![q] = w] /\ Serve(q, "hcas") /\ UNCHANGED <<cur, conn>>
       ELSE conn' = [conn EXCEPT ![q][cur[q]] = "none"] /\ Served(q)
    /\ UNCHANGED <<lockfile, sock, table, process, client, sweeper, counters, late>>

HangupReclaim(q) ==
    /\ spc[q] = "hcas"
    /\ CasWord(arena[q], cur[q], obs[q], FREE)
    /\ conn' = [conn EXCEPT ![q][cur[q]] = "none"]
    /\ Served(q)
    /\ UNCHANGED <<lockfile, sock, inc, process, client, sweeper, counters, late>>

-------------------------------------------------------------------------------
(* Tree::reap_participants, by any writer. *)

Sweep(p, l) == wpc' = [wpc EXCEPT ![p] = l]
Swept(p)    == /\ Sweep(p, "idle")
               /\ wslot' = [wslot EXCEPT ![p] = 0]
               /\ wobs' = [wobs EXCEPT ![p] = FREE]

SweepLoad(p, s) ==
    /\ wpc[p] = "idle"
    /\ p \in Sweepers /\ pc[p] \in {"member", "heir", "owner"}
    /\ s # slot[p] /\ word[arena[p]][s] # FREE
    /\ wslot' = [wslot EXCEPT ![p] = s]
    /\ wobs' = [wobs EXCEPT ![p] = word[arena[p]][s]]
    /\ Sweep(p, "probe")
    /\ UNCHANGED <<lockfile, sock, table, process, cur, server, counters, late>>

SweepProbe(p) ==
    /\ wpc[p] = "probe"
    /\ IF bytes[wslot[p]] # None THEN Swept(p) ELSE Sweep(p, "cas") /\ UNCHANGED <<wslot, wobs>>
    /\ UNCHANGED <<lockfile, sock, table, process, cur, server, counters, late>>

\* Fault: the compare-exchange takes the word of now for the observed one.
SweepReclaimReload(p) ==
    /\ wpc[p] = "cas"
    /\ word' = [word EXCEPT ![arena[p]][wslot[p]] = FREE]
    /\ Swept(p)
    /\ UNCHANGED <<lockfile, sock, inc, process, cur, server, counters, late>>

SweepReclaim(p) ==
    /\ wpc[p] = "cas"
    /\ CasWord(arena[p], wslot[p], wobs[p], FREE)
    /\ Swept(p)
    /\ UNCHANGED <<lockfile, sock, inc, process, cur, server, counters, late>>

-------------------------------------------------------------------------------
(* Leaving, in the order in which a Tree is dropped. *)

\* Fault: the session is closed before the serving thread has ended.
LeaveRecordSessionFirst(p) ==
    /\ p \in Quitters
    /\ pc[p] \in {"member", "owner"} /\ wpc[p] = "idle"
    /\ IF p \in Writers THEN CasWord(arena[p], slot[p], mine[p], FREE) ELSE UNCHANGED word
    /\ Jump(p, "unlock")
    /\ UNCHANGED <<lockfile, sock, inc, arena, slot, mine, peer, cur, server, sweeper,
                   counters, late>>

\* Drop for Tree: the record, if it still carries this incarnation.
LeaveRecord(p) ==
    /\ p \in Quitters
    /\ pc[p] \in {"member", "owner"} /\ wpc[p] = "idle"
    /\ IF p \in Writers THEN CasWord(arena[p], slot[p], mine[p], FREE) ELSE UNCHANGED word
    /\ Jump(p, IF At(p, "owner") THEN "stop" ELSE "unlock")
    /\ UNCHANGED <<lockfile, sock, inc, arena, slot, mine, peer, cur, server, sweeper,
                   counters, late>>

\* The serving thread ends between two events; its clients' sockets close.
StopServer(p) ==
    /\ At(p, "stop") /\ spc[p] = "idle"
    /\ sock' = IF sock = p THEN None ELSE sock
    /\ spc' = [spc EXCEPT ![p] = "off"]
    /\ conn' = [conn EXCEPT ![p] = [s \in Slots |-> "none"]]
    /\ peer' = [q \in Procs |-> IF peer[q] = p THEN None ELSE peer[q]]
    /\ Jump(p, "unlock")
    /\ UNCHANGED <<lockfile, table, arena, slot, mine, cur, client, obs, sweeper, counters, late>>

\* Closing the lock file of the session frees both of its bytes.
CloseSession(p) ==
    /\ At(p, "unlock")
    /\ bytes' = [s \in Slots |-> IF bytes[s] = p THEN None ELSE bytes[s]]
    /\ IF own = p THEN DropOwnership ELSE UNCHANGED <<own, late>>
    /\ Jump(p, "hangup")
    /\ UNCHANGED <<sock, table, arena, slot, mine, peer, cur, server, sweeper, counters>>

CloseSocket(p) ==
    /\ At(p, "hangup")
    /\ Hangup(p)
    /\ peer' = [peer EXCEPT ![p] = None]
    /\ arena' = [arena EXCEPT ![p] = 0]
    /\ slot' = [slot EXCEPT ![p] = NoSlot]
    /\ mine' = [mine EXCEPT ![p] = 0]
    /\ Jump(p, "out")
    /\ UNCHANGED <<lockfile, sock, table, cur, spc, obs, sweeper, counters, late>>

\* Everything p has open closes: its bytes, its listener and its connections.
CloseAll(p) ==
    /\ own' = IF own = p THEN None ELSE own
    /\ late' = IF own = p THEN {} ELSE late \ {p}
    /\ bytes' = [s \in Slots |-> IF bytes[s] = p THEN None ELSE bytes[s]]
    /\ sock' = IF sock = p THEN None ELSE sock
    /\ peer' = [q \in Procs |-> IF q = p \/ peer[q] = p THEN None ELSE peer[q]]
    /\ client' = [q \in Procs |-> IF client[q] = p \/ q = p THEN None ELSE client[q]]
    /\ conn' = [q \in Procs |-> [s \in Slots |->
                  IF q = p THEN "none"
                  ELSE IF peer[p] = q /\ slot[p] = s THEN "closed" ELSE conn[q][s]]]
    /\ arena' = [arena EXCEPT ![p] = 0]
    /\ slot' = [slot EXCEPT ![p] = NoSlot]
    /\ mine' = [mine EXCEPT ![p] = 0]
    /\ cur' = [cur EXCEPT ![p] = 0]
    /\ spc' = [spc EXCEPT ![p] = "off"]
    /\ obs' = [obs EXCEPT ![p] = FREE]
    /\ Swept(p)
    /\ Jump(p, "out")
    /\ UNCHANGED table

\* open returns an error after it has the byte: the record is taken, mapping
\* fails, require_create refuses to join; or the creator cannot build or bind.
OpenFails(p) ==
    /\ pc[p] \in {"attach", "build", "bind"}
    /\ CloseAll(p)
    /\ UNCHANGED counters

Kill(p) ==
    /\ p \in Mortal /\ ~At(p, "out") /\ crashes < MaxCrashes
    /\ crashes' = crashes + 1
    /\ CloseAll(p)
    /\ UNCHANGED <<opens, arenas>>
-------------------------------------------------------------------------------
Join(p)   == Probe(p) \/ NoAnswer(p) \/ RegisterAt(p) \/ Attach(p) \/ FillSlot(p)
Create(p) == \/ TakeOwnership(p) \/ Scan(p) \/ Scanned(p) \/ RegisterCreator(p) \/ Build(p)
             \/ Bind(p) \/ Retry(p) \/ GiveUp(p) \/ OpenFails(p)
Assign(q) == \/ AssignWord(q) \/ AssignVerdict(q) \/ AssignProbe(q) \/ AssignReclaim(q)
             \/ Grant(q) \/ Reject(q)
OnHangup(q) == (\E s \in Slots : HangupBegin(q, s)) \/ HangupLoad(q) \/ HangupReclaim(q)
Reap(p)   == (\E s \in Slots : SweepLoad(p, s)) \/ SweepProbe(p) \/ SweepReclaim(p)
Leave(p)  == LeaveRecord(p) \/ StopServer(p) \/ CloseSession(p) \/ CloseSocket(p)

Next == \E p \in Procs :
    \/ Open(p) \/ Join(p) \/ Create(p)
    \/ TakeOver(p) \/ BindFails(p)
    \/ (\E c \in Procs : Accept(p, c)) \/ Assign(p) \/ OnHangup(p)
    \/ Reap(p)
    \/ Leave(p) \/ Kill(p)

Spec == Init /\ [][Next]_vars

\* Threads keep running; an opener's deadline passes; survivors poll owner_lost
\* and inherit, and binding does not fail for ever.
FairSpec ==
    /\ Spec
    /\ \A p \in Procs :
        /\ WF_vars(Join(p) \/ Create(p)) /\ SF_vars(GiveUp(p))
        /\ WF_vars((\E c \in Procs : Accept(p, c)) \/ Assign(p) \/ OnHangup(p))
        /\ WF_vars(StopServer(p) \/ CloseSession(p) \/ CloseSocket(p))
        /\ WF_vars(TakeOver(p)) /\ SF_vars(Bind(p))

-------------------------------------------------------------------------------
(* Properties. *)

\* Every variable has its type: a loop over the slots never passes the last one
\* (lockfile.rs, any_participant_held; open.rs, the assigner), a process only
\* has an arena that was created, and the positions are those of the code.
TypeOK ==
    /\ own \in Procs \cup {None}
    /\ bytes \in [Slots -> Procs \cup {None}]
    /\ sock \in Procs \cup {None}
    /\ inc \in [Arenas -> [Slots -> Nat]]
    /\ word \in [Arenas -> [Slots -> Nat \cup {RESERVED}]]
    /\ pc \in [Procs -> {"out", "probe", "hello", "granted", "attach", "publish", "member",
                         "own", "scan", "creator", "build", "bind", "retry", "heir", "owner",
                         "stop", "unlock", "hangup"}]
    /\ arena \in [Procs -> 0 .. arenas]
    /\ slot \in [Procs -> Slots \cup {NoSlot}]
    /\ mine \in [Procs -> Nat]
    /\ peer \in [Procs -> Procs \cup {None}]
    /\ cur \in [Procs -> 0 .. N]
    /\ spc \in [Procs -> {"off", "idle", "word", "verdict", "probe", "cas", "byte",
                          "hangup", "hcas"}]
    /\ client \in [Procs -> Procs \cup {None}]
    /\ conn \in [Procs -> [Slots -> ConnStates]]
    /\ obs \in [Procs -> Nat \cup {RESERVED}]
    /\ wpc \in [Procs -> {"idle", "probe", "cas"}]
    /\ wslot \in [Procs -> Slots]
    /\ wobs \in [Procs -> Nat \cup {RESERVED}]
    /\ opens \in Nat /\ arenas \in 0 .. MaxArenas /\ crashes \in Nat
    /\ late \subseteq Procs

\* A process that has a slot, from the moment it has taken the byte.
InSlot(p) == pc[p] \in {"attach", "publish", "member", "heir", "owner", "build", "bind", "stop",
                        "unlock"}

\* No two living processes have one slot, whatever owners granted them theirs,
\* whether they share an arena or not, and whatever word a reclaimer's
\* compare-exchange hit: a spurious free never makes a second occupant
\* (participant.rs, fill_slot and reclaim; ipc open.rs, register_at).
OneOccupant ==
    \A p, q \in Procs : InSlot(p) /\ InSlot(q) /\ slot[p] = slot[q] => p = q

\* A process that has published its record.
Live(p) == p \in Writers /\ pc[p] \in {"member", "heir", "owner"}
OwnWord(p) == word[arena[p]][slot[p]] = mine[p]

\* The record of a living participant is only ever taken from it by a serving
\* thread's hangup callback: neither the assigner nor reap_participants frees
\* it, however long they pause between word, byte and compare-exchange
\* (open.rs, reclamation_verdict).
VerdictOnlyDead ==
    [][\A p \in Procs : Live(p) /\ OwnWord(p) /\ Live(p)' /\ ~OwnWord(p)' =>
          \E q \in Procs : HangupReclaim(q) /\ arena[q] = arena[p] /\ cur[q] = slot[p]]_vars

\* A serving thread runs only in the process that has the ownership byte, and
\* while it serves the socket path leads to it (server.rs, bind_at and
\* unlink_if_still_ours; open.rs, the order of the fields of Attachment::Owner).
ServerIsOwner ==
    \A p \in Procs : /\ spc[p] # "off" => own = p
                     /\ At(p, "owner") => spc[p] # "off" /\ sock = p

\* When an opener has found every byte free and goes on to create an arena,
\* whoever holds a byte took it after the opener had taken the ownership byte
\* (ipc open.rs, step 4).
CheckedAlone ==
    \A p \in Procs : pc[p] \in {"creator", "build", "bind"} =>
        \A s \in Slots : bytes[s] \in {None, p} \cup late

\* A surviving writer never stays without an owner: somebody serves again, be
\* it a survivor, an opener, or the process itself (tree.rs, owner_lost;
\* open.rs, inherit_ownership).
Serving == \E q \in Procs : At(q, "owner")
Recovers == \A p \in Writers : At(p, "member") ~> (~At(p, "member") \/ Serving)

\* Processes that use an arena, or are about to.
Uses(p) == pc[p] \in {"attach", "publish", "member", "heir", "owner", "bind"}

\* Everybody who is attached shares one arena: step 4 of open, the scan of the
\* liveness bytes, keeps a process from creating a second one while a peer
\* lives (ipc open.rs).
OneArena == \A p, q \in Procs : Uses(p) /\ Uses(q) => arena[p] = arena[q]
===============================================================================
