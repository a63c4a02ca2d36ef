--------------------------- MODULE RendezvousProofs ---------------------------
(***************************************************************************)
(* Proofs about Rendezvous, for any number of processes and slots, and any *)
(* number of opens, arenas and kills: a slot has one living occupant, the  *)
(* ownership byte is with the server, an opener that creates was alone     *)
(* when it looked, and the record of a living participant is only taken    *)
(* from it by a hangup callback.                                           *)
(***************************************************************************)
EXTENDS Rendezvous, TLAPS

-------------------------------------------------------------------------------
(* The inductive invariant. *)

\* What the position of a process says of its slot and of its arena: the reply
\* to an attach carries both, a creator has its slot before it has its arena.
Places ==
    \A p \in Procs :
        /\ InSlot(p) \/ pc[p] \in {"granted", "hangup"} => slot[p] \in Slots
        /\ pc[p] \in {"granted", "attach", "publish", "member", "bind", "heir", "owner",
                      "stop", "unlock", "hangup"} => arena[p] \in 1 .. arenas

\* A serving thread lives in an owner, a sweep in a participant; the loop
\* variable starts from the first slot and is a slot where a slot is used.
Threads ==
    \A p \in Procs :
        /\ spc[p] # "off" => pc[p] \in {"owner", "stop"}
        /\ spc[p] \in {"verdict", "probe", "cas", "byte", "hangup", "hcas"} => cur[p] \in Slots
        /\ spc[p] \in {"off", "idle"} /\ pc[p] # "scan" => cur[p] = 0
        /\ wpc[p] # "idle" => pc[p] \in {"member", "heir", "owner"}

\* The client a serving thread answers waits for it, and for nobody else.
Clients ==
    \A q \in Procs : client[q] # None =>
        /\ pc[client[q]] = "hello" /\ peer[client[q]] = q
        /\ spc[q] \in {"word", "verdict", "probe", "cas", "byte"}

\* Whoever has a slot holds its byte.
Holders == \A p \in Procs : InSlot(p) => bytes[slot[p]] = p

\* Whoever is on the way to serving, or serves, holds the ownership byte.
Owners ==
    \A p \in Procs :
        /\ pc[p] \in {"scan", "creator", "build", "bind", "heir", "owner", "stop"} => own = p
        /\ pc[p] = "owner" => sock = p /\ spc[p] # "off"

\* The slots an opener has scanned are free, or were taken after it had the
\* ownership byte.
Scans ==
    \A p \in Procs : pc[p] = "scan" =>
        \A s \in Slots : s < cur[p] => bytes[s] \in {None} \cup late

\* A record's word, and the word a reclaimer observed in it, is no incarnation
\* that the record has not had.
Words == \A a \in Arenas, s \in Slots : word[a][s] <= inc[a][s]
Observed ==
    \A q \in Procs :
        /\ spc[q] \in {"probe", "cas"} => obs[q] <= inc[arena[q]][cur[q]]
        /\ wpc[q] \in {"probe", "cas"} => wobs[q] <= inc[arena[q]][wslot[q]]

\* A process whose record is published, though perhaps not yet served.
Published(p) == pc[p] \in {"bind", "member", "heir", "owner"} /\ p \in Writers

\* Between the probe of a byte and the compare-exchange, the word in hand is
\* never that of a living participant: the byte was free after the word was
\* read, so the participant came later and has a later incarnation.
Verdicts ==
    \A p, q \in Procs : Published(p) /\ arena[p] = arena[q] =>
        /\ spc[q] = "cas" /\ cur[q] = slot[p] => obs[q] # mine[p]
        /\ wpc[q] = "cas" /\ wslot[q] = slot[p] => wobs[q] # mine[p]

\* The step frees q's record on a hangup.
Excused(q) == \E p \in Procs : HangupReclaim(p) /\ arena[p] = arena[q] /\ cur[p] = slot[q]

\* What every reachable state satisfies, and every step keeps.
IInv == /\ TypeOK /\ Places /\ Threads /\ Clients /\ Holders /\ Owners
        /\ Scans /\ CheckedAlone /\ Words /\ Observed /\ Verdicts

-------------------------------------------------------------------------------
(* The types, in groups that the actions change together. *)

LockTypes == /\ own \in Procs \cup {None} /\ sock \in Procs \cup {None}
             /\ bytes \in [Slots -> Procs \cup {None}]
             /\ late \subseteq Procs
TableTypes == /\ inc \in [Arenas -> [Slots -> Nat]]
              /\ word \in [Arenas -> [Slots -> Nat \cup {RESERVED}]]
PCs  == [Procs -> {"out", "probe", "hello", "granted", "attach", "publish", "member", "own",
                   "scan", "creator", "build", "bind", "retry", "heir", "owner", "stop",
                   "unlock", "hangup"}]
SPCs == [Procs -> {"off", "idle", "word", "verdict", "probe", "cas", "byte", "hangup", "hcas"}]
ProcTypes ==
    /\ pc \in PCs
    /\ arena \in [Procs -> 0 .. arenas]
    /\ slot \in [Procs -> Slots \cup {NoSlot}]
    /\ mine \in [Procs -> Nat]
    /\ peer \in [Procs -> Procs \cup {None}]
    /\ opens \in Nat /\ arenas \in 0 .. MaxArenas /\ crashes \in Nat
ServerTypes ==
    /\ cur \in [Procs -> 0 .. N]
    /\ spc \in SPCs
    /\ client \in [Procs -> Procs \cup {None}]
    /\ conn \in [Procs -> [Slots -> ConnStates]]
    /\ obs \in [Procs -> Nat \cup {RESERVED}]
SweepTypes == /\ wpc \in [Procs -> {"idle", "probe", "cas"}]
              /\ wslot \in [Procs -> Slots]
              /\ wobs \in [Procs -> Nat \cup {RESERVED}]

LEMMA TypeParts == TypeOK <=> LockTypes /\ TableTypes /\ ProcTypes /\ ServerTypes /\ SweepTypes
  BY DEF TypeOK, LockTypes, TableTypes, ProcTypes, ServerTypes, SweepTypes, PCs, SPCs

\* A compare-exchange on a record leaves a word there.
LEMMA CasType ==
    ASSUME TypeOK, NEW a \in Arenas, NEW s \in Slots, NEW x, NEW w \in Nat \cup {RESERVED},
           CasWord(a, s, x, w)
    PROVE  word' \in [Arenas -> [Slots -> Nat \cup {RESERVED}]]
  BY DEF TypeOK, CasWord

\* Where a process has come to tells which of its variables index a record.
LEMMA PlaceOf ==
    ASSUME TypeOK, Places, NEW p \in Procs
    PROVE  /\ InSlot(p) \/ pc[p] \in {"granted", "hangup"} => slot[p] \in Slots
           /\ pc[p] \in {"granted", "attach", "publish", "member", "bind", "heir", "owner",
                         "stop", "unlock", "hangup"}
                => arena[p] \in 1 .. arenas /\ arena[p] \in Arenas
  <1>1. arenas \in 0 .. MaxArenas
    BY DEF TypeOK
  <1> QED
    BY <1>1, BoundAssumption DEF Places, Arenas

LEMMA ThreadPlace ==
    ASSUME TypeOK, Places, Threads, NEW q \in Procs
    PROVE  /\ spc[q] # "off" => arena[q] \in 1 .. arenas /\ arena[q] \in Arenas
           /\ spc[q] \in {"verdict", "probe", "cas", "byte", "hangup", "hcas"} => cur[q] \in Slots
           /\ wpc[q] # "idle" => /\ arena[q] \in 1 .. arenas /\ arena[q] \in Arenas
                                 /\ wslot[q] \in Slots
  <1>1. wslot[q] \in Slots
    BY DEF TypeOK
  <1> QED
    BY <1>1, PlaceOf DEF Threads

\* What a process's own moves do to the positions of all of them.
LEMMA JumpMoves ==
    ASSUME TypeOK, NEW p \in Procs, NEW l, Jump(p, l)
    PROVE  \A q \in Procs : pc'[q] = IF q = p THEN l ELSE pc[q]
  <1>1. pc \in PCs
    BY DEF TypeOK, PCs
  <1> QED
    BY <1>1 DEF Jump, PCs

LEMMA ServeMoves ==
    ASSUME TypeOK, NEW p \in Procs, NEW l, Serve(p, l)
    PROVE  \A q \in Procs : spc'[q] = IF q = p THEN l ELSE spc[q]
  <1>1. spc \in SPCs
    BY DEF TypeOK, SPCs
  <1> QED
    BY <1>1 DEF Serve, SPCs

LEMMA CloseAllMoves ==
    ASSUME TypeOK, NEW p \in Procs, CloseAll(p)
    PROVE  /\ \A q \in Procs : /\ pc'[q] = IF q = p THEN "out" ELSE pc[q]
                               /\ arena'[q] = IF q = p THEN 0 ELSE arena[q]
                               /\ slot'[q] = IF q = p THEN NoSlot ELSE slot[q]
                               /\ mine'[q] = IF q = p THEN 0 ELSE mine[q]
           /\ \A q \in Procs : /\ spc'[q] = IF q = p THEN "off" ELSE spc[q]
                               /\ cur'[q] = IF q = p THEN 0 ELSE cur[q]
                               /\ obs'[q] = IF q = p THEN FREE ELSE obs[q]
           /\ \A q \in Procs : /\ wpc'[q] = IF q = p THEN "idle" ELSE wpc[q]
                               /\ wslot'[q] = IF q = p THEN 0 ELSE wslot[q]
                               /\ wobs'[q] = IF q = p THEN FREE ELSE wobs[q]
           /\ \A q \in Procs : peer'[q] = IF q = p \/ peer[q] = p THEN None ELSE peer[q]
           /\ \A q \in Procs : client'[q] = IF client[q] = p \/ q = p THEN None ELSE client[q]
           /\ \A s \in Slots : bytes'[s] = IF bytes[s] = p THEN None ELSE bytes[s]
           /\ own' = IF own = p THEN None ELSE own
           /\ sock' = IF sock = p THEN None ELSE sock
           /\ late' = IF own = p THEN {} ELSE late \ {p}
           /\ UNCHANGED <<word, inc>>
  <1>1. /\ UNCHANGED <<word, inc>> /\ own' = (IF own = p THEN None ELSE own)
        /\ late' = (IF own = p THEN {} ELSE late \ {p}) /\ sock' = (IF sock = p THEN None ELSE sock)
    BY DEF CloseAll, table
  <1>2. \A s \in Slots : bytes'[s] = IF bytes[s] = p THEN None ELSE bytes[s]
    BY DEF CloseAll
  <1>3. \A q \in Procs : peer'[q] = IF q = p \/ peer[q] = p THEN None ELSE peer[q]
    BY DEF CloseAll
  <1>4. \A q \in Procs : client'[q] = IF client[q] = p \/ q = p THEN None ELSE client[q]
    BY DEF CloseAll
  <1>5. \A q \in Procs : /\ pc'[q] = IF q = p THEN "out" ELSE pc[q]
                         /\ arena'[q] = IF q = p THEN 0 ELSE arena[q]
                         /\ slot'[q] = IF q = p THEN NoSlot ELSE slot[q]
                         /\ mine'[q] = IF q = p THEN 0 ELSE mine[q]
    BY TypeParts, JumpMoves DEF CloseAll, ProcTypes
  <1>6. \A q \in Procs : /\ spc'[q] = IF q = p THEN "off" ELSE spc[q]
                         /\ cur'[q] = IF q = p THEN 0 ELSE cur[q]
                         /\ obs'[q] = IF q = p THEN FREE ELSE obs[q]
    BY TypeParts DEF CloseAll, ServerTypes, SPCs
  <1>7. \A q \in Procs : /\ wpc'[q] = IF q = p THEN "idle" ELSE wpc[q]
                         /\ wslot'[q] = IF q = p THEN 0 ELSE wslot[q]
                         /\ wobs'[q] = IF q = p THEN FREE ELSE wobs[q]
    BY TypeParts DEF CloseAll, SweepTypes, Swept, Sweep
  <1> QED
    BY <1>1, <1>2, <1>3, <1>4, <1>5, <1>6, <1>7

LEMMA CasMoves ==
    ASSUME TypeOK, NEW a \in Arenas, NEW s \in Slots, NEW x, NEW w, CasWord(a, s, x, w)
    PROVE  \A b \in Arenas, t \in Slots :
              word'[b][t] = IF b = a /\ t = s /\ word[a][s] = x THEN w ELSE word[b][t]
  <1>1. word \in [Arenas -> [Slots -> Nat \cup {RESERVED}]]
    BY DEF TypeOK
  <1> QED
    BY <1>1 DEF CasWord

-------------------------------------------------------------------------------
(* The types are preserved. *)

\* Steps of the lock file's variables keep their types.
LEMMA StepLockTypes == TypeOK /\ Places /\ [Next]_vars => LockTypes'
  <1> SUFFICES ASSUME TypeOK /\ Places, [Next]_vars PROVE LockTypes'
    OBVIOUS
  <1>own. own \in Procs \cup {None}
    BY DEF TypeOK
  <1>bytes. bytes \in [Slots -> Procs \cup {None}]
    BY DEF TypeOK
  <1>sock. sock \in Procs \cup {None}
    BY DEF TypeOK
  <1>late. late \subseteq Procs
    BY DEF TypeOK
  <1>1. ASSUME NEW p \in Procs, Open(p) \/ Probe(p) \/ NoAnswer(p) \/ Attach(p) \/
               FillSlot(p) \/ Build(p) \/ Retry(p) \/ GiveUp(p)
        PROVE  UNCHANGED <<own, bytes, sock, late>>
    BY <1>1 DEF Open, Probe, NoAnswer, Attach, FillSlot, Build, Retry, GiveUp, lockfile
  <1>2. ASSUME NEW p \in Procs, (\E c \in Procs : Accept(p, c)) \/ AssignWord(p) \/
               AssignVerdict(p) \/ AssignProbe(p) \/ AssignReclaim(p) \/ Grant(p) \/
               Reject(p) \/ (\E s \in Slots : HangupBegin(p, s))
        PROVE  UNCHANGED <<own, bytes, sock, late>>
    BY <1>2 DEF Accept, AssignWord, AssignVerdict, AssignProbe, AssignReclaim, Grant,
       Reject, HangupBegin, lockfile
  <1>3. ASSUME NEW p \in Procs, HangupLoad(p) \/ HangupReclaim(p) \/ (\E s \in Slots :
               SweepLoad(p, s)) \/ SweepProbe(p) \/ SweepReclaim(p) \/ LeaveRecord(p) \/
               CloseSocket(p)
        PROVE  UNCHANGED <<own, bytes, sock, late>>
    BY <1>3 DEF HangupLoad, HangupReclaim, SweepLoad, SweepProbe, SweepReclaim, LeaveRecord,
       CloseSocket, lockfile
  <1>4. ASSUME UNCHANGED vars PROVE UNCHANGED <<own, bytes, sock, late>>
    BY <1>4 DEF vars, lockfile
  <1>5. ASSUME UNCHANGED <<own, bytes, sock, late>> PROVE LockTypes'
    BY <1>5, TypeParts DEF LockTypes
  <1> USE <1>own, <1>bytes, <1>sock, <1>late DEF At, Jump, CasWord, Hangup, DropOwnership,
          Serve, NextSlot, Served, Sweep, Swept, CloseAll, lockfile, table, process, server,
          sweeper, counters, LockTypes
  <1>6. ASSUME NEW p \in Procs, RegisterAt(p) PROVE LockTypes'
    <2>1. slot[p] \in Slots
      BY <1>6, PlaceOf DEF RegisterAt, InSlot
    <2> QED
      BY <1>6, <2>1 DEF RegisterAt
  <1>7. ASSUME NEW p \in Procs, TakeOwnership(p) PROVE LockTypes'
    BY <1>7 DEF TakeOwnership
  <1>8. ASSUME NEW p \in Procs, Scan(p) PROVE LockTypes'
    BY <1>8 DEF Scan
  <1>9. ASSUME NEW p \in Procs, Scanned(p) PROVE LockTypes'
    BY <1>9 DEF Scanned
  <1>10. ASSUME NEW p \in Procs, RegisterCreator(p) PROVE LockTypes'
    <2>1. 0 \in Slots
      BY SlotAssumption DEF Slots
    <2> QED
      BY <1>10, <2>1 DEF RegisterCreator
  <1>11. ASSUME NEW p \in Procs, Bind(p) PROVE LockTypes'
    BY <1>11 DEF Bind
  <1>12. ASSUME NEW p \in Procs, OpenFails(p) PROVE LockTypes'
    BY <1>12 DEF OpenFails
  <1>13. ASSUME NEW p \in Procs, TakeOver(p) PROVE LockTypes'
    BY <1>13 DEF TakeOver
  <1>14. ASSUME NEW p \in Procs, BindFails(p) PROVE LockTypes'
    BY <1>14 DEF BindFails
  <1>15. ASSUME NEW p \in Procs, StopServer(p) PROVE LockTypes'
    BY <1>15 DEF StopServer
  <1>16. ASSUME NEW p \in Procs, CloseSession(p) PROVE LockTypes'
    BY <1>16 DEF CloseSession
  <1>17. ASSUME NEW p \in Procs, Kill(p) PROVE LockTypes'
    BY <1>17 DEF Kill
  <1> QED
    BY <1>1, <1>2, <1>3, <1>4, <1>5, <1>6, <1>7, <1>8, <1>9, <1>10, <1>11, <1>12, <1>13,
       <1>14, <1>15, <1>16, <1>17
    DEF Next, Join, Create, Assign, OnHangup, Reap, Leave

\* So do the steps of the participant records,
LEMMA StepTableTypes == TypeOK /\ Places /\ Threads /\ [Next]_vars => TableTypes'
  <1> SUFFICES ASSUME TypeOK /\ Places /\ Threads, [Next]_vars PROVE TableTypes'
    OBVIOUS
  <1>word. word \in [Arenas -> [Slots -> Nat \cup {RESERVED}]]
    BY DEF TypeOK
  <1>inc. inc \in [Arenas -> [Slots -> Nat]]
    BY DEF TypeOK
  <1>1. ASSUME NEW p \in Procs, Open(p) \/ Probe(p) \/ NoAnswer(p) \/ RegisterAt(p) \/
               TakeOwnership(p) \/ Scan(p) \/ Scanned(p) \/ RegisterCreator(p)
        PROVE  UNCHANGED <<word, inc>>
    BY <1>1 DEF Open, Probe, NoAnswer, RegisterAt, TakeOwnership, Scan, Scanned,
       RegisterCreator, table
  <1>2. ASSUME NEW p \in Procs, Bind(p) \/ Retry(p) \/ GiveUp(p) \/ OpenFails(p) \/
               TakeOver(p) \/ BindFails(p) \/ (\E c \in Procs : Accept(p, c)) \/
               AssignWord(p)
        PROVE  UNCHANGED <<word, inc>>
    BY <1>2 DEF Bind, Retry, GiveUp, OpenFails, TakeOver, BindFails, Accept, AssignWord,
       CloseAll, table
  <1>3. ASSUME NEW p \in Procs, AssignVerdict(p) \/ AssignProbe(p) \/ Grant(p) \/ Reject(p)
               \/ (\E s \in Slots : HangupBegin(p, s)) \/ HangupLoad(p) \/ (\E s \in Slots :
               SweepLoad(p, s)) \/ SweepProbe(p)
        PROVE  UNCHANGED <<word, inc>>
    BY <1>3 DEF AssignVerdict, AssignProbe, Grant, Reject, HangupBegin, HangupLoad,
       SweepLoad, SweepProbe, table
  <1>4. ASSUME NEW p \in Procs, StopServer(p) \/ CloseSession(p) \/ CloseSocket(p) \/
               Kill(p)
        PROVE  UNCHANGED <<word, inc>>
    BY <1>4 DEF StopServer, CloseSession, CloseSocket, Kill, CloseAll, table
  <1>5. ASSUME UNCHANGED vars PROVE UNCHANGED <<word, inc>>
    BY <1>5 DEF vars, table
  <1>6. ASSUME UNCHANGED <<word, inc>> PROVE TableTypes'
    BY <1>6, TypeParts DEF TableTypes
  <1> USE DEF FREE, RESERVED, At, Jump, Hangup, DropOwnership, Serve, NextSlot, Served,
          Sweep, Swept, CloseAll, lockfile, table, process, server, sweeper, counters
  <1>7. ASSUME NEW p \in Procs, Attach(p) PROVE TableTypes'
    <2>1. arena[p] \in Arenas /\ slot[p] \in Slots
      BY <1>7, PlaceOf DEF Attach, InSlot
    <2>2. UNCHANGED inc
      BY <1>7 DEF Attach
    <2>3. word' \in [Arenas -> [Slots -> Nat \cup {RESERVED}]]
      BY <1>7, <2>1, <1>word, CasType DEF Attach
    <2> QED
      BY <1>inc, <2>2, <2>3 DEF TableTypes
  <1>8. ASSUME NEW p \in Procs, FillSlot(p) PROVE TableTypes'
    <2>1. arena[p] \in Arenas /\ slot[p] \in Slots
      BY <1>8, PlaceOf DEF FillSlot, InSlot
    <2>2. word' \in [Arenas -> [Slots -> Nat \cup {RESERVED}]]
      BY <1>8, <1>word, <1>inc, <2>1 DEF FillSlot
    <2>3. inc' \in [Arenas -> [Slots -> Nat]]
      BY <1>8, <1>inc, <2>1 DEF FillSlot
    <2> QED
      BY <2>2, <2>3 DEF TableTypes
  <1>9. ASSUME NEW p \in Procs, Build(p) PROVE TableTypes'
    <2>1. arenas + 1 \in Arenas /\ 0 \in Slots
      BY <1>9, SlotAssumption, BoundAssumption, TypeParts DEF Build, Arenas, Slots, ProcTypes
    <2>2. word' \in [Arenas -> [Slots -> Nat \cup {RESERVED}]]
      BY <1>9, <1>word, <2>1 DEF Build
    <2>3. inc' \in [Arenas -> [Slots -> Nat]]
      BY <1>9, <1>inc, <2>1 DEF Build
    <2> QED
      BY <2>2, <2>3 DEF TableTypes
  <1>10. ASSUME NEW p \in Procs, AssignReclaim(p) PROVE TableTypes'
    <2>1. arena[p] \in Arenas /\ cur[p] \in Slots
      BY <1>10, ThreadPlace DEF AssignReclaim
    <2>2. UNCHANGED inc
      BY <1>10 DEF AssignReclaim
    <2>3. word' \in [Arenas -> [Slots -> Nat \cup {RESERVED}]]
      BY <1>10, <2>1, <1>word, CasType DEF AssignReclaim
    <2> QED
      BY <1>inc, <2>2, <2>3 DEF TableTypes
  <1>11. ASSUME NEW p \in Procs, HangupReclaim(p) PROVE TableTypes'
    <2>1. arena[p] \in Arenas /\ cur[p] \in Slots
      BY <1>11, ThreadPlace DEF HangupReclaim
    <2>2. UNCHANGED inc
      BY <1>11 DEF HangupReclaim
    <2>3. word' \in [Arenas -> [Slots -> Nat \cup {RESERVED}]]
      BY <1>11, <2>1, <1>word, CasType DEF HangupReclaim
    <2> QED
      BY <1>inc, <2>2, <2>3 DEF TableTypes
  <1>12. ASSUME NEW p \in Procs, SweepReclaim(p) PROVE TableTypes'
    <2>1. arena[p] \in Arenas /\ wslot[p] \in Slots
      BY <1>12, ThreadPlace DEF SweepReclaim
    <2>2. UNCHANGED inc
      BY <1>12 DEF SweepReclaim
    <2>3. word' \in [Arenas -> [Slots -> Nat \cup {RESERVED}]]
      BY <1>12, <2>1, <1>word, CasType DEF SweepReclaim
    <2> QED
      BY <1>inc, <2>2, <2>3 DEF TableTypes
  <1>13. ASSUME NEW p \in Procs, LeaveRecord(p) PROVE TableTypes'
    <2>1. arena[p] \in Arenas /\ slot[p] \in Slots
      BY <1>13, PlaceOf DEF LeaveRecord, InSlot
    <2>2. UNCHANGED inc
      BY <1>13 DEF LeaveRecord
    <2>3. word' \in [Arenas -> [Slots -> Nat \cup {RESERVED}]]
      BY <1>13, <2>1, <1>word, CasType DEF LeaveRecord
    <2> QED
      BY <1>inc, <2>2, <2>3 DEF TableTypes
  <1> QED
    BY <1>1, <1>2, <1>3, <1>4, <1>5, <1>6, <1>7, <1>8, <1>9, <1>10, <1>11, <1>12, <1>13
    DEF Next, Join, Create, Assign, OnHangup, Reap, Leave, TableTypes

\* of the processes,
LEMMA StepProcTypes == TypeOK /\ Places /\ Threads /\ Clients /\ [Next]_vars => ProcTypes'
  <1> SUFFICES ASSUME TypeOK /\ Places /\ Threads /\ Clients, [Next]_vars PROVE ProcTypes'
    OBVIOUS
  <1>pc. pc \in PCs
    BY DEF TypeOK, PCs
  <1>arena. arena \in [Procs -> 0 .. arenas]
    BY DEF TypeOK
  <1>slot. slot \in [Procs -> Slots \cup {NoSlot}]
    BY DEF TypeOK
  <1>mine. mine \in [Procs -> Nat]
    BY DEF TypeOK
  <1>peer. peer \in [Procs -> Procs \cup {None}]
    BY DEF TypeOK
  <1>arenas. arenas \in 0 .. MaxArenas
    BY DEF TypeOK
  <1>opens. opens \in Nat
    BY DEF TypeOK
  <1>crashes. crashes \in Nat
    BY DEF TypeOK
  <1>sock. sock \in Procs \cup {None}
    BY DEF TypeOK
  <1>1. ASSUME NEW p \in Procs, (\E c \in Procs : Accept(p, c)) \/ AssignWord(p) \/
               AssignVerdict(p) \/ AssignProbe(p) \/ AssignReclaim(p) \/ (\E s \in Slots :
               HangupBegin(p, s)) \/ HangupLoad(p) \/ HangupReclaim(p)
        PROVE  UNCHANGED <<pc, arena, slot, mine, peer, arenas, opens, crashes>>
    BY <1>1 DEF Accept, AssignWord, AssignVerdict, AssignProbe, AssignReclaim, HangupBegin,
       HangupLoad, HangupReclaim, process, counters
  <1>2. ASSUME NEW p \in Procs, (\E s \in Slots : SweepLoad(p, s)) \/ SweepProbe(p) \/
               SweepReclaim(p)
        PROVE  UNCHANGED <<pc, arena, slot, mine, peer, arenas, opens, crashes>>
    BY <1>2 DEF SweepLoad, SweepProbe, SweepReclaim, process, counters
  <1>3. ASSUME UNCHANGED vars PROVE UNCHANGED <<pc, arena, slot, mine, peer, arenas, opens, crashes>>
    BY <1>3 DEF vars, process, counters
  <1>4. ASSUME UNCHANGED <<pc, arena, slot, mine, peer, arenas, opens, crashes>> PROVE ProcTypes'
    BY <1>4, TypeParts DEF ProcTypes
  <1> USE <1>pc, <1>arena, <1>slot, <1>mine, <1>peer, <1>arenas, <1>opens, <1>crashes,
          <1>sock, BoundAssumption DEF PCs, FREE, NoSlot, At, Jump, CasWord, Hangup,
          DropOwnership, Serve, NextSlot, Served, Sweep, Swept, CloseAll, lockfile, table,
          process, server, sweeper, counters, ProcTypes
  <1>5. ASSUME NEW p \in Procs, Open(p) PROVE ProcTypes'
    BY <1>5 DEF Open
  <1>6. ASSUME NEW p \in Procs, Probe(p) PROVE ProcTypes'
    BY <1>6 DEF Probe
  <1>7. ASSUME NEW p \in Procs, NoAnswer(p) PROVE ProcTypes'
    BY <1>7 DEF NoAnswer
  <1>8. ASSUME NEW p \in Procs, RegisterAt(p) PROVE ProcTypes'
    BY <1>8 DEF RegisterAt
  <1>9. ASSUME NEW p \in Procs, Attach(p) PROVE ProcTypes'
    BY <1>9 DEF Attach
  <1>10. ASSUME NEW p \in Procs, FillSlot(p) PROVE ProcTypes'
    <2>1. arena[p] \in Arenas /\ slot[p] \in Slots
      BY <1>10, PlaceOf DEF FillSlot, InSlot
    <2>2. inc[arena[p]][slot[p]] \in Nat
      BY <2>1, TypeParts DEF TableTypes
    <2> QED
      BY <1>10, <2>1, <2>2 DEF FillSlot
  <1>11. ASSUME NEW p \in Procs, TakeOwnership(p) PROVE ProcTypes'
    BY <1>11 DEF TakeOwnership
  <1>12. ASSUME NEW p \in Procs, Scan(p) PROVE ProcTypes'
    BY <1>12 DEF Scan
  <1>13. ASSUME NEW p \in Procs, Scanned(p) PROVE ProcTypes'
    BY <1>13 DEF Scanned
  <1>14. ASSUME NEW p \in Procs, RegisterCreator(p) PROVE ProcTypes'
    <2>1. 0 \in Slots
      BY SlotAssumption DEF Slots
    <2> QED
      BY <1>14, <2>1 DEF RegisterCreator
  <1>15. ASSUME NEW p \in Procs, Build(p) PROVE ProcTypes'
    BY <1>15 DEF Build
  <1>16. ASSUME NEW p \in Procs, Bind(p) PROVE ProcTypes'
    BY <1>16 DEF Bind
  <1>17. ASSUME NEW p \in Procs, Retry(p) PROVE ProcTypes'
    BY <1>17 DEF Retry
  <1>18. ASSUME NEW p \in Procs, GiveUp(p) PROVE ProcTypes'
    BY <1>18 DEF GiveUp
  <1>19. ASSUME NEW p \in Procs, OpenFails(p) PROVE ProcTypes'
    BY <1>19 DEF OpenFails
  <1>20. ASSUME NEW p \in Procs, TakeOver(p) PROVE ProcTypes'
    BY <1>20 DEF TakeOver
  <1>21. ASSUME NEW p \in Procs, BindFails(p) PROVE ProcTypes'
    BY <1>21 DEF BindFails
  <1>22. ASSUME NEW p \in Procs, Grant(p) PROVE ProcTypes'
    <2>1. arena[p] \in Arenas /\ cur[p] \in Slots
      BY <1>22, ThreadPlace DEF Grant
    <2> QED
      BY <1>22, <2>1 DEF Grant
  <1>23. ASSUME NEW p \in Procs, Reject(p) PROVE ProcTypes'
    BY <1>23 DEF Reject
  <1>24. ASSUME NEW p \in Procs, LeaveRecord(p) PROVE ProcTypes'
    BY <1>24 DEF LeaveRecord
  <1>25. ASSUME NEW p \in Procs, StopServer(p) PROVE ProcTypes'
    BY <1>25 DEF StopServer
  <1>26. ASSUME NEW p \in Procs, CloseSession(p) PROVE ProcTypes'
    BY <1>26 DEF CloseSession
  <1>27. ASSUME NEW p \in Procs, CloseSocket(p) PROVE ProcTypes'
    BY <1>27 DEF CloseSocket
  <1>28. ASSUME NEW p \in Procs, Kill(p) PROVE ProcTypes'
    BY <1>28 DEF Kill
  <1> QED
    BY <1>1, <1>2, <1>3, <1>4, <1>5, <1>6, <1>7, <1>8, <1>9, <1>10, <1>11, <1>12, <1>13,
       <1>14, <1>15, <1>16, <1>17, <1>18, <1>19, <1>20, <1>21, <1>22, <1>23, <1>24, <1>25,
       <1>26, <1>27, <1>28
    DEF Next, Join, Create, Assign, OnHangup, Reap, Leave

\* of the serving threads,
LEMMA StepServerTypes == TypeOK /\ Places /\ Threads /\ [Next]_vars => ServerTypes'
  <1> SUFFICES ASSUME TypeOK /\ Places /\ Threads, [Next]_vars PROVE ServerTypes'
    OBVIOUS
  <1>cur. cur \in [Procs -> 0 .. N]
    BY DEF TypeOK
  <1>spc. spc \in SPCs
    BY DEF TypeOK, SPCs
  <1>client. client \in [Procs -> Procs \cup {None}]
    BY DEF TypeOK
  <1>conn. conn \in [Procs -> [Slots -> ConnStates]]
    BY DEF TypeOK
  <1>obs. obs \in [Procs -> Nat \cup {RESERVED}]
    BY DEF TypeOK
  <1>1. ASSUME NEW p \in Procs, Open(p) \/ Probe(p) \/ Attach(p) \/ FillSlot(p) \/
               TakeOwnership(p) \/ RegisterCreator(p) \/ Build(p) \/ Retry(p)
        PROVE  UNCHANGED <<cur, spc, client, conn, obs>>
    BY <1>1 DEF Open, Probe, Attach, FillSlot, TakeOwnership, RegisterCreator, Build, Retry,
       server
  <1>2. ASSUME NEW p \in Procs, GiveUp(p) \/ TakeOver(p) \/ BindFails(p) \/ (\E s \in Slots
               : SweepLoad(p, s)) \/ SweepProbe(p) \/ SweepReclaim(p) \/ LeaveRecord(p) \/
               CloseSession(p)
        PROVE  UNCHANGED <<cur, spc, client, conn, obs>>
    BY <1>2 DEF GiveUp, TakeOver, BindFails, SweepLoad, SweepProbe, SweepReclaim,
       LeaveRecord, CloseSession, server
  <1>3. ASSUME UNCHANGED vars PROVE UNCHANGED <<cur, spc, client, conn, obs>>
    BY <1>3 DEF vars, server
  <1>4. ASSUME UNCHANGED <<cur, spc, client, conn, obs>> PROVE ServerTypes'
    BY <1>4, TypeParts DEF ServerTypes
  <1> USE DEF SPCs, FREE, RESERVED, NoSlot, ConnStates, At, Jump, CasWord, Hangup,
          DropOwnership, Serve, NextSlot, Served, Sweep, Swept, CloseAll, lockfile, table,
          process, server, sweeper, counters, ServerTypes
  <1>5. ASSUME NEW p \in Procs, NoAnswer(p) PROVE ServerTypes'
    BY <1>5, <1>cur, <1>spc, <1>client, <1>conn, <1>obs, SlotAssumption DEF NoAnswer
  <1>6. ASSUME NEW p \in Procs, RegisterAt(p) PROVE ServerTypes'
    <2>1. UNCHANGED <<cur, spc, obs>>
      BY <1>6 DEF RegisterAt
    <2>2. client' \in [Procs -> Procs \cup {None}]
      BY <1>6, <1>client DEF RegisterAt
    <2>3. conn' \in [Procs -> [Slots -> ConnStates]]
      BY <1>6, <1>conn, SMTT(30) DEF RegisterAt
    <2> QED
      BY <2>1, <2>2, <2>3, <1>cur, <1>spc, <1>obs DEF ServerTypes
  <1>7. ASSUME NEW p \in Procs, Scan(p) PROVE ServerTypes'
    <2>1. UNCHANGED <<spc, client, conn, obs>>
      BY <1>7 DEF Scan
    <2>2. cur' \in [Procs -> 0 .. N]
      BY <1>7, <1>cur, SlotAssumption DEF Scan, Slots
    <2> QED
      BY <2>1, <2>2, <1>spc, <1>client, <1>conn, <1>obs DEF ServerTypes
  <1>8. ASSUME NEW p \in Procs, Scanned(p) PROVE ServerTypes'
    BY <1>8, <1>cur, <1>spc, <1>client, <1>conn, <1>obs, SlotAssumption DEF Scanned
  <1>9. ASSUME NEW p \in Procs, Bind(p) PROVE ServerTypes'
    BY <1>9, <1>cur, <1>spc, <1>client, <1>conn, <1>obs, SlotAssumption DEF Bind
  <1>10. ASSUME NEW p \in Procs, OpenFails(p) PROVE ServerTypes'
    BY <1>10, <1>cur, <1>spc, <1>client, <1>conn, <1>obs, SlotAssumption DEF OpenFails
  <1>11. ASSUME NEW p \in Procs, NEW c \in Procs, Accept(p, c) PROVE ServerTypes'
    BY <1>11, <1>cur, <1>spc, <1>client, <1>conn, <1>obs, SlotAssumption DEF Accept
  <1>12. ASSUME NEW p \in Procs, AssignWord(p) PROVE ServerTypes'
    <2>1. UNCHANGED <<client, conn>>
      BY <1>12 DEF AssignWord
    <2>2. cur' \in [Procs -> 0 .. N]
      BY <1>12, <1>cur, SlotAssumption DEF AssignWord, Slots
    <2>3. spc' \in SPCs
      BY <1>12, <1>spc DEF AssignWord
    <2>4. obs' \in [Procs -> Nat \cup {RESERVED}]
      BY <1>12, <1>obs DEF AssignWord
    <2> QED
      BY <2>1, <2>2, <2>3, <2>4, <1>client, <1>conn DEF ServerTypes
  <1>13. ASSUME NEW p \in Procs, AssignVerdict(p) PROVE ServerTypes'
    <2>1. arena[p] \in Arenas /\ cur[p] \in Slots
      BY <1>13, ThreadPlace DEF AssignVerdict
    <2>2. word[arena[p]][cur[p]] \in Nat \cup {RESERVED}
      BY <2>1, TypeParts DEF TableTypes
    <2>3. UNCHANGED <<client, conn>>
      BY <1>13 DEF AssignVerdict
    <2>4. cur' \in [Procs -> 0 .. N]
      BY <1>13, <1>cur, SlotAssumption, <2>1, <2>2 DEF AssignVerdict, Slots
    <2>5. spc' \in SPCs
      BY <1>13, <1>spc, <2>1, <2>2 DEF AssignVerdict
    <2>6. obs' \in [Procs -> Nat \cup {RESERVED}]
      BY <1>13, <1>obs, <2>1, <2>2 DEF AssignVerdict
    <2> QED
      BY <2>3, <2>4, <2>5, <2>6, <1>client, <1>conn DEF ServerTypes
  <1>14. ASSUME NEW p \in Procs, AssignProbe(p) PROVE ServerTypes'
    <2>1. arena[p] \in Arenas /\ cur[p] \in Slots
      BY <1>14, ThreadPlace DEF AssignProbe
    <2>2. UNCHANGED <<client, conn>>
      BY <1>14 DEF AssignProbe
    <2>3. cur' \in [Procs -> 0 .. N]
      BY <1>14, <1>cur, SlotAssumption, <2>1 DEF AssignProbe, Slots
    <2>4. spc' \in SPCs
      BY <1>14, <1>spc, <2>1 DEF AssignProbe
    <2>5. obs' \in [Procs -> Nat \cup {RESERVED}]
      BY <1>14, <1>obs, <2>1 DEF AssignProbe
    <2> QED
      BY <2>2, <2>3, <2>4, <2>5, <1>client, <1>conn DEF ServerTypes
  <1>15. ASSUME NEW p \in Procs, AssignReclaim(p) PROVE ServerTypes'
    <2>1. arena[p] \in Arenas /\ cur[p] \in Slots
      BY <1>15, ThreadPlace DEF AssignReclaim
    <2>2. UNCHANGED <<client, conn>>
      BY <1>15 DEF AssignReclaim
    <2>3. cur' \in [Procs -> 0 .. N]
      BY <1>15, <1>cur, SlotAssumption, <2>1 DEF AssignReclaim, Slots
    <2>4. spc' \in SPCs
      BY <1>15, <1>spc, <2>1 DEF AssignReclaim
    <2>5. obs' \in [Procs -> Nat \cup {RESERVED}]
      BY <1>15, <1>obs, <2>1 DEF AssignReclaim
    <2> QED
      BY <2>2, <2>3, <2>4, <2>5, <1>client, <1>conn DEF ServerTypes
  <1>16. ASSUME NEW p \in Procs, Grant(p) PROVE ServerTypes'
    <2>1. arena[p] \in Arenas /\ cur[p] \in Slots
      BY <1>16, ThreadPlace DEF Grant
    <2>2. cur' \in [Procs -> 0 .. N]
      BY <1>16, <1>cur, SlotAssumption, <2>1 DEF Grant, Slots
    <2>3. spc' \in SPCs
      BY <1>16, <1>spc, <2>1 DEF Grant
    <2>4. client' \in [Procs -> Procs \cup {None}]
      BY <1>16, <1>client, <2>1 DEF Grant
    <2>5. conn' \in [Procs -> [Slots -> ConnStates]]
      BY <1>16, <1>conn, <2>1, SMTT(30) DEF Grant
    <2>6. obs' \in [Procs -> Nat \cup {RESERVED}]
      BY <1>16, <1>obs, <2>1 DEF Grant
    <2> QED
      BY <2>2, <2>3, <2>4, <2>5, <2>6 DEF ServerTypes
  <1>17. ASSUME NEW p \in Procs, Reject(p) PROVE ServerTypes'
    BY <1>17, <1>cur, <1>spc, <1>client, <1>conn, <1>obs, SlotAssumption DEF Reject
  <1>18. ASSUME NEW p \in Procs, NEW s \in Slots, HangupBegin(p, s) PROVE ServerTypes'
    <2>1. UNCHANGED <<client, conn, obs>>
      BY <1>18 DEF HangupBegin
    <2>2. cur' \in [Procs -> 0 .. N]
      BY <1>18, <1>cur, SlotAssumption DEF HangupBegin, Slots
    <2>3. spc' \in SPCs
      BY <1>18, <1>spc DEF HangupBegin
    <2> QED
      BY <2>1, <2>2, <2>3, <1>client, <1>conn, <1>obs DEF ServerTypes
  <1>19. ASSUME NEW p \in Procs, HangupLoad(p) PROVE ServerTypes'
    <2>1. arena[p] \in Arenas /\ cur[p] \in Slots
      BY <1>19, ThreadPlace DEF HangupLoad
    <2>2. word[arena[p]][cur[p]] \in Nat \cup {RESERVED}
      BY <2>1, TypeParts DEF TableTypes
    <2>3. UNCHANGED client
      BY <1>19 DEF HangupLoad
    <2>4. cur' \in [Procs -> 0 .. N]
      BY <1>19, <1>cur, SlotAssumption, <2>1, <2>2 DEF HangupLoad, Slots
    <2>5. spc' \in SPCs
      BY <1>19, <1>spc, <2>1, <2>2 DEF HangupLoad
    <2>6. conn' \in [Procs -> [Slots -> ConnStates]]
      BY <1>19, <1>conn, <2>1, <2>2 DEF HangupLoad
    <2>7. obs' \in [Procs -> Nat \cup {RESERVED}]
      BY <1>19, <1>obs, <2>1, <2>2 DEF HangupLoad
    <2> QED
      BY <2>3, <2>4, <2>5, <2>6, <2>7, <1>client DEF ServerTypes
  <1>20. ASSUME NEW p \in Procs, HangupReclaim(p) PROVE ServerTypes'
    <2>1. arena[p] \in Arenas /\ cur[p] \in Slots
      BY <1>20, ThreadPlace DEF HangupReclaim
    <2> QED
      BY <1>20, <1>cur, <1>spc, <1>client, <1>conn, <1>obs, SlotAssumption, <2>1 DEF
         HangupReclaim
  <1>21. ASSUME NEW p \in Procs, StopServer(p) PROVE ServerTypes'
    BY <1>21, <1>cur, <1>spc, <1>client, <1>conn, <1>obs, SlotAssumption DEF StopServer
  <1>22. ASSUME NEW p \in Procs, CloseSocket(p) PROVE ServerTypes'
    BY <1>22, <1>cur, <1>spc, <1>client, <1>conn, <1>obs, SlotAssumption DEF CloseSocket
  <1>23. ASSUME NEW p \in Procs, Kill(p) PROVE ServerTypes'
    BY <1>23, <1>cur, <1>spc, <1>client, <1>conn, <1>obs, SlotAssumption DEF Kill
  <1> QED
    BY <1>1, <1>2, <1>3, <1>4, <1>5, <1>6, <1>7, <1>8, <1>9, <1>10, <1>11, <1>12, <1>13,
       <1>14, <1>15, <1>16, <1>17, <1>18, <1>19, <1>20, <1>21, <1>22, <1>23
    DEF Next, Join, Create, Assign, OnHangup, Reap, Leave

\* and of the sweeps.
LEMMA StepSweepTypes == TypeOK /\ Places /\ Threads /\ [Next]_vars => SweepTypes'
  <1> SUFFICES ASSUME TypeOK /\ Places /\ Threads, [Next]_vars PROVE SweepTypes'
    OBVIOUS
  <1>wpc. wpc \in [Procs -> {"idle", "probe", "cas"}]
    BY DEF TypeOK
  <1>wslot. wslot \in [Procs -> Slots]
    BY DEF TypeOK
  <1>wobs. wobs \in [Procs -> Nat \cup {RESERVED}]
    BY DEF TypeOK
  <1>1. ASSUME NEW p \in Procs, Open(p) \/ Probe(p) \/ NoAnswer(p) \/ RegisterAt(p) \/
               Attach(p) \/ FillSlot(p) \/ TakeOwnership(p) \/ Scan(p)
        PROVE  UNCHANGED <<wpc, wslot, wobs>>
    BY <1>1 DEF Open, Probe, NoAnswer, RegisterAt, Attach, FillSlot, TakeOwnership, Scan,
       sweeper
  <1>2. ASSUME NEW p \in Procs, Scanned(p) \/ RegisterCreator(p) \/ Build(p) \/ Bind(p) \/
               Retry(p) \/ GiveUp(p) \/ TakeOver(p) \/ BindFails(p)
        PROVE  UNCHANGED <<wpc, wslot, wobs>>
    BY <1>2 DEF Scanned, RegisterCreator, Build, Bind, Retry, GiveUp, TakeOver, BindFails,
       sweeper
  <1>3. ASSUME NEW p \in Procs, (\E c \in Procs : Accept(p, c)) \/ AssignWord(p) \/
               AssignVerdict(p) \/ AssignProbe(p) \/ AssignReclaim(p) \/ Grant(p) \/
               Reject(p) \/ (\E s \in Slots : HangupBegin(p, s))
        PROVE  UNCHANGED <<wpc, wslot, wobs>>
    BY <1>3 DEF Accept, AssignWord, AssignVerdict, AssignProbe, AssignReclaim, Grant,
       Reject, HangupBegin, sweeper
  <1>4. ASSUME NEW p \in Procs, HangupLoad(p) \/ HangupReclaim(p) \/ LeaveRecord(p) \/
               StopServer(p) \/ CloseSession(p) \/ CloseSocket(p)
        PROVE  UNCHANGED <<wpc, wslot, wobs>>
    BY <1>4 DEF HangupLoad, HangupReclaim, LeaveRecord, StopServer, CloseSession,
       CloseSocket, sweeper
  <1>5. ASSUME UNCHANGED vars PROVE UNCHANGED <<wpc, wslot, wobs>>
    BY <1>5 DEF vars, sweeper
  <1>6. ASSUME UNCHANGED <<wpc, wslot, wobs>> PROVE SweepTypes'
    BY <1>6, TypeParts DEF SweepTypes
  <1> USE <1>wpc, <1>wslot, <1>wobs DEF FREE, RESERVED, At, Jump, CasWord, Hangup,
          DropOwnership, Serve, NextSlot, Served, Sweep, Swept, CloseAll, lockfile, table,
          process, server, sweeper, counters, SweepTypes
  <1>7. ASSUME NEW p \in Procs, OpenFails(p) PROVE SweepTypes'
    <2>1. 0 \in Slots
      BY SlotAssumption DEF Slots
    <2> QED
      BY <1>7, <2>1 DEF OpenFails
  <1>8. ASSUME NEW p \in Procs, NEW s \in Slots, SweepLoad(p, s) PROVE SweepTypes'
    <2>1. arena[p] \in Arenas
      BY <1>8, PlaceOf DEF SweepLoad
    <2>2. word[arena[p]][s] \in Nat \cup {RESERVED}
      BY <2>1, TypeParts DEF TableTypes
    <2> QED
      BY <1>8, <2>1, <2>2 DEF SweepLoad
  <1>9. ASSUME NEW p \in Procs, SweepProbe(p) PROVE SweepTypes'
    <2>1. 0 \in Slots
      BY SlotAssumption DEF Slots
    <2> QED
      BY <1>9, <2>1 DEF SweepProbe
  <1>10. ASSUME NEW p \in Procs, SweepReclaim(p) PROVE SweepTypes'
    <2>1. 0 \in Slots
      BY SlotAssumption DEF Slots
    <2> QED
      BY <1>10, <2>1 DEF SweepReclaim
  <1>11. ASSUME NEW p \in Procs, Kill(p) PROVE SweepTypes'
    <2>1. 0 \in Slots
      BY SlotAssumption DEF Slots
    <2> QED
      BY <1>11, <2>1 DEF Kill
  <1> QED
    BY <1>1, <1>2, <1>3, <1>4, <1>5, <1>6, <1>7, <1>8, <1>9, <1>10, <1>11
    DEF Next, Join, Create, Assign, OnHangup, Reap, Leave

LEMMA StepTypes == TypeOK /\ Places /\ Threads /\ Clients /\ [Next]_vars => TypeOK'
  <1> SUFFICES ASSUME TypeOK, Places, Threads, Clients, [Next]_vars PROVE TypeOK'
    OBVIOUS
  <1>1. LockTypes' /\ TableTypes' /\ ProcTypes' /\ ServerTypes' /\ SweepTypes'
    BY StepLockTypes, StepTableTypes, StepProcTypes, StepServerTypes, StepSweepTypes
  <1> QED
    BY <1>1 DEF TypeOK, LockTypes, TableTypes, ProcTypes, ServerTypes, SweepTypes, PCs, SPCs

-------------------------------------------------------------------------------
(* The other parts are preserved. *)

\* A process only has a slot and an arena that it was granted or created.
LEMMA StepPlaces == TypeOK /\ Places /\ Threads /\ Clients /\ [Next]_vars => Places'
  <1> SUFFICES ASSUME TypeOK /\ Places /\ Threads /\ Clients, [Next]_vars PROVE Places'
    OBVIOUS
  <1>slot. slot \in [Procs -> Slots \cup {NoSlot}]
    BY DEF TypeOK
  <1>arena. arena \in [Procs -> 0 .. arenas]
    BY DEF TypeOK
  <1>arenas. arenas \in 0 .. MaxArenas
    BY DEF TypeOK
  <1>client. client \in [Procs -> Procs \cup {None}]
    BY DEF TypeOK
  <1>1. ASSUME NEW p \in Procs, (\E c \in Procs : Accept(p, c)) \/ AssignWord(p) \/
               AssignVerdict(p) \/ AssignProbe(p) \/ AssignReclaim(p) \/ (\E s \in Slots :
               HangupBegin(p, s)) \/ HangupLoad(p) \/ HangupReclaim(p)
        PROVE  UNCHANGED <<pc, slot, arena, arenas>>
    BY <1>1 DEF Accept, AssignWord, AssignVerdict, AssignProbe, AssignReclaim, HangupBegin,
       HangupLoad, HangupReclaim, process, counters
  <1>2. ASSUME NEW p \in Procs, (\E s \in Slots : SweepLoad(p, s)) \/ SweepProbe(p) \/
               SweepReclaim(p)
        PROVE  UNCHANGED <<pc, slot, arena, arenas>>
    BY <1>2 DEF SweepLoad, SweepProbe, SweepReclaim, process, counters
  <1>3. ASSUME UNCHANGED vars PROVE UNCHANGED <<pc, slot, arena, arenas>>
    BY <1>3 DEF vars, process, counters
  <1>4. ASSUME UNCHANGED <<pc, slot, arena, arenas>> PROVE Places'
    BY <1>4 DEF Places, InSlot
  <1> USE <1>slot, <1>arena, <1>arenas, <1>client, JumpMoves, ServeMoves, ProcAssumption DEF
          Places, InSlot, At, CasWord, Hangup, DropOwnership, NextSlot, Served, Sweep,
          Swept, lockfile, table, process, server, sweeper, counters
  <1>5. ASSUME NEW p \in Procs, Open(p) PROVE Places'
    BY <1>5 DEF Open
  <1>6. ASSUME NEW p \in Procs, Probe(p) PROVE Places'
    BY <1>6 DEF Probe
  <1>7. ASSUME NEW p \in Procs, NoAnswer(p) PROVE Places'
    BY <1>7 DEF NoAnswer
  <1>8. ASSUME NEW p \in Procs, RegisterAt(p) PROVE Places'
    BY <1>8 DEF RegisterAt
  <1>9. ASSUME NEW p \in Procs, Attach(p) PROVE Places'
    BY <1>9 DEF Attach
  <1>10. ASSUME NEW p \in Procs, FillSlot(p) PROVE Places'
    BY <1>10 DEF FillSlot
  <1>11. ASSUME NEW p \in Procs, TakeOwnership(p) PROVE Places'
    BY <1>11 DEF TakeOwnership
  <1>12. ASSUME NEW p \in Procs, Scan(p) PROVE Places'
    BY <1>12 DEF Scan
  <1>13. ASSUME NEW p \in Procs, Scanned(p) PROVE Places'
    BY <1>13 DEF Scanned
  <1>14. ASSUME NEW p \in Procs, RegisterCreator(p) PROVE Places'
    <2>1. 0 \in Slots
      BY SlotAssumption DEF Slots
    <2> QED
      BY <1>14, <2>1 DEF RegisterCreator
  <1>15. ASSUME NEW p \in Procs, Build(p) PROVE Places'
    BY <1>15 DEF Build
  <1>16. ASSUME NEW p \in Procs, Bind(p) PROVE Places'
    BY <1>16 DEF Bind, PCs, SPCs
  <1>17. ASSUME NEW p \in Procs, Retry(p) PROVE Places'
    BY <1>17 DEF Retry
  <1>18. ASSUME NEW p \in Procs, GiveUp(p) PROVE Places'
    BY <1>18 DEF GiveUp
  <1>19. ASSUME NEW p \in Procs, OpenFails(p) PROVE Places'
    BY <1>19, CloseAllMoves DEF OpenFails
  <1>20. ASSUME NEW p \in Procs, TakeOver(p) PROVE Places'
    BY <1>20 DEF TakeOver
  <1>21. ASSUME NEW p \in Procs, BindFails(p) PROVE Places'
    BY <1>21 DEF BindFails
  <1>22. ASSUME NEW p \in Procs, Grant(p) PROVE Places'
    <2>1. arena[p] \in 1 .. arenas /\ cur[p] \in Slots
      BY <1>22, ThreadPlace DEF Grant
    <2> QED
      BY <1>22, <2>1 DEF Grant, Clients
  <1>23. ASSUME NEW p \in Procs, Reject(p) PROVE Places'
    BY <1>23 DEF Reject, Clients
  <1>24. ASSUME NEW p \in Procs, LeaveRecord(p) PROVE Places'
    BY <1>24 DEF LeaveRecord
  <1>25. ASSUME NEW p \in Procs, StopServer(p) PROVE Places'
    BY <1>25 DEF StopServer, PCs, SPCs
  <1>26. ASSUME NEW p \in Procs, CloseSession(p) PROVE Places'
    BY <1>26 DEF CloseSession
  <1>27. ASSUME NEW p \in Procs, CloseSocket(p) PROVE Places'
    BY <1>27 DEF CloseSocket
  <1>28. ASSUME NEW p \in Procs, Kill(p) PROVE Places'
    BY <1>28, CloseAllMoves DEF Kill
  <1> QED
    BY <1>1, <1>2, <1>3, <1>4, <1>5, <1>6, <1>7, <1>8, <1>9, <1>10, <1>11, <1>12, <1>13,
       <1>14, <1>15, <1>16, <1>17, <1>18, <1>19, <1>20, <1>21, <1>22, <1>23, <1>24, <1>25,
       <1>26, <1>27, <1>28
    DEF Next, Join, Create, Assign, OnHangup, Reap, Leave

\* Serving threads end before their owner leaves, sweeps before their participant.
LEMMA StepThreads == TypeOK /\ Threads /\ Clients /\ [Next]_vars => Threads'
  <1> SUFFICES ASSUME TypeOK /\ Threads /\ Clients, [Next]_vars PROVE Threads'
    OBVIOUS
  <1>spc. spc \in SPCs
    BY DEF TypeOK, SPCs
  <1>cur. cur \in [Procs -> 0 .. N]
    BY DEF TypeOK
  <1>wpc. wpc \in [Procs -> {"idle", "probe", "cas"}]
    BY DEF TypeOK
  <1>client. client \in [Procs -> Procs \cup {None}]
    BY DEF TypeOK
  <1>1. ASSUME UNCHANGED vars PROVE UNCHANGED <<pc, spc, cur, wpc>>
    BY <1>1 DEF vars, process, server, sweeper
  <1>2. ASSUME UNCHANGED <<pc, spc, cur, wpc>> PROVE Threads'
    BY <1>2 DEF Threads
  <1> USE <1>spc, <1>cur, <1>wpc, <1>client, JumpMoves, ServeMoves, ProcAssumption,
          SlotAssumption DEF Threads, Slots, At, CasWord, Hangup, DropOwnership, NextSlot,
          Served, Sweep, Swept, lockfile, table, process, server, sweeper, counters
  <1>3. ASSUME NEW p \in Procs, Open(p) PROVE Threads'
    BY <1>3 DEF Open
  <1>4. ASSUME NEW p \in Procs, Probe(p) PROVE Threads'
    BY <1>4 DEF Probe
  <1>5. ASSUME NEW p \in Procs, NoAnswer(p) PROVE Threads'
    BY <1>5 DEF NoAnswer
  <1>6. ASSUME NEW p \in Procs, RegisterAt(p) PROVE Threads'
    BY <1>6 DEF RegisterAt
  <1>7. ASSUME NEW p \in Procs, Attach(p) PROVE Threads'
    BY <1>7 DEF Attach
  <1>8. ASSUME NEW p \in Procs, FillSlot(p) PROVE Threads'
    BY <1>8 DEF FillSlot
  <1>9. ASSUME NEW p \in Procs, TakeOwnership(p) PROVE Threads'
    BY <1>9 DEF TakeOwnership
  <1>10. ASSUME NEW p \in Procs, Scan(p) PROVE Threads'
    BY <1>10 DEF Scan
  <1>11. ASSUME NEW p \in Procs, Scanned(p) PROVE Threads'
    BY <1>11 DEF Scanned
  <1>12. ASSUME NEW p \in Procs, RegisterCreator(p) PROVE Threads'
    BY <1>12 DEF RegisterCreator
  <1>13. ASSUME NEW p \in Procs, Build(p) PROVE Threads'
    BY <1>13 DEF Build
  <1>14. ASSUME NEW p \in Procs, Bind(p) PROVE Threads'
    BY <1>14 DEF Bind, PCs, SPCs
  <1>15. ASSUME NEW p \in Procs, Retry(p) PROVE Threads'
    BY <1>15 DEF Retry
  <1>16. ASSUME NEW p \in Procs, GiveUp(p) PROVE Threads'
    BY <1>16 DEF GiveUp
  <1>17. ASSUME NEW p \in Procs, OpenFails(p) PROVE Threads'
    BY <1>17, CloseAllMoves DEF OpenFails
  <1>18. ASSUME NEW p \in Procs, TakeOver(p) PROVE Threads'
    BY <1>18 DEF TakeOver
  <1>19. ASSUME NEW p \in Procs, BindFails(p) PROVE Threads'
    BY <1>19 DEF BindFails
  <1>20. ASSUME NEW p \in Procs, NEW c \in Procs, Accept(p, c) PROVE Threads'
    BY <1>20 DEF Accept
  <1>21. ASSUME NEW p \in Procs, AssignWord(p) PROVE Threads'
    BY <1>21 DEF AssignWord
  <1>22. ASSUME NEW p \in Procs, AssignVerdict(p) PROVE Threads'
    BY <1>22 DEF AssignVerdict
  <1>23. ASSUME NEW p \in Procs, AssignProbe(p) PROVE Threads'
    BY <1>23 DEF AssignProbe
  <1>24. ASSUME NEW p \in Procs, AssignReclaim(p) PROVE Threads'
    BY <1>24 DEF AssignReclaim
  <1>25. ASSUME NEW p \in Procs, Grant(p) PROVE Threads'
    BY <1>25 DEF Grant, Clients
  <1>26. ASSUME NEW p \in Procs, Reject(p) PROVE Threads'
    BY <1>26 DEF Reject, Clients
  <1>27. ASSUME NEW p \in Procs, NEW s \in Slots, HangupBegin(p, s) PROVE Threads'
    BY <1>27 DEF HangupBegin
  <1>28. ASSUME NEW p \in Procs, HangupLoad(p) PROVE Threads'
    BY <1>28 DEF HangupLoad
  <1>29. ASSUME NEW p \in Procs, HangupReclaim(p) PROVE Threads'
    BY <1>29 DEF HangupReclaim
  <1>30. ASSUME NEW p \in Procs, NEW s \in Slots, SweepLoad(p, s) PROVE Threads'
    BY <1>30 DEF SweepLoad
  <1>31. ASSUME NEW p \in Procs, SweepProbe(p) PROVE Threads'
    BY <1>31 DEF SweepProbe
  <1>32. ASSUME NEW p \in Procs, SweepReclaim(p) PROVE Threads'
    BY <1>32 DEF SweepReclaim
  <1>33. ASSUME NEW p \in Procs, LeaveRecord(p) PROVE Threads'
    BY <1>33 DEF LeaveRecord
  <1>34. ASSUME NEW p \in Procs, StopServer(p) PROVE Threads'
    BY <1>34 DEF StopServer, PCs, SPCs
  <1>35. ASSUME NEW p \in Procs, CloseSession(p) PROVE Threads'
    BY <1>35 DEF CloseSession
  <1>36. ASSUME NEW p \in Procs, CloseSocket(p) PROVE Threads'
    BY <1>36 DEF CloseSocket
  <1>37. ASSUME NEW p \in Procs, Kill(p) PROVE Threads'
    BY <1>37, CloseAllMoves DEF Kill
  <1> QED
    BY <1>1, <1>2, <1>3, <1>4, <1>5, <1>6, <1>7, <1>8, <1>9, <1>10, <1>11, <1>12, <1>13,
       <1>14, <1>15, <1>16, <1>17, <1>18, <1>19, <1>20, <1>21, <1>22, <1>23, <1>24, <1>25,
       <1>26, <1>27, <1>28, <1>29, <1>30, <1>31, <1>32, <1>33, <1>34, <1>35, <1>36, <1>37
    DEF Next, Join, Create, Assign, OnHangup, Reap, Leave

\* A client that stops waiting is forgotten by its server in the same step.
LEMMA StepClients == TypeOK /\ Threads /\ Clients /\ [Next]_vars => Clients'
  <1> SUFFICES ASSUME TypeOK /\ Threads /\ Clients, [Next]_vars PROVE Clients'
    OBVIOUS
  <1>spc. spc \in SPCs
    BY DEF TypeOK, SPCs
  <1>peer. peer \in [Procs -> Procs \cup {None}]
    BY DEF TypeOK
  <1>client. client \in [Procs -> Procs \cup {None}]
    BY DEF TypeOK
  <1>1. ASSUME NEW p \in Procs, (\E s \in Slots : SweepLoad(p, s)) \/ SweepProbe(p) \/
               SweepReclaim(p)
        PROVE  UNCHANGED <<pc, spc, peer, client>>
    BY <1>1 DEF SweepLoad, SweepProbe, SweepReclaim, process, server
  <1>2. ASSUME UNCHANGED vars PROVE UNCHANGED <<pc, spc, peer, client>>
    BY <1>2 DEF vars, process, server
  <1>3. ASSUME UNCHANGED <<pc, spc, peer, client>> PROVE Clients'
    BY <1>3 DEF Clients
  <1> USE <1>spc, <1>peer, <1>client, JumpMoves, ServeMoves, ProcAssumption DEF Clients, At,
          CasWord, Hangup, DropOwnership, NextSlot, Served, Sweep, Swept, lockfile, table,
          process, server, sweeper, counters
  <1>4. ASSUME NEW p \in Procs, Open(p) PROVE Clients'
    BY <1>4 DEF Open
  <1>5. ASSUME NEW p \in Procs, Probe(p) PROVE Clients'
    BY <1>5 DEF Probe
  <1>6. ASSUME NEW p \in Procs, NoAnswer(p) PROVE Clients'
    BY <1>6 DEF NoAnswer
  <1>7. ASSUME NEW p \in Procs, RegisterAt(p) PROVE Clients'
    BY <1>7 DEF RegisterAt
  <1>8. ASSUME NEW p \in Procs, Attach(p) PROVE Clients'
    BY <1>8 DEF Attach
  <1>9. ASSUME NEW p \in Procs, FillSlot(p) PROVE Clients'
    BY <1>9 DEF FillSlot
  <1>10. ASSUME NEW p \in Procs, TakeOwnership(p) PROVE Clients'
    BY <1>10 DEF TakeOwnership
  <1>11. ASSUME NEW p \in Procs, Scan(p) PROVE Clients'
    BY <1>11 DEF Scan
  <1>12. ASSUME NEW p \in Procs, Scanned(p) PROVE Clients'
    BY <1>12 DEF Scanned
  <1>13. ASSUME NEW p \in Procs, RegisterCreator(p) PROVE Clients'
    BY <1>13 DEF RegisterCreator
  <1>14. ASSUME NEW p \in Procs, Build(p) PROVE Clients'
    BY <1>14 DEF Build
  <1>15. ASSUME NEW p \in Procs, Bind(p) PROVE Clients'
    BY <1>15 DEF Bind, Threads, SPCs
  <1>16. ASSUME NEW p \in Procs, Retry(p) PROVE Clients'
    BY <1>16 DEF Retry
  <1>17. ASSUME NEW p \in Procs, GiveUp(p) PROVE Clients'
    BY <1>17 DEF GiveUp
  <1>18. ASSUME NEW p \in Procs, OpenFails(p) PROVE Clients'
    BY <1>18, CloseAllMoves DEF OpenFails
  <1>19. ASSUME NEW p \in Procs, TakeOver(p) PROVE Clients'
    BY <1>19 DEF TakeOver
  <1>20. ASSUME NEW p \in Procs, BindFails(p) PROVE Clients'
    BY <1>20 DEF BindFails
  <1>21. ASSUME NEW p \in Procs, NEW c \in Procs, Accept(p, c) PROVE Clients'
    BY <1>21 DEF Accept, Threads, SPCs
  <1>22. ASSUME NEW p \in Procs, AssignWord(p) PROVE Clients'
    BY <1>22 DEF AssignWord
  <1>23. ASSUME NEW p \in Procs, AssignVerdict(p) PROVE Clients'
    BY <1>23 DEF AssignVerdict
  <1>24. ASSUME NEW p \in Procs, AssignProbe(p) PROVE Clients'
    BY <1>24 DEF AssignProbe
  <1>25. ASSUME NEW p \in Procs, AssignReclaim(p) PROVE Clients'
    BY <1>25 DEF AssignReclaim
  <1>26. ASSUME NEW p \in Procs, Grant(p) PROVE Clients'
    BY <1>26 DEF Grant, Clients
  <1>27. ASSUME NEW p \in Procs, Reject(p) PROVE Clients'
    BY <1>27 DEF Reject, Clients
  <1>28. ASSUME NEW p \in Procs, NEW s \in Slots, HangupBegin(p, s) PROVE Clients'
    BY <1>28 DEF HangupBegin, Threads, SPCs
  <1>29. ASSUME NEW p \in Procs, HangupLoad(p) PROVE Clients'
    BY <1>29 DEF HangupLoad
  <1>30. ASSUME NEW p \in Procs, HangupReclaim(p) PROVE Clients'
    BY <1>30 DEF HangupReclaim
  <1>31. ASSUME NEW p \in Procs, LeaveRecord(p) PROVE Clients'
    BY <1>31 DEF LeaveRecord
  <1>32. ASSUME NEW p \in Procs, StopServer(p) PROVE Clients'
    BY <1>32 DEF StopServer, Threads, SPCs
  <1>33. ASSUME NEW p \in Procs, CloseSession(p) PROVE Clients'
    BY <1>33 DEF CloseSession
  <1>34. ASSUME NEW p \in Procs, CloseSocket(p) PROVE Clients'
    BY <1>34 DEF CloseSocket
  <1>35. ASSUME NEW p \in Procs, Kill(p) PROVE Clients'
    BY <1>35, CloseAllMoves DEF Kill
  <1> QED
    BY <1>1, <1>2, <1>3, <1>4, <1>5, <1>6, <1>7, <1>8, <1>9, <1>10, <1>11, <1>12, <1>13,
       <1>14, <1>15, <1>16, <1>17, <1>18, <1>19, <1>20, <1>21, <1>22, <1>23, <1>24, <1>25,
       <1>26, <1>27, <1>28, <1>29, <1>30, <1>31, <1>32, <1>33, <1>34, <1>35
    DEF Next, Join, Create, Assign, OnHangup, Reap, Leave

\* A byte is only taken when it is free, and kept until the occupant is gone.
LEMMA StepHolders == TypeOK /\ Places /\ Clients /\ Holders /\ [Next]_vars => Holders'
  <1> SUFFICES ASSUME TypeOK /\ Places /\ Clients /\ Holders, [Next]_vars PROVE Holders'
    OBVIOUS
  <1>bytes. bytes \in [Slots -> Procs \cup {None}]
    BY DEF TypeOK
  <1>slot. slot \in [Procs -> Slots \cup {NoSlot}]
    BY DEF TypeOK
  <1>client. client \in [Procs -> Procs \cup {None}]
    BY DEF TypeOK
  <1>1. ASSUME NEW p \in Procs, (\E c \in Procs : Accept(p, c)) \/ AssignWord(p) \/
               AssignVerdict(p) \/ AssignProbe(p) \/ AssignReclaim(p) \/ (\E s \in Slots :
               HangupBegin(p, s)) \/ HangupLoad(p) \/ HangupReclaim(p)
        PROVE  UNCHANGED <<pc, bytes, slot>>
    BY <1>1 DEF Accept, AssignWord, AssignVerdict, AssignProbe, AssignReclaim, HangupBegin,
       HangupLoad, HangupReclaim, lockfile, process
  <1>2. ASSUME NEW p \in Procs, (\E s \in Slots : SweepLoad(p, s)) \/ SweepProbe(p) \/
               SweepReclaim(p)
        PROVE  UNCHANGED <<pc, bytes, slot>>
    BY <1>2 DEF SweepLoad, SweepProbe, SweepReclaim, lockfile, process
  <1>3. ASSUME UNCHANGED vars PROVE UNCHANGED <<pc, bytes, slot>>
    BY <1>3 DEF vars, lockfile, process
  <1>4. ASSUME UNCHANGED <<pc, bytes, slot>> PROVE Holders'
    BY <1>4 DEF Holders, InSlot
  <1> USE <1>bytes, <1>slot, <1>client, JumpMoves, ServeMoves, ProcAssumption DEF Holders,
          InSlot, NoSlot, At, CasWord, Hangup, DropOwnership, NextSlot, Served, Sweep,
          Swept, lockfile, table, process, server, sweeper, counters
  <1>5. ASSUME NEW p \in Procs, Open(p) PROVE Holders'
    BY <1>5 DEF Open
  <1>6. ASSUME NEW p \in Procs, Probe(p) PROVE Holders'
    BY <1>6 DEF Probe
  <1>7. ASSUME NEW p \in Procs, NoAnswer(p) PROVE Holders'
    BY <1>7 DEF NoAnswer
  <1>8. ASSUME NEW p \in Procs, RegisterAt(p) PROVE Holders'
    BY <1>8 DEF RegisterAt, Places, InSlot
  <1>9. ASSUME NEW p \in Procs, Attach(p) PROVE Holders'
    BY <1>9 DEF Attach
  <1>10. ASSUME NEW p \in Procs, FillSlot(p) PROVE Holders'
    BY <1>10 DEF FillSlot
  <1>11. ASSUME NEW p \in Procs, TakeOwnership(p) PROVE Holders'
    BY <1>11 DEF TakeOwnership
  <1>12. ASSUME NEW p \in Procs, Scan(p) PROVE Holders'
    BY <1>12 DEF Scan
  <1>13. ASSUME NEW p \in Procs, Scanned(p) PROVE Holders'
    BY <1>13 DEF Scanned
  <1>14. ASSUME NEW p \in Procs, RegisterCreator(p) PROVE Holders'
    <2>1. 0 \in Slots
      BY SlotAssumption DEF Slots
    <2> QED
      BY <1>14, <2>1 DEF RegisterCreator, Places
  <1>15. ASSUME NEW p \in Procs, Build(p) PROVE Holders'
    BY <1>15 DEF Build
  <1>16. ASSUME NEW p \in Procs, Bind(p) PROVE Holders'
    BY <1>16 DEF Bind, PCs, SPCs
  <1>17. ASSUME NEW p \in Procs, Retry(p) PROVE Holders'
    BY <1>17 DEF Retry
  <1>18. ASSUME NEW p \in Procs, GiveUp(p) PROVE Holders'
    BY <1>18 DEF GiveUp
  <1>19. ASSUME NEW p \in Procs, OpenFails(p) PROVE Holders'
    BY <1>19, CloseAllMoves DEF OpenFails, Places
  <1>20. ASSUME NEW p \in Procs, TakeOver(p) PROVE Holders'
    BY <1>20 DEF TakeOver
  <1>21. ASSUME NEW p \in Procs, BindFails(p) PROVE Holders'
    BY <1>21 DEF BindFails
  <1>22. ASSUME NEW p \in Procs, Grant(p) PROVE Holders'
    BY <1>22 DEF Grant, Clients
  <1>23. ASSUME NEW p \in Procs, Reject(p) PROVE Holders'
    BY <1>23 DEF Reject, Clients
  <1>24. ASSUME NEW p \in Procs, LeaveRecord(p) PROVE Holders'
    BY <1>24 DEF LeaveRecord
  <1>25. ASSUME NEW p \in Procs, StopServer(p) PROVE Holders'
    BY <1>25 DEF StopServer, PCs, SPCs
  <1>26. ASSUME NEW p \in Procs, CloseSession(p) PROVE Holders'
    BY <1>26 DEF CloseSession, Places
  <1>27. ASSUME NEW p \in Procs, CloseSocket(p) PROVE Holders'
    BY <1>27 DEF CloseSocket
  <1>28. ASSUME NEW p \in Procs, Kill(p) PROVE Holders'
    BY <1>28, CloseAllMoves DEF Kill, Places
  <1> QED
    BY <1>1, <1>2, <1>3, <1>4, <1>5, <1>6, <1>7, <1>8, <1>9, <1>10, <1>11, <1>12, <1>13,
       <1>14, <1>15, <1>16, <1>17, <1>18, <1>19, <1>20, <1>21, <1>22, <1>23, <1>24, <1>25,
       <1>26, <1>27, <1>28
    DEF Next, Join, Create, Assign, OnHangup, Reap, Leave

\* The ownership byte is taken before, and dropped after, all that needs it.
LEMMA StepOwners == TypeOK /\ Threads /\ Clients /\ Owners /\ [Next]_vars => Owners'
  <1> SUFFICES ASSUME TypeOK /\ Threads /\ Clients /\ Owners, [Next]_vars PROVE Owners'
    OBVIOUS
  <1>pc. pc \in PCs
    BY DEF TypeOK, PCs
  <1>spc. spc \in SPCs
    BY DEF TypeOK, SPCs
  <1>client. client \in [Procs -> Procs \cup {None}]
    BY DEF TypeOK
  <1>1. ASSUME NEW p \in Procs, (\E s \in Slots : SweepLoad(p, s)) \/ SweepProbe(p) \/
               SweepReclaim(p)
        PROVE  UNCHANGED <<pc, own, sock, spc>>
    BY <1>1 DEF SweepLoad, SweepProbe, SweepReclaim, lockfile, process, server
  <1>2. ASSUME UNCHANGED vars PROVE UNCHANGED <<pc, own, sock, spc>>
    BY <1>2 DEF vars, lockfile, process, server
  <1>3. ASSUME UNCHANGED <<pc, own, sock, spc>> PROVE Owners'
    BY <1>3 DEF Owners
  <1> USE <1>pc, <1>spc, <1>client, JumpMoves, ServeMoves, ProcAssumption DEF Owners, At,
          CasWord, Hangup, DropOwnership, NextSlot, Served, Sweep, Swept, lockfile, table,
          process, server, sweeper, counters
  <1>4. ASSUME NEW p \in Procs, Open(p) PROVE Owners'
    BY <1>4 DEF Open
  <1>5. ASSUME NEW p \in Procs, Probe(p) PROVE Owners'
    BY <1>5 DEF Probe
  <1>6. ASSUME NEW p \in Procs, NoAnswer(p) PROVE Owners'
    BY <1>6 DEF NoAnswer
  <1>7. ASSUME NEW p \in Procs, RegisterAt(p) PROVE Owners'
    BY <1>7 DEF RegisterAt
  <1>8. ASSUME NEW p \in Procs, Attach(p) PROVE Owners'
    BY <1>8 DEF Attach
  <1>9. ASSUME NEW p \in Procs, FillSlot(p) PROVE Owners'
    BY <1>9 DEF FillSlot
  <1>10. ASSUME NEW p \in Procs, TakeOwnership(p) PROVE Owners'
    BY <1>10 DEF TakeOwnership
  <1>11. ASSUME NEW p \in Procs, Scan(p) PROVE Owners'
    BY <1>11 DEF Scan
  <1>12. ASSUME NEW p \in Procs, Scanned(p) PROVE Owners'
    BY <1>12 DEF Scanned
  <1>13. ASSUME NEW p \in Procs, RegisterCreator(p) PROVE Owners'
    BY <1>13 DEF RegisterCreator
  <1>14. ASSUME NEW p \in Procs, Build(p) PROVE Owners'
    BY <1>14 DEF Build
  <1>15. ASSUME NEW p \in Procs, Bind(p) PROVE Owners'
    BY <1>15 DEF Bind, PCs, SPCs
  <1>16. ASSUME NEW p \in Procs, Retry(p) PROVE Owners'
    BY <1>16 DEF Retry
  <1>17. ASSUME NEW p \in Procs, GiveUp(p) PROVE Owners'
    BY <1>17 DEF GiveUp
  <1>18. ASSUME NEW p \in Procs, OpenFails(p) PROVE Owners'
    BY <1>18, CloseAllMoves DEF OpenFails
  <1>19. ASSUME NEW p \in Procs, TakeOver(p) PROVE Owners'
    BY <1>19 DEF TakeOver
  <1>20. ASSUME NEW p \in Procs, BindFails(p) PROVE Owners'
    BY <1>20 DEF BindFails
  <1>21. ASSUME NEW p \in Procs, NEW c \in Procs, Accept(p, c) PROVE Owners'
    BY <1>21 DEF Accept
  <1>22. ASSUME NEW p \in Procs, AssignWord(p) PROVE Owners'
    BY <1>22 DEF AssignWord
  <1>23. ASSUME NEW p \in Procs, AssignVerdict(p) PROVE Owners'
    BY <1>23 DEF AssignVerdict
  <1>24. ASSUME NEW p \in Procs, AssignProbe(p) PROVE Owners'
    BY <1>24 DEF AssignProbe
  <1>25. ASSUME NEW p \in Procs, AssignReclaim(p) PROVE Owners'
    BY <1>25 DEF AssignReclaim
  <1>26. ASSUME NEW p \in Procs, Grant(p) PROVE Owners'
    BY <1>26 DEF Grant, Clients
  <1>27. ASSUME NEW p \in Procs, Reject(p) PROVE Owners'
    BY <1>27 DEF Reject, Clients
  <1>28. ASSUME NEW p \in Procs, NEW s \in Slots, HangupBegin(p, s) PROVE Owners'
    BY <1>28 DEF HangupBegin
  <1>29. ASSUME NEW p \in Procs, HangupLoad(p) PROVE Owners'
    BY <1>29 DEF HangupLoad
  <1>30. ASSUME NEW p \in Procs, HangupReclaim(p) PROVE Owners'
    BY <1>30 DEF HangupReclaim
  <1>31. ASSUME NEW p \in Procs, LeaveRecord(p) PROVE Owners'
    BY <1>31 DEF LeaveRecord
  <1>32. ASSUME NEW p \in Procs, StopServer(p) PROVE Owners'
    BY <1>32 DEF StopServer, PCs, SPCs
  <1>33. ASSUME NEW p \in Procs, CloseSession(p) PROVE Owners'
    BY <1>33 DEF CloseSession
  <1>34. ASSUME NEW p \in Procs, CloseSocket(p) PROVE Owners'
    BY <1>34 DEF CloseSocket
  <1>35. ASSUME NEW p \in Procs, Kill(p) PROVE Owners'
    BY <1>35, CloseAllMoves DEF Kill
  <1> QED
    BY <1>1, <1>2, <1>3, <1>4, <1>5, <1>6, <1>7, <1>8, <1>9, <1>10, <1>11, <1>12, <1>13,
       <1>14, <1>15, <1>16, <1>17, <1>18, <1>19, <1>20, <1>21, <1>22, <1>23, <1>24, <1>25,
       <1>26, <1>27, <1>28, <1>29, <1>30, <1>31, <1>32, <1>33, <1>34, <1>35
    DEF Next, Join, Create, Assign, OnHangup, Reap, Leave

\* A slot that was scanned is only taken by a process that is then late.
LEMMA StepScans == TypeOK /\ Threads /\ Clients /\ Owners /\ Scans /\ [Next]_vars => Scans'
  <1> SUFFICES ASSUME TypeOK /\ Threads /\ Clients /\ Owners /\ Scans, [Next]_vars PROVE Scans'
    OBVIOUS
  <1>cur. cur \in [Procs -> 0 .. N]
    BY DEF TypeOK
  <1>bytes. bytes \in [Slots -> Procs \cup {None}]
    BY DEF TypeOK
  <1>late. late \subseteq Procs
    BY DEF TypeOK
  <1>client. client \in [Procs -> Procs \cup {None}]
    BY DEF TypeOK
  <1>1. ASSUME NEW p \in Procs, (\E c \in Procs : Accept(p, c)) \/ (\E s \in Slots :
               SweepLoad(p, s)) \/ SweepProbe(p) \/ SweepReclaim(p)
        PROVE  UNCHANGED <<pc, cur, bytes, late>>
    BY <1>1 DEF Accept, SweepLoad, SweepProbe, SweepReclaim, lockfile, process
  <1>2. ASSUME UNCHANGED vars PROVE UNCHANGED <<pc, cur, bytes, late>>
    BY <1>2 DEF vars, lockfile, process
  <1>3. ASSUME UNCHANGED <<pc, cur, bytes, late>> PROVE Scans'
    BY <1>3 DEF Scans
  <1> USE <1>cur, <1>bytes, <1>late, <1>client, JumpMoves, ServeMoves, ProcAssumption,
          SlotAssumption DEF Scans, Owners, Opening, At, CasWord, Hangup, DropOwnership,
          NextSlot, Served, Sweep, Swept, lockfile, table, process, server, sweeper,
          counters
  <1>4. ASSUME NEW p \in Procs, Open(p) PROVE Scans'
    BY <1>4 DEF Open
  <1>5. ASSUME NEW p \in Procs, Probe(p) PROVE Scans'
    BY <1>5 DEF Probe
  <1>6. ASSUME NEW p \in Procs, NoAnswer(p) PROVE Scans'
    BY <1>6 DEF NoAnswer
  <1>7. ASSUME NEW p \in Procs, RegisterAt(p) PROVE Scans'
    BY <1>7 DEF RegisterAt
  <1>8. ASSUME NEW p \in Procs, Attach(p) PROVE Scans'
    BY <1>8 DEF Attach
  <1>9. ASSUME NEW p \in Procs, FillSlot(p) PROVE Scans'
    BY <1>9 DEF FillSlot
  <1>10. ASSUME NEW p \in Procs, TakeOwnership(p) PROVE Scans'
    BY <1>10 DEF TakeOwnership, Threads, Slots
  <1>11. ASSUME NEW p \in Procs, Scan(p) PROVE Scans'
    BY <1>11 DEF Scan, Slots
  <1>12. ASSUME NEW p \in Procs, Scanned(p) PROVE Scans'
    BY <1>12 DEF Scanned
  <1>13. ASSUME NEW p \in Procs, RegisterCreator(p) PROVE Scans'
    BY <1>13 DEF RegisterCreator
  <1>14. ASSUME NEW p \in Procs, Build(p) PROVE Scans'
    BY <1>14 DEF Build
  <1>15. ASSUME NEW p \in Procs, Bind(p) PROVE Scans'
    BY <1>15 DEF Bind, PCs, SPCs
  <1>16. ASSUME NEW p \in Procs, Retry(p) PROVE Scans'
    BY <1>16 DEF Retry
  <1>17. ASSUME NEW p \in Procs, GiveUp(p) PROVE Scans'
    BY <1>17 DEF GiveUp
  <1>18. ASSUME NEW p \in Procs, OpenFails(p) PROVE Scans'
    BY <1>18, CloseAllMoves DEF OpenFails
  <1>19. ASSUME NEW p \in Procs, TakeOver(p) PROVE Scans'
    BY <1>19 DEF TakeOver
  <1>20. ASSUME NEW p \in Procs, BindFails(p) PROVE Scans'
    BY <1>20 DEF BindFails
  <1>21. ASSUME NEW p \in Procs, AssignWord(p) PROVE Scans'
    BY <1>21 DEF AssignWord, Threads
  <1>22. ASSUME NEW p \in Procs, AssignVerdict(p) PROVE Scans'
    BY <1>22 DEF AssignVerdict, Threads
  <1>23. ASSUME NEW p \in Procs, AssignProbe(p) PROVE Scans'
    BY <1>23 DEF AssignProbe, Threads
  <1>24. ASSUME NEW p \in Procs, AssignReclaim(p) PROVE Scans'
    BY <1>24 DEF AssignReclaim, Threads
  <1>25. ASSUME NEW p \in Procs, Grant(p) PROVE Scans'
    BY <1>25 DEF Grant, Clients, Threads
  <1>26. ASSUME NEW p \in Procs, Reject(p) PROVE Scans'
    BY <1>26 DEF Reject, Clients, Threads
  <1>27. ASSUME NEW p \in Procs, NEW s \in Slots, HangupBegin(p, s) PROVE Scans'
    BY <1>27 DEF HangupBegin, Threads
  <1>28. ASSUME NEW p \in Procs, HangupLoad(p) PROVE Scans'
    BY <1>28 DEF HangupLoad, Threads
  <1>29. ASSUME NEW p \in Procs, HangupReclaim(p) PROVE Scans'
    BY <1>29 DEF HangupReclaim, Threads
  <1>30. ASSUME NEW p \in Procs, LeaveRecord(p) PROVE Scans'
    BY <1>30 DEF LeaveRecord
  <1>31. ASSUME NEW p \in Procs, StopServer(p) PROVE Scans'
    BY <1>31 DEF StopServer, PCs, SPCs
  <1>32. ASSUME NEW p \in Procs, CloseSession(p) PROVE Scans'
    BY <1>32 DEF CloseSession
  <1>33. ASSUME NEW p \in Procs, CloseSocket(p) PROVE Scans'
    BY <1>33 DEF CloseSocket
  <1>34. ASSUME NEW p \in Procs, Kill(p) PROVE Scans'
    BY <1>34, CloseAllMoves DEF Kill
  <1> QED
    BY <1>1, <1>2, <1>3, <1>4, <1>5, <1>6, <1>7, <1>8, <1>9, <1>10, <1>11, <1>12, <1>13,
       <1>14, <1>15, <1>16, <1>17, <1>18, <1>19, <1>20, <1>21, <1>22, <1>23, <1>24, <1>25,
       <1>26, <1>27, <1>28, <1>29, <1>30, <1>31, <1>32, <1>33, <1>34
    DEF Next, Join, Create, Assign, OnHangup, Reap, Leave

\* What holds of the scanned slots holds of all of them when the scan ends.
LEMMA StepAlone == TypeOK /\ Threads /\ Clients /\ Owners /\ Scans /\ CheckedAlone /\ [Next]_vars => CheckedAlone'
  <1> SUFFICES ASSUME TypeOK /\ Threads /\ Clients /\ Owners /\ Scans /\ CheckedAlone, [Next]_vars PROVE CheckedAlone'
    OBVIOUS
  <1>bytes. bytes \in [Slots -> Procs \cup {None}]
    BY DEF TypeOK
  <1>late. late \subseteq Procs
    BY DEF TypeOK
  <1>client. client \in [Procs -> Procs \cup {None}]
    BY DEF TypeOK
  <1>1. ASSUME NEW p \in Procs, (\E c \in Procs : Accept(p, c)) \/ AssignWord(p) \/
               AssignVerdict(p) \/ AssignProbe(p) \/ AssignReclaim(p) \/ (\E s \in Slots :
               HangupBegin(p, s)) \/ HangupLoad(p) \/ HangupReclaim(p)
        PROVE  UNCHANGED <<pc, bytes, late>>
    BY <1>1 DEF Accept, AssignWord, AssignVerdict, AssignProbe, AssignReclaim, HangupBegin,
       HangupLoad, HangupReclaim, lockfile, process
  <1>2. ASSUME NEW p \in Procs, (\E s \in Slots : SweepLoad(p, s)) \/ SweepProbe(p) \/
               SweepReclaim(p)
        PROVE  UNCHANGED <<pc, bytes, late>>
    BY <1>2 DEF SweepLoad, SweepProbe, SweepReclaim, lockfile, process
  <1>3. ASSUME UNCHANGED vars PROVE UNCHANGED <<pc, bytes, late>>
    BY <1>3 DEF vars, lockfile, process
  <1>4. ASSUME UNCHANGED <<pc, bytes, late>> PROVE CheckedAlone'
    BY <1>4 DEF CheckedAlone
  <1> USE <1>bytes, <1>late, <1>client, JumpMoves, ServeMoves, ProcAssumption,
          SlotAssumption DEF CheckedAlone, Owners, Opening, At, CasWord, Hangup,
          DropOwnership, NextSlot, Served, Sweep, Swept, lockfile, table, process, server,
          sweeper, counters
  <1>5. ASSUME NEW p \in Procs, Open(p) PROVE CheckedAlone'
    BY <1>5 DEF Open
  <1>6. ASSUME NEW p \in Procs, Probe(p) PROVE CheckedAlone'
    BY <1>6 DEF Probe
  <1>7. ASSUME NEW p \in Procs, NoAnswer(p) PROVE CheckedAlone'
    BY <1>7 DEF NoAnswer
  <1>8. ASSUME NEW p \in Procs, RegisterAt(p) PROVE CheckedAlone'
    BY <1>8 DEF RegisterAt
  <1>9. ASSUME NEW p \in Procs, Attach(p) PROVE CheckedAlone'
    BY <1>9 DEF Attach
  <1>10. ASSUME NEW p \in Procs, FillSlot(p) PROVE CheckedAlone'
    BY <1>10 DEF FillSlot
  <1>11. ASSUME NEW p \in Procs, TakeOwnership(p) PROVE CheckedAlone'
    BY <1>11 DEF TakeOwnership
  <1>12. ASSUME NEW p \in Procs, Scan(p) PROVE CheckedAlone'
    BY <1>12 DEF Scan
  <1>13. ASSUME NEW p \in Procs, Scanned(p) PROVE CheckedAlone'
    BY <1>13 DEF Scanned, Scans, Slots
  <1>14. ASSUME NEW p \in Procs, RegisterCreator(p) PROVE CheckedAlone'
    BY <1>14 DEF RegisterCreator
  <1>15. ASSUME NEW p \in Procs, Build(p) PROVE CheckedAlone'
    BY <1>15 DEF Build
  <1>16. ASSUME NEW p \in Procs, Bind(p) PROVE CheckedAlone'
    BY <1>16 DEF Bind, PCs, SPCs
  <1>17. ASSUME NEW p \in Procs, Retry(p) PROVE CheckedAlone'
    BY <1>17 DEF Retry
  <1>18. ASSUME NEW p \in Procs, GiveUp(p) PROVE CheckedAlone'
    BY <1>18 DEF GiveUp
  <1>19. ASSUME NEW p \in Procs, OpenFails(p) PROVE CheckedAlone'
    BY <1>19, CloseAllMoves DEF OpenFails
  <1>20. ASSUME NEW p \in Procs, TakeOver(p) PROVE CheckedAlone'
    BY <1>20 DEF TakeOver
  <1>21. ASSUME NEW p \in Procs, BindFails(p) PROVE CheckedAlone'
    BY <1>21 DEF BindFails
  <1>22. ASSUME NEW p \in Procs, Grant(p) PROVE CheckedAlone'
    BY <1>22 DEF Grant, Clients
  <1>23. ASSUME NEW p \in Procs, Reject(p) PROVE CheckedAlone'
    BY <1>23 DEF Reject, Clients
  <1>24. ASSUME NEW p \in Procs, LeaveRecord(p) PROVE CheckedAlone'
    BY <1>24 DEF LeaveRecord
  <1>25. ASSUME NEW p \in Procs, StopServer(p) PROVE CheckedAlone'
    BY <1>25 DEF StopServer, PCs, SPCs
  <1>26. ASSUME NEW p \in Procs, CloseSession(p) PROVE CheckedAlone'
    BY <1>26 DEF CloseSession
  <1>27. ASSUME NEW p \in Procs, CloseSocket(p) PROVE CheckedAlone'
    BY <1>27 DEF CloseSocket
  <1>28. ASSUME NEW p \in Procs, Kill(p) PROVE CheckedAlone'
    BY <1>28, CloseAllMoves DEF Kill
  <1> QED
    BY <1>1, <1>2, <1>3, <1>4, <1>5, <1>6, <1>7, <1>8, <1>9, <1>10, <1>11, <1>12, <1>13,
       <1>14, <1>15, <1>16, <1>17, <1>18, <1>19, <1>20, <1>21, <1>22, <1>23, <1>24, <1>25,
       <1>26, <1>27, <1>28
    DEF Next, Join, Create, Assign, OnHangup, Reap, Leave

\* A compare-exchange only clears or reserves a word; a live word is the count.
LEMMA StepWords == TypeOK /\ Places /\ Threads /\ Words /\ [Next]_vars => Words'
  <1> SUFFICES ASSUME TypeOK /\ Places /\ Threads /\ Words, [Next]_vars PROVE Words'
    OBVIOUS
  <1>word. word \in [Arenas -> [Slots -> Nat \cup {RESERVED}]]
    BY DEF TypeOK
  <1>inc. inc \in [Arenas -> [Slots -> Nat]]
    BY DEF TypeOK
  <1>1. ASSUME NEW p \in Procs, Open(p) \/ Probe(p) \/ NoAnswer(p) \/ RegisterAt(p) \/
               TakeOwnership(p) \/ Scan(p) \/ Scanned(p) \/ RegisterCreator(p)
        PROVE  UNCHANGED <<word, inc>>
    BY <1>1 DEF Open, Probe, NoAnswer, RegisterAt, TakeOwnership, Scan, Scanned,
       RegisterCreator, table
  <1>2. ASSUME NEW p \in Procs, Bind(p) \/ Retry(p) \/ GiveUp(p) \/ OpenFails(p) \/
               TakeOver(p) \/ BindFails(p) \/ (\E c \in Procs : Accept(p, c)) \/
               AssignWord(p)
        PROVE  UNCHANGED <<word, inc>>
    BY <1>2 DEF Bind, Retry, GiveUp, OpenFails, TakeOver, BindFails, Accept, AssignWord,
       CloseAll, table
  <1>3. ASSUME NEW p \in Procs, AssignVerdict(p) \/ AssignProbe(p) \/ Grant(p) \/ Reject(p)
               \/ (\E s \in Slots : HangupBegin(p, s)) \/ HangupLoad(p) \/ (\E s \in Slots :
               SweepLoad(p, s)) \/ SweepProbe(p)
        PROVE  UNCHANGED <<word, inc>>
    BY <1>3 DEF AssignVerdict, AssignProbe, Grant, Reject, HangupBegin, HangupLoad,
       SweepLoad, SweepProbe, table
  <1>4. ASSUME NEW p \in Procs, StopServer(p) \/ CloseSession(p) \/ CloseSocket(p) \/
               Kill(p)
        PROVE  UNCHANGED <<word, inc>>
    BY <1>4 DEF StopServer, CloseSession, CloseSocket, Kill, CloseAll, table
  <1>5. ASSUME UNCHANGED vars PROVE UNCHANGED <<word, inc>>
    BY <1>5 DEF vars, table
  <1>6. ASSUME UNCHANGED <<word, inc>> PROVE Words'
    BY <1>6 DEF Words
  <1> USE <1>inc DEF Words, FREE, RESERVED, At, Hangup, DropOwnership, NextSlot, Served,
          Sweep, Swept, lockfile, table, process, server, sweeper, counters
  <1>7. ASSUME NEW p \in Procs, Attach(p) PROVE Words'
    <2>1. arena[p] \in Arenas /\ slot[p] \in Slots
      BY <1>7, PlaceOf DEF Attach, InSlot
    <2> QED
      BY <1>7, <2>1, CasMoves DEF Attach
  <1>8. ASSUME NEW p \in Procs, FillSlot(p) PROVE Words'
    <2>1. arena[p] \in Arenas /\ slot[p] \in Slots
      BY <1>8, PlaceOf DEF FillSlot, InSlot
    <2> QED
      BY <1>8, <2>1, <1>word DEF FillSlot
  <1>9. ASSUME NEW p \in Procs, Build(p) PROVE Words'
    BY <1>9, <1>word DEF Build
  <1>10. ASSUME NEW p \in Procs, AssignReclaim(p) PROVE Words'
    <2>1. arena[p] \in Arenas /\ cur[p] \in Slots
      BY <1>10, ThreadPlace DEF AssignReclaim
    <2> QED
      BY <1>10, <2>1, CasMoves DEF AssignReclaim
  <1>11. ASSUME NEW p \in Procs, HangupReclaim(p) PROVE Words'
    <2>1. arena[p] \in Arenas /\ cur[p] \in Slots
      BY <1>11, ThreadPlace DEF HangupReclaim
    <2> QED
      BY <1>11, <2>1, CasMoves DEF HangupReclaim
  <1>12. ASSUME NEW p \in Procs, SweepReclaim(p) PROVE Words'
    <2>1. arena[p] \in Arenas /\ wslot[p] \in Slots
      BY <1>12, ThreadPlace DEF SweepReclaim
    <2> QED
      BY <1>12, <2>1, CasMoves DEF SweepReclaim
  <1>13. ASSUME NEW p \in Procs, LeaveRecord(p) PROVE Words'
    <2>1. arena[p] \in Arenas /\ slot[p] \in Slots
      BY <1>13, PlaceOf DEF LeaveRecord, InSlot
    <2> QED
      BY <1>13, <2>1, CasMoves DEF LeaveRecord
  <1> QED
    BY <1>1, <1>2, <1>3, <1>4, <1>5, <1>6, <1>7, <1>8, <1>9, <1>10, <1>11, <1>12, <1>13
    DEF Next, Join, Create, Assign, OnHangup, Reap, Leave

\* Incarnations only grow while a reclaimer holds a word.
LEMMA StepObserved == TypeOK /\ Places /\ Threads /\ Clients /\ Words /\ Observed /\ [Next]_vars => Observed'
  <1> SUFFICES ASSUME TypeOK /\ Places /\ Threads /\ Clients /\ Words /\ Observed, [Next]_vars PROVE Observed'
    OBVIOUS
  <1>inc. inc \in [Arenas -> [Slots -> Nat]]
    BY DEF TypeOK
  <1>obs. obs \in [Procs -> Nat \cup {RESERVED}]
    BY DEF TypeOK
  <1>wpc. wpc \in [Procs -> {"idle", "probe", "cas"}]
    BY DEF TypeOK
  <1>wobs. wobs \in [Procs -> Nat \cup {RESERVED}]
    BY DEF TypeOK
  <1>arena. arena \in [Procs -> 0 .. arenas]
    BY DEF TypeOK
  <1>arenas. arenas \in 0 .. MaxArenas
    BY DEF TypeOK
  <1>cur. cur \in [Procs -> 0 .. N]
    BY DEF TypeOK
  <1>wslot. wslot \in [Procs -> Slots]
    BY DEF TypeOK
  <1>client. client \in [Procs -> Procs \cup {None}]
    BY DEF TypeOK
  <1>1. ASSUME NEW p \in Procs, Open(p) \/ Probe(p) \/ NoAnswer(p) \/ Attach(p) \/
               TakeOwnership(p) \/ RegisterCreator(p) \/ Retry(p) \/ GiveUp(p)
        PROVE  UNCHANGED <<inc, spc, obs, wpc, wobs, arena, cur, wslot>>
    BY <1>1 DEF Open, Probe, NoAnswer, Attach, TakeOwnership, RegisterCreator, Retry,
       GiveUp, table, process, server, sweeper
  <1>2. ASSUME NEW p \in Procs, TakeOver(p) \/ BindFails(p) \/ LeaveRecord(p) \/
               CloseSession(p)
        PROVE  UNCHANGED <<inc, spc, obs, wpc, wobs, arena, cur, wslot>>
    BY <1>2 DEF TakeOver, BindFails, LeaveRecord, CloseSession, table, process, server,
       sweeper
  <1>3. ASSUME UNCHANGED vars PROVE UNCHANGED <<inc, spc, obs, wpc, wobs, arena, cur, wslot>>
    BY <1>3 DEF vars, table, process, server, sweeper
  <1>4. ASSUME UNCHANGED <<inc, spc, obs, wpc, wobs, arena, cur, wslot>> PROVE Observed'
    BY <1>4 DEF Observed
  <1> USE <1>inc, <1>obs, <1>wpc, <1>wobs, <1>arena, <1>arenas, <1>cur, <1>wslot, <1>client,
          JumpMoves, ServeMoves, ProcAssumption DEF Observed, At, Hangup, DropOwnership,
          NextSlot, Served, Sweep, Swept, lockfile, table, process, server, sweeper,
          counters
  <1>5. ASSUME NEW p \in Procs, RegisterAt(p) PROVE Observed'
    <2>1. spc[p] = "off" /\ wpc[p] = "idle"
      BY <1>5 DEF RegisterAt, Threads
    <2> QED
      BY <1>5, <2>1 DEF RegisterAt
  <1>6. ASSUME NEW p \in Procs, FillSlot(p) PROVE Observed'
    <2>1. spc[p] = "off" /\ wpc[p] = "idle"
      BY <1>6 DEF FillSlot, Threads
    <2>2. arena[p] \in Arenas /\ slot[p] \in Slots
      BY <1>6, PlaceOf DEF FillSlot, InSlot
    <2>3. \A a \in Arenas, s \in Slots : inc[a][s] <= inc'[a][s] /\ {inc[a][s], inc'[a][s]} \subseteq Int
      BY <1>6, <2>2 DEF FillSlot
    <2>4. UNCHANGED <<spc, obs, cur, wpc, wslot, wobs, arena>>
      BY <1>6 DEF FillSlot
    <2>5. \A q \in Procs : obs[q] \in Int /\ wobs[q] \in Int
      BY DEF RESERVED
    <2> QED
      BY <2>3, <2>4, <2>5, ThreadPlace
  <1>7. ASSUME NEW p \in Procs, Scan(p) PROVE Observed'
    <2>1. spc[p] = "off" /\ wpc[p] = "idle"
      BY <1>7 DEF Scan, Threads
    <2> QED
      BY <1>7, <2>1 DEF Scan
  <1>8. ASSUME NEW p \in Procs, Scanned(p) PROVE Observed'
    <2>1. spc[p] = "off" /\ wpc[p] = "idle"
      BY <1>8 DEF Scanned, Threads
    <2> QED
      BY <1>8, <2>1 DEF Scanned
  <1>9. ASSUME NEW p \in Procs, Build(p) PROVE Observed'
    <2>1. spc[p] = "off" /\ wpc[p] = "idle"
      BY <1>9 DEF Build, Threads
    <2>2. \A a \in 1 .. arenas : inc'[a] = inc[a]
      BY <1>9 DEF Build
    <2>3. \A q \in Procs \ {p} : arena'[q] = arena[q]
      BY <1>9 DEF Build
    <2>4. UNCHANGED <<spc, obs, cur, wpc, wslot, wobs>>
      BY <1>9 DEF Build
    <2> QED
      BY <2>1, <2>2, <2>3, <2>4, ThreadPlace
  <1>10. ASSUME NEW p \in Procs, Bind(p) PROVE Observed'
    BY <1>10 DEF Bind, SPCs
  <1>11. ASSUME NEW p \in Procs, OpenFails(p) PROVE Observed'
    BY <1>11, CloseAllMoves DEF OpenFails
  <1>12. ASSUME NEW p \in Procs, NEW c \in Procs, Accept(p, c) PROVE Observed'
    BY <1>12 DEF Accept
  <1>13. ASSUME NEW p \in Procs, AssignWord(p) PROVE Observed'
    <2>1. spc'[p] \notin {"probe", "cas"} /\ UNCHANGED <<wpc, wslot, wobs, inc, arena>>
      BY <1>13 DEF AssignWord
    <2>2. \A q \in Procs \ {p} : spc'[q] = spc[q] /\ cur'[q] = cur[q] /\ obs'[q] = obs[q]
      BY <1>13 DEF AssignWord
    <2> QED
      BY <2>1, <2>2
  <1>14. ASSUME NEW p \in Procs, AssignVerdict(p) PROVE Observed'
    <2>1. arena[p] \in Arenas /\ cur[p] \in Slots
      BY <1>14, ThreadPlace DEF AssignVerdict
    <2>2. word[arena[p]][cur[p]] <= inc[arena[p]][cur[p]]
      BY <2>1 DEF Words
    <2> QED
      BY <1>14, <2>2 DEF AssignVerdict
  <1>15. ASSUME NEW p \in Procs, AssignProbe(p) PROVE Observed'
    BY <1>15 DEF AssignProbe
  <1>16. ASSUME NEW p \in Procs, AssignReclaim(p) PROVE Observed'
    BY <1>16 DEF AssignReclaim
  <1>17. ASSUME NEW p \in Procs, Grant(p) PROVE Observed'
    <2>1. client[p] # None => spc[client[p]] = "off" /\ wpc[client[p]] = "idle"
      BY DEF Clients, Threads
    <2>2. spc'[p] \notin {"probe", "cas"} /\ UNCHANGED <<wpc, wslot, wobs, inc>>
      BY <1>17 DEF Grant
    <2>3. \A q \in Procs \ {p} : spc'[q] = spc[q] /\ cur'[q] = cur[q] /\ obs'[q] = obs[q]
      BY <1>17 DEF Grant
    <2>4. \A q \in Procs : q # client[p] => arena'[q] = arena[q]
      BY <1>17 DEF Grant
    <2>5. arena' = arena \/ client[p] \in Procs
      BY <1>17 DEF Grant
    <2> QED
      BY <2>1, <2>2, <2>3, <2>4, <2>5
  <1>18. ASSUME NEW p \in Procs, Reject(p) PROVE Observed'
    BY <1>18 DEF Reject, Clients
  <1>19. ASSUME NEW p \in Procs, NEW s \in Slots, HangupBegin(p, s) PROVE Observed'
    BY <1>19 DEF HangupBegin
  <1>20. ASSUME NEW p \in Procs, HangupLoad(p) PROVE Observed'
    BY <1>20 DEF HangupLoad
  <1>21. ASSUME NEW p \in Procs, HangupReclaim(p) PROVE Observed'
    BY <1>21 DEF HangupReclaim
  <1>22. ASSUME NEW p \in Procs, NEW s \in Slots, SweepLoad(p, s) PROVE Observed'
    <2>1. arena[p] \in Arenas
      BY <1>22, PlaceOf DEF SweepLoad
    <2>2. word[arena[p]][s] <= inc[arena[p]][s]
      BY <2>1 DEF Words
    <2> QED
      BY <1>22, <2>2 DEF SweepLoad
  <1>23. ASSUME NEW p \in Procs, SweepProbe(p) PROVE Observed'
    BY <1>23 DEF SweepProbe
  <1>24. ASSUME NEW p \in Procs, SweepReclaim(p) PROVE Observed'
    BY <1>24 DEF SweepReclaim
  <1>25. ASSUME NEW p \in Procs, StopServer(p) PROVE Observed'
    BY <1>25 DEF StopServer, SPCs
  <1>26. ASSUME NEW p \in Procs, CloseSocket(p) PROVE Observed'
    <2>1. spc[p] = "off" /\ wpc[p] = "idle"
      BY <1>26 DEF CloseSocket, Threads
    <2> QED
      BY <1>26, <2>1 DEF CloseSocket
  <1>27. ASSUME NEW p \in Procs, Kill(p) PROVE Observed'
    BY <1>27, CloseAllMoves DEF Kill
  <1> QED
    BY <1>1, <1>2, <1>3, <1>4, <1>5, <1>6, <1>7, <1>8, <1>9, <1>10, <1>11, <1>12, <1>13,
       <1>14, <1>15, <1>16, <1>17, <1>18, <1>19, <1>20, <1>21, <1>22, <1>23, <1>24, <1>25,
       <1>26, <1>27
    DEF Next, Join, Create, Assign, OnHangup, Reap, Leave

\* A reclaimer goes on to its compare-exchange only past a free byte.
LEMMA StepVerdicts == TypeOK /\ Places /\ Threads /\ Clients /\ Holders /\ Observed /\ Verdicts /\ [Next]_vars => Verdicts'
  <1> SUFFICES ASSUME TypeOK /\ Places /\ Threads /\ Clients /\ Holders /\ Observed /\ Verdicts, [Next]_vars PROVE Verdicts'
    OBVIOUS
  <1>arena. arena \in [Procs -> 0 .. arenas]
    BY DEF TypeOK
  <1>slot. slot \in [Procs -> Slots \cup {NoSlot}]
    BY DEF TypeOK
  <1>mine. mine \in [Procs -> Nat]
    BY DEF TypeOK
  <1>cur. cur \in [Procs -> 0 .. N]
    BY DEF TypeOK
  <1>obs. obs \in [Procs -> Nat \cup {RESERVED}]
    BY DEF TypeOK
  <1>wpc. wpc \in [Procs -> {"idle", "probe", "cas"}]
    BY DEF TypeOK
  <1>wslot. wslot \in [Procs -> Slots]
    BY DEF TypeOK
  <1>wobs. wobs \in [Procs -> Nat \cup {RESERVED}]
    BY DEF TypeOK
  <1>client. client \in [Procs -> Procs \cup {None}]
    BY DEF TypeOK
  <1>arenas. arenas \in 0 .. MaxArenas
    BY DEF TypeOK
  <1>1. ASSUME UNCHANGED vars PROVE UNCHANGED <<pc, arena, slot, mine, spc, cur, obs, wpc, wslot, wobs>>
    BY <1>1 DEF vars, process, server, sweeper
  <1>2. ASSUME UNCHANGED <<pc, arena, slot, mine, spc, cur, obs, wpc, wslot, wobs>> PROVE Verdicts'
    BY <1>2 DEF Verdicts, Published
  <1> USE <1>arena, <1>slot, <1>mine, <1>cur, <1>obs, <1>wpc, <1>wslot, <1>wobs, <1>client,
          <1>arenas, JumpMoves, ServeMoves, ProcAssumption DEF Verdicts, Published, At,
          Hangup, DropOwnership, NextSlot, Served, Sweep, Swept, lockfile, table, process,
          server, sweeper, counters
  <1>3. ASSUME NEW p \in Procs, Open(p) PROVE Verdicts'
    BY <1>3 DEF Open
  <1>4. ASSUME NEW p \in Procs, Probe(p) PROVE Verdicts'
    BY <1>4 DEF Probe
  <1>5. ASSUME NEW p \in Procs, NoAnswer(p) PROVE Verdicts'
    BY <1>5 DEF NoAnswer
  <1>6. ASSUME NEW p \in Procs, RegisterAt(p) PROVE Verdicts'
    <2>1. spc[p] = "off" /\ wpc[p] = "idle"
      BY <1>6 DEF RegisterAt, Threads
    <2>2. pc'[p] \notin {"bind", "member", "heir", "owner"} /\ UNCHANGED <<spc, obs, wpc, wslot, wobs>>
      BY <1>6 DEF RegisterAt
    <2>3. \A q \in Procs \ {p} : /\ pc'[q] = pc[q] /\ arena'[q] = arena[q] /\ slot'[q] = slot[q]
                               /\ mine'[q] = mine[q] /\ cur'[q] = cur[q]
      BY <1>6 DEF RegisterAt
    <2> QED
      BY <2>1, <2>2, <2>3
  <1>7. ASSUME NEW p \in Procs, Attach(p) PROVE Verdicts'
    BY <1>7 DEF Attach
  <1>8. ASSUME NEW p \in Procs, FillSlot(p) PROVE Verdicts'
    <2>1. spc[p] = "off" /\ wpc[p] = "idle"
      BY <1>8 DEF FillSlot, Threads
    <2>2. arena[p] \in Arenas /\ slot[p] \in Slots
      BY <1>8, PlaceOf DEF FillSlot, InSlot
    <2>3. inc[arena[p]][slot[p]] \in Nat
      BY <2>2, TypeParts DEF TableTypes
    <2>4. /\ mine'[p] = inc[arena[p]][slot[p]] + 1 /\ UNCHANGED <<spc, obs, cur, wpc, wslot, wobs, arena, slot>>
          /\ \A q \in Procs \ {p} : mine'[q] = mine[q] /\ pc'[q] = pc[q]
      BY <1>8 DEF FillSlot
    <2>5. \A q \in Procs : obs[q] \in Int /\ wobs[q] \in Int
      BY DEF RESERVED
    <2> QED
      BY <2>3, <2>4, <2>5 DEF Observed
  <1>9. ASSUME NEW p \in Procs, TakeOwnership(p) PROVE Verdicts'
    BY <1>9 DEF TakeOwnership
  <1>10. ASSUME NEW p \in Procs, Scan(p) PROVE Verdicts'
    <2>1. spc[p] = "off" /\ wpc[p] = "idle"
      BY <1>10 DEF Scan, Threads
    <2>2. pc'[p] \notin {"bind", "member", "heir", "owner"} /\ UNCHANGED <<spc, obs, wpc, wslot, wobs>>
      BY <1>10 DEF Scan
    <2>3. \A q \in Procs \ {p} : /\ pc'[q] = pc[q] /\ arena'[q] = arena[q] /\ slot'[q] = slot[q]
                               /\ mine'[q] = mine[q] /\ cur'[q] = cur[q]
      BY <1>10 DEF Scan
    <2> QED
      BY <2>1, <2>2, <2>3
  <1>11. ASSUME NEW p \in Procs, Scanned(p) PROVE Verdicts'
    <2>1. spc[p] = "off" /\ wpc[p] = "idle"
      BY <1>11 DEF Scanned, Threads
    <2>2. pc'[p] \notin {"bind", "member", "heir", "owner"} /\ UNCHANGED <<spc, obs, wpc, wslot, wobs>>
      BY <1>11 DEF Scanned
    <2>3. \A q \in Procs \ {p} : /\ pc'[q] = pc[q] /\ arena'[q] = arena[q] /\ slot'[q] = slot[q]
                               /\ mine'[q] = mine[q] /\ cur'[q] = cur[q]
      BY <1>11 DEF Scanned
    <2> QED
      BY <2>1, <2>2, <2>3
  <1>12. ASSUME NEW p \in Procs, RegisterCreator(p) PROVE Verdicts'
    BY <1>12 DEF RegisterCreator
  <1>13. ASSUME NEW p \in Procs, Build(p) PROVE Verdicts'
    <2>1. spc[p] = "off" /\ wpc[p] = "idle"
      BY <1>13 DEF Build, Threads
    <2>2. arena'[p] = arenas + 1 /\ UNCHANGED <<spc, obs, cur, wpc, wslot, wobs, slot>>
      BY <1>13 DEF Build
    <2>3. \A q \in Procs \ {p} : arena'[q] = arena[q] /\ mine'[q] = mine[q] /\ pc'[q] = pc[q]
      BY <1>13 DEF Build
    <2>4. \A q \in Procs : arena[q] # arenas + 1
      OBVIOUS
    <2> QED
      BY <2>1, <2>2, <2>3, <2>4
  <1>14. ASSUME NEW p \in Procs, Bind(p) PROVE Verdicts'
    BY <1>14 DEF Bind, SPCs
  <1>15. ASSUME NEW p \in Procs, Retry(p) PROVE Verdicts'
    BY <1>15 DEF Retry
  <1>16. ASSUME NEW p \in Procs, GiveUp(p) PROVE Verdicts'
    BY <1>16 DEF GiveUp
  <1>17. ASSUME NEW p \in Procs, OpenFails(p) PROVE Verdicts'
    BY <1>17, CloseAllMoves, SMTT(30) DEF OpenFails
  <1>18. ASSUME NEW p \in Procs, TakeOver(p) PROVE Verdicts'
    BY <1>18 DEF TakeOver
  <1>19. ASSUME NEW p \in Procs, BindFails(p) PROVE Verdicts'
    BY <1>19 DEF BindFails
  <1>20. ASSUME NEW p \in Procs, NEW c \in Procs, Accept(p, c) PROVE Verdicts'
    BY <1>20 DEF Accept
  <1>21. ASSUME NEW p \in Procs, AssignWord(p) PROVE Verdicts'
    BY <1>21 DEF AssignWord
  <1>22. ASSUME NEW p \in Procs, AssignVerdict(p) PROVE Verdicts'
    BY <1>22 DEF AssignVerdict
  <1>23. ASSUME NEW p \in Procs, AssignProbe(p) PROVE Verdicts'
    <2>1. spc'[p] = "cas" => bytes[cur[p]] = None /\ cur'[p] = cur[p]
      BY <1>23 DEF AssignProbe
    <2>2. \A q \in Procs \ {p} : spc'[q] = spc[q] /\ cur'[q] = cur[q] /\ obs'[q] = obs[q]
      BY <1>23 DEF AssignProbe
    <2>3. UNCHANGED <<pc, arena, slot, mine, wpc, wslot, wobs>>
      BY <1>23 DEF AssignProbe
    <2>4. \A q \in Procs : Published(q) => bytes[slot[q]] # None
      BY DEF Holders, InSlot
    <2> QED
      BY <2>1, <2>2, <2>3, <2>4
  <1>24. ASSUME NEW p \in Procs, AssignReclaim(p) PROVE Verdicts'
    BY <1>24 DEF AssignReclaim
  <1>25. ASSUME NEW p \in Procs, Grant(p) PROVE Verdicts'
    <2>1. client[p] # None => spc[client[p]] = "off" /\ wpc[client[p]] = "idle"
      BY DEF Clients, Threads
    <2>2. spc'[p] # "cas" /\ UNCHANGED <<wpc, wslot, wobs, mine>>
      BY <1>25 DEF Grant
    <2>3. \A q \in Procs \ {p} : spc'[q] = spc[q] /\ cur'[q] = cur[q] /\ obs'[q] = obs[q]
      BY <1>25 DEF Grant
    <2>4. \/ UNCHANGED <<pc, arena, slot>>
          \/ /\ client[p] \in Procs /\ pc'[client[p]] = "granted"
             /\ \A q \in Procs \ {client[p]} : /\ pc'[q] = pc[q] /\ arena'[q] = arena[q]
                                                /\ slot'[q] = slot[q]
      BY <1>25 DEF Grant
    <2> QED
      BY <2>1, <2>2, <2>3, <2>4, ProcAssumption
  <1>26. ASSUME NEW p \in Procs, Reject(p) PROVE Verdicts'
    BY <1>26 DEF Reject, Clients
  <1>27. ASSUME NEW p \in Procs, NEW s \in Slots, HangupBegin(p, s) PROVE Verdicts'
    BY <1>27 DEF HangupBegin
  <1>28. ASSUME NEW p \in Procs, HangupLoad(p) PROVE Verdicts'
    BY <1>28 DEF HangupLoad
  <1>29. ASSUME NEW p \in Procs, HangupReclaim(p) PROVE Verdicts'
    BY <1>29 DEF HangupReclaim
  <1>30. ASSUME NEW p \in Procs, NEW s \in Slots, SweepLoad(p, s) PROVE Verdicts'
    BY <1>30 DEF SweepLoad
  <1>31. ASSUME NEW p \in Procs, SweepProbe(p) PROVE Verdicts'
    <2>1. wpc'[p] = "cas" => bytes[wslot[p]] = None /\ wslot'[p] = wslot[p]
      BY <1>31 DEF SweepProbe
    <2>2. \A q \in Procs \ {p} : wpc'[q] = wpc[q] /\ wslot'[q] = wslot[q] /\ wobs'[q] = wobs[q]
      BY <1>31 DEF SweepProbe
    <2>3. UNCHANGED <<pc, arena, slot, mine, spc, cur, obs>>
      BY <1>31 DEF SweepProbe
    <2>4. \A q \in Procs : Published(q) => bytes[slot[q]] # None
      BY DEF Holders, InSlot
    <2> QED
      BY <2>1, <2>2, <2>3, <2>4
  <1>32. ASSUME NEW p \in Procs, SweepReclaim(p) PROVE Verdicts'
    BY <1>32 DEF SweepReclaim
  <1>33. ASSUME NEW p \in Procs, LeaveRecord(p) PROVE Verdicts'
    BY <1>33 DEF LeaveRecord
  <1>34. ASSUME NEW p \in Procs, StopServer(p) PROVE Verdicts'
    BY <1>34 DEF StopServer, SPCs
  <1>35. ASSUME NEW p \in Procs, CloseSession(p) PROVE Verdicts'
    BY <1>35 DEF CloseSession
  <1>36. ASSUME NEW p \in Procs, CloseSocket(p) PROVE Verdicts'
    <2>1. spc[p] = "off" /\ wpc[p] = "idle"
      BY <1>36 DEF CloseSocket, Threads
    <2>2. pc'[p] \notin {"bind", "member", "heir", "owner"} /\ UNCHANGED <<spc, obs, wpc, wslot, wobs>>
      BY <1>36 DEF CloseSocket
    <2>3. \A q \in Procs \ {p} : /\ pc'[q] = pc[q] /\ arena'[q] = arena[q] /\ slot'[q] = slot[q]
                               /\ mine'[q] = mine[q] /\ cur'[q] = cur[q]
      BY <1>36 DEF CloseSocket
    <2> QED
      BY <2>1, <2>2, <2>3
  <1>37. ASSUME NEW p \in Procs, Kill(p) PROVE Verdicts'
    BY <1>37, CloseAllMoves DEF Kill
  <1> QED
    BY <1>1, <1>2, <1>3, <1>4, <1>5, <1>6, <1>7, <1>8, <1>9, <1>10, <1>11, <1>12, <1>13,
       <1>14, <1>15, <1>16, <1>17, <1>18, <1>19, <1>20, <1>21, <1>22, <1>23, <1>24, <1>25,
       <1>26, <1>27, <1>28, <1>29, <1>30, <1>31, <1>32, <1>33, <1>34, <1>35, <1>36, <1>37
    DEF Next, Join, Create, Assign, OnHangup, Reap, Leave

-------------------------------------------------------------------------------
(* The invariant and what follows from it. *)

LEMMA InitIInv == Init => IInv
  <1> SUFFICES ASSUME Init PROVE IInv
    OBVIOUS
  <1> USE ProcAssumption, SlotAssumption, BoundAssumption DEF Init
  <1>1. LockTypes /\ TableTypes
    BY DEF LockTypes, TableTypes, FREE
  <1>2. ProcTypes
    BY DEF ProcTypes, PCs
  <1>3. ServerTypes
    BY DEF ServerTypes, SPCs, FREE, ConnStates
  <1>4. SweepTypes
    BY DEF SweepTypes, FREE, Slots
  <1>5. TypeOK
    BY <1>1, <1>2, <1>3, <1>4, TypeParts
  <1>6. Places /\ Threads /\ Clients /\ Holders /\ Owners /\ Scans /\ CheckedAlone
    BY DEF Places, Threads, Clients, Holders, Owners, Scans, CheckedAlone, InSlot
  <1>7. Words /\ Observed /\ Verdicts
    BY DEF Words, Observed, Verdicts, Published, FREE
  <1> QED
    BY <1>5, <1>6, <1>7 DEF IInv

LEMMA StepIInv == IInv /\ [Next]_vars => IInv'
  BY StepTypes, StepPlaces, StepThreads, StepClients, StepHolders, StepOwners, StepScans,
     StepAlone, StepWords, StepObserved, StepVerdicts
  DEF IInv

\* Every reachable state satisfies the inductive invariant: what a process's
\* position in open, serve, reap and drop says of the lock file, the socket and
\* the records (ipc open.rs, lockfile.rs, server.rs; participant.rs).
THEOREM InvariantHolds == Spec => []IInv
  BY InitIInv, StepIInv, PTL DEF Spec

\* The types hold for any number of processes, slots, arenas and kills: no loop
\* over the slots runs past the last one, no process names an arena that was
\* not created (lockfile.rs, any_participant_held; open.rs, the assigner).
THEOREM TypesHold == Spec => []TypeOK
  BY InvariantHolds, PTL DEF IInv

\* No two living processes ever have one slot, whoever granted them theirs and
\* whatever a reclaimer freed (ipc open.rs, register_at; participant.rs).
THEOREM OneOccupantHolds == Spec => []OneOccupant
  <1>1. IInv => OneOccupant
    BY DEF IInv, Holders, OneOccupant
  <1> QED
    BY <1>1, InvariantHolds, PTL

\* Whoever runs a serving thread has the ownership byte, and whoever is the
\* owner has the socket path (server.rs, bind_at; open.rs, Attachment::Owner).
THEOREM ServerIsOwnerHolds == Spec => []ServerIsOwner
  <1>1. IInv => ServerIsOwner
    BY DEF IInv, Threads, Owners, ServerIsOwner, At
  <1> QED
    BY <1>1, InvariantHolds, PTL

\* An opener that goes on to create an arena has found every byte free that was
\* not taken since it had the ownership byte (ipc open.rs, step 4).
THEOREM CheckedAloneHolds == Spec => []CheckedAlone
  BY InvariantHolds, PTL DEF IInv


\* A participant keeps its arena, its slot and its incarnation.
LEMMA LiveKeeps ==
    ASSUME TypeOK, Clients, NEW q \in Procs, Live(q), Live(q)', [Next]_vars
    PROVE  arena'[q] = arena[q] /\ slot'[q] = slot[q] /\ mine'[q] = mine[q]
  <1>arena. arena \in [Procs -> 0 .. arenas]
    BY DEF TypeOK
  <1>slot. slot \in [Procs -> Slots \cup {NoSlot}]
    BY DEF TypeOK
  <1>mine. mine \in [Procs -> Nat]
    BY DEF TypeOK
  <1>client. client \in [Procs -> Procs \cup {None}]
    BY DEF TypeOK
  <1>1. ASSUME NEW p \in Procs, Open(p) \/ Probe(p) \/ NoAnswer(p) \/ Attach(p) \/
               TakeOwnership(p) \/ Scan(p) \/ Scanned(p) \/ Bind(p)
        PROVE  UNCHANGED <<arena, slot, mine>>
    BY <1>1 DEF Open, Probe, NoAnswer, Attach, TakeOwnership, Scan, Scanned, Bind, process
  <1>2. ASSUME NEW p \in Procs, Retry(p) \/ GiveUp(p) \/ TakeOver(p) \/ BindFails(p) \/ (\E
               c \in Procs : Accept(p, c)) \/ AssignWord(p) \/ AssignVerdict(p) \/
               AssignProbe(p)
        PROVE  UNCHANGED <<arena, slot, mine>>
    BY <1>2 DEF Retry, GiveUp, TakeOver, BindFails, Accept, AssignWord, AssignVerdict,
       AssignProbe, process
  <1>3. ASSUME NEW p \in Procs, AssignReclaim(p) \/ Reject(p) \/ (\E s \in Slots :
               HangupBegin(p, s)) \/ HangupLoad(p) \/ HangupReclaim(p) \/ (\E s \in Slots :
               SweepLoad(p, s)) \/ SweepProbe(p) \/ SweepReclaim(p)
        PROVE  UNCHANGED <<arena, slot, mine>>
    BY <1>3 DEF AssignReclaim, Reject, HangupBegin, HangupLoad, HangupReclaim, SweepLoad,
       SweepProbe, SweepReclaim, process
  <1>4. ASSUME NEW p \in Procs, LeaveRecord(p) \/ StopServer(p) \/ CloseSession(p)
        PROVE  UNCHANGED <<arena, slot, mine>>
    BY <1>4 DEF LeaveRecord, StopServer, CloseSession, process
  <1>5. ASSUME UNCHANGED vars PROVE UNCHANGED <<arena, slot, mine>>
    BY <1>5 DEF vars, process
  <1>6. ASSUME UNCHANGED <<arena, slot, mine>> PROVE arena'[q] = arena[q] /\ slot'[q] = slot[q] /\ mine'[q] = mine[q]
    BY <1>6
  <1> USE <1>arena, <1>slot, <1>mine, <1>client, JumpMoves DEF Live, At, Hangup,
          DropOwnership, NextSlot, Served, Sweep, Swept, lockfile, table, process, server,
          sweeper, counters
  <1>7. ASSUME NEW p \in Procs, RegisterAt(p) PROVE arena'[q] = arena[q] /\ slot'[q] = slot[q] /\ mine'[q] = mine[q]
    BY <1>7 DEF RegisterAt
  <1>8. ASSUME NEW p \in Procs, FillSlot(p) PROVE arena'[q] = arena[q] /\ slot'[q] = slot[q] /\ mine'[q] = mine[q]
    BY <1>8 DEF FillSlot
  <1>9. ASSUME NEW p \in Procs, RegisterCreator(p) PROVE arena'[q] = arena[q] /\ slot'[q] = slot[q] /\ mine'[q] = mine[q]
    BY <1>9 DEF RegisterCreator
  <1>10. ASSUME NEW p \in Procs, Build(p) PROVE arena'[q] = arena[q] /\ slot'[q] = slot[q] /\ mine'[q] = mine[q]
    BY <1>10 DEF Build
  <1>11. ASSUME NEW p \in Procs, OpenFails(p) PROVE arena'[q] = arena[q] /\ slot'[q] = slot[q] /\ mine'[q] = mine[q]
    BY <1>11, CloseAllMoves DEF OpenFails
  <1>12. ASSUME NEW p \in Procs, Grant(p) PROVE arena'[q] = arena[q] /\ slot'[q] = slot[q] /\ mine'[q] = mine[q]
    BY <1>12 DEF Grant, Clients
  <1>13. ASSUME NEW p \in Procs, CloseSocket(p) PROVE arena'[q] = arena[q] /\ slot'[q] = slot[q] /\ mine'[q] = mine[q]
    BY <1>13 DEF CloseSocket
  <1>14. ASSUME NEW p \in Procs, Kill(p) PROVE arena'[q] = arena[q] /\ slot'[q] = slot[q] /\ mine'[q] = mine[q]
    BY <1>14, CloseAllMoves DEF Kill
  <1> QED
    BY <1>1, <1>2, <1>3, <1>4, <1>5, <1>6, <1>7, <1>8, <1>9, <1>10, <1>11, <1>12, <1>13,
       <1>14
    DEF Next, Join, Create, Assign, OnHangup, Reap, Leave

\* A step that takes the record of a living participant is a hangup callback.
LEMMA OnlyDead ==
    ASSUME IInv, NEW q \in Procs, Live(q), OwnWord(q), Live(q)', [Next]_vars
    PROVE  OwnWord(q)' \/ Excused(q)
  <1> USE DEF IInv
  <1>q. arena[q] \in 1 .. arenas /\ arena[q] \in Arenas /\ slot[q] \in Slots /\ InSlot(q)
    BY PlaceOf DEF Live, InSlot
  <1>keep. arena'[q] = arena[q] /\ slot'[q] = slot[q] /\ mine'[q] = mine[q]
    BY LiveKeeps
  <1>word. word \in [Arenas -> [Slots -> Nat \cup {RESERVED}]]
    BY DEF TypeOK
  <1>arenas. arenas \in 0 .. MaxArenas
    BY DEF TypeOK
  <1>1. ASSUME NEW p \in Procs, Open(p) \/ Probe(p) \/ NoAnswer(p) \/ RegisterAt(p) \/
               TakeOwnership(p) \/ Scan(p) \/ Scanned(p) \/ RegisterCreator(p)
        PROVE  UNCHANGED word
    BY <1>1 DEF Open, Probe, NoAnswer, RegisterAt, TakeOwnership, Scan, Scanned,
       RegisterCreator, table
  <1>2. ASSUME NEW p \in Procs, Bind(p) \/ Retry(p) \/ GiveUp(p) \/ OpenFails(p) \/
               TakeOver(p) \/ BindFails(p) \/ (\E c \in Procs : Accept(p, c)) \/
               AssignWord(p)
        PROVE  UNCHANGED word
    BY <1>2 DEF Bind, Retry, GiveUp, OpenFails, TakeOver, BindFails, Accept, AssignWord,
       CloseAll, table
  <1>3. ASSUME NEW p \in Procs, AssignVerdict(p) \/ AssignProbe(p) \/ Grant(p) \/ Reject(p)
               \/ (\E s \in Slots : HangupBegin(p, s)) \/ HangupLoad(p) \/ (\E s \in Slots :
               SweepLoad(p, s)) \/ SweepProbe(p)
        PROVE  UNCHANGED word
    BY <1>3 DEF AssignVerdict, AssignProbe, Grant, Reject, HangupBegin, HangupLoad,
       SweepLoad, SweepProbe, table
  <1>4. ASSUME NEW p \in Procs, StopServer(p) \/ CloseSession(p) \/ CloseSocket(p) \/
               Kill(p)
        PROVE  UNCHANGED word
    BY <1>4 DEF StopServer, CloseSession, CloseSocket, Kill, CloseAll, table
  <1>5. ASSUME UNCHANGED vars PROVE UNCHANGED word
    BY <1>5 DEF vars, table
  <1>6. ASSUME UNCHANGED word PROVE OwnWord(q)' \/ Excused(q)
    BY <1>6, <1>keep DEF OwnWord
  <1> USE DEF FREE, At, Hangup, DropOwnership, NextSlot, Served, Sweep, Swept, lockfile,
          table, process, server, sweeper, counters
  <1>7. ASSUME NEW p \in Procs, Attach(p) PROVE OwnWord(q)' \/ Excused(q)
    <2>1. arena[p] \in Arenas /\ slot[p] \in Slots
      BY <1>7, PlaceOf DEF Attach, InSlot
    <2>2. p # q => slot[p] # slot[q]
      BY <1>7, <1>q DEF Attach, Holders, InSlot
    <2>3. p # q
      BY <1>7, JumpMoves DEF Attach, Live
    <2> QED
      BY <1>7, <1>keep, <1>q, <2>1, <2>2, <2>3, CasMoves DEF Attach, OwnWord
  <1>8. ASSUME NEW p \in Procs, FillSlot(p) PROVE OwnWord(q)' \/ Excused(q)
    <2>1. arena[p] \in Arenas /\ slot[p] \in Slots
      BY <1>8, PlaceOf DEF FillSlot, InSlot
    <2>2. p # q => slot[p] # slot[q]
      BY <1>8, <1>q DEF FillSlot, Holders, InSlot
    <2>3. p # q
      BY <1>8 DEF FillSlot, Live
    <2> QED
      BY <1>8, <1>keep, <1>q, <1>word, <2>1, <2>2, <2>3 DEF FillSlot, OwnWord
  <1>9. ASSUME NEW p \in Procs, Build(p) PROVE OwnWord(q)' \/ Excused(q)
    <2> QED
      BY <1>9, <1>keep, <1>q, <1>word, <1>arenas DEF Build, OwnWord
  <1>10. ASSUME NEW p \in Procs, AssignReclaim(p) PROVE OwnWord(q)' \/ Excused(q)
    <2>1. arena[p] \in Arenas /\ cur[p] \in Slots
      BY <1>10, ThreadPlace DEF AssignReclaim
    <2>2. arena[q] = arena[p] /\ slot[q] = cur[p] => obs[p] # mine[q]
      BY <1>10 DEF AssignReclaim, Verdicts, Published, Live
    <2> QED
      BY <1>10, <1>keep, <1>q, <2>1, <2>2, CasMoves DEF AssignReclaim, OwnWord
  <1>11. ASSUME NEW p \in Procs, HangupReclaim(p) PROVE OwnWord(q)' \/ Excused(q)
    <2>1. arena[p] \in Arenas /\ cur[p] \in Slots
      BY <1>11, ThreadPlace DEF HangupReclaim
    <2>2. CASE arena[p] = arena[q] /\ cur[p] = slot[q]
      BY <1>11, <2>2 DEF Excused
    <2>3. CASE ~(arena[p] = arena[q] /\ cur[p] = slot[q])
      <3>1. CasWord(arena[p], cur[p], obs[p], FREE)
        BY <1>11 DEF HangupReclaim
      <3> QED
        BY <1>keep, <1>q, <2>1, <2>3, <3>1, CasMoves DEF OwnWord
    <2> QED
      BY <2>2, <2>3
  <1>12. ASSUME NEW p \in Procs, SweepReclaim(p) PROVE OwnWord(q)' \/ Excused(q)
    <2>1. arena[p] \in Arenas /\ wslot[p] \in Slots
      BY <1>12, ThreadPlace DEF SweepReclaim
    <2>2. arena[q] = arena[p] /\ slot[q] = wslot[p] => wobs[p] # mine[q]
      BY <1>12 DEF SweepReclaim, Verdicts, Published, Live
    <2> QED
      BY <1>12, <1>keep, <1>q, <2>1, <2>2, CasMoves DEF SweepReclaim, OwnWord
  <1>13. ASSUME NEW p \in Procs, LeaveRecord(p) PROVE OwnWord(q)' \/ Excused(q)
    <2>1. arena[p] \in Arenas /\ slot[p] \in Slots
      BY <1>13, PlaceOf DEF LeaveRecord, InSlot
    <2>2. p # q => slot[p] # slot[q]
      BY <1>13, <1>q DEF LeaveRecord, Holders, InSlot
    <2>3. p # q
      BY <1>13, JumpMoves DEF LeaveRecord, Live
    <2> QED
      BY <1>13, <1>keep, <1>q, <2>1, <2>2, <2>3, CasMoves DEF LeaveRecord, OwnWord
  <1> QED
    BY <1>1, <1>2, <1>3, <1>4, <1>5, <1>6, <1>7, <1>8, <1>9, <1>10, <1>11, <1>12, <1>13
    DEF Next, Join, Create, Assign, OnHangup, Reap, Leave

\* Neither the assigner nor reap_participants ever frees the record of a living
\* participant, however long they pause between the word, the byte and the
\* compare-exchange (open.rs, reclamation_verdict; participant.rs, reclaim).
THEOREM VerdictOnlyDeadHolds == Spec => VerdictOnlyDead
  <1>1. IInv /\ [Next]_vars =>
          \A p \in Procs : Live(p) /\ OwnWord(p) /\ Live(p)' /\ ~OwnWord(p)' =>
             \E q \in Procs : HangupReclaim(q) /\ arena[q] = arena[p] /\ cur[q] = slot[p]
    BY OnlyDead DEF Excused
  <1> QED
    BY <1>1, InvariantHolds, PTL DEF Spec, VerdictOnlyDead
===============================================================================
