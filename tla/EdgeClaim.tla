------------------------------- MODULE EdgeClaim -------------------------------
(***************************************************************************)
(* Who may publish on one dynamic edge of a shared arena: the claim record *)
(* (tf_tree_core/src/edge.rs), the lease byte of the lock file that proves *)
(* its holder alive, and the reapers that take the claim of a dead holder  *)
(* away (tf_tree/src/tree.rs: claim, take_claim_lease, reap_claims, and    *)
(* the owner's hangup callback in open.rs).                                *)
(*                                                                         *)
(* A process has one description of the lock file for its claims; an OFD   *)
(* lock belongs to the description, so threads of one process do not       *)
(* contend for the byte and an unlock by one unlocks it for all.  The      *)
(* owner's serving thread has a description of its own.                    *)
(*                                                                         *)
(* Every atomic operation and every fcntl call is a step of its own.  A    *)
(* process can be killed between any two of them: its threads are gone,    *)
(* the kernel frees its byte, and a new process may be given its slot.     *)
(***************************************************************************)
EXTENDS Integers

CONSTANTS
    Procs,        \* participants, named by their slot
    Threads,      \* threads that claim and publish
    ProcOf,       \* the participant a thread belongs to
    Owner,        \* the participant that owns the rendezvous
    Mortal,       \* the participants that may be killed
    None,         \* no slot: a free word, a free byte
    Midway,       \* the slot field of CLAIMING, which names no participant
    MaxEpoch,     \* bound: no claim begins beyond this epoch
    MaxCrashes    \* bound on the number of kills

ASSUME ProcAssumption == /\ ProcOf \in [Threads -> Procs]
                         /\ Owner \in Procs /\ Mortal \subseteq Procs
                         /\ None \notin Procs /\ Midway \notin Procs /\ None # Midway
ASSUME EpochAssumption == MaxEpoch \in Nat /\ MaxCrashes \in Nat

VARIABLES
    owner, epoch,    \* the claim record
    byte,            \* the process whose description holds the lease byte
    pc, mine,        \* a thread's program counter and the epoch it was given
    rpc,             \* the program counter of each process' reap_dead, and of
                     \* the owner's hangup callback
    hup,             \* slots whose socket hung up and is not yet dealt with
    lost,            \* history: epochs of claims whose thread was killed
    crashes

record  == <<owner, epoch>>
threads == <<pc, mine>>
reapers == <<rpc, hup>>
history == <<lost, crashes>>
vars    == <<record, byte, threads, reapers, history>>

-------------------------------------------------------------------------------
(* Owner words. *)

pack_owner(e, p) == [epoch |-> e, slot |-> p]
Free     == pack_owner(0, None)
CLAIMING == pack_owner(0, Midway)
OwnWord(t) == pack_owner(mine[t], ProcOf[t])

\* Free and CLAIMING name no participant.
slot_of(word) == IF word.slot \in Procs THEN word.slot ELSE None

\* The hangup callback runs on the owner's serving thread; None names it.
Reapers == Procs \cup {None}

Init ==
    /\ owner = Free
    /\ epoch = 0
    /\ byte = None
    /\ pc = [t \in Threads |-> "idle"]
    /\ mine = [t \in Threads |-> 0]
    /\ rpc = [r \in Reapers |-> "idle"]
    /\ hup = {}
    /\ lost = {}
    /\ crashes = 0

At(t, l)   == pc[t] = l
Jump(t, l) == pc' = [pc EXCEPT ![t] = l]

-------------------------------------------------------------------------------
(* Claiming: edge::claim, then Tree::take_claim_lease. *)

\* The compare-exchange; when it fails, EdgeAlreadyClaimed changes nothing.
ClaimCas(t) ==
    /\ At(t, "idle")
    /\ epoch < MaxEpoch
    /\ owner = Free
    /\ owner' = CLAIMING
    /\ Jump(t, "bump")
    /\ UNCHANGED <<epoch, byte, mine, reapers, history>>

ClaimBump(t) ==
    /\ At(t, "bump")
    /\ epoch' = epoch + 1
    /\ mine' = [mine EXCEPT ![t] = epoch + 1]
    /\ Jump(t, "store")
    /\ UNCHANGED <<owner, byte, reapers, history>>

\* A store, whatever the word is by now.
ClaimStore(t) ==
    /\ At(t, "store")
    /\ owner' = OwnWord(t)
    /\ Jump(t, "lease")
    /\ UNCHANGED <<epoch, byte, mine, reapers, history>>

\* Fault: a contended byte is ignored.
TakeLeaseAnyway(t) ==
    /\ At(t, "lease")
    /\ byte' = ProcOf[t]
    /\ Jump(t, "verify")
    /\ UNCHANGED <<record, mine, reapers, history>>

\* try_take_claim: granted when nobody else's description holds the byte;
\* contended, or failing with an error, the claim is backed out.
TakeLease(t) ==
    /\ At(t, "lease")
    /\ \/ /\ byte \in {None, ProcOf[t]}
          /\ byte' = ProcOf[t]
          /\ Jump(t, "verify")
       \/ /\ UNCHANGED byte
          /\ Jump(t, "undo")
    /\ UNCHANGED <<record, mine, reapers, history>>

\* Fault: a claim found revoked returns without giving the byte back.
VerifyEpochKeepingByte(t) ==
    /\ At(t, "verify")
    /\ Jump(t, IF epoch = mine[t] THEN "held" ELSE "undo")
    /\ UNCHANGED <<record, byte, mine, reapers, history>>

\* The epoch re-check: did a reaper run between the claim and the lease?
VerifyEpoch(t) ==
    /\ At(t, "verify")
    /\ Jump(t, IF epoch = mine[t] THEN "held" ELSE "back")
    /\ UNCHANGED <<record, byte, mine, reapers, history>>

-------------------------------------------------------------------------------
(* Publishing, and giving the edge back. *)

\* Publisher::push checks the epoch and enters SampleRing::push; a stale epoch
\* is ClaimRevoked and changes nothing.
PushCheck(t) ==
    /\ At(t, "held")
    /\ epoch = mine[t]
    /\ Jump(t, "pushing")
    /\ UNCHANGED <<record, byte, mine, reapers, history>>

PushDone(t) ==
    /\ At(t, "pushing")
    /\ Jump(t, "held")
    /\ UNCHANGED <<record, byte, mine, reapers, history>>

\* Dropping an EdgeWriter: the publisher first, then the lease.
DropWriter(t) ==
    /\ At(t, "held")
    /\ Jump(t, "back")
    /\ UNCHANGED <<record, byte, mine, reapers, history>>

\* Fault: backing out forgets the record.
ReleaseNothing(t) ==
    /\ pc[t] \in {"undo", "back"}
    /\ Jump(t, IF At(t, "undo") THEN "idle" ELSE "unlock")
    /\ UNCHANGED <<record, byte, mine, reapers, history>>

\* edge::release: a compare-exchange on the thread's own word.
Release(t) ==
    /\ pc[t] \in {"undo", "back"}
    /\ owner' = IF owner = OwnWord(t) THEN Free ELSE owner
    /\ Jump(t, IF At(t, "undo") THEN "idle" ELSE "unlock")
    /\ UNCHANGED <<epoch, byte, mine, reapers, history>>

\* release_claim: unlocks the byte if this process' description holds it.
Unlock(t) ==
    /\ At(t, "unlock")
    /\ byte' = IF byte = ProcOf[t] THEN None ELSE byte
    /\ Jump(t, "idle")
    /\ UNCHANGED <<record, mine, reapers, history>>

-------------------------------------------------------------------------------
(* Reaping: reap_claims, called by reap_dead in any process (no filter) and *)
(* by the owner's hangup callback (the slot that hung up).                  *)

ReapAt(r, l) == rpc' = [rpc EXCEPT ![r] = l]

\* Fault: a word that names nobody is skipped, CLAIMING included.
ReapDeadLoadNamed(p) ==
    /\ rpc[p] = "idle"
    /\ slot_of(owner) \notin {None, p}
    /\ ReapAt(p, "probe")
    /\ UNCHANGED <<record, byte, threads, hup, history>>

\* The word is loaded; a free one and one's own are skipped.
ReapDeadLoad(p) ==
    /\ rpc[p] = "idle"
    /\ owner # Free
    /\ slot_of(owner) # p
    /\ ReapAt(p, "probe")
    /\ UNCHANGED <<record, byte, threads, hup, history>>

\* The hangup of slot s: words that do not name s are skipped.
HangupLoad(s) ==
    /\ rpc[None] = "idle"
    /\ s \in hup
    /\ hup' = hup \ {s}
    /\ ReapAt(None, IF slot_of(owner) = s /\ s # Owner THEN "probe" ELSE "idle")
    /\ UNCHANGED <<record, byte, threads, history>>

\* A description does not see a lock of its own.
ReapProbe(r) ==
    /\ rpc[r] = "probe"
    /\ ReapAt(r, IF byte \in {None, r} THEN "bump" ELSE "idle")
    /\ UNCHANGED <<record, byte, threads, hup, history>>

\* Fault: a reap starts the epochs over.
ReapBumpReset(r) ==
    /\ rpc[r] = "bump"
    /\ epoch' = 0
    /\ ReapAt(r, "clear")
    /\ UNCHANGED <<owner, byte, threads, hup, history>>

ReapBump(r) ==
    /\ rpc[r] = "bump"
    /\ epoch' = epoch + 1
    /\ ReapAt(r, "clear")
    /\ UNCHANGED <<owner, byte, threads, hup, history>>

\* A store: whatever word is there by now is gone.
ReapClear(r) ==
    /\ rpc[r] = "clear"
    /\ owner' = Free
    /\ ReapAt(r, "idle")
    /\ UNCHANGED <<epoch, byte, threads, hup, history>>

-------------------------------------------------------------------------------
(* Death of a process. *)

\* The threads of p that have an epoch of their own.
Claimants(p) == {t \in Threads : ProcOf[t] = p /\ pc[t] \notin {"idle", "bump"}}

\* Its threads stop where they are, the kernel unlocks its byte and hangs up
\* its socket; its slot can be given to a new process at once.
Kill(p) ==
    /\ p \in Mortal
    /\ crashes < MaxCrashes
    /\ crashes' = crashes + 1
    /\ lost' = lost \cup {mine[t] : t \in Claimants(p)}
    /\ pc' = [t \in Threads |-> IF ProcOf[t] = p THEN "idle" ELSE pc[t]]
    /\ byte' = IF byte = p THEN None ELSE byte
    /\ rpc' = [r \in Reapers |-> IF r = p \/ (r = None /\ p = Owner) THEN "idle" ELSE rpc[r]]
    /\ hup' = IF p = Owner THEN {} ELSE hup \cup {p}
    /\ UNCHANGED <<record, mine>>

-------------------------------------------------------------------------------
Claim(t)   == ClaimCas(t) \/ ClaimBump(t) \/ ClaimStore(t) \/ TakeLease(t) \/ VerifyEpoch(t)
Publish(t) == PushCheck(t) \/ PushDone(t) \/ DropWriter(t) \/ Release(t) \/ Unlock(t)
Reap(r)    == ReapProbe(r) \/ ReapBump(r) \/ ReapClear(r)
ReapDead(p) == ReapDeadLoad(p) \/ Reap(p)
Hangup     == (\E s \in Procs : HangupLoad(s)) \/ Reap(None)

Next ==
    \/ \E t \in Threads : Claim(t) \/ Publish(t)
    \/ \E p \in Procs : ReapDead(p)
    \/ Hangup
    \/ \E p \in Procs : Kill(p)

Spec == Init /\ [][Next]_vars

\* A thread inside claim, push, drop or a reap keeps running, and the owner's
\* serving thread deals with every hangup.
Running(t) == \/ ClaimBump(t) \/ ClaimStore(t) \/ TakeLease(t) \/ VerifyEpoch(t)
              \/ PushDone(t) \/ Release(t) \/ Unlock(t)

\* Every participant calls reap_dead again and again.
SweepSpec ==
    /\ Spec
    /\ \A t \in Threads : WF_vars(Running(t))
    /\ \A p \in Procs : WF_vars(Reap(p))
    /\ WF_vars(Hangup)
    /\ \A p \in Procs : WF_vars(ReapDead(p))

-------------------------------------------------------------------------------
(* Properties. *)

TypeOK ==
    /\ epoch \in Nat
    /\ owner \in [epoch : 0 .. epoch, slot : Procs \cup {None, Midway}]
    /\ byte \in Procs \cup {None}
    /\ pc \in [Threads -> {"idle", "bump", "store", "lease", "verify", "held", "pushing",
                           "undo", "back", "unlock"}]
    /\ mine \in [Threads -> 0 .. epoch]
    /\ rpc \in [Reapers -> {"idle", "probe", "bump", "clear"}]
    /\ hup \subseteq Procs
    /\ lost \subseteq 0 .. epoch
    /\ crashes \in Nat

\* No two threads are ever inside SampleRing::push of this edge, however
\* reapers, kills and claims interleave (edge.rs, Publisher; buffer.rs, push).
\* (There is one claiming thread in each process.)
SinglePusher ==
    \A t, u \in Threads : pc[t] = "pushing" /\ pc[u] = "pushing" => t = u

\* Threads that wrote their word and have not released it yet.
InWindow(t) == pc[t] \in {"lease", "undo"}
Leased(t)   == pc[t] \in {"verify", "held", "pushing", "back"}

\* A record that names a participant while the byte is free was left by a
\* killed thread, or its thread is still inside claim: a reaper that finds the
\* two together never faces a writer that has its lease (tree.rs, reap_claims).
HeldRecordFreeByte ==
    owner.slot \in Procs /\ byte = None =>
        \/ owner.epoch \in lost
        \/ \E t \in Threads : OwnWord(t) = owner /\ InWindow(t)

\* The byte is held only for a thread that will give it back: every way out of
\* claim and of drop unlocks it (tree.rs, take_claim_lease and ClaimLease).
ByteReturned ==
    byte # None => \E t \in Threads : ProcOf[t] = byte /\ (Leased(t) \/ pc[t] = "unlock")

\* When nobody uses the edge any more, whatever claim a killed process left on
\* it goes away and the edge can be claimed again.
StaleClaimFreed ==
    (owner # Free /\ \A t \in Threads : pc[t] = "idle") ~> owner = Free

-------------------------------------------------------------------------------
(* The inductive invariant behind the safety properties. *)

\* A thread that got the byte has it until it unlocks it.  Needs one claiming
\* thread in each process: another one's unlock would free the byte for both.
LeaseInv ==
    \A t \in Threads : Leased(t) \/ pc[t] = "unlock" => byte = ProcOf[t]

\* A word that names a participant has a thread that will release it, or had.
WordInv ==
    owner.slot \in Procs =>
        \/ owner.epoch \in lost
        \/ \E t \in Threads : OwnWord(t) = owner /\ (InWindow(t) \/ Leased(t))

IInv == TypeOK /\ LeaseInv /\ WordInv /\ ByteReturned
===============================================================================
