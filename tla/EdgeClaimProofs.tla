--------------------------- MODULE EdgeClaimProofs ---------------------------
(***************************************************************************)
(* Proofs about EdgeClaim, for any number of processes, threads, kills and *)
(* claims.  The safety of the claim protocol rests on one hypothesis about *)
(* the application, which the theorems name: no two threads of a process   *)
(* claim the edge.                                                         *)
(***************************************************************************)
EXTENDS EdgeClaim, TLAPS

\* One claiming thread in each process.
Injective == \A t, u \in Threads : ProcOf[t] = ProcOf[u] => t = u

-------------------------------------------------------------------------------
LEMMA InitIInv == Init => IInv
  BY ProcAssumption
  DEF Init, IInv, TypeOK, LeaseInv, WordInv, ByteReturned, Leased, InWindow, Free, pack_owner, Reapers

LEMMA ImageBound ==
    ASSUME NEW S, NEW f, NEW B, \A t \in S : f[t] \in B
    PROVE  {f[t] : t \in S} \subseteq B
  OBVIOUS

\* The types hold whether or not threads share a process.
LEMMA StepTypes == TypeOK /\ [Next]_vars => TypeOK'
  <1> SUFFICES ASSUME TypeOK, [Next]_vars PROVE TypeOK'
    OBVIOUS
  <1> USE ProcAssumption DEF TypeOK, record, threads, reapers, history, At, Jump, ReapAt,
                             pack_owner, Free, CLAIMING, OwnWord, Reapers
  <1>1. ASSUME NEW t \in Threads, ClaimCas(t) PROVE TypeOK'
    BY <1>1 DEF ClaimCas
  <1>2. ASSUME NEW t \in Threads, ClaimBump(t) PROVE TypeOK'
    BY <1>2 DEF ClaimBump
  <1>3. ASSUME NEW t \in Threads, ClaimStore(t) PROVE TypeOK'
    BY <1>3 DEF ClaimStore
  <1>4. ASSUME NEW t \in Threads, TakeLease(t) PROVE TypeOK'
    <2>1. byte' \in Procs \cup {None} /\ UNCHANGED <<record, mine, reapers, history>>
      BY <1>4 DEF TakeLease
    <2>2. pc' = [pc EXCEPT ![t] = "verify"] \/ pc' = [pc EXCEPT ![t] = "undo"]
      BY <1>4 DEF TakeLease
    <2> QED
      BY <2>1, <2>2
  <1>5. ASSUME NEW t \in Threads,
               VerifyEpoch(t) \/ PushCheck(t) \/ PushDone(t) \/ DropWriter(t)
        PROVE  TypeOK'
    BY <1>5 DEF VerifyEpoch, PushCheck, PushDone, DropWriter
  <1>6. ASSUME NEW t \in Threads, Release(t) PROVE TypeOK'
    <2>1. owner' \in {owner, Free} /\ UNCHANGED <<epoch, byte, mine, reapers, history>>
      BY <1>6 DEF Release
    <2>2. pc' = [pc EXCEPT ![t] = "idle"] \/ pc' = [pc EXCEPT ![t] = "unlock"]
      BY <1>6 DEF Release
    <2> QED
      BY <2>1, <2>2
  <1>7. ASSUME NEW t \in Threads, Unlock(t) PROVE TypeOK'
    BY <1>7 DEF Unlock
  <1>8. ASSUME NEW r \in Reapers, ReapProbe(r) \/ ReapBump(r) \/ ReapClear(r) PROVE TypeOK'
    <2>1. CASE ReapProbe(r)
      BY <2>1 DEF ReapProbe
    <2>2. CASE ReapBump(r)
      BY <2>2 DEF ReapBump
    <2>3. CASE ReapClear(r)
      BY <2>3 DEF ReapClear
    <2> QED
      BY <1>8, <2>1, <2>2, <2>3
  <1>9. ASSUME NEW p \in Procs, ReapDeadLoad(p) \/ HangupLoad(p) PROVE TypeOK'
    <2>1. CASE ReapDeadLoad(p)
      BY <2>1 DEF ReapDeadLoad
    <2>2. CASE HangupLoad(p)
      <3>1. rpc' = [rpc EXCEPT ![None] = "probe"] \/ rpc' = [rpc EXCEPT ![None] = "idle"]
        BY <2>2 DEF HangupLoad
      <3>2. hup' \subseteq Procs /\ UNCHANGED <<record, byte, threads, history>>
        BY <2>2 DEF HangupLoad
      <3> QED
        BY <3>1, <3>2
    <2> QED
      BY <1>9, <2>1, <2>2
  <1>10. ASSUME NEW p \in Procs, Kill(p) PROVE TypeOK'
    <2>1. lost' \subseteq 0 .. epoch
      <3>1. \A t \in Claimants(p) : mine[t] \in 0 .. epoch
        BY DEF Claimants
      <3>2. lost' = lost \cup {mine[t] : t \in Claimants(p)}
        BY <1>10 DEF Kill
      <3>3. {mine[t] : t \in Claimants(p)} \subseteq 0 .. epoch
        BY <3>1, ImageBound
      <3> QED
        BY <3>2, <3>3
    <2>2. pc' \in [Threads -> {"idle", "bump", "store", "lease", "verify", "held", "pushing",
                               "undo", "back", "unlock"}]
      BY <1>10 DEF Kill
    <2>3. rpc' \in [Reapers -> {"idle", "probe", "bump", "clear"}]
      <3>1. \A r \in Reapers : rpc[r] \in {"idle", "probe", "bump", "clear"}
        OBVIOUS
      <3> QED
        BY <1>10, <3>1 DEF Kill
    <2>4. hup' \subseteq Procs /\ byte' \in Procs \cup {None} /\ crashes' \in Nat
      BY <1>10 DEF Kill
    <2>5. UNCHANGED <<record, mine>>
      BY <1>10 DEF Kill
    <2> QED
      BY <2>1, <2>2, <2>3, <2>4, <2>5
  <1>11. CASE UNCHANGED vars
    BY <1>11 DEF vars
  <1> QED
    BY <1>1, <1>2, <1>3, <1>4, <1>5, <1>6, <1>7, <1>8, <1>9, <1>10, <1>11
    DEF Next, Claim, Publish, ReapDead, Hangup, Reap

LEMMA StepIInv == Injective /\ IInv /\ [Next]_vars => IInv'
  <1> SUFFICES ASSUME Injective, IInv, [Next]_vars PROVE LeaseInv' /\ WordInv' /\ ByteReturned'
    BY StepTypes DEF IInv
  <1> USE ProcAssumption DEF IInv, TypeOK, record, threads, reapers, history, At, Jump, ReapAt,
                             pack_owner, Free, CLAIMING, OwnWord, Reapers, InWindow, Leased
  <1>1. ASSUME NEW t \in Threads, ClaimCas(t) PROVE LeaseInv' /\ WordInv' /\ ByteReturned'
    BY <1>1 DEF ClaimCas, LeaseInv, WordInv, ByteReturned
  <1>2. ASSUME NEW t \in Threads, ClaimBump(t) PROVE LeaseInv' /\ WordInv' /\ ByteReturned'
    BY <1>2 DEF ClaimBump, LeaseInv, WordInv, ByteReturned
  <1>3. ASSUME NEW t \in Threads, ClaimStore(t) PROVE LeaseInv' /\ WordInv' /\ ByteReturned'
    BY <1>3 DEF ClaimStore, LeaseInv, WordInv, ByteReturned
  <1>4. ASSUME NEW t \in Threads, TakeLease(t) PROVE LeaseInv' /\ WordInv' /\ ByteReturned'
    BY <1>4 DEF TakeLease, LeaseInv, WordInv, ByteReturned
  <1>5. ASSUME NEW t \in Threads, VerifyEpoch(t) \/ PushCheck(t) \/ PushDone(t) \/ DropWriter(t)
        PROVE  LeaseInv' /\ WordInv' /\ ByteReturned'
    BY <1>5 DEF VerifyEpoch, PushCheck, PushDone, DropWriter, LeaseInv, WordInv, ByteReturned
  <1>6. ASSUME NEW t \in Threads, Release(t) PROVE LeaseInv' /\ WordInv' /\ ByteReturned'
    BY <1>6 DEF Release, LeaseInv, WordInv, ByteReturned
  <1>7. ASSUME NEW t \in Threads, Unlock(t) PROVE LeaseInv' /\ WordInv' /\ ByteReturned'
    BY <1>7 DEF Unlock, LeaseInv, WordInv, ByteReturned, Injective
  <1>8. ASSUME NEW r \in Reapers, ReapProbe(r) \/ ReapBump(r) \/ ReapClear(r)
        PROVE  LeaseInv' /\ WordInv' /\ ByteReturned'
    BY <1>8 DEF ReapProbe, ReapBump, ReapClear, LeaseInv, WordInv, ByteReturned
  <1>9. ASSUME NEW p \in Procs, ReapDeadLoad(p) \/ HangupLoad(p)
        PROVE  LeaseInv' /\ WordInv' /\ ByteReturned'
    BY <1>9 DEF ReapDeadLoad, HangupLoad, LeaseInv, WordInv, ByteReturned
  <1>10. ASSUME NEW p \in Procs, Kill(p) PROVE LeaseInv' /\ WordInv' /\ ByteReturned'
    BY <1>10 DEF Kill, Claimants, LeaseInv, WordInv, ByteReturned
  <1>11. CASE UNCHANGED vars
    BY <1>11 DEF vars, LeaseInv, WordInv, ByteReturned
  <1> QED
    BY <1>1, <1>2, <1>3, <1>4, <1>5, <1>6, <1>7, <1>8, <1>9, <1>10, <1>11
    DEF Next, Claim, Publish, ReapDead, Hangup, Reap

-------------------------------------------------------------------------------
(* Theorems. *)

\* The claim record, the lease byte and every process stay well formed, and
\* no word or thread ever carries an epoch the record has not reached.
THEOREM TypeCorrect == Spec => []TypeOK
  <1>1. Init => TypeOK
    BY InitIInv DEF IInv
  <1> QED
    BY <1>1, StepTypes, PTL DEF Spec

LEMMA IInvHolds == Injective => (Spec => []IInv)
  <1> SUFFICES ASSUME Injective PROVE Spec => []IInv
    OBVIOUS
  <1>1. IInv /\ [Next]_vars => IInv'
    BY StepIInv
  <1> QED
    BY <1>1, InitIInv, PTL DEF Spec

\* With one claiming thread in each process, an edge has one writer inside
\* SampleRing::push at a time: whoever was verified holds the byte until it is
\* out of push, also when a reaper has revoked its claim meanwhile.
THEOREM SinglePusherHolds == Injective => (Spec => []SinglePusher)
  <1> SUFFICES ASSUME Injective PROVE Spec => []SinglePusher
    OBVIOUS
  <1>1. IInv => SinglePusher
    BY DEF IInv, LeaseInv, Leased, SinglePusher, Injective
  <1> QED
    BY <1>1, IInvHolds, PTL

\* The inference reap_claims makes from a held record and a free byte is right
\* at the moment it probes: no thread with a lease is behind the record.
THEOREM HeldRecordFreeByteHolds == Injective => (Spec => []HeldRecordFreeByte)
  <1> SUFFICES ASSUME Injective PROVE Spec => []HeldRecordFreeByte
    OBVIOUS
  <1>1. IInv => HeldRecordFreeByte
    BY ProcAssumption DEF IInv, LeaseInv, WordInv, HeldRecordFreeByte
  <1> QED
    BY <1>1, IInvHolds, PTL

\* The lease byte is never orphaned by a live process: some thread of it is on
\* its way to release_claim.
THEOREM ByteReturnedHolds == Injective => (Spec => []ByteReturned)
  <1> SUFFICES ASSUME Injective PROVE Spec => []ByteReturned
    OBVIOUS
  <1>1. IInv => ByteReturned
    BY DEF IInv
  <1> QED
    BY <1>1, IInvHolds, PTL
===============================================================================
