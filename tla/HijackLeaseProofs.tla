--------------------------- MODULE HijackLeaseProofs ---------------------------
(***************************************************************************)
(* Proofs about HijackLease, for every number of dashboards, REST clients, *)
(* requests, sweeps and sockets.                                           *)
(*                                                                         *)
(* LeaseInv is inductive.  The fence carries the argument: who talks to    *)
(* the worker holds it (FenceDiscipline), so a step that ends or starts a  *)
(* lease, which needs it free, finds no input, pause or resume on its way. *)
(* PromptInv adds what holds when a heartbeat extends the lease it has     *)
(* just checked: then a lapsed lease never comes back to life.             *)
(***************************************************************************)
EXTENDS HijackLease, TLAPS

\* The current socket has registered.
KnownSocket == worker # NULL => ctl[worker] # "unused"

\* Inductive together with TypeOK.
LeaseInv ==
  /\ TypeOK
  /\ FenceDiscipline
  /\ PendingIsReservation
  /\ InputPinned
  /\ ReservationExcludesDash
  /\ KnownSocket

\* No heartbeat is held up between its check and its extension.
NoLateExtend == \A o \in RestOp : pc[o] # "extend"

\* Nor does a lapsed REST lease come back under a reservation.
ReservationExcludesRest ==
  \A r \in Rest : pc[r] \in {"pausing_rest", "finalise"} => ~RestActive

\* Inductive together with TypeOK and LeaseInv, when heartbeats are prompt.
PromptInv ==
  /\ NoLateExtend
  /\ ReservationExcludesRest
  /\ ExclusiveOwnership
  /\ NoResumeUnderLease
  /\ RestLeaseNotResumed

\* The actions of Next, grouped by who takes them.
LEMMA Actors ==
  ASSUME Next
  PROVE  \/ \E t \in Task : Step(t)
         \/ \E b \in Browser : BrowserStep(b) \/ BrowserAct(b)
         \/ \E r \in Rest : RestStep(r) \/ RestAct(r)
         \/ \E o \in RestOp :
              OpStep(o) \/ \E k \in Kind, r \in Rest : OpBegin(o, k, r)
         \/ \E s \in Sweeper : SweepBegin(s) \/ SweepCancelled(s)
         \/ \E h \in HubTask : ForceSent(h) \/ HubAct(h)
         \/ WorkerAct \/ OwnerExpires \/ SessExpires
BY DEF Next, Run

-----------------------------------------------------------------------------
(* Types. *)

LEMMA TypeInit == Init => TypeOK
<1> SUFFICES ASSUME Init PROVE TypeOK OBVIOUS
<1>1. owned \in [Browser -> BOOLEAN] BY Zenon DEF Init
<1>2. /\ pc \in [Task -> Pc] /\ ret \in [Task -> Ret]
      /\ cap \in [Browser -> Nat]
      /\ rid \in [RestOp -> Rest \cup {NULL}] /\ kind \in [RestOp -> Kind]
      /\ ctl \in [Socket -> {"unused", "fresh", "paused", "running"}]
  BY DEF Init, Pc, Ret, Kind
<1> QED BY <1>1, <1>2 DEF Init, TypeOK

LEMMA TypeCommon ==
  ASSUME TypeOK,
         NEW t \in Task,
         Step(t)
  PROVE  TypeOK'
<1> USE DEF TypeOK, entryVars, modeVars, taskVars, Goto, FenceFree, TakeFence,
            LeaveFence, Control, ClearOwner, ClearSess, NewEpoch, AfterSweep,
            Pc, Ret, Kind, FencedPc
<1>1. CASE Recheck(t) BY <1>1 DEF Recheck
<1>2. CASE ResumeStart(t) BY <1>2 DEF ResumeStart
<1>3. CASE ResumeSent(t) BY <1>3 DEF ResumeSent
<1>4. CASE Expire(t)
  <2>1. sess' \in Rest \cup {NULL} /\ sessLive' \in BOOLEAN BY <1>4 DEF Expire
  <2>2. owner' \in Browser \cup {NULL} /\ ownerLive' \in BOOLEAN
    BY <1>4 DEF Expire
  <2>3. gen' \in Nat BY <1>4 DEF Expire
  <2>4. pc' \in [Task -> Pc] BY <1>4 DEF Expire
  <2>5. ret' \in [Task -> Ret] BY <1>4 DEF Expire
  <2> QED BY <1>4, <2>1, <2>2, <2>3, <2>4, <2>5 DEF Expire
<1>5. CASE Swept(t) BY <1>5 DEF Swept
<1>6. CASE Released(t) BY <1>6 DEF Released
<1>7. CASE InputSent(t) BY <1>7 DEF InputSent
<1> QED BY <1>1, <1>2, <1>3, <1>4, <1>5, <1>6, <1>7 DEF Step

LEMMA TypeBrowser ==
  ASSUME TypeOK,
         NEW b \in Browser,
         BrowserStep(b) \/ BrowserAct(b)
  PROVE  TypeOK'
<1>0. b \in Task BY DEF Task
<1> USE DEF TypeOK, entryVars, modeVars, taskVars, Goto, FenceFree, TakeFence,
            LeaveFence, Control, ClearOwner, NewEpoch, ThenResume, EpochStands,
            Pc, Ret, Kind, FencedPc
<1>1. CASE PauseWorker(b) BY <1>0, <1>1 DEF PauseWorker
<1>2. CASE TryAcquireWs(b)
  <2>1. owner' \in Browser \cup {NULL} /\ ownerLive' \in BOOLEAN
    BY <1>0, <1>2 DEF TryAcquireWs, WsAcquired, WsRefused, WsNoWorker
  <2>2. pc' \in [Task -> Pc]
    BY <1>0, <1>2 DEF TryAcquireWs, WsAcquired, WsRefused, WsNoWorker
  <2>3. ret' \in [Task -> Ret]
    BY <1>0, <1>2 DEF TryAcquireWs, WsAcquired, WsRefused, WsNoWorker
  <2> QED
    BY <1>0, <1>2, <2>1, <2>2, <2>3 DEF TryAcquireWs, WsAcquired, WsRefused,
       WsNoWorker
<1>3. CASE AnnounceWs(b) BY <1>0, <1>3 DEF AnnounceWs
<1>4. CASE SendOwnedBrowser(b) BY <1>0, <1>4 DEF SendOwnedBrowser
<1>5. CASE Parted(b)
  <2>1. owner' \in Browser \cup {NULL} /\ ownerLive' \in BOOLEAN
    BY <1>0, <1>5 DEF Parted
  <2>2. pc' \in [Task -> Pc] BY <1>0, <1>5 DEF Parted
  <2>3. ret' \in [Task -> Ret] BY <1>0, <1>5 DEF Parted
  <2> QED BY <1>0, <1>5, <2>1, <2>2, <2>3 DEF Parted
<1>6. CASE HijackRequest(b) BY <1>0, <1>6 DEF HijackRequest
<1>7. CASE HijackRelease(b)
  <2>1. owner' \in Browser \cup {NULL} /\ ownerLive' \in BOOLEAN
    BY <1>0, <1>7 DEF HijackRelease
  <2>2. pc' \in [Task -> Pc] BY <1>0, <1>7 DEF HijackRelease
  <2>3. ret' \in [Task -> Ret] BY <1>0, <1>7 DEF HijackRelease
  <2> QED BY <1>0, <1>7, <2>1, <2>2, <2>3 DEF HijackRelease
<1>8. CASE CaptureInput(b) BY <1>0, <1>8 DEF CaptureInput
<1>9. CASE Disconnect(b)
  <2>1. owner' \in Browser \cup {NULL} /\ ownerLive' \in BOOLEAN
    BY <1>0, <1>9 DEF Disconnect
  <2>2. gen' \in Nat BY <1>0, <1>9 DEF Disconnect
  <2>3. pc' \in [Task -> Pc] BY <1>0, <1>9 DEF Disconnect
  <2>4. ret' \in [Task -> Ret] BY <1>0, <1>9 DEF Disconnect
  <2> QED BY <1>0, <1>9, <2>1, <2>2, <2>3, <2>4 DEF Disconnect
<1>10. CASE Reclaim(b)
  <2>1. owner' \in Browser \cup {NULL} /\ ownerLive' \in BOOLEAN
    BY <1>0, <1>10 DEF Reclaim
  <2>2. gen' \in Nat BY <1>0, <1>10 DEF Reclaim
  <2>3. pc' \in [Task -> Pc] BY <1>0, <1>10 DEF Reclaim
  <2>4. owned' \in [Browser -> BOOLEAN] BY <1>0, <1>10 DEF Reclaim
  <2> QED BY <1>0, <1>10, <2>1, <2>2, <2>3, <2>4 DEF Reclaim
<1>11. CASE ResumeWithoutLease(b) BY <1>0, <1>11 DEF ResumeWithoutLease
<1>12. CASE CaptureReclaim(b) BY <1>0, <1>12 DEF CaptureReclaim
<1>13. CASE Repause(b) BY <1>0, <1>13 DEF Repause
<1>14. CASE RepauseSent(b) BY <1>0, <1>14 DEF RepauseSent
<1>15. CASE RollbackReclaim(b)
  <2>1. owner' \in Browser \cup {NULL} /\ ownerLive' \in BOOLEAN
    BY <1>0, <1>15 DEF RollbackReclaim
  <2>2. gen' \in Nat BY <1>0, <1>15 DEF RollbackReclaim
  <2>3. pc' \in [Task -> Pc] BY <1>0, <1>15 DEF RollbackReclaim
  <2>4. owned' \in [Browser -> BOOLEAN] BY <1>0, <1>15 DEF RollbackReclaim
  <2> QED BY <1>0, <1>15, <2>1, <2>2, <2>3, <2>4 DEF RollbackReclaim
<1> QED
  BY <1>1, <1>2, <1>3, <1>4, <1>5, <1>6, <1>7, <1>8, <1>9, <1>10, <1>11, <1>12,
     <1>13, <1>14, <1>15
  DEF BrowserStep, BrowserAct

LEMMA TypeRest ==
  ASSUME TypeOK,
         NEW r \in Rest,
         RestStep(r) \/ RestAct(r)
  PROVE  TypeOK'
<1>0. r \in Task BY DEF Task
<1> USE DEF TypeOK, entryVars, modeVars, taskVars, Goto, FenceFree, TakeFence,
            LeaveFence, Control, ClearSess, NewEpoch, GiveUp, DropReservation,
            DropFence, LeaseIs, Pc, Ret, Kind, FencedPc
<1>1. CASE Reserve(r) BY <1>0, <1>1 DEF Reserve
<1>2. CASE RestPauseSent(r) BY <1>0, <1>2 DEF RestPauseSent
<1>3. CASE RestPauseFailed(r) BY <1>0, <1>3 DEF RestPauseFailed
<1>4. CASE Finalise(r)
  <2>1. sess' \in Rest \cup {NULL} /\ sessLive' \in BOOLEAN
    BY <1>0, <1>4 DEF Finalise
  <2>2. gen' \in Nat BY <1>0, <1>4 DEF Finalise
  <2>3. pc' \in [Task -> Pc] BY <1>0, <1>4 DEF Finalise
  <2>4. ret' \in [Task -> Ret] BY <1>0, <1>4 DEF Finalise
  <2> QED BY <1>0, <1>4, <2>1, <2>2, <2>3, <2>4 DEF Finalise
<1>5. CASE AnnounceRest(r) BY <1>0, <1>5 DEF AnnounceRest
<1>6. CASE Rollback(r)
  <2>1. sess' \in Rest \cup {NULL} /\ sessLive' \in BOOLEAN
    BY <1>0, <1>6 DEF Rollback
  <2>2. gen' \in Nat BY <1>0, <1>6 DEF Rollback
  <2>3. pc' \in [Task -> Pc] BY <1>0, <1>6 DEF Rollback
  <2>4. ret' \in [Task -> Ret] BY <1>0, <1>6 DEF Rollback
  <2> QED BY <1>0, <1>6, <2>1, <2>2, <2>3, <2>4 DEF Rollback
<1>7. CASE AcquireBegin(r) BY <1>0, <1>7 DEF AcquireBegin
<1>8. CASE AcquireCancelled(r) BY <1>0, <1>8 DEF AcquireCancelled
<1> QED BY <1>1, <1>2, <1>3, <1>4, <1>5, <1>6, <1>7, <1>8 DEF RestStep, RestAct

LEMMA TypeOp ==
  ASSUME TypeOK,
         NEW o \in RestOp,
         OpStep(o) \/ \E k \in Kind, r \in Rest : OpBegin(o, k, r)
  PROVE  TypeOK'
<1>0. o \in Task BY DEF Task
<1> USE DEF TypeOK, entryVars, modeVars, taskVars, Goto, FenceFree, TakeFence,
            ClearSess, NewEpoch, ThenResume, LeaseIs, Pc, Ret, Kind, FencedPc
<1>1. CASE Check(o) BY <1>0, <1>1 DEF Check
<1>2. CASE Extend(o) BY <1>0, <1>2 DEF Extend
<1>3. CASE SendOwnedRest(o) BY <1>0, <1>3 DEF SendOwnedRest
<1>4. CASE ReleaseRest(o)
  <2>1. sess' \in Rest \cup {NULL} /\ sessLive' \in BOOLEAN
    BY <1>0, <1>4 DEF ReleaseRest
  <2>2. gen' \in Nat BY <1>0, <1>4 DEF ReleaseRest
  <2>3. pc' \in [Task -> Pc] BY <1>0, <1>4 DEF ReleaseRest
  <2>4. ret' \in [Task -> Ret] BY <1>0, <1>4 DEF ReleaseRest
  <2> QED BY <1>0, <1>4, <2>1, <2>2, <2>3, <2>4 DEF ReleaseRest
<1>5. ASSUME NEW k \in Kind, NEW r \in Rest, OpBegin(o, k, r) PROVE TypeOK'
  BY <1>0, <1>5 DEF OpBegin
<1> QED BY <1>1, <1>2, <1>3, <1>4, <1>5 DEF OpStep

LEMMA TypeSweep ==
  ASSUME TypeOK,
         NEW s \in Sweeper,
         SweepBegin(s) \/ SweepCancelled(s)
  PROVE  TypeOK'
<1>0. s \in Task BY DEF Task
<1> USE DEF TypeOK, entryVars, modeVars, taskVars, Goto, LeaveFence, Pc, Ret,
            Kind, FencedPc
<1>1. CASE SweepBegin(s) BY <1>0, <1>1 DEF SweepBegin
<1>2. CASE SweepCancelled(s) BY <1>0, <1>2 DEF SweepCancelled
<1> QED BY <1>1, <1>2

LEMMA TypeHub ==
  ASSUME TypeOK,
         NEW h \in HubTask,
         ForceSent(h) \/ HubAct(h)
  PROVE  TypeOK'
<1>0. h \in Task BY DEF Task
<1> USE DEF TypeOK, modeVars, taskVars, Goto, FenceFree, TakeFence, LeaveFence,
            Control, ClearOwner, ClearSess, NewEpoch, ThenResume, Pc, Ret,
            Kind, FencedPc
<1>1. CASE ForceSent(h) BY <1>0, <1>1 DEF ForceSent
<1>2. CASE ForceRelease(h)
  <2>1. sess' \in Rest \cup {NULL} /\ sessLive' \in BOOLEAN
    BY <1>0, <1>2 DEF ForceRelease
  <2>2. owner' \in Browser \cup {NULL} /\ ownerLive' \in BOOLEAN
    BY <1>0, <1>2 DEF ForceRelease
  <2> QED BY <1>0, <1>2, <2>1, <2>2 DEF ForceRelease
<1>3. ASSUME NEW b \in Browser, RemoveDead(h, b) PROVE TypeOK'
  <2>1. owner' \in Browser \cup {NULL} /\ ownerLive' \in BOOLEAN
    BY <1>0, <1>3 DEF RemoveDead
  <2>2. gen' \in Nat BY <1>0, <1>3 DEF RemoveDead
  <2>3. pc' \in [Task -> Pc] BY <1>0, <1>3 DEF RemoveDead
  <2>4. ret' \in [Task -> Ret] BY <1>0, <1>3 DEF RemoveDead
  <2> QED BY <1>0, <1>3, <2>1, <2>2, <2>3, <2>4 DEF RemoveDead
<1> QED BY <1>1, <1>2, <1>3 DEF HubAct

LEMMA TypeExpires ==
  ASSUME TypeOK,
         OwnerExpires \/ SessExpires
  PROVE  TypeOK'
BY DEF TypeOK, OwnerExpires, SessExpires, modeVars, taskVars

LEMMA TypeWorld ==
  ASSUME TypeOK,
         WorkerAct \/ OwnerExpires \/ SessExpires
  PROVE  TypeOK'
<1> USE DEF TypeOK, entryVars, modeVars, taskVars, FenceFree, ClearOwner,
            ClearSess, NewEpoch, Pc, Ret, Kind, FencedPc
<1>1. ASSUME NEW w \in Socket, RegisterWorker(w) PROVE TypeOK'
  <2>1. sess' \in Rest \cup {NULL} /\ sessLive' \in BOOLEAN
    BY <1>1 DEF RegisterWorker
  <2>2. owner' \in Browser \cup {NULL} /\ ownerLive' \in BOOLEAN
    BY <1>1 DEF RegisterWorker
  <2> QED BY <1>1, <2>1, <2>2 DEF RegisterWorker
<1>2. CASE WorkerGone
  <2>1. sess' \in Rest \cup {NULL} /\ sessLive' \in BOOLEAN
    BY <1>2 DEF WorkerGone
  <2>2. owner' \in Browser \cup {NULL} /\ ownerLive' \in BOOLEAN
    BY <1>2 DEF WorkerGone
  <2> QED BY <1>2, <2>1, <2>2 DEF WorkerGone
<1>3. ASSUME NEW m \in ModeAsked, WorkerHello(m) PROVE TypeOK'
  BY TaskAssumption, <1>3 DEF WorkerHello
<1>4. ASSUME NEW m \in ModeAsked, SetInputMode(m) PROVE TypeOK'
  BY TaskAssumption, <1>4 DEF SetInputMode
<1>5. CASE OwnerExpires \/ SessExpires BY <1>5, TypeExpires
<1> QED BY <1>1, <1>2, <1>3, <1>4, <1>5 DEF WorkerAct

LEMMA TypeStep == ASSUME TypeOK, [Next]_vars PROVE TypeOK'
<1>1. CASE Next
  BY <1>1, Actors, TypeCommon, TypeBrowser, TypeRest, TypeOp, TypeSweep,
       TypeHub, TypeWorld
<1>2. CASE UNCHANGED vars
  BY <1>2 DEF TypeOK, vars
<1> QED BY <1>1, <1>2

\* Every variable keeps its type: of all operations, none leaves a record the
\* others cannot read.
THEOREM TypeCorrect == Spec => []TypeOK
BY TypeInit, TypeStep, PTL DEF Spec

-----------------------------------------------------------------------------
(* The fence, the reservation and the input on its way. *)

LEMMA LeaseInit == Init => LeaseInv
<1> SUFFICES ASSUME Init PROVE LeaseInv OBVIOUS
<1> QED BY TypeInit, TaskAssumption
     DEF Init, LeaseInv, FenceDiscipline, PendingIsReservation, InputPinned,
         ReservationExcludesDash, KnownSocket, FencedPc, Task

LEMMA LeaseCommon ==
  ASSUME TypeOK, TypeOK', LeaseInv,
         NEW t \in Task,
         Step(t)
  PROVE  LeaseInv'
<1> USE DEF LeaseInv, TypeOK, InputPinned, FenceDiscipline,
            PendingIsReservation, ReservationExcludesDash, KnownSocket, Task,
            DashActive, RestActive, Hijacked, entryVars, modeVars, taskVars,
            Goto, FenceFree, TakeFence, LeaveFence, Control, ClearOwner,
            ClearSess, NewEpoch, AfterSweep, Pc, Ret, FencedPc
<1>1. CASE Recheck(t) BY TaskAssumption, <1>1 DEF Recheck
<1>2. CASE ResumeStart(t) BY TaskAssumption, <1>2 DEF ResumeStart
<1>3. CASE ResumeSent(t) BY TaskAssumption, <1>3 DEF ResumeSent
<1>4. CASE Expire(t) BY TaskAssumption, <1>4 DEF Expire
<1>5. CASE Swept(t) BY TaskAssumption, <1>5 DEF Swept
<1>6. CASE Released(t) BY TaskAssumption, <1>6 DEF Released
<1>7. CASE InputSent(t) BY TaskAssumption, <1>7 DEF InputSent
<1> QED BY <1>1, <1>2, <1>3, <1>4, <1>5, <1>6, <1>7 DEF Step

LEMMA LeaseBrowser ==
  ASSUME TypeOK, TypeOK', LeaseInv,
         NEW b \in Browser,
         BrowserStep(b) \/ BrowserAct(b)
  PROVE  LeaseInv'
<1>0. b \in Task BY DEF Task
<1> USE DEF LeaseInv, TypeOK, InputPinned, FenceDiscipline,
            PendingIsReservation, ReservationExcludesDash, KnownSocket, Task,
            SlotFree, EpochStands, DashActive, RestActive, Hijacked, entryVars,
            modeVars, taskVars, Goto, FenceFree, TakeFence, LeaveFence,
            Control, ClearOwner, NewEpoch, ThenResume, Pc, Ret, FencedPc
<1>1. CASE PauseWorker(b) BY <1>0, TaskAssumption, <1>1 DEF PauseWorker
<1>2. CASE TryAcquireWs(b)
  BY <1>0, TaskAssumption, <1>2 DEF TryAcquireWs, WsAcquired, WsRefused,
     WsNoWorker
<1>3. CASE AnnounceWs(b) BY <1>0, TaskAssumption, <1>3 DEF AnnounceWs
<1>4. CASE SendOwnedBrowser(b)
  BY <1>0, TaskAssumption, <1>4 DEF SendOwnedBrowser
<1>5. CASE Parted(b) BY <1>0, TaskAssumption, <1>5 DEF Parted
<1>6. CASE HijackRequest(b) BY <1>0, TaskAssumption, <1>6 DEF HijackRequest
<1>7. CASE HijackRelease(b) BY <1>0, TaskAssumption, <1>7 DEF HijackRelease
<1>8. CASE CaptureInput(b) BY <1>0, TaskAssumption, <1>8 DEF CaptureInput
<1>9. CASE Disconnect(b) BY <1>0, TaskAssumption, <1>9 DEF Disconnect
<1>10. CASE Reclaim(b) BY <1>0, TaskAssumption, <1>10 DEF Reclaim
<1>11. CASE ResumeWithoutLease(b)
  BY <1>0, TaskAssumption, <1>11 DEF ResumeWithoutLease
<1>12. CASE CaptureReclaim(b) BY <1>0, TaskAssumption, <1>12 DEF CaptureReclaim
<1>13. CASE Repause(b) BY <1>0, TaskAssumption, <1>13 DEF Repause
<1>14. CASE RepauseSent(b) BY <1>0, TaskAssumption, <1>14 DEF RepauseSent
<1>15. CASE RollbackReclaim(b)
  BY <1>0, TaskAssumption, <1>15 DEF RollbackReclaim
<1> QED
  BY <1>1, <1>2, <1>3, <1>4, <1>5, <1>6, <1>7, <1>8, <1>9, <1>10, <1>11, <1>12,
     <1>13, <1>14, <1>15
  DEF BrowserStep, BrowserAct

LEMMA LeaseRest ==
  ASSUME TypeOK, TypeOK', LeaseInv,
         NEW r \in Rest,
         RestStep(r) \/ RestAct(r)
  PROVE  LeaseInv'
<1>0. r \in Task BY DEF Task
<1> USE DEF LeaseInv, TypeOK, InputPinned, FenceDiscipline,
            PendingIsReservation, ReservationExcludesDash, KnownSocket, Task,
            SlotFree, DashActive, RestActive, Hijacked, entryVars, modeVars,
            taskVars, Goto, FenceFree, TakeFence, LeaveFence, Control,
            ClearSess, NewEpoch, GiveUp, DropReservation, DropFence, LeaseIs,
            Pc, Ret, FencedPc
<1>1. CASE Reserve(r) BY <1>0, TaskAssumption, <1>1 DEF Reserve
<1>2. CASE RestPauseSent(r) BY <1>0, TaskAssumption, <1>2 DEF RestPauseSent
<1>3. CASE RestPauseFailed(r) BY <1>0, TaskAssumption, <1>3 DEF RestPauseFailed
<1>4. CASE Finalise(r) BY <1>0, TaskAssumption, <1>4 DEF Finalise
<1>5. CASE AnnounceRest(r) BY <1>0, TaskAssumption, <1>5 DEF AnnounceRest
<1>6. CASE Rollback(r) BY <1>0, TaskAssumption, <1>6 DEF Rollback
<1>7. CASE AcquireBegin(r) BY <1>0, TaskAssumption, <1>7 DEF AcquireBegin
<1>8. CASE AcquireCancelled(r)
  BY <1>0, TaskAssumption, <1>8 DEF AcquireCancelled
<1> QED BY <1>1, <1>2, <1>3, <1>4, <1>5, <1>6, <1>7, <1>8 DEF RestStep, RestAct

LEMMA LeaseOp ==
  ASSUME TypeOK, TypeOK', LeaseInv,
         NEW o \in RestOp,
         OpStep(o) \/ \E k \in Kind, r \in Rest : OpBegin(o, k, r)
  PROVE  LeaseInv'
<1>0. o \in Task BY DEF Task
<1> USE DEF LeaseInv, TypeOK, InputPinned, FenceDiscipline,
            PendingIsReservation, ReservationExcludesDash, KnownSocket, Task,
            DashActive, RestActive, Hijacked, entryVars, modeVars, taskVars,
            Goto, FenceFree, TakeFence, ClearSess, NewEpoch, ThenResume,
            LeaseIs, Pc, Ret, Kind, FencedPc
<1>1. CASE Check(o) BY <1>0, TaskAssumption, <1>1 DEF Check
<1>2. CASE Extend(o) BY <1>0, TaskAssumption, <1>2 DEF Extend
<1>3. CASE SendOwnedRest(o) BY <1>0, TaskAssumption, <1>3 DEF SendOwnedRest
<1>4. CASE ReleaseRest(o) BY <1>0, TaskAssumption, <1>4 DEF ReleaseRest
<1>5. ASSUME NEW k \in Kind, NEW r \in Rest, OpBegin(o, k, r) PROVE LeaseInv'
  BY <1>0, TaskAssumption, <1>5 DEF OpBegin
<1> QED BY <1>1, <1>2, <1>3, <1>4, <1>5 DEF OpStep

LEMMA LeaseSweep ==
  ASSUME TypeOK, TypeOK', LeaseInv,
         NEW s \in Sweeper,
         SweepBegin(s) \/ SweepCancelled(s)
  PROVE  LeaseInv'
<1>0. s \in Task BY DEF Task
<1> USE DEF LeaseInv, TypeOK, InputPinned, FenceDiscipline,
            PendingIsReservation, ReservationExcludesDash, KnownSocket, Task,
            DashActive, RestActive, Hijacked, entryVars, modeVars, taskVars,
            Goto, LeaveFence, Pc, Ret, FencedPc
<1>1. CASE SweepBegin(s) BY <1>0, TaskAssumption, <1>1 DEF SweepBegin
<1>2. CASE SweepCancelled(s) BY <1>0, TaskAssumption, <1>2 DEF SweepCancelled
<1> QED BY <1>1, <1>2

LEMMA LeaseHub ==
  ASSUME TypeOK, TypeOK', LeaseInv,
         NEW h \in HubTask,
         ForceSent(h) \/ HubAct(h)
  PROVE  LeaseInv'
<1>0. h \in Task BY DEF Task
<1> USE DEF LeaseInv, TypeOK, InputPinned, FenceDiscipline,
            PendingIsReservation, ReservationExcludesDash, KnownSocket, Task,
            DashActive, RestActive, Hijacked, modeVars, taskVars, Goto,
            FenceFree, TakeFence, LeaveFence, Control, ClearOwner, ClearSess,
            NewEpoch, ThenResume, Pc, Ret, FencedPc
<1>1. CASE ForceSent(h) BY <1>0, TaskAssumption, <1>1 DEF ForceSent
<1>2. CASE ForceRelease(h) BY <1>0, TaskAssumption, <1>2 DEF ForceRelease
<1>3. ASSUME NEW b \in Browser, RemoveDead(h, b) PROVE LeaseInv'
  BY <1>0, TaskAssumption, <1>3 DEF RemoveDead
<1> QED BY <1>1, <1>2, <1>3 DEF HubAct

LEMMA LeaseWorld ==
  ASSUME TypeOK, TypeOK', LeaseInv,
         WorkerAct \/ OwnerExpires \/ SessExpires
  PROVE  LeaseInv'
<1> USE DEF LeaseInv, TypeOK, InputPinned, FenceDiscipline,
            PendingIsReservation, ReservationExcludesDash, KnownSocket, Task,
            DashActive, RestActive, Hijacked, entryVars, modeVars, taskVars,
            FenceFree, ClearOwner, ClearSess, NewEpoch, Pc, Ret, FencedPc
<1>1. ASSUME NEW w \in Socket, RegisterWorker(w) PROVE LeaseInv'
  BY TaskAssumption, <1>1 DEF RegisterWorker
<1>2. CASE WorkerGone BY TaskAssumption, <1>2 DEF WorkerGone
<1>3. ASSUME NEW m \in ModeAsked, WorkerHello(m) PROVE LeaseInv'
  BY TaskAssumption, <1>3 DEF WorkerHello
<1>4. ASSUME NEW m \in ModeAsked, SetInputMode(m) PROVE LeaseInv'
  BY TaskAssumption, <1>4 DEF SetInputMode
<1>5. CASE OwnerExpires BY TaskAssumption, <1>5 DEF OwnerExpires
<1>6. CASE SessExpires BY TaskAssumption, <1>6 DEF SessExpires
<1> QED BY <1>1, <1>2, <1>3, <1>4, <1>5, <1>6 DEF WorkerAct

LEMMA LeaseStep == ASSUME TypeOK, LeaseInv, [Next]_vars PROVE LeaseInv'
<1> TypeOK' BY TypeStep
<1>1. CASE Next
  BY <1>1, Actors, LeaseCommon, LeaseBrowser, LeaseRest, LeaseOp, LeaseSweep,
       LeaseHub, LeaseWorld
<1>2. CASE UNCHANGED vars
  BY <1>2 DEF LeaseInv, FenceDiscipline, PendingIsReservation, InputPinned,
              ReservationExcludesDash, KnownSocket, DashActive, vars
<1> QED BY <1>1, <1>2

\* The fence, reservation and input facts hold together, as each needs the rest.
THEOREM LeaseCorrect == Spec => []LeaseInv
<1>1. Init => TypeOK /\ LeaseInv BY TypeInit, LeaseInit
<1>2. TypeOK /\ LeaseInv /\ [Next]_vars => (TypeOK /\ LeaseInv)'
  BY TypeStep, LeaseStep
<1> QED BY <1>1, <1>2, PTL DEF Spec

-----------------------------------------------------------------------------
(* One holder, and no resume under a lease, when heartbeats are prompt. *)

LEMMA PromptInit == Init => PromptInv
BY DEF Init, PromptInv, NoLateExtend, ReservationExcludesRest,
       ExclusiveOwnership, NoResumeUnderLease, RestLeaseNotResumed, DashActive,
       RestActive, Task

LEMMA PromptCommon ==
  ASSUME ~LateHeartbeats, TypeOK, LeaseInv, PromptInv,
         NEW t \in Task,
         Step(t)
  PROVE  PromptInv'
<1> USE DEF PromptInv, NoLateExtend, ReservationExcludesRest,
            ExclusiveOwnership, NoResumeUnderLease, RestLeaseNotResumed,
            LeaseInv, TypeOK, InputPinned, FenceDiscipline,
            PendingIsReservation, ReservationExcludesDash, KnownSocket, Task,
            MayResume, DashActive, RestActive, Hijacked, entryVars, modeVars,
            taskVars, Goto, FenceFree, TakeFence, LeaveFence, Control,
            ClearOwner, ClearSess, NewEpoch, AfterSweep, Pc, Ret, FencedPc
<1>1. CASE Recheck(t) BY TaskAssumption, <1>1 DEF Recheck
<1>2. CASE ResumeStart(t) BY TaskAssumption, <1>2 DEF ResumeStart
<1>3. CASE ResumeSent(t) BY TaskAssumption, <1>3 DEF ResumeSent
<1>4. CASE Expire(t) BY TaskAssumption, <1>4 DEF Expire
<1>5. CASE Swept(t) BY TaskAssumption, <1>5 DEF Swept
<1>6. CASE Released(t) BY TaskAssumption, <1>6 DEF Released
<1>7. CASE InputSent(t) BY TaskAssumption, <1>7 DEF InputSent
<1> QED BY <1>1, <1>2, <1>3, <1>4, <1>5, <1>6, <1>7 DEF Step

LEMMA PromptBrowser ==
  ASSUME ~LateHeartbeats, TypeOK, LeaseInv, PromptInv,
         NEW b \in Browser,
         BrowserStep(b) \/ BrowserAct(b)
  PROVE  PromptInv'
<1>0. b \in Task BY DEF Task
<1> USE DEF PromptInv, NoLateExtend, ReservationExcludesRest,
            ExclusiveOwnership, NoResumeUnderLease, RestLeaseNotResumed,
            LeaseInv, TypeOK, InputPinned, FenceDiscipline,
            PendingIsReservation, ReservationExcludesDash, KnownSocket, Task,
            SlotFree, DashActive, RestActive, Hijacked, entryVars, modeVars,
            taskVars, Goto, FenceFree, TakeFence, LeaveFence, Control,
            ClearOwner, NewEpoch, ThenResume, Pc, Ret, FencedPc
<1>1. CASE PauseWorker(b) BY <1>0, TaskAssumption, <1>1 DEF PauseWorker
<1>2. CASE TryAcquireWs(b)
  BY <1>0, TaskAssumption, <1>2 DEF TryAcquireWs, WsAcquired, WsRefused,
     WsNoWorker
<1>3. CASE AnnounceWs(b) BY <1>0, TaskAssumption, <1>3 DEF AnnounceWs
<1>4. CASE SendOwnedBrowser(b)
  BY <1>0, TaskAssumption, <1>4 DEF SendOwnedBrowser
<1>5. CASE Parted(b) BY <1>0, TaskAssumption, <1>5 DEF Parted
<1>6. CASE HijackRequest(b) BY <1>0, TaskAssumption, <1>6 DEF HijackRequest
<1>7. CASE HijackRelease(b) BY <1>0, TaskAssumption, <1>7 DEF HijackRelease
<1>8. CASE CaptureInput(b) BY <1>0, TaskAssumption, <1>8 DEF CaptureInput
<1>9. CASE Disconnect(b) BY <1>0, TaskAssumption, <1>9 DEF Disconnect
<1>10. CASE Reclaim(b) BY <1>0, TaskAssumption, <1>10 DEF Reclaim
<1>11. CASE ResumeWithoutLease(b)
  BY <1>0, TaskAssumption, <1>11 DEF ResumeWithoutLease
<1>12. CASE CaptureReclaim(b) BY <1>0, TaskAssumption, <1>12 DEF CaptureReclaim
<1>13. CASE Repause(b) BY <1>0, TaskAssumption, <1>13 DEF Repause
<1>14. CASE RepauseSent(b) BY <1>0, TaskAssumption, <1>14 DEF RepauseSent
<1>15. CASE RollbackReclaim(b)
  BY <1>0, TaskAssumption, <1>15 DEF RollbackReclaim
<1> QED
  BY <1>1, <1>2, <1>3, <1>4, <1>5, <1>6, <1>7, <1>8, <1>9, <1>10, <1>11, <1>12,
     <1>13, <1>14, <1>15
  DEF BrowserStep, BrowserAct

LEMMA PromptRest ==
  ASSUME ~LateHeartbeats, TypeOK, LeaseInv, PromptInv,
         NEW r \in Rest,
         RestStep(r) \/ RestAct(r)
  PROVE  PromptInv'
<1>0. r \in Task BY DEF Task
<1> USE DEF PromptInv, NoLateExtend, ReservationExcludesRest,
            ExclusiveOwnership, NoResumeUnderLease, RestLeaseNotResumed,
            LeaseInv, TypeOK, InputPinned, FenceDiscipline,
            PendingIsReservation, ReservationExcludesDash, KnownSocket, Task,
            SlotFree, DashActive, RestActive, Hijacked, entryVars, modeVars,
            taskVars, Goto, FenceFree, TakeFence, LeaveFence, Control,
            ClearSess, NewEpoch, GiveUp, DropReservation, DropFence, LeaseIs,
            Pc, Ret, FencedPc
<1>1. CASE Reserve(r) BY <1>0, TaskAssumption, <1>1 DEF Reserve
<1>2. CASE RestPauseSent(r) BY <1>0, TaskAssumption, <1>2 DEF RestPauseSent
<1>3. CASE RestPauseFailed(r) BY <1>0, TaskAssumption, <1>3 DEF RestPauseFailed
<1>4. CASE Finalise(r) BY <1>0, TaskAssumption, <1>4 DEF Finalise
<1>5. CASE AnnounceRest(r) BY <1>0, TaskAssumption, <1>5 DEF AnnounceRest
<1>6. CASE Rollback(r) BY <1>0, TaskAssumption, <1>6 DEF Rollback
<1>7. CASE AcquireBegin(r) BY <1>0, TaskAssumption, <1>7 DEF AcquireBegin
<1>8. CASE AcquireCancelled(r)
  BY <1>0, TaskAssumption, <1>8 DEF AcquireCancelled
<1> QED BY <1>1, <1>2, <1>3, <1>4, <1>5, <1>6, <1>7, <1>8 DEF RestStep, RestAct

LEMMA PromptOp ==
  ASSUME ~LateHeartbeats, TypeOK, LeaseInv, PromptInv,
         NEW o \in RestOp,
         OpStep(o) \/ \E k \in Kind, r \in Rest : OpBegin(o, k, r)
  PROVE  PromptInv'
<1>0. o \in Task BY DEF Task
<1> USE DEF PromptInv, NoLateExtend, ReservationExcludesRest,
            ExclusiveOwnership, NoResumeUnderLease, RestLeaseNotResumed,
            LeaseInv, TypeOK, InputPinned, FenceDiscipline,
            PendingIsReservation, ReservationExcludesDash, KnownSocket, Task,
            DashActive, RestActive, Hijacked, entryVars, modeVars, taskVars,
            Goto, FenceFree, TakeFence, ClearSess, NewEpoch, ThenResume,
            LeaseIs, Pc, Ret, Kind, FencedPc
<1>1. CASE Check(o) BY <1>0, TaskAssumption, <1>1 DEF Check
<1>2. CASE Extend(o) BY <1>0, TaskAssumption, <1>2 DEF Extend
<1>3. CASE SendOwnedRest(o) BY <1>0, TaskAssumption, <1>3 DEF SendOwnedRest
<1>4. CASE ReleaseRest(o) BY <1>0, TaskAssumption, <1>4 DEF ReleaseRest
<1>5. ASSUME NEW k \in Kind, NEW r \in Rest, OpBegin(o, k, r) PROVE PromptInv'
  BY <1>0, TaskAssumption, <1>5 DEF OpBegin
<1> QED BY <1>1, <1>2, <1>3, <1>4, <1>5 DEF OpStep

LEMMA PromptSweep ==
  ASSUME ~LateHeartbeats, TypeOK, LeaseInv, PromptInv,
         NEW s \in Sweeper,
         SweepBegin(s) \/ SweepCancelled(s)
  PROVE  PromptInv'
<1>0. s \in Task BY DEF Task
<1> USE DEF PromptInv, NoLateExtend, ReservationExcludesRest,
            ExclusiveOwnership, NoResumeUnderLease, RestLeaseNotResumed,
            LeaseInv, TypeOK, InputPinned, FenceDiscipline,
            PendingIsReservation, ReservationExcludesDash, KnownSocket, Task,
            DashActive, RestActive, Hijacked, entryVars, modeVars, taskVars,
            Goto, LeaveFence, Pc, Ret, FencedPc
<1>1. CASE SweepBegin(s) BY <1>0, TaskAssumption, <1>1 DEF SweepBegin
<1>2. CASE SweepCancelled(s) BY <1>0, TaskAssumption, <1>2 DEF SweepCancelled
<1> QED BY <1>1, <1>2

LEMMA PromptHub ==
  ASSUME ~LateHeartbeats, TypeOK, LeaseInv, PromptInv,
         NEW h \in HubTask,
         ForceSent(h) \/ HubAct(h)
  PROVE  PromptInv'
<1>0. h \in Task BY DEF Task
<1> USE DEF PromptInv, NoLateExtend, ReservationExcludesRest,
            ExclusiveOwnership, NoResumeUnderLease, RestLeaseNotResumed,
            LeaseInv, TypeOK, InputPinned, FenceDiscipline,
            PendingIsReservation, ReservationExcludesDash, KnownSocket, Task,
            DashActive, RestActive, Hijacked, modeVars, taskVars, Goto,
            FenceFree, TakeFence, LeaveFence, Control, ClearOwner, ClearSess,
            NewEpoch, ThenResume, Pc, Ret, FencedPc
<1>1. CASE ForceSent(h) BY <1>0, TaskAssumption, <1>1 DEF ForceSent
<1>2. CASE ForceRelease(h) BY <1>0, TaskAssumption, <1>2 DEF ForceRelease
<1>3. ASSUME NEW b \in Browser, RemoveDead(h, b) PROVE PromptInv'
  BY <1>0, TaskAssumption, <1>3 DEF RemoveDead
<1> QED BY <1>1, <1>2, <1>3 DEF HubAct

LEMMA PromptWorld ==
  ASSUME ~LateHeartbeats, TypeOK, LeaseInv, PromptInv,
         WorkerAct \/ OwnerExpires \/ SessExpires
  PROVE  PromptInv'
<1> USE DEF PromptInv, NoLateExtend, ReservationExcludesRest,
            ExclusiveOwnership, NoResumeUnderLease, RestLeaseNotResumed,
            LeaseInv, TypeOK, InputPinned, FenceDiscipline,
            PendingIsReservation, ReservationExcludesDash, KnownSocket, Task,
            DashActive, RestActive, Hijacked, entryVars, modeVars, taskVars,
            FenceFree, ClearOwner, ClearSess, NewEpoch, Pc, Ret, FencedPc
<1>1. ASSUME NEW w \in Socket, RegisterWorker(w) PROVE PromptInv'
  BY TaskAssumption, <1>1 DEF RegisterWorker
<1>2. CASE WorkerGone BY TaskAssumption, <1>2 DEF WorkerGone
<1>3. ASSUME NEW m \in ModeAsked, WorkerHello(m) PROVE PromptInv'
  BY TaskAssumption, <1>3 DEF WorkerHello
<1>4. ASSUME NEW m \in ModeAsked, SetInputMode(m) PROVE PromptInv'
  BY TaskAssumption, <1>4 DEF SetInputMode
<1>5. CASE OwnerExpires BY TaskAssumption, <1>5 DEF OwnerExpires
<1>6. CASE SessExpires BY TaskAssumption, <1>6 DEF SessExpires
<1> QED BY <1>1, <1>2, <1>3, <1>4, <1>5, <1>6 DEF WorkerAct

LEMMA PromptStep ==
  ASSUME ~LateHeartbeats, TypeOK, LeaseInv, PromptInv, [Next]_vars
  PROVE  PromptInv'
<1>1. CASE Next
  BY <1>1, Actors, PromptCommon, PromptBrowser, PromptRest, PromptOp,
       PromptSweep, PromptHub, PromptWorld
<1>2. CASE UNCHANGED vars
  BY <1>2 DEF PromptInv, NoLateExtend, ReservationExcludesRest,
       ExclusiveOwnership, NoResumeUnderLease, RestLeaseNotResumed, DashActive,
       RestActive, Hijacked, vars
<1> QED BY <1>1, <1>2

\* With prompt heartbeats ownership stays exclusive and no resume, sent by any
\* of the paths that send one, reaches a worker somebody holds.
THEOREM PromptCorrect == ~LateHeartbeats => (Spec => []PromptInv)
<1> SUFFICES ASSUME ~LateHeartbeats PROVE Spec => []PromptInv OBVIOUS
<1>1. PromptInv /\ TypeOK /\ LeaseInv /\ [Next]_vars => PromptInv'
  BY PromptStep
<1> QED BY <1>1, PromptInit, TypeCorrect, LeaseCorrect, PTL DEF Spec

-----------------------------------------------------------------------------
(* What a step may never do. *)

\* What every step does, the one conjunct a late heartbeat can break under its
\* condition.
LawfulStep ==
  /\ PinsWorker
  /\ CountsEpoch
  /\ ~LateHeartbeats => EndsRestLawfully
  /\ EndsDashLawfully
  /\ SharesByLateHeartbeat

LEMMA LawfulCommon ==
  ASSUME TypeOK, LeaseInv, ~LateHeartbeats => PromptInv,
         NEW t \in Task,
         Step(t)
  PROVE  LawfulStep
<1> USE DEF LawfulStep, PinsWorker, CountsEpoch, EndsRestLawfully,
            EndsDashLawfully, SharesByLateHeartbeat, ExclusiveOwnership,
            PromptInv, ReservationExcludesRest, LeaseInv, TypeOK, InputPinned,
            FenceDiscipline, PendingIsReservation, ReservationExcludesDash,
            KnownSocket, Task, MayResume, DashActive, RestActive, Hijacked,
            entryVars, modeVars, taskVars, Goto, FenceFree, TakeFence,
            LeaveFence, Control, ClearOwner, ClearSess, NewEpoch, AfterSweep,
            Pc, Ret, FencedPc
<1>1. CASE Recheck(t) BY TaskAssumption, <1>1 DEF Recheck
<1>2. CASE ResumeStart(t) BY TaskAssumption, <1>2 DEF ResumeStart
<1>3. CASE ResumeSent(t) BY TaskAssumption, <1>3 DEF ResumeSent
<1>4. CASE Expire(t) BY TaskAssumption, <1>4 DEF Expire
<1>5. CASE Swept(t) BY TaskAssumption, <1>5 DEF Swept
<1>6. CASE Released(t) BY TaskAssumption, <1>6 DEF Released
<1>7. CASE InputSent(t) BY TaskAssumption, <1>7 DEF InputSent
<1> QED BY <1>1, <1>2, <1>3, <1>4, <1>5, <1>6, <1>7 DEF Step

LEMMA LawfulBrowser ==
  ASSUME TypeOK, LeaseInv, ~LateHeartbeats => PromptInv,
         NEW b \in Browser,
         BrowserStep(b) \/ BrowserAct(b)
  PROVE  LawfulStep
<1>0. b \in Task BY DEF Task
<1> USE DEF LawfulStep, PinsWorker, CountsEpoch, EndsRestLawfully,
            EndsDashLawfully, SharesByLateHeartbeat, ExclusiveOwnership,
            PromptInv, ReservationExcludesRest, LeaseInv, TypeOK, InputPinned,
            FenceDiscipline, PendingIsReservation, ReservationExcludesDash,
            KnownSocket, Task, SlotFree, Owns, DashActive, RestActive,
            Hijacked, entryVars, modeVars, taskVars, Goto, FenceFree,
            TakeFence, LeaveFence, Control, ClearOwner, NewEpoch, ThenResume,
            Pc, Ret, FencedPc
<1>1. CASE PauseWorker(b) BY <1>0, TaskAssumption, <1>1 DEF PauseWorker
<1>2. CASE TryAcquireWs(b)
  BY <1>0, TaskAssumption, <1>2 DEF TryAcquireWs, WsAcquired, WsRefused,
     WsNoWorker
<1>3. CASE AnnounceWs(b) BY <1>0, TaskAssumption, <1>3 DEF AnnounceWs
<1>4. CASE SendOwnedBrowser(b)
  BY <1>0, TaskAssumption, <1>4 DEF SendOwnedBrowser
<1>5. CASE Parted(b) BY <1>0, TaskAssumption, <1>5 DEF Parted
<1>6. CASE HijackRequest(b) BY <1>0, TaskAssumption, <1>6 DEF HijackRequest
<1>7. CASE HijackRelease(b) BY <1>0, TaskAssumption, <1>7 DEF HijackRelease
<1>8. CASE CaptureInput(b) BY <1>0, TaskAssumption, <1>8 DEF CaptureInput
<1>9. CASE Disconnect(b) BY <1>0, TaskAssumption, <1>9 DEF Disconnect
<1>10. CASE Reclaim(b) BY <1>0, TaskAssumption, <1>10 DEF Reclaim
<1>11. CASE ResumeWithoutLease(b)
  BY <1>0, TaskAssumption, <1>11 DEF ResumeWithoutLease
<1>12. CASE CaptureReclaim(b) BY <1>0, TaskAssumption, <1>12 DEF CaptureReclaim
<1>13. CASE Repause(b) BY <1>0, TaskAssumption, <1>13 DEF Repause
<1>14. CASE RepauseSent(b) BY <1>0, TaskAssumption, <1>14 DEF RepauseSent
<1>15. CASE RollbackReclaim(b)
  BY <1>0, TaskAssumption, <1>15 DEF RollbackReclaim
<1> QED
  BY <1>1, <1>2, <1>3, <1>4, <1>5, <1>6, <1>7, <1>8, <1>9, <1>10, <1>11, <1>12,
     <1>13, <1>14, <1>15
  DEF BrowserStep, BrowserAct

LEMMA LawfulRest ==
  ASSUME TypeOK, LeaseInv, ~LateHeartbeats => PromptInv,
         NEW r \in Rest,
         RestStep(r) \/ RestAct(r)
  PROVE  LawfulStep
<1>0. r \in Task BY DEF Task
<1> USE DEF LawfulStep, PinsWorker, CountsEpoch, EndsRestLawfully,
            EndsDashLawfully, SharesByLateHeartbeat, ExclusiveOwnership,
            PromptInv, ReservationExcludesRest, LeaseInv, TypeOK, InputPinned,
            FenceDiscipline, PendingIsReservation, ReservationExcludesDash,
            KnownSocket, Task, SlotFree, DashActive, RestActive, Hijacked,
            entryVars, modeVars, taskVars, Goto, FenceFree, TakeFence,
            LeaveFence, Control, ClearSess, NewEpoch, GiveUp, DropReservation,
            DropFence, LeaseIs, Pc, Ret, FencedPc
<1>1. CASE Reserve(r) BY <1>0, TaskAssumption, <1>1 DEF Reserve
<1>2. CASE RestPauseSent(r) BY <1>0, TaskAssumption, <1>2 DEF RestPauseSent
<1>3. CASE RestPauseFailed(r) BY <1>0, TaskAssumption, <1>3 DEF RestPauseFailed
<1>4. CASE Finalise(r) BY <1>0, TaskAssumption, <1>4 DEF Finalise
<1>5. CASE AnnounceRest(r) BY <1>0, TaskAssumption, <1>5 DEF AnnounceRest
<1>6. CASE Rollback(r) BY <1>0, TaskAssumption, <1>6 DEF Rollback
<1>7. CASE AcquireBegin(r) BY <1>0, TaskAssumption, <1>7 DEF AcquireBegin
<1>8. CASE AcquireCancelled(r)
  BY <1>0, TaskAssumption, <1>8 DEF AcquireCancelled
<1> QED BY <1>1, <1>2, <1>3, <1>4, <1>5, <1>6, <1>7, <1>8 DEF RestStep, RestAct

LEMMA LawfulOp ==
  ASSUME TypeOK, LeaseInv, ~LateHeartbeats => PromptInv,
         NEW o \in RestOp,
         OpStep(o) \/ \E k \in Kind, r \in Rest : OpBegin(o, k, r)
  PROVE  LawfulStep
<1>0. o \in Task BY DEF Task
<1> USE DEF LawfulStep, PinsWorker, CountsEpoch, EndsRestLawfully,
            EndsDashLawfully, SharesByLateHeartbeat, ExclusiveOwnership,
            PromptInv, ReservationExcludesRest, LeaseInv, TypeOK, InputPinned,
            FenceDiscipline, PendingIsReservation, ReservationExcludesDash,
            KnownSocket, Task, DashActive, RestActive, Hijacked, entryVars,
            modeVars, taskVars, Goto, FenceFree, TakeFence, ClearSess,
            NewEpoch, ThenResume, LeaseIs, Pc, Ret, Kind, FencedPc
<1>1. CASE Check(o) BY <1>0, TaskAssumption, <1>1 DEF Check
<1>2. CASE Extend(o) BY <1>0, TaskAssumption, <1>2 DEF Extend
<1>3. CASE SendOwnedRest(o) BY <1>0, TaskAssumption, <1>3 DEF SendOwnedRest
<1>4. CASE ReleaseRest(o) BY <1>0, TaskAssumption, <1>4 DEF ReleaseRest
<1>5. ASSUME NEW k \in Kind, NEW r \in Rest, OpBegin(o, k, r) PROVE LawfulStep
  BY <1>0, TaskAssumption, <1>5 DEF OpBegin
<1> QED BY <1>1, <1>2, <1>3, <1>4, <1>5 DEF OpStep

LEMMA LawfulSweep ==
  ASSUME TypeOK, LeaseInv, ~LateHeartbeats => PromptInv,
         NEW s \in Sweeper,
         SweepBegin(s) \/ SweepCancelled(s)
  PROVE  LawfulStep
<1>0. s \in Task BY DEF Task
<1> USE DEF LawfulStep, PinsWorker, CountsEpoch, EndsRestLawfully,
            EndsDashLawfully, SharesByLateHeartbeat, ExclusiveOwnership,
            PromptInv, ReservationExcludesRest, LeaseInv, TypeOK, InputPinned,
            FenceDiscipline, PendingIsReservation, ReservationExcludesDash,
            KnownSocket, Task, DashActive, RestActive, Hijacked, entryVars,
            modeVars, taskVars, Goto, LeaveFence, Pc, Ret, FencedPc
<1>1. CASE SweepBegin(s) BY <1>0, TaskAssumption, <1>1 DEF SweepBegin
<1>2. CASE SweepCancelled(s) BY <1>0, TaskAssumption, <1>2 DEF SweepCancelled
<1> QED BY <1>1, <1>2

LEMMA LawfulHub ==
  ASSUME TypeOK, LeaseInv, ~LateHeartbeats => PromptInv,
         NEW h \in HubTask,
         ForceSent(h) \/ HubAct(h)
  PROVE  LawfulStep
<1>0. h \in Task BY DEF Task
<1> USE DEF LawfulStep, PinsWorker, CountsEpoch, EndsRestLawfully,
            EndsDashLawfully, SharesByLateHeartbeat, ExclusiveOwnership,
            PromptInv, ReservationExcludesRest, LeaseInv, TypeOK, InputPinned,
            FenceDiscipline, PendingIsReservation, ReservationExcludesDash,
            KnownSocket, Task, Owns, DashActive, RestActive, Hijacked,
            modeVars, taskVars, Goto, FenceFree, TakeFence, LeaveFence,
            Control, ClearOwner, ClearSess, NewEpoch, ThenResume, Pc, Ret,
            FencedPc
<1>1. CASE ForceSent(h) BY <1>0, TaskAssumption, <1>1 DEF ForceSent
<1>2. CASE ForceRelease(h) BY <1>0, TaskAssumption, <1>2 DEF ForceRelease
<1>3. ASSUME NEW b \in Browser, RemoveDead(h, b) PROVE LawfulStep
  BY <1>0, TaskAssumption, <1>3 DEF RemoveDead
<1> QED BY <1>1, <1>2, <1>3 DEF HubAct

LEMMA LawfulWorld ==
  ASSUME TypeOK, LeaseInv, ~LateHeartbeats => PromptInv,
         WorkerAct \/ OwnerExpires \/ SessExpires
  PROVE  LawfulStep
<1> USE DEF LawfulStep, PinsWorker, CountsEpoch, EndsRestLawfully,
            EndsDashLawfully, SharesByLateHeartbeat, ExclusiveOwnership,
            PromptInv, ReservationExcludesRest, LeaseInv, TypeOK, InputPinned,
            FenceDiscipline, PendingIsReservation, ReservationExcludesDash,
            KnownSocket, Task, DashActive, RestActive, Hijacked, entryVars,
            modeVars, taskVars, FenceFree, ClearOwner, ClearSess, NewEpoch, Pc,
            Ret, FencedPc
<1>1. ASSUME NEW w \in Socket, RegisterWorker(w) PROVE LawfulStep
  BY TaskAssumption, <1>1 DEF RegisterWorker
<1>2. CASE WorkerGone BY TaskAssumption, <1>2 DEF WorkerGone
<1>3. ASSUME NEW m \in ModeAsked, WorkerHello(m) PROVE LawfulStep
  BY TaskAssumption, <1>3 DEF WorkerHello
<1>4. ASSUME NEW m \in ModeAsked, SetInputMode(m) PROVE LawfulStep
  BY TaskAssumption, <1>4 DEF SetInputMode
<1>5. CASE OwnerExpires BY TaskAssumption, <1>5 DEF OwnerExpires
<1>6. CASE SessExpires BY TaskAssumption, <1>6 DEF SessExpires
<1> QED BY <1>1, <1>2, <1>3, <1>4, <1>5, <1>6 DEF WorkerAct

LEMMA LawfulNext ==
  ASSUME TypeOK, LeaseInv, ~LateHeartbeats => PromptInv, [Next]_vars
  PROVE  LawfulStep \/ UNCHANGED vars
BY Actors, LawfulCommon, LawfulBrowser, LawfulRest, LawfulOp, LawfulSweep,
  LawfulHub, LawfulWorld

-----------------------------------------------------------------------------
(* The refinement. *)

\* What a step of the hub is to ExclusiveControl.
RefinedStep == [EC!Next]_EC!vars

LEMMA RefinedInit == Init => EC!Init
BY DEF Init, EC!Init, Holder, Writing, DashActive, RestActive

LEMMA RefinedCommon ==
  ASSUME TypeOK, TypeOK', LeaseInv, LeaseInv', PromptInv, PromptInv',
         NEW t \in Task,
         Step(t)
  PROVE  RefinedStep
<1> USE DEF RefinedStep, EC!Next, EC!Grant, EC!Vacate, EC!Lapse, EC!Write,
            EC!Written, EC!Share, EC!Unshare, EC!vars, Holder, Writing,
            LeaseInv, TypeOK, InputPinned, FenceDiscipline,
            PendingIsReservation, ReservationExcludesDash, KnownSocket,
            PromptInv, NoLateExtend, ExclusiveOwnership,
            ReservationExcludesRest, Task, DashActive, RestActive, Hijacked,
            entryVars, modeVars, taskVars, Goto, FenceFree, TakeFence,
            LeaveFence, Control, ClearOwner, ClearSess, NewEpoch, AfterSweep,
            Pc, Ret, FencedPc
<1>1. CASE Recheck(t) BY TaskAssumption, <1>1 DEF Recheck
<1>2. CASE ResumeStart(t) BY TaskAssumption, <1>2 DEF ResumeStart
<1>3. CASE ResumeSent(t) BY TaskAssumption, <1>3 DEF ResumeSent
<1>4. CASE Expire(t) BY TaskAssumption, <1>4 DEF Expire
<1>5. CASE Swept(t) BY TaskAssumption, <1>5 DEF Swept
<1>6. CASE Released(t) BY TaskAssumption, <1>6 DEF Released
<1>7. CASE InputSent(t) BY TaskAssumption, <1>7 DEF InputSent
<1> QED BY <1>1, <1>2, <1>3, <1>4, <1>5, <1>6, <1>7 DEF Step

LEMMA RefinedBrowser ==
  ASSUME TypeOK, TypeOK', LeaseInv, LeaseInv', PromptInv, PromptInv',
         NEW b \in Browser,
         BrowserStep(b) \/ BrowserAct(b)
  PROVE  RefinedStep
<1>0. b \in Task BY DEF Task
<1> USE DEF RefinedStep, EC!Next, EC!Grant, EC!Vacate, EC!Lapse, EC!Write,
            EC!Written, EC!Share, EC!Unshare, EC!vars, Holder, Writing,
            LeaseInv, TypeOK, InputPinned, FenceDiscipline,
            PendingIsReservation, ReservationExcludesDash, KnownSocket,
            PromptInv, NoLateExtend, ExclusiveOwnership,
            ReservationExcludesRest, Task, SlotFree, Owns, CanSendInput,
            DashActive, RestActive, Hijacked, entryVars, modeVars, taskVars,
            Goto, FenceFree, TakeFence, LeaveFence, Control, ClearOwner,
            NewEpoch, ThenResume, Pc, Ret, FencedPc
<1>1. CASE PauseWorker(b) BY <1>0, TaskAssumption, <1>1 DEF PauseWorker
<1>2. CASE TryAcquireWs(b)
  BY <1>0, TaskAssumption, <1>2 DEF TryAcquireWs, WsAcquired, WsRefused,
     WsNoWorker
<1>3. CASE AnnounceWs(b) BY <1>0, TaskAssumption, <1>3 DEF AnnounceWs
<1>4. CASE SendOwnedBrowser(b)
  BY <1>0, TaskAssumption, <1>4 DEF SendOwnedBrowser
<1>5. CASE Parted(b) BY <1>0, TaskAssumption, <1>5 DEF Parted
<1>6. CASE HijackRequest(b) BY <1>0, TaskAssumption, <1>6 DEF HijackRequest
<1>7. CASE HijackRelease(b) BY <1>0, TaskAssumption, <1>7 DEF HijackRelease
<1>8. CASE CaptureInput(b) BY <1>0, TaskAssumption, <1>8 DEF CaptureInput
<1>9. CASE Disconnect(b) BY <1>0, TaskAssumption, <1>9 DEF Disconnect
<1>10. CASE Reclaim(b) BY <1>0, TaskAssumption, <1>10 DEF Reclaim
<1>11. CASE ResumeWithoutLease(b)
  BY <1>0, TaskAssumption, <1>11 DEF ResumeWithoutLease
<1>12. CASE CaptureReclaim(b) BY <1>0, TaskAssumption, <1>12 DEF CaptureReclaim
<1>13. CASE Repause(b) BY <1>0, TaskAssumption, <1>13 DEF Repause
<1>14. CASE RepauseSent(b) BY <1>0, TaskAssumption, <1>14 DEF RepauseSent
<1>15. CASE RollbackReclaim(b)
  BY <1>0, TaskAssumption, <1>15 DEF RollbackReclaim
<1> QED
  BY <1>1, <1>2, <1>3, <1>4, <1>5, <1>6, <1>7, <1>8, <1>9, <1>10, <1>11, <1>12,
     <1>13, <1>14, <1>15
  DEF BrowserStep, BrowserAct

LEMMA RefinedRest ==
  ASSUME TypeOK, TypeOK', LeaseInv, LeaseInv', PromptInv, PromptInv',
         NEW r \in Rest,
         RestStep(r) \/ RestAct(r)
  PROVE  RefinedStep
<1>0. r \in Task BY DEF Task
<1> USE DEF RefinedStep, EC!Next, EC!Grant, EC!Vacate, EC!Lapse, EC!Write,
            EC!Written, EC!Share, EC!Unshare, EC!vars, Holder, Writing,
            LeaseInv, TypeOK, InputPinned, FenceDiscipline,
            PendingIsReservation, ReservationExcludesDash, KnownSocket,
            PromptInv, NoLateExtend, ExclusiveOwnership,
            ReservationExcludesRest, Task, SlotFree, DashActive, RestActive,
            Hijacked, entryVars, modeVars, taskVars, Goto, FenceFree,
            TakeFence, LeaveFence, Control, ClearSess, NewEpoch, GiveUp,
            DropReservation, DropFence, LeaseIs, Pc, Ret, FencedPc
<1>1. CASE Reserve(r) BY <1>0, TaskAssumption, <1>1 DEF Reserve
<1>2. CASE RestPauseSent(r) BY <1>0, TaskAssumption, <1>2 DEF RestPauseSent
<1>3. CASE RestPauseFailed(r) BY <1>0, TaskAssumption, <1>3 DEF RestPauseFailed
<1>4. CASE Finalise(r) BY <1>0, TaskAssumption, <1>4 DEF Finalise
<1>5. CASE AnnounceRest(r) BY <1>0, TaskAssumption, <1>5 DEF AnnounceRest
<1>6. CASE Rollback(r) BY <1>0, TaskAssumption, <1>6 DEF Rollback
<1>7. CASE AcquireBegin(r) BY <1>0, TaskAssumption, <1>7 DEF AcquireBegin
<1>8. CASE AcquireCancelled(r)
  BY <1>0, TaskAssumption, <1>8 DEF AcquireCancelled
<1> QED BY <1>1, <1>2, <1>3, <1>4, <1>5, <1>6, <1>7, <1>8 DEF RestStep, RestAct

LEMMA RefinedOp ==
  ASSUME TypeOK, TypeOK', LeaseInv, LeaseInv', PromptInv, PromptInv',
         NEW o \in RestOp,
         OpStep(o) \/ \E k \in Kind, r \in Rest : OpBegin(o, k, r)
  PROVE  RefinedStep
<1>0. o \in Task BY DEF Task
<1> USE DEF RefinedStep, EC!Next, EC!Grant, EC!Vacate, EC!Lapse, EC!Write,
            EC!Written, EC!Share, EC!Unshare, EC!vars, Holder, Writing,
            LeaseInv, TypeOK, InputPinned, FenceDiscipline,
            PendingIsReservation, ReservationExcludesDash, KnownSocket,
            PromptInv, NoLateExtend, ExclusiveOwnership,
            ReservationExcludesRest, Task, DashActive, RestActive, Hijacked,
            entryVars, modeVars, taskVars, Goto, FenceFree, TakeFence,
            ClearSess, NewEpoch, ThenResume, LeaseIs, Pc, Ret, Kind, FencedPc
<1>1. CASE Check(o) BY SMTT(30), <1>0, TaskAssumption, <1>1 DEF Check
<1>2. CASE Extend(o) BY <1>0, TaskAssumption, <1>2 DEF Extend
<1>3. CASE SendOwnedRest(o) BY <1>0, TaskAssumption, <1>3 DEF SendOwnedRest
<1>4. CASE ReleaseRest(o) BY <1>0, TaskAssumption, <1>4 DEF ReleaseRest
<1>5. ASSUME NEW k \in Kind, NEW r \in Rest, OpBegin(o, k, r) PROVE RefinedStep
  BY <1>0, TaskAssumption, <1>5 DEF OpBegin
<1> HIDE DEF RefinedStep, Kind
<1> QED BY <1>1, <1>2, <1>3, <1>4, <1>5 DEF OpStep

LEMMA RefinedSweep ==
  ASSUME TypeOK, TypeOK', LeaseInv, LeaseInv', PromptInv, PromptInv',
         NEW s \in Sweeper,
         SweepBegin(s) \/ SweepCancelled(s)
  PROVE  RefinedStep
<1>0. s \in Task BY DEF Task
<1> USE DEF RefinedStep, EC!Next, EC!Grant, EC!Vacate, EC!Lapse, EC!Write,
            EC!Written, EC!Share, EC!Unshare, EC!vars, Holder, Writing,
            LeaseInv, TypeOK, InputPinned, FenceDiscipline,
            PendingIsReservation, ReservationExcludesDash, KnownSocket,
            PromptInv, NoLateExtend, ExclusiveOwnership,
            ReservationExcludesRest, Task, DashActive, RestActive, Hijacked,
            entryVars, modeVars, taskVars, Goto, LeaveFence, Pc, Ret, FencedPc
<1>1. CASE SweepBegin(s) BY <1>0, TaskAssumption, <1>1 DEF SweepBegin
<1>2. CASE SweepCancelled(s) BY <1>0, TaskAssumption, <1>2 DEF SweepCancelled
<1> QED BY <1>1, <1>2

LEMMA RefinedHub ==
  ASSUME TypeOK, TypeOK', LeaseInv, LeaseInv', PromptInv, PromptInv',
         NEW h \in HubTask,
         ForceSent(h) \/ HubAct(h)
  PROVE  RefinedStep
<1>0. h \in Task BY DEF Task
<1> USE DEF RefinedStep, EC!Next, EC!Grant, EC!Vacate, EC!Lapse, EC!Write,
            EC!Written, EC!Share, EC!Unshare, EC!vars, Holder, Writing,
            LeaseInv, TypeOK, InputPinned, FenceDiscipline,
            PendingIsReservation, ReservationExcludesDash, KnownSocket,
            PromptInv, NoLateExtend, ExclusiveOwnership,
            ReservationExcludesRest, Task, Owns, DashActive, RestActive,
            Hijacked, modeVars, taskVars, Goto, FenceFree, TakeFence,
            LeaveFence, Control, ClearOwner, ClearSess, NewEpoch, ThenResume,
            Pc, Ret, FencedPc
<1>1. CASE ForceSent(h) BY <1>0, TaskAssumption, <1>1 DEF ForceSent
<1>2. CASE ForceRelease(h) BY <1>0, TaskAssumption, <1>2 DEF ForceRelease
<1>3. ASSUME NEW b \in Browser, RemoveDead(h, b) PROVE RefinedStep
  BY <1>0, TaskAssumption, <1>3 DEF RemoveDead
<1> QED BY <1>1, <1>2, <1>3 DEF HubAct

LEMMA RefinedWorld ==
  ASSUME TypeOK, TypeOK', LeaseInv, LeaseInv', PromptInv, PromptInv',
         WorkerAct \/ OwnerExpires \/ SessExpires
  PROVE  RefinedStep
<1> USE DEF RefinedStep, EC!Next, EC!Grant, EC!Vacate, EC!Lapse, EC!Write,
            EC!Written, EC!Share, EC!Unshare, EC!vars, Holder, Writing,
            LeaseInv, TypeOK, InputPinned, FenceDiscipline,
            PendingIsReservation, ReservationExcludesDash, KnownSocket,
            PromptInv, NoLateExtend, ExclusiveOwnership,
            ReservationExcludesRest, Task, DashActive, RestActive, Hijacked,
            entryVars, modeVars, taskVars, FenceFree, ClearOwner, ClearSess,
            NewEpoch, Pc, Ret, FencedPc
<1>1. ASSUME NEW w \in Socket, RegisterWorker(w) PROVE RefinedStep
  BY TaskAssumption, <1>1 DEF RegisterWorker
<1>2. CASE WorkerGone BY TaskAssumption, <1>2 DEF WorkerGone
<1>3. ASSUME NEW m \in ModeAsked, WorkerHello(m) PROVE RefinedStep
  BY TaskAssumption, <1>3 DEF WorkerHello
<1>4. ASSUME NEW m \in ModeAsked, SetInputMode(m) PROVE RefinedStep
  BY TaskAssumption, <1>4 DEF SetInputMode
<1>5. CASE OwnerExpires BY TaskAssumption, <1>5 DEF OwnerExpires
<1>6. CASE SessExpires BY TaskAssumption, <1>6 DEF SessExpires
<1> QED BY <1>1, <1>2, <1>3, <1>4, <1>5, <1>6 DEF WorkerAct

LEMMA RefinedNext ==
  ASSUME TypeOK, LeaseInv, PromptInv, [Next]_vars, ~LateHeartbeats
  PROVE  [EC!Next]_EC!vars
<1> TypeOK' /\ LeaseInv' /\ PromptInv' BY TypeStep, LeaseStep, PromptStep
<1>1. CASE Next
  <2> RefinedStep
    BY <1>1, Actors, RefinedCommon, RefinedBrowser, RefinedRest, RefinedOp,
       RefinedSweep, RefinedHub, RefinedWorld
  <2> QED BY DEF RefinedStep
<1>2. CASE UNCHANGED vars
  BY <1>2 DEF vars, EC!vars, Holder, Writing, DashActive, RestActive
<1> QED BY <1>1, <1>2

-----------------------------------------------------------------------------
(* The theorems. *)

\* Whatever is cancelled or fails on the way, the fence is held by exactly the
\* task that talks to the worker.
THEOREM FenceHeld == Spec => []FenceDiscipline
BY LeaseCorrect, PTL DEF LeaseInv

\* A reservation never outlives its acquire.
THEOREM ReservationHeld == Spec => []PendingIsReservation
BY LeaseCorrect, PTL DEF LeaseInv

\* No dashboard slips in between a REST reservation and its lease.
THEOREM ReservationExclusive == Spec => []ReservationExcludesDash
BY LeaseCorrect, PTL DEF LeaseInv

\* Input on its way to the worker was admitted under the ownership that still
\* stands, however long the policy gate in between was awaited.
THEOREM InputStaysPinned == Spec => []InputPinned
BY LeaseCorrect, PTL DEF LeaseInv

\* With prompt heartbeats two kinds of holder never coexist.
THEOREM Exclusive == ~LateHeartbeats => (Spec => []ExclusiveOwnership)
BY PromptCorrect, PTL DEF PromptInv

\* With prompt heartbeats no resume goes out while somebody holds the worker.
THEOREM ResumeUnheld == ~LateHeartbeats => (Spec => []NoResumeUnderLease)
BY PromptCorrect, PTL DEF PromptInv

\* With prompt heartbeats a REST holder's worker stays paused by the hub.
THEOREM RestStaysPaused == ~LateHeartbeats => (Spec => []RestLeaseNotResumed)
BY PromptCorrect, PTL DEF PromptInv

LEMMA PromptWhenPrompt == Spec => [](~LateHeartbeats => PromptInv)
<1>1. CASE LateHeartbeats
  <2>1. ~LateHeartbeats => PromptInv BY <1>1
  <2> QED BY <2>1, PTL
<1>2. CASE ~LateHeartbeats BY <1>2, PromptCorrect, PTL
<1> QED BY <1>1, <1>2

LEMMA Lawful == Spec => [][LawfulStep]_vars
<1>1. /\ TypeOK /\ LeaseInv /\ (~LateHeartbeats => PromptInv)
      /\ [Next]_vars
      => [LawfulStep]_vars
  BY LawfulNext
<1> QED BY <1>1, TypeCorrect, LeaseCorrect, PromptWhenPrompt, PTL DEF Spec

\* The socket a task talks to is not replaced meanwhile.
THEOREM FencePins == Spec => FencePinsWorker
<1>1. [LawfulStep]_vars => [PinsWorker]_vars BY DEF LawfulStep
<1> QED BY <1>1, Lawful, PTL DEF FencePinsWorker

\* Every change of hands is a new ownership generation.
THEOREM EpochsCount == Spec => EpochCounts
<1>1. [LawfulStep]_vars => [CountsEpoch]_vars BY DEF LawfulStep
<1> QED BY <1>1, Lawful, PTL DEF EpochCounts

\* A live dashboard lease is ended by its holder or by the hub, by nobody else.
THEOREM DashEndsLawfully == Spec => OnlyHolderEndsDash
<1>1. [LawfulStep]_vars => [EndsDashLawfully]_vars BY DEF LawfulStep
<1> QED BY <1>1, Lawful, PTL DEF OnlyHolderEndsDash

\* A live REST lease is ended by its holder or by the hub, by nobody else.
\* A late heartbeat breaks this too: the lease it revives under another
\* acquire's reservation is overwritten when that acquire finalises.
THEOREM RestEndsLawfully == ~LateHeartbeats => (Spec => OnlyHolderEndsRest)
<1> SUFFICES ASSUME ~LateHeartbeats PROVE Spec => OnlyHolderEndsRest OBVIOUS
<1>1. [LawfulStep]_vars => [EndsRestLawfully]_vars BY DEF LawfulStep
<1> QED BY <1>1, Lawful, PTL DEF OnlyHolderEndsRest

\* Only a late heartbeat makes two holders of one worker.
THEOREM OnlyLateShares == Spec => OnlyLateHeartbeatShares
<1>1. [LawfulStep]_vars => [SharesByLateHeartbeat]_vars BY DEF LawfulStep
<1> QED BY <1>1, Lawful, PTL DEF OnlyLateHeartbeatShares

\* With prompt heartbeats the hub keeps the promise of ExclusiveControl: one
\* holder at a time, handed over through nobody and into a new epoch that no
\* write is cut across by.
THEOREM Implements == ~LateHeartbeats => (Spec => ImplementsExclusiveControl)
<1> SUFFICES ASSUME ~LateHeartbeats PROVE Spec => ImplementsExclusiveControl
  OBVIOUS
<1>1. TypeOK /\ LeaseInv /\ PromptInv /\ [Next]_vars => [EC!Next]_EC!vars
  BY RefinedNext
<1> QED
  BY <1>1, RefinedInit, TypeCorrect, LeaseCorrect, PromptCorrect, PTL
  DEF Spec, ImplementsExclusiveControl, EC!Spec
==============================================================================
