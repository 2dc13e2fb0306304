------------------------- MODULE DictionaryLeaseProofs -------------------------
(***************************************************************************)
(* The dictionary lease for any set of holders: the two flocks implement   *)
(* LeaseSpec, and restoring the sharing never waits.                       *)
(*                                                                         *)
(* The inductive invariant says which flocks each program point implies    *)
(* (Fits) and that the kernel grants neither file exclusively together     *)
(* with anything else (OneOwner).  An exclusive session lock is then only  *)
(* ever held behind an exclusive gate, which is what keeps the unlocked    *)
(* moment of a conversion safe.                                            *)
(***************************************************************************)
EXTENDS DictionaryLease, TLAPS

OneOwner(lock) ==
    \A g, h \in Holders : g # h /\ lock[g] = "exclusive" => lock[h] = "none"

LeaseInv ==
    /\ TypeOK
    /\ FlocksFit
    /\ OneOwner(gate)
    /\ OneOwner(sessions)

\* A flock a holder may go to: none, the one it has, or one the kernel grants.
Allowed(lock, h, mode) ==
    mode \in Flock /\ (mode \in {"none", lock[h]} \/ Grants(lock, h, mode))

\* One holder moves to a program point with the flocks that fit it.
Moves(h, state, g, s) ==
    /\ state \in HolderStates
    /\ Fits(state, g, s)
    /\ Allowed(gate, h, g)
    /\ Allowed(sessions, h, s)
    /\ pc' = [pc EXCEPT ![h] = state]
    /\ gate' = [gate EXCEPT ![h] = g]
    /\ sessions' = [sessions EXCEPT ![h] = s]

-----------------------------------------------------------------------------
\* Changing one holder's flock to an allowed one keeps an exclusive flock alone.
LEMMA AllowedKeepsOwner ==
    ASSUME NEW lock \in [Holders -> Flock], NEW h \in Holders, NEW mode,
           OneOwner(lock), Allowed(lock, h, mode)
    PROVE  OneOwner([lock EXCEPT ![h] = mode])
  BY DEF OneOwner, Allowed, Grants, Flock

\* A move keeps the invariant.
LEMMA MoveKeepsInv ==
    ASSUME LeaseInv, NEW h \in Holders, NEW state, NEW g, NEW s,
           Moves(h, state, g, s), published' \in [Holders -> Outcomes]
    PROVE  LeaseInv'
  <1>1. TypeOK'
    BY DEF LeaseInv, FlocksFit, TypeOK, Moves, Allowed
  <1>2. \A k \in Holders : Fits(pc'[k], gate'[k], sessions'[k])
    BY DEF LeaseInv, FlocksFit, TypeOK, Moves
  <1>3. OneOwner(gate')
    BY AllowedKeepsOwner DEF LeaseInv, FlocksFit, TypeOK, Moves
  <1>4. OneOwner(sessions')
    BY AllowedKeepsOwner DEF LeaseInv, FlocksFit, TypeOK, Moves
  <1> QED
    BY <1>1, <1>2, <1>3, <1>4 DEF LeaseInv, FlocksFit, OneOwner

\* The holders start with nothing.
LEMMA InitLeaseInv == Init => LeaseInv
  BY DEF Init, LeaseInv, FlocksFit, TypeOK, Fits, OneOwner, Flock, HolderStates, Outcomes

\* Every system call of acquire and exclusively, and every close, is a move.
LEMMA NextIsMove ==
    ASSUME LeaseInv, Next
    PROVE  \E h \in Holders : /\ \E state, g, s : Moves(h, state, g, s)
                              /\ published' \in [Holders -> Outcomes]
  <1>t. TypeOK /\ \A h \in Holders : Fits(pc[h], gate[h], sessions[h])
    BY DEF LeaseInv, FlocksFit
  <1> DEFINE Step(h) == \E state, g, s : Moves(h, state, g, s)
             Pub == published' \in [Holders -> Outcomes]
  <1>1. ASSUME NEW h \in Holders, AcquireGate(h, "shared") PROVE Step(h) /\ Pub
    <2>1. Moves(h, "gated shared", "shared", "none")
      BY <1>1, <1>t DEF AcquireGate, Moves, Allowed, Fits, TypeOK, Flock, HolderStates, Locked, Goto
    <2> QED BY <2>1, <1>1, <1>t DEF AcquireGate, TypeOK, Outcomes
  <1>2. ASSUME NEW h \in Holders, AcquireGate(h, "exclusive") PROVE Step(h) /\ Pub
    <2>1. Moves(h, "gated exclusive", "exclusive", "none")
      BY <1>2, <1>t DEF AcquireGate, Moves, Allowed, Fits, TypeOK, Flock, HolderStates, Locked, Goto
    <2> QED BY <2>1, <1>2, <1>t DEF AcquireGate, TypeOK, Outcomes
  <1>3. ASSUME NEW h \in Holders, AcquireShared(h) PROVE Step(h) /\ Pub
    <2>1. Moves(h, "opening", "shared", "shared")
      BY <1>3, <1>t DEF AcquireShared, Moves, Allowed, Fits, TypeOK, Flock, HolderStates, Locked, Goto
    <2> QED BY <2>1, <1>3, <1>t DEF AcquireShared, TypeOK
  <1>4. ASSUME NEW h \in Holders, AcquireDone(h) PROVE Step(h) /\ Pub
    <2>1. Moves(h, "shared", "none", "shared")
      BY <1>4, <1>t DEF AcquireDone, Moves, Allowed, Fits, TypeOK, Flock, HolderStates, Locked, Goto
    <2> QED BY <2>1, <1>4, <1>t DEF AcquireDone, TypeOK
  <1>5. ASSUME NEW h \in Holders, AcquireExclusive(h) PROVE Step(h) /\ Pub
    <2>1. Moves(h, "exclusive", "exclusive", "exclusive")
      BY <1>5, <1>t DEF AcquireExclusive, Moves, Allowed, Fits, TypeOK, Flock, HolderStates, Locked, Goto
    <2> QED BY <2>1, <1>5, <1>t DEF AcquireExclusive, TypeOK
  <1>6. ASSUME NEW h \in Holders, AcquireBusy(h) PROVE Step(h) /\ Pub
    <2>1. Moves(h, "closed", "none", "none")
      BY <1>6, <1>t DEF AcquireBusy, Moves, Allowed, Fits, TypeOK, Flock, HolderStates, Locked, Goto
    <2> QED BY <2>1, <1>6, <1>t DEF AcquireBusy, TypeOK
  <1>7. ASSUME NEW h \in Holders, PublishGate(h) PROVE Step(h) /\ Pub
    <2>1. Moves(h, "converting", "exclusive", "shared")
      BY <1>7, <1>t DEF PublishGate, Moves, Allowed, Fits, TypeOK, Flock, HolderStates, Locked, Goto
    <2> QED BY <2>1, <1>7, <1>t DEF PublishGate, TypeOK
  <1>8. ASSUME NEW h \in Holders, PublishBusy(h) PROVE Step(h) /\ Pub
    <2>1. Moves(h, "shared", "none", "shared")
      BY <1>8, <1>t DEF PublishBusy, Moves, Allowed, Fits, TypeOK, Flock, HolderStates, Locked, Goto
    <2> QED BY <2>1, <1>8, <1>t DEF PublishBusy, TypeOK, Outcomes
  <1>9. ASSUME NEW h \in Holders, PublishUnlock(h) PROVE Step(h) /\ Pub
    <2>1. Moves(h, "unlocked", "exclusive", "none")
      BY <1>9, <1>t DEF PublishUnlock, Moves, Allowed, Fits, TypeOK, Flock, HolderStates, Locked, Goto
    <2> QED BY <2>1, <1>9, <1>t DEF PublishUnlock, TypeOK
  <1>10. ASSUME NEW h \in Holders, PublishLock(h) PROVE Step(h) /\ Pub
    <2>1. CASE Grants(sessions, h, "exclusive")
      <3>1. Moves(h, "operating", "exclusive", "exclusive")
        BY <1>10, <1>t, <2>1 DEF PublishLock, Moves, Allowed, Fits, TypeOK, Flock, HolderStates, Locked, Goto
      <3> QED BY <3>1, <1>10, <1>t, <2>1 DEF PublishLock, TypeOK
    <2>2. CASE ~Grants(sessions, h, "exclusive")
      <3>1. Moves(h, "restoring", "exclusive", "none")
        BY <1>10, <1>t, <2>2 DEF PublishLock, Moves, Allowed, Fits, TypeOK, Flock, HolderStates, Locked, Goto
      <3> QED BY <3>1, <1>10, <1>t, <2>2 DEF PublishLock, TypeOK, Outcomes
    <2> QED BY <2>1, <2>2
  <1>11. ASSUME NEW h \in Holders, PublishOperate(h) PROVE Step(h) /\ Pub
    <2>1. Moves(h, "restoring", "exclusive", "exclusive")
      BY <1>11, <1>t DEF PublishOperate, Moves, Allowed, Fits, TypeOK, Flock, HolderStates, Locked, Goto
    <2> QED BY <2>1, <1>11, <1>t DEF PublishOperate, TypeOK, Outcomes
  <1>12. ASSUME NEW h \in Holders, RestoreDrop(h) PROVE Step(h) /\ Pub
    <2>1. Moves(h, "restoring", "exclusive", "none")
      BY <1>12, <1>t DEF RestoreDrop, Moves, Allowed, Fits, TypeOK, Flock, HolderStates, Locked, Goto
    <2> QED BY <2>1, <1>12, <1>t DEF RestoreDrop, TypeOK
  <1>13. ASSUME NEW h \in Holders, RestoreShare(h) PROVE Step(h) /\ Pub
    <2>1. Moves(h, "ungating", "exclusive", "shared")
      BY <1>13, <1>t DEF RestoreShare, Moves, Allowed, Fits, TypeOK, Flock, HolderStates, Locked, Goto
    <2> QED BY <2>1, <1>13, <1>t DEF RestoreShare, TypeOK
  <1>14. ASSUME NEW h \in Holders, RestoreGate(h) PROVE Step(h) /\ Pub
    <2>1. Moves(h, "shared", "none", "shared")
      BY <1>14, <1>t DEF RestoreGate, Moves, Allowed, Fits, TypeOK, Flock, HolderStates, Locked, Goto
    <2> QED BY <2>1, <1>14, <1>t DEF RestoreGate, TypeOK
  <1>15. ASSUME NEW h \in Holders, CloseSessions(h) PROVE Step(h) /\ Pub
    <2>1. Moves(h, "closing", gate[h], "none")
      BY <1>15, <1>t DEF CloseSessions, Moves, Allowed, Fits, TypeOK, Flock, HolderStates, Locked, Goto
    <2> QED BY <2>1, <1>15, <1>t DEF CloseSessions, TypeOK
  <1>16. ASSUME NEW h \in Holders, CloseGate(h) PROVE Step(h) /\ Pub
    <2>1. Moves(h, "closed", "none", "none")
      BY <1>16, <1>t DEF CloseGate, Moves, Allowed, Fits, TypeOK, Flock, HolderStates, Locked, Goto
    <2> QED BY <2>1, <1>16, <1>t DEF CloseGate, TypeOK
  <1>17. PICK h \in Holders : Step(h) /\ Pub
    <2> HIDE DEF Step, Pub
    <2> QED
      BY <1>1, <1>2, <1>3, <1>4, <1>5, <1>6, <1>7, <1>8, <1>9, <1>10, <1>11,
         <1>12, <1>13, <1>14, <1>15, <1>16 DEF Next, Publish
  <1> QED
    BY <1>17

\* The invariant is inductive.
LEMMA NextLeaseInv == LeaseInv /\ [Next]_vars => LeaseInv'
  <1> SUFFICES ASSUME LeaseInv, [Next]_vars PROVE LeaseInv'
    OBVIOUS
  <1>1. CASE Next
    BY <1>1, NextIsMove, MoveKeepsInv
  <1>2. CASE UNCHANGED vars
    BY <1>2 DEF vars, LeaseInv, FlocksFit, TypeOK, OneOwner, Fits
  <1> QED
    BY <1>1, <1>2

\* Every reachable state satisfies the inductive invariant, type correctness
\* included: each point of acquire and exclusively has exactly the flocks it
\* should, whoever else is running or dying.
THEOREM LeaseInvariant == Spec => []LeaseInv
  BY InitLeaseInv, NextLeaseInv, PTL DEF Spec

\* No path through acquire and exclusively, and no death of a process, leaves a
\* holder with a flock its place does not account for.
THEOREM FlocksMatchPlace == Spec => []FlocksFit
  <1>1. LeaseInv => FlocksFit
    BY DEF LeaseInv
  <1> QED
    BY <1>1, LeaseInvariant, PTL

-----------------------------------------------------------------------------
\* DictionaryLease::exclusively never blocks: whenever its conversion or its
\* restore() may ask for the shared session lock, the kernel grants it.
THEOREM NeverWaits == Spec => []RestoreNeverWaits
  <1>1. LeaseInv => RestoreNeverWaits
    <2> SUFFICES ASSUME LeaseInv, NEW h \in Holders, pc[h] \in {"unlocked", "restoring"},
                        NEW g \in Holders \ {h}, sessions[g] = "exclusive"
                 PROVE FALSE
      BY DEF RestoreNeverWaits, Grants
    <2>1. gate[h] = "exclusive" /\ gate[g] = "exclusive"
      BY DEF LeaseInv, FlocksFit, Fits
    <2> QED BY <2>1 DEF LeaseInv, FlocksFit, OneOwner
  <1> QED
    BY <1>1, LeaseInvariant, PTL

-----------------------------------------------------------------------------
(* Refinement of LeaseSpec *)

\* Sole use is held behind both exclusive flocks, and any use leaves a flock
\* that an exclusive one excludes.
LEMMA UseNeedsFlock ==
    ASSUME NEW state, NEW g, NEW s, Fits(state, g, s)
    PROVE  /\ UseAt(state, s) = "sole" => g = "exclusive" /\ s = "exclusive"
           /\ UseAt(state, s) # "none" => g = "exclusive" \/ s # "none"
           /\ UseAt(state, s) \in {"none", "share", "sole"}
  BY DEF Fits, UseAt

\* The holders start without any use.
LEMMA InitRefines == Init => Lease!Init
  BY DEF Init, Lease!Init, Use, UseAt

\* Every step is a step of the lease or leaves every use as it is.
LEMMA NextRefines == LeaseInv /\ LeaseInv' /\ [Next]_vars => [Lease!Next]_Use
  <1> SUFFICES ASSUME LeaseInv, LeaseInv', [Next]_vars PROVE [Lease!Next]_Use
    OBVIOUS
  <1>1. CASE UNCHANGED vars
    BY <1>1 DEF vars, Use
  <1>2. CASE Next
    <2>0. PICK h \in Holders : \E state, f, s : Moves(h, state, f, s)
      BY <1>2, NextIsMove
    <2>1. PICK state, f, s : Moves(h, state, f, s)
      BY <2>0
    <2>2. Use' = [Use EXCEPT ![h] = Use'[h]]
      BY <2>1 DEF Moves, Use, LeaseInv, TypeOK
    <2>3. Use'[h] \in {"none", "share", "sole"} /\ Use[h] \in {"none", "share", "sole"}
      BY UseNeedsFlock DEF Use, LeaseInv, FlocksFit
    <2>4. \A g \in Holders \ {h} : Use'[g] = Use[g]
      BY <2>2 DEF Use
    \* In the new state sole use excludes every other use.
    <2>5. \A g \in Holders \ {h} : Use'[g] = "sole" => Use'[h] = "none"
      BY UseNeedsFlock DEF LeaseInv, FlocksFit, Use, OneOwner
    <2>6. \A g \in Holders \ {h} : Use'[h] = "sole" => Use'[g] = "none"
      BY UseNeedsFlock DEF LeaseInv, FlocksFit, Use, OneOwner
    <2>7. CASE Use'[h] = Use[h]
      BY <2>2, <2>7 DEF Use
    <2>8. CASE Use'[h] # Use[h] /\ Use'[h] = "none"
      BY <2>2, <2>8 DEF Lease!Next, Lease!Release
    <2>9. CASE Use'[h] # Use[h] /\ Use'[h] = "share"
      <3>1. Use[h] \in {"none", "sole"}
        BY <2>3, <2>9
      <3>2. \A g \in Holders \ {h} : Use[g] # "sole"
        BY <2>4, <2>5, <2>9
      <3>3. Use' = [Use EXCEPT ![h] = "share"]
        BY <2>2, <2>9
      <3> QED
        BY <3>1, <3>2, <3>3 DEF Lease!Next, Lease!Share
    <2>10. CASE Use'[h] # Use[h] /\ Use'[h] = "sole"
      <3>1. Use[h] \in {"none", "share"}
        BY <2>3, <2>10
      <3>2. \A g \in Holders \ {h} : Use[g] = "none"
        BY <2>4, <2>6, <2>10
      <3>3. Use' = [Use EXCEPT ![h] = "sole"]
        BY <2>2, <2>10
      <3> QED
        BY <3>1, <3>2, <3>3 DEF Lease!Next, Lease!TakeSole, Lease!Alone
    <2> QED
      BY <2>3, <2>7, <2>8, <2>9, <2>10
  <1> QED
    BY <1>1, <1>2

\* The two flock files of DictionaryLease.cpp implement the readers-or-one-writer
\* lease for every set of processes, whatever dies and wherever.
THEOREM LeaseRefinement == Spec => ImplementsLease
  <1>1. Spec => Lease!Init
    BY InitRefines DEF Spec
  <1> QED
    BY <1>1, LeaseInvariant, NextRefines, PTL DEF Spec, ImplementsLease, Lease!Spec

=============================================================================
