---------------------------- MODULE DictionaryLease ----------------------------
(***************************************************************************)
(* src/DictionaryLease.cpp: two flock files, the publication gate and the  *)
(* session lock, taken system call by system call by any number of         *)
(* processes that may die anywhere in between.                             *)
(***************************************************************************)
EXTENDS Naturals

CONSTANT Holders   \* lease objects, each with open file descriptions of its own

VARIABLES
    gate,          \* the flock each holder has on dictionary-publication.lock
    sessions,      \* the flock each holder has on dictionary-sessions.lock
    pc,            \* where each holder is in acquire or exclusively
    published      \* what the last exclusively() returned

vars == <<gate, sessions, pc, published>>

Flock == {"none", "shared", "exclusive"}
HolderStates ==
    {"closed", "gated shared", "gated exclusive", "opening", "shared", "exclusive",
     "converting", "unlocked", "operating", "restoring", "ungating", "closing"}
Outcomes == {"none", "done", "busy", "thrown"}

Init ==
    /\ gate = [h \in Holders |-> "none"]
    /\ sessions = [h \in Holders |-> "none"]
    /\ pc = [h \in Holders |-> "closed"]
    /\ published = [h \in Holders |-> "none"]

-----------------------------------------------------------------------------
(* flock(2), external: a lock is granted when no other holder conflicts. *)

Grants(lock, h, mode) ==
    IF mode = "exclusive"
    THEN \A g \in Holders \ {h} : lock[g] = "none"
    ELSE \A g \in Holders \ {h} : lock[g] # "exclusive"

Locked(lock, h, mode) == [lock EXCEPT ![h] = mode]

Goto(h, state) == pc' = [pc EXCEPT ![h] = state]

-----------------------------------------------------------------------------
(* DictionaryLease::acquire *)

\* try_lock on the gate; when it is refused acquire returns nullptr.
AcquireGate(h, mode) ==
    /\ pc[h] = "closed"
    /\ Grants(gate, h, mode)
    /\ gate' = Locked(gate, h, mode)
    /\ Goto(h, IF mode = "shared" THEN "gated shared" ELSE "gated exclusive")
    /\ published' = [published EXCEPT ![h] = "none"]
    /\ UNCHANGED sessions

\* try_lock on the session lock for a shared lease.
AcquireShared(h) ==
    /\ pc[h] = "gated shared"
    /\ Grants(sessions, h, "shared")
    /\ sessions' = Locked(sessions, h, "shared")
    /\ Goto(h, "opening")
    /\ UNCHANGED <<gate, published>>

\* A shared lease gives the gate back, which completes acquire.
AcquireDone(h) ==
    /\ pc[h] = "opening"
    /\ gate' = Locked(gate, h, "none")
    /\ Goto(h, "shared")
    /\ UNCHANGED <<sessions, published>>

\* try_lock on the session lock for an exclusive lease, which keeps both.
AcquireExclusive(h) ==
    /\ pc[h] = "gated exclusive"
    /\ Grants(sessions, h, "exclusive")
    /\ sessions' = Locked(sessions, h, "exclusive")
    /\ Goto(h, "exclusive")
    /\ UNCHANGED <<gate, published>>

\* The session lock is taken: acquire returns nullptr and closes the gate.
AcquireBusy(h) ==
    /\ \/ pc[h] = "gated shared" /\ ~Grants(sessions, h, "shared")
       \/ pc[h] = "gated exclusive" /\ ~Grants(sessions, h, "exclusive")
    /\ gate' = Locked(gate, h, "none")
    /\ Goto(h, "closed")
    /\ UNCHANGED <<sessions, published>>

-----------------------------------------------------------------------------
(* DictionaryLease::exclusively *)

\* Mutant: the sharing is converted without closing the gate to others.
PublishWithoutGate(h) ==
    /\ pc[h] = "shared"
    /\ Goto(h, "converting")
    /\ UNCHANGED <<gate, sessions, published>>

\* The gate first: it keeps every other publisher and new session out.
PublishGate(h) ==
    /\ pc[h] = "shared"
    /\ Grants(gate, h, "exclusive")
    /\ gate' = Locked(gate, h, "exclusive")
    /\ Goto(h, "converting")
    /\ UNCHANGED <<sessions, published>>

\* The gate is taken: busy, and the lease stays shared.
PublishBusy(h) ==
    /\ pc[h] = "shared"
    /\ ~Grants(gate, h, "exclusive")
    /\ published' = [published EXCEPT ![h] = "busy"]
    /\ UNCHANGED <<gate, sessions, pc>>

\* checked_lock(descriptor_, LOCK_UN): for a moment nothing is held but the gate.
PublishUnlock(h) ==
    /\ pc[h] = "converting"
    /\ sessions' = Locked(sessions, h, "none")
    /\ Goto(h, "unlocked")
    /\ UNCHANGED <<gate, published>>

\* try_lock on the session lock: the operation may run, or other sessions are
\* open and the sharing has to be restored.
PublishLock(h) ==
    /\ pc[h] = "unlocked"
    /\ IF Grants(sessions, h, "exclusive")
       THEN /\ sessions' = Locked(sessions, h, "exclusive")
            /\ Goto(h, "operating")
            /\ UNCHANGED published
       ELSE /\ Goto(h, "restoring")
            /\ published' = [published EXCEPT ![h] = "busy"]
            /\ UNCHANGED sessions
    /\ UNCHANGED gate

\* Mutant: the gate is opened as soon as the operation has ended.
OperateThenOpenGate(h) ==
    /\ pc[h] = "operating"
    /\ \E outcome \in {"done", "thrown"} :
            published' = [published EXCEPT ![h] = outcome]
    /\ gate' = Locked(gate, h, "none")
    /\ Goto(h, "restoring")
    /\ UNCHANGED sessions

\* operation() returns or throws; both restore the sharing.
PublishOperate(h) ==
    /\ pc[h] = "operating"
    /\ \E outcome \in {"done", "thrown"} :
            published' = [published EXCEPT ![h] = outcome]
    /\ Goto(h, "restoring")
    /\ UNCHANGED <<gate, sessions>>

\* flock does not convert atomically: the exclusive lock goes before the shared
\* one is requested.
RestoreDrop(h) ==
    /\ pc[h] = "restoring"
    /\ sessions[h] = "exclusive"
    /\ sessions' = Locked(sessions, h, "none")
    /\ UNCHANGED <<gate, pc, published>>

\* Mutant: restore waits for the exclusive lock instead of the shared one.
RestoreExclusive(h) ==
    /\ pc[h] = "restoring"
    /\ sessions[h] = "none"
    /\ Grants(sessions, h, "exclusive")
    /\ sessions' = Locked(sessions, h, "shared")
    /\ Goto(h, "ungating")
    /\ UNCHANGED <<gate, published>>

\* restore: a LOCK_SH on the session lock that blocks until it is granted.
RestoreShare(h) ==
    /\ pc[h] = "restoring"
    /\ sessions[h] = "none"
    /\ Grants(sessions, h, "shared")
    /\ sessions' = Locked(sessions, h, "shared")
    /\ Goto(h, "ungating")
    /\ UNCHANGED <<gate, published>>

\* Mutant: restore leaves the gate closed.
RestoreKeepingGate(h) ==
    /\ pc[h] = "ungating"
    /\ Goto(h, "shared")
    /\ UNCHANGED <<gate, sessions, published>>

\* restore: the gate is opened again, and only now may others enter.
RestoreGate(h) ==
    /\ pc[h] = "ungating"
    /\ gate' = Locked(gate, h, "none")
    /\ Goto(h, "shared")
    /\ UNCHANGED <<sessions, published>>

-----------------------------------------------------------------------------
\* The destructor of a lease, or the death of its process at any point: the
\* session lock is closed first and the gate after it.
CloseSessions(h) ==
    /\ pc[h] \notin {"closed", "closing"}
    /\ sessions' = Locked(sessions, h, "none")
    /\ Goto(h, "closing")
    /\ UNCHANGED <<gate, published>>

CloseGate(h) ==
    /\ pc[h] = "closing"
    /\ gate' = Locked(gate, h, "none")
    /\ Goto(h, "closed")
    /\ UNCHANGED <<sessions, published>>

-----------------------------------------------------------------------------
Publish(h) ==
    \/ PublishUnlock(h) \/ PublishLock(h) \/ PublishOperate(h)
    \/ RestoreDrop(h) \/ RestoreShare(h) \/ RestoreGate(h)

Next ==
    \E h \in Holders :
        \/ \E mode \in {"shared", "exclusive"} : AcquireGate(h, mode)
        \/ AcquireShared(h) \/ AcquireDone(h) \/ AcquireExclusive(h) \/ AcquireBusy(h)
        \/ PublishGate(h) \/ PublishBusy(h) \/ Publish(h)
        \/ CloseSessions(h) \/ CloseGate(h)

\* exclusively() runs on once it has the gate, and no holder stops inside
\* acquire; nobody has to start or to end a session.
Fairness ==
    \A h \in Holders :
        WF_vars(Publish(h) \/ AcquireShared(h) \/ AcquireDone(h)
                \/ AcquireExclusive(h) \/ AcquireBusy(h))

Spec == Init /\ [][Next]_vars /\ Fairness

-----------------------------------------------------------------------------
(* Properties *)

\* The values every variable keeps.
TypeOK ==
    /\ gate \in [Holders -> Flock]
    /\ sessions \in [Holders -> Flock]
    /\ pc \in [Holders -> HolderStates]
    /\ published \in [Holders -> Outcomes]

\* The flocks a holder has at each point of acquire and exclusively.
Fits(state, g, s) ==
    \/ state = "closed" /\ g = "none" /\ s = "none"
    \/ state = "gated shared" /\ g = "shared" /\ s = "none"
    \/ state = "gated exclusive" /\ g = "exclusive" /\ s = "none"
    \/ state = "opening" /\ g = "shared" /\ s = "shared"
    \/ state = "shared" /\ g = "none" /\ s = "shared"
    \/ state \in {"exclusive", "operating"} /\ g = "exclusive" /\ s = "exclusive"
    \/ state \in {"converting", "ungating"} /\ g = "exclusive" /\ s = "shared"
    \/ state = "unlocked" /\ g = "exclusive" /\ s = "none"
    \/ state = "restoring" /\ g = "exclusive" /\ s \in {"none", "exclusive"}
    \/ state = "closing" /\ s = "none"

\* Every holder has exactly the flocks its place needs: no early return, refused
\* conversion or throwing operation leaves a gate closed behind it or a session
\* without its share.
FlocksFit == \A h \in Holders : Fits(pc[h], gate[h], sessions[h])

\* What a holder may rely on at each point.  A publisher that has dropped its
\* flock still counts as sharing: nobody may rewrite the dictionaries behind its
\* back.
UseAt(state, flock) ==
    IF state \in {"exclusive", "operating"} \/ (state = "restoring" /\ flock = "exclusive")
    THEN "sole"
    ELSE IF state \in {"opening", "shared", "converting", "unlocked", "restoring", "ungating"}
    THEN "share"
    ELSE "none"

Use == [h \in Holders |-> UseAt(pc[h], sessions[h])]

Lease == INSTANCE LeaseSpec WITH use <- Use

\* The two flocks implement the lease: sole use excludes every other use, also
\* through the unlocked moment of a conversion, a refused publication, a throwing
\* operation and the death of any process.
ImplementsLease == Lease!Spec

\* restore() never has to wait for its blocking LOCK_SH: "nobody can take an
\* exclusive session lock during conversion or restoration of our sharing".
RestoreNeverWaits ==
    \A h \in Holders :
        pc[h] \in {"unlocked", "restoring"} => Grants(sessions, h, "shared")

\* A publication always ends with the holder sharing again, whether it ran, was
\* refused because other sessions stayed open, or threw -- unless the holder dies.
PublicationEnds ==
    \A h \in Holders :
        pc[h] \in {"converting", "unlocked", "operating", "restoring", "ungating"}
            ~> pc[h] \in {"shared", "closing"}

=============================================================================
