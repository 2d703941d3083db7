-------------------------- MODULE ReadModifyWrite ---------------------------
(* readModifyWriteDoc (pkg/storage/firestore.go): an optimistic change of one *)
(* document without a transaction. A call reads, computes the new content     *)
(* from what it read, and writes under the version it read: Create when there *)
(* was no document, Update with LastUpdateTime when there was one. A refused  *)
(* or failed write is tried again, from the read, five times at most. Reads   *)
(* and writes of any number of calls, on any number of instances, interleave; *)
(* a write may commit without its caller learning of it.                      *)
EXTENDS Naturals

CONSTANTS
    Clients,        \* calls that can be under way at once
    Values,         \* the document's contents
    Absent,         \* no document
    NoChange,       \* mutate returned no map and no error
    Refusal,        \* mutate returned an error
    Mutate(_, _),   \* the caller's function, of the call and what it read
    MaxRetries,     \* 5 in the code
    MaxReads,       \* 3 in the code: attempts of getDocWithRetry
    MaxCommits,     \* bound: no call begins once so many writes are in
    MaxFaults,      \* bound: failures of Firestore or of the network
    Outage          \* whether they may go on for ever instead

ASSUME RetriesAssumption == MaxRetries \in Nat \ {0} /\ MaxReads \in Nat \ {0}
ASSUME BoundsAssumption == MaxCommits \in Nat /\ MaxFaults \in Nat /\ Outage \in BOOLEAN
ASSUME ValuesAssumption ==
    /\ Absent \notin Values /\ NoChange \notin Values /\ Refusal \notin Values
    /\ NoChange # Refusal
ASSUME MutateAssumption ==
    \A c \in Clients : \A v \in Values \union {Absent} :
        Mutate(c, v) \in Values \union {NoChange, Refusal}

VARIABLES
    doc,        \* [ver, val]: its update time and content; version 0 is no document
    clock,      \* the source of update times
    pc,         \* where each call is
    snap,       \* what each call read last
    attempt,    \* its attempts so far (the loop variable)
    reads,      \* the read's own attempts so far
    result,     \* how its last call ended
    applied,    \* history: how many writes of this call committed
    since,      \* history: the clock when this call began
    faulted,    \* history: whether a fault hit this call
    faults      \* faults so far (bounded)

vars == <<doc, clock, pc, snap, attempt, reads, result, applied, since, faulted, faults>>

Docs == [ver : Nat, val : Values \union {Absent}]
Results == {"none", "pending", "ok", "unchanged", "refused", "conflict", "failed"}

TypeOK ==
    /\ doc \in Docs /\ clock \in Nat /\ faults \in Nat
    /\ pc \in [Clients -> {"idle", "read", "write", "backoff"}]
    /\ snap \in [Clients -> Docs]
    /\ attempt \in [Clients -> Nat] /\ reads \in [Clients -> Nat]
    /\ result \in [Clients -> Results]
    /\ applied \in [Clients -> Nat] /\ since \in [Clients -> Nat]
    /\ faulted \in [Clients -> BOOLEAN]

NoDoc == [ver |-> 0, val |-> Absent]

Init ==
    /\ doc \in {NoDoc} \union [ver : {1}, val : Values]
    /\ clock = 1
    /\ pc = [c \in Clients |-> "idle"]
    /\ snap = [c \in Clients |-> NoDoc]
    /\ attempt = [c \in Clients |-> 0]
    /\ reads = [c \in Clients |-> 0]
    /\ result = [c \in Clients |-> "none"]
    /\ applied = [c \in Clients |-> 0]
    /\ since = [c \in Clients |-> 0]
    /\ faulted = [c \in Clients |-> FALSE]
    /\ faults = 0

(* The call returns r.                                                        *)
Return(c, r) ==
    /\ pc' = [pc EXCEPT ![c] = "idle"]
    /\ result' = [result EXCEPT ![c] = r]

(* A step hit by a fault, as long as the bound allows one.                    *)
Fault(c) ==
    /\ \/ Outage /\ UNCHANGED faults
       \/ ~Outage /\ faults < MaxFaults /\ faults' = faults + 1
    /\ faulted' = [faulted EXCEPT ![c] = TRUE]

Call(c) ==
    /\ pc[c] = "idle" /\ clock < MaxCommits
    /\ pc' = [pc EXCEPT ![c] = "read"]
    /\ result' = [result EXCEPT ![c] = "pending"]
    /\ attempt' = [attempt EXCEPT ![c] = 0]
    /\ reads' = [reads EXCEPT ![c] = 0]
    /\ applied' = [applied EXCEPT ![c] = 0]
    /\ since' = [since EXCEPT ![c] = clock]
    /\ faulted' = [faulted EXCEPT ![c] = FALSE]
    /\ UNCHANGED <<doc, clock, snap, faults>>

(* The read returns, or says NotFound; the call's function decides on it.     *)
Read(c) ==
    /\ pc[c] = "read"
    /\ snap' = [snap EXCEPT ![c] = doc]
    /\ LET m == Mutate(c, doc.val) IN
       \/ m \in Values /\ pc' = [pc EXCEPT ![c] = "write"] /\ UNCHANGED result
       \/ m = NoChange /\ Return(c, "unchanged")
       \/ m = Refusal /\ Return(c, "refused")
    /\ UNCHANGED <<doc, clock, attempt, reads, applied, since, faulted, faults>>

(* The read fails: Unavailable or ResourceExhausted is tried again, up to     *)
(* MaxReads times, any other error ends the call.                             *)
ReadFails(c) ==
    /\ pc[c] = "read" /\ Fault(c)
    /\ reads' = [reads EXCEPT ![c] = @ + 1]
    /\ \/ reads[c] + 1 < MaxReads /\ UNCHANGED <<pc, result>>
       \/ Return(c, "failed")
    /\ UNCHANGED <<doc, clock, snap, attempt, applied, since>>

(* Slips a change of the code could make, for the mutants: Create replaced by *)
(* an unconditional Set; the last attempt cut; attempts no longer counted.    *)
SlipCurrent(c) == snap[c].ver = doc.ver \/ snap[c].ver = 0
SlipAgain(c) ==
    \/ /\ attempt[c] + 2 < MaxRetries
       /\ pc' = [pc EXCEPT ![c] = "backoff"]
       /\ UNCHANGED result
    \/ attempt[c] + 2 >= MaxRetries /\ Return(c, "conflict")
SlipUncounted(c) == pc' = [pc EXCEPT ![c] = "backoff"] /\ UNCHANGED result
SlipRetry(c) ==
    /\ pc[c] = "backoff"
    /\ pc' = [pc EXCEPT ![c] = "read"]
    /\ reads' = [reads EXCEPT ![c] = 0]
    /\ UNCHANGED <<doc, clock, snap, attempt, result, applied, since, faulted, faults>>

(* Firestore's own precondition: Create wants no document, Update the one read. *)
Current(c) == snap[c].ver = doc.ver

Commit(c) ==
    /\ doc' = [ver |-> clock + 1, val |-> Mutate(c, snap[c].val)]
    /\ clock' = clock + 1
    /\ applied' = [applied EXCEPT ![c] = @ + 1]

(* What a retryable error of the write leads to: another round, or, at the    *)
(* last attempt, its return to the caller.                                    *)
AgainOrGiveUp(c) ==
    \/ /\ attempt[c] + 1 < MaxRetries
       /\ pc' = [pc EXCEPT ![c] = "backoff"]
       /\ UNCHANGED result
    \/ attempt[c] + 1 >= MaxRetries /\ Return(c, "conflict")

Write(c) ==
    /\ pc[c] = "write" /\ Current(c)
    /\ Commit(c) /\ Return(c, "ok")
    /\ UNCHANGED <<snap, attempt, reads, since, faulted, faults>>

(* The write commits, and the reply is lost: Unavailable is retried, anything *)
(* else (a deadline, a cancelled request) is returned.                        *)
WriteReplyLost(c) ==
    /\ pc[c] = "write" /\ Current(c) /\ Fault(c)
    /\ Commit(c)
    /\ AgainOrGiveUp(c) \/ Return(c, "failed")
    /\ UNCHANGED <<snap, attempt, reads, since>>

(* FailedPrecondition, AlreadyExists: somebody else wrote. An Update of a     *)
(* document deleted meanwhile may also be answered NotFound, which is final.  *)
WriteRefused(c) ==
    /\ pc[c] = "write" /\ ~Current(c)
    /\ \/ AgainOrGiveUp(c)
       \/ doc.ver = 0 /\ Return(c, "failed")
    /\ UNCHANGED <<doc, clock, snap, attempt, reads, applied, since, faulted, faults>>

WriteFails(c) ==
    /\ pc[c] = "write" /\ Fault(c)
    /\ AgainOrGiveUp(c) \/ Return(c, "failed")
    /\ UNCHANGED <<doc, clock, snap, attempt, reads, applied, since>>

(* After the backoff: the next attempt, with a fresh read.                    *)
Retry(c) ==
    /\ pc[c] = "backoff"
    /\ pc' = [pc EXCEPT ![c] = "read"]
    /\ attempt' = [attempt EXCEPT ![c] = @ + 1]
    /\ reads' = [reads EXCEPT ![c] = 0]
    /\ UNCHANGED <<doc, clock, snap, result, applied, since, faulted, faults>>

(* The request's context ends during a backoff.                               *)
Cancel(c) ==
    /\ pc[c] = "backoff" /\ Fault(c) /\ Return(c, "failed")
    /\ UNCHANGED <<doc, clock, snap, attempt, reads, applied, since>>

(* DeleteUser, DeleteSite: an unconditional delete. A document made later has *)
(* a later update time.                                                       *)
Delete ==
    /\ doc.ver # 0 /\ clock < MaxCommits
    /\ doc' = NoDoc
    /\ clock' = clock + 1
    /\ UNCHANGED <<pc, snap, attempt, reads, result, applied, since, faulted, faults>>

Step(c) ==
    Read(c) \/ ReadFails(c) \/ Write(c) \/ WriteReplyLost(c) \/ WriteRefused(c)
        \/ WriteFails(c) \/ Retry(c) \/ Cancel(c)

Next == Delete \/ \E c \in Clients : Call(c) \/ Step(c)

Spec == Init /\ [][Next]_vars

(* A handler's goroutine is scheduled, and every call to Firestore returns.   *)
Fairness == \A c \in Clients : WF_vars(Step(c))
FairSpec == Spec /\ Fairness

-----------------------------------------------------------------------------
(* readModifyWriteDoc is an atomic change of the document: every write that   *)
(* commits takes the document from the value it has to Mutate of it, however  *)
(* the calls interleave, documents come and go and replies get lost.          *)
Atomic == INSTANCE AtomicDocument WITH val <- doc.val
ImplementsAtomic == Atomic!Spec

(* The contention loop is lock-free: a call that gives up without having met a *)
(* fault was overtaken, once an attempt, by others whose writes went in.      *)
OnlyOvertakenGiveUp ==
    \A c \in Clients :
        result[c] = "conflict" /\ ~faulted[c] => clock >= since[c] + MaxRetries

(* The inductive invariant behind both: a call that writes under the version  *)
(* it read writes over the value it read.                                     *)
SnapInv ==
    /\ TypeOK
    /\ doc.ver <= clock
    /\ doc.ver = 0 <=> doc.val = Absent
    /\ \A c \in Clients :
        /\ snap[c].ver <= clock
        /\ snap[c].ver = 0 <=> snap[c].val = Absent
        /\ snap[c].ver = doc.ver => snap[c].val = doc.val
        /\ pc[c] = "write" => Mutate(c, snap[c].val) \in Values
        /\ pc[c] # "idle" <=> result[c] = "pending"
        /\ pc[c] # "idle" => attempt[c] < MaxRetries
        /\ pc[c] = "backoff" => attempt[c] + 1 < MaxRetries /\ applied[c] <= attempt[c] + 1
        /\ pc[c] \in {"read", "write"} => applied[c] <= attempt[c]

(* The inductive invariant of the second: of a call that no fault has hit, the *)
(* clock counts the attempts it has lost, and runs ahead of them once its     *)
(* version is not the document's.                                             *)
OvertakenInv ==
    \A c \in Clients : ~faulted[c] =>
        /\ pc[c] \in {"read", "write"} => clock >= since[c] + attempt[c]
        /\ pc[c] = "write" /\ ~Current(c) => clock >= since[c] + attempt[c] + 1
        /\ pc[c] = "backoff" => clock >= since[c] + attempt[c] + 1
        /\ result[c] = "conflict" => clock >= since[c] + MaxRetries

(* Every call returns, with an answer or an error, however many others write: *)
(* it holds because the attempts are counted, not because a write succeeds.   *)
EveryCallReturns == \A c \in Clients : []<>(pc[c] = "idle")
=============================================================================
