---------------------- MODULE ReadModifyWrite_proofs ------------------------
(* readModifyWriteDoc implements an atomic change of the document, for any    *)
(* number of calls, any function they apply, any number of attempts and any   *)
(* faults.                                                                    *)
EXTENDS ReadModifyWrite, TLAPS

LEMMA InitInv == Init => SnapInv
BY RetriesAssumption, ValuesAssumption DEF Init, SnapInv, TypeOK, Docs, NoDoc, Results

(* A step that leaves document and clock alone and moves one call c keeps the *)
(* invariant of every other call.                                             *)
LEMMA CallInv ==
    ASSUME SnapInv, NEW c \in Clients, Call(c) PROVE SnapInv'
BY RetriesAssumption DEF SnapInv, TypeOK, Docs, Results, Call

LEMMA ReadInv ==
    ASSUME SnapInv, NEW c \in Clients, Read(c) PROVE SnapInv'
BY RetriesAssumption, MutateAssumption, ValuesAssumption
    DEF SnapInv, TypeOK, Docs, Results, Read, Return

LEMMA FaultType ==
    ASSUME SnapInv, NEW c \in Clients, Fault(c)
    PROVE  faults' \in Nat /\ faulted' \in [Clients -> BOOLEAN]
BY DEF SnapInv, TypeOK, Fault

LEMMA ReadFailsInv ==
    ASSUME SnapInv, NEW c \in Clients, ReadFails(c) PROVE SnapInv'
<1>1. pc[c] = "read" /\ result[c] = "pending"
  BY DEF ReadFails, SnapInv
<1>2. CASE UNCHANGED <<pc, result>>
  BY <1>2, FaultType DEF SnapInv, TypeOK, ReadFails
<1>3. CASE Return(c, "failed")
  BY <1>1, <1>3, FaultType DEF SnapInv, TypeOK, Results, ReadFails, Return
<1> QED BY <1>2, <1>3 DEF ReadFails

LEMMA CommitDoc ==
    ASSUME SnapInv, NEW c \in Clients, pc[c] = "write", Commit(c)
    PROVE  /\ doc' \in Docs /\ clock' \in Nat
           /\ doc'.ver = clock' /\ doc'.val \in Values
           /\ clock' = clock + 1
           /\ applied' \in [Clients -> Nat]
           /\ applied'[c] = applied[c] + 1
           /\ \A d \in Clients : d # c => applied'[d] = applied[d]
BY DEF SnapInv, TypeOK, Docs, Commit

LEMMA WriteInv ==
    ASSUME SnapInv, NEW c \in Clients, Write(c) PROVE SnapInv'
<1>1. pc[c] = "write" /\ Commit(c)
  BY DEF Write
<1>2. TypeOK'
  BY <1>1, CommitDoc DEF Write, Return, SnapInv, TypeOK, Results
<1>3. (doc.ver <= clock /\ (doc.ver = 0 <=> doc.val = Absent))'
  BY <1>1, CommitDoc, ValuesAssumption DEF SnapInv, TypeOK, Docs
<1>4. ASSUME NEW d \in Clients
      PROVE  (/\ snap[d].ver <= clock
              /\ snap[d].ver = 0 <=> snap[d].val = Absent
              /\ snap[d].ver = doc.ver => snap[d].val = doc.val
              /\ pc[d] = "write" => Mutate(d, snap[d].val) \in Values
              /\ pc[d] # "idle" <=> result[d] = "pending"
              /\ pc[d] # "idle" => attempt[d] < MaxRetries
              /\ pc[d] = "backoff" => attempt[d] + 1 < MaxRetries /\ applied[d] <= attempt[d] + 1
              /\ pc[d] \in {"read", "write"} => applied[d] <= attempt[d])'
  BY <1>1, CommitDoc DEF SnapInv, TypeOK, Docs, Write, Return
<1> QED BY <1>2, <1>3, <1>4 DEF SnapInv

LEMMA WriteReplyLostInv ==
    ASSUME SnapInv, NEW c \in Clients, WriteReplyLost(c) PROVE SnapInv'
<1>1. pc[c] = "write" /\ Commit(c) /\ Fault(c)
  BY DEF WriteReplyLost
<1>2. TypeOK'
  BY <1>1, CommitDoc, FaultType DEF WriteReplyLost, AgainOrGiveUp, Return, SnapInv, TypeOK, Results
<1>3. (doc.ver <= clock /\ (doc.ver = 0 <=> doc.val = Absent))'
  BY <1>1, CommitDoc, ValuesAssumption DEF SnapInv, TypeOK, Docs
<1>4. ASSUME NEW d \in Clients
      PROVE  (/\ snap[d].ver <= clock
              /\ snap[d].ver = 0 <=> snap[d].val = Absent
              /\ snap[d].ver = doc.ver => snap[d].val = doc.val
              /\ pc[d] = "write" => Mutate(d, snap[d].val) \in Values
              /\ pc[d] # "idle" <=> result[d] = "pending"
              /\ pc[d] # "idle" => attempt[d] < MaxRetries
              /\ pc[d] = "backoff" => attempt[d] + 1 < MaxRetries /\ applied[d] <= attempt[d] + 1
              /\ pc[d] \in {"read", "write"} => applied[d] <= attempt[d])'
  BY <1>1, CommitDoc DEF SnapInv, TypeOK, Docs, WriteReplyLost, AgainOrGiveUp, Return
<1> QED BY <1>2, <1>3, <1>4 DEF SnapInv

LEMMA WriteRefusedInv ==
    ASSUME SnapInv, NEW c \in Clients, WriteRefused(c) PROVE SnapInv'
<1>1. CASE AgainOrGiveUp(c)
  <2>1. CASE UNCHANGED result
    <3>1. pc' = [pc EXCEPT ![c] = "backoff"] /\ attempt[c] + 1 < MaxRetries
      BY <1>1, <2>1, RetriesAssumption DEF AgainOrGiveUp, Return, WriteRefused, SnapInv, TypeOK
    <3> QED BY <2>1, <3>1 DEF SnapInv, TypeOK, Docs, WriteRefused
  <2>2. CASE Return(c, "conflict")
    BY <2>2 DEF SnapInv, TypeOK, Results, WriteRefused, Return
  <2> QED BY <1>1, <2>1, <2>2 DEF AgainOrGiveUp
<1>2. CASE Return(c, "failed")
  BY <1>2 DEF SnapInv, TypeOK, Docs, Results, WriteRefused, Return
<1> QED BY <1>1, <1>2 DEF WriteRefused

LEMMA WriteFailsInv ==
    ASSUME SnapInv, NEW c \in Clients, WriteFails(c) PROVE SnapInv'
BY FaultType DEF SnapInv, TypeOK, Docs, Results, WriteFails, AgainOrGiveUp, Return

LEMMA RetryInv ==
    ASSUME SnapInv, NEW c \in Clients, Retry(c) PROVE SnapInv'
BY DEF SnapInv, TypeOK, Docs, Results, Retry

LEMMA CancelInv ==
    ASSUME SnapInv, NEW c \in Clients, Cancel(c) PROVE SnapInv'
BY FaultType DEF SnapInv, TypeOK, Docs, Results, Cancel, Return

LEMMA DeleteInv == ASSUME SnapInv, Delete PROVE SnapInv'
BY DEF SnapInv, TypeOK, Docs, Delete, NoDoc

LEMMA NextInv == SnapInv /\ [Next]_vars => SnapInv'
<1> SUFFICES ASSUME SnapInv, [Next]_vars PROVE SnapInv'
  OBVIOUS
<1>1. CASE UNCHANGED vars
  BY <1>1 DEF vars, SnapInv, TypeOK
<1>2. ASSUME NEW c \in Clients, Call(c) \/ Step(c) PROVE SnapInv'
  BY <1>2, CallInv, ReadInv, ReadFailsInv, WriteInv, WriteReplyLostInv, WriteRefusedInv,
     WriteFailsInv, RetryInv, CancelInv DEF Step
<1> QED BY <1>1, <1>2, DeleteInv DEF Next

(* A call that writes under the version it read writes over the value it read: *)
(* versions are never reused, and a document that comes back after a deletion *)
(* has a new one.                                                             *)
THEOREM WritesOverWhatWasRead == Spec => []SnapInv
BY InitInv, NextInv, PTL DEF Spec

-----------------------------------------------------------------------------
(* Who gives up was overtaken: every attempt of a call that no fault has hit  *)
(* is lost to a write of another, or a deletion, that moved the clock.        *)

LEMMA InitOvertaken == Init => OvertakenInv
BY DEF Init, OvertakenInv

(* What a step of one call leaves of the others: the clock does not go back,  *)
(* and moves when the document does.                                          *)
LEMMA OthersOvertaken ==
    ASSUME SnapInv, OvertakenInv, NEW d \in Clients,
           clock' \in Nat, clock' >= clock, doc'.ver = doc.ver \/ clock' >= clock + 1,
           pc'[d] = pc[d], snap'[d] = snap[d], attempt'[d] = attempt[d],
           result'[d] = result[d], since'[d] = since[d], faulted'[d] = faulted[d],
           ~faulted[d]
    PROVE  (/\ pc[d] \in {"read", "write"} => clock >= since[d] + attempt[d]
            /\ pc[d] = "write" /\ ~Current(d) => clock >= since[d] + attempt[d] + 1
            /\ pc[d] = "backoff" => clock >= since[d] + attempt[d] + 1
            /\ result[d] = "conflict" => clock >= since[d] + MaxRetries)'
BY RetriesAssumption DEF OvertakenInv, SnapInv, TypeOK, Docs, Current

LEMMA StepOvertaken ==
    ASSUME SnapInv, OvertakenInv, NEW c \in Clients, Call(c) \/ Step(c)
    PROVE  OvertakenInv'
<1> DEFINE Counted(d) ==
        /\ pc[d] \in {"read", "write"} => clock >= since[d] + attempt[d]
        /\ pc[d] = "write" /\ ~Current(d) => clock >= since[d] + attempt[d] + 1
        /\ pc[d] = "backoff" => clock >= since[d] + attempt[d] + 1
        /\ result[d] = "conflict" => clock >= since[d] + MaxRetries
<1>1. clock' \in Nat /\ clock' >= clock /\ (doc'.ver = doc.ver \/ clock' >= clock + 1)
  BY DEF SnapInv, TypeOK, Docs, Call, Step, Read, ReadFails, Write, WriteReplyLost,
         WriteRefused, WriteFails, Retry, Cancel, Commit
<1>2. ASSUME NEW d \in Clients, d # c, ~faulted'[d] PROVE Counted(d)'
  <2>1. /\ pc'[d] = pc[d] /\ snap'[d] = snap[d] /\ attempt'[d] = attempt[d]
        /\ result'[d] = result[d] /\ since'[d] = since[d] /\ faulted'[d] = faulted[d]
    BY <1>2 DEF SnapInv, TypeOK, Call, Step, Read, ReadFails, Write, WriteReplyLost,
           WriteRefused, WriteFails, Retry, Cancel, Fault, AgainOrGiveUp, Return
  <2> QED BY <1>1, <1>2, <2>1, OthersOvertaken
<1>3. ASSUME ~faulted'[c] PROVE Counted(c)'
  <2>1. CASE Call(c)
    BY <2>1 DEF Call, SnapInv, TypeOK
  <2>2. CASE Read(c)
    BY <1>3, <2>2 DEF Read, Return, SnapInv, TypeOK, OvertakenInv, Current
  <2>3. CASE Write(c)
    BY <1>3, <2>3, <1>1 DEF Write, Return, SnapInv, TypeOK, OvertakenInv
  <2>4. CASE WriteRefused(c)
    <3>1. ~faulted[c] /\ clock >= since[c] + attempt[c] + 1 /\ attempt[c] < MaxRetries
      BY <1>3, <2>4 DEF WriteRefused, OvertakenInv, SnapInv
    <3>2. CASE AgainOrGiveUp(c) /\ UNCHANGED result
      BY <2>4, <3>1, <3>2, RetriesAssumption DEF WriteRefused, AgainOrGiveUp, Return, SnapInv, TypeOK
    <3>3. CASE Return(c, "conflict") /\ attempt[c] + 1 >= MaxRetries
      BY <2>4, <3>1, <3>3, RetriesAssumption DEF WriteRefused, Return, SnapInv, TypeOK
    <3>4. CASE Return(c, "failed")
      BY <2>4, <3>4 DEF WriteRefused, Return, SnapInv, TypeOK
    <3> QED BY <2>4, <3>2, <3>3, <3>4 DEF WriteRefused, AgainOrGiveUp
  <2>5. CASE Retry(c)
    BY <1>3, <2>5 DEF Retry, SnapInv, TypeOK, OvertakenInv
  <2>6. CASE ReadFails(c) \/ WriteReplyLost(c) \/ WriteFails(c) \/ Cancel(c)
    <3>1. faulted'[c]
      BY <2>6 DEF ReadFails, WriteReplyLost, WriteFails, Cancel, Fault, SnapInv, TypeOK
    <3> QED BY <1>3, <3>1
  <2> QED BY <2>1, <2>2, <2>3, <2>4, <2>5, <2>6 DEF Step
<1> QED BY <1>2, <1>3 DEF OvertakenInv

LEMMA NextOvertaken == SnapInv /\ OvertakenInv /\ [Next]_vars => OvertakenInv'
<1> SUFFICES ASSUME SnapInv, OvertakenInv, [Next]_vars PROVE OvertakenInv'
  OBVIOUS
<1>1. CASE UNCHANGED vars
  BY <1>1 DEF vars, OvertakenInv, Current
<1>2. CASE Delete
  <2>1. clock' \in Nat /\ clock' >= clock + 1
    BY <1>2 DEF Delete, SnapInv, TypeOK
  <2> QED BY <1>2, <2>1, OthersOvertaken DEF Delete, OvertakenInv, SnapInv, TypeOK
<1> QED BY <1>1, <1>2, StepOvertaken DEF Next

LEMMA OvertakenSuffices == OvertakenInv => OnlyOvertakenGiveUp
BY DEF OvertakenInv, OnlyOvertakenGiveUp

(* The contention loop is lock-free: a call that gives up without having met  *)
(* a fault was overtaken MaxRetries times by writes that went in.             *)
THEOREM GiveUpsWereOvertaken == Spec => []OnlyOvertakenGiveUp
<1>1. Spec => []OvertakenInv
  BY InitOvertaken, NextOvertaken, WritesOverWhatWasRead, PTL DEF Spec
<1> QED BY <1>1, OvertakenSuffices, PTL

-----------------------------------------------------------------------------
(* The refinement: each step is a step of the atomic document, or a stutter.  *)

LEMMA InitRefines == Init => Atomic!Init
BY DEF Init, NoDoc, Atomic!Init

LEMMA WritesRefine ==
    ASSUME SnapInv, NEW c \in Clients, Write(c) \/ WriteReplyLost(c)
    PROVE  Atomic!Change(c)
<1>1. pc[c] = "write" /\ snap[c].ver = doc.ver /\ Commit(c)
  BY DEF Write, WriteReplyLost, Current
<1>2. doc'.val = Mutate(c, doc.val) /\ Mutate(c, doc.val) \in Values
  BY <1>1 DEF Commit, SnapInv
<1>3. result[c] = "pending" /\ applied[c] < MaxRetries
  BY <1>1, RetriesAssumption DEF SnapInv, TypeOK
<1>4. \E r \in {"ok", "pending"} \union Atomic!Errors : result' = [result EXCEPT ![c] = r]
  <2>1. result = [result EXCEPT ![c] = "pending"]
    BY <1>3 DEF SnapInv, TypeOK
  <2> QED BY <2>1 DEF Write, WriteReplyLost, AgainOrGiveUp, Return, Atomic!Errors
<1> QED BY <1>1, <1>2, <1>3, <1>4 DEF Commit, Atomic!Change

LEMMA StepRefines ==
    ASSUME SnapInv, NEW c \in Clients, Call(c) \/ Step(c)
    PROVE  [Atomic!Next]_(Atomic!avars)
<1>1. CASE Call(c)
  <2>1. Atomic!Begin(c)
    BY <1>1 DEF Call, Atomic!Begin, SnapInv
  <2> QED BY <2>1 DEF Atomic!Next
<1>2. CASE Read(c)
  <2>0. result[c] = "pending"
    BY <1>2 DEF Read, SnapInv
  <2>1. CASE Mutate(c, doc.val) \in Values
    BY <1>2, <2>1, ValuesAssumption DEF Read, Return, Atomic!avars
  <2>2. CASE Mutate(c, doc.val) = NoChange
    <3>1. Atomic!Leave(c)
      BY <1>2, <2>0, <2>2, ValuesAssumption DEF Read, Return, Atomic!Leave
    <3> QED BY <3>1 DEF Atomic!Next
  <2>3. CASE Mutate(c, doc.val) = Refusal
    <3>1. Atomic!Reject(c)
      BY <1>2, <2>0, <2>3, ValuesAssumption DEF Read, Return, Atomic!Reject
    <3> QED BY <3>1 DEF Atomic!Next
  <2> QED BY <1>2, <2>1, <2>2, <2>3 DEF Read
<1>3. CASE Write(c) \/ WriteReplyLost(c)
  BY <1>3, WritesRefine DEF Atomic!Next
<1>4. ASSUME pc[c] # "idle", UNCHANGED <<doc, applied>>,
             \/ UNCHANGED result
             \/ \E r \in {"conflict", "failed"} : result' = [result EXCEPT ![c] = r]
      PROVE  [Atomic!Next]_(Atomic!avars)
  <2>1. result[c] = "pending"
    BY <1>4 DEF SnapInv
  <2>2. CASE UNCHANGED result
    BY <1>4, <2>2 DEF Atomic!avars
  <2>3. CASE \E r \in {"conflict", "failed"} : result' = [result EXCEPT ![c] = r]
    <3>1. Atomic!Fail(c)
      BY <1>4, <2>1, <2>3 DEF Atomic!Fail
    <3> QED BY <3>1 DEF Atomic!Next
  <2> QED BY <1>4, <2>2, <2>3
<1>5. CASE ReadFails(c)
  BY <1>4, <1>5 DEF ReadFails, Return
<1>6. CASE WriteRefused(c)
  BY <1>4, <1>6 DEF WriteRefused, AgainOrGiveUp, Return
<1>7. CASE WriteFails(c)
  BY <1>4, <1>7 DEF WriteFails, AgainOrGiveUp, Return
<1>8. CASE Retry(c)
  BY <1>8 DEF Retry, Atomic!avars
<1>9. CASE Cancel(c)
  BY <1>4, <1>9 DEF Cancel, Return
<1> QED BY <1>1, <1>2, <1>3, <1>5, <1>6, <1>7, <1>8, <1>9 DEF Step

LEMMA NextRefines == SnapInv /\ [Next]_vars => [Atomic!Next]_(Atomic!avars)
<1> SUFFICES ASSUME SnapInv, [Next]_vars PROVE [Atomic!Next]_(Atomic!avars)
  OBVIOUS
<1>1. CASE UNCHANGED vars
  BY <1>1 DEF vars, Atomic!avars
<1>2. CASE Delete
  <2>1. Atomic!Remove
    BY <1>2 DEF Delete, NoDoc, Atomic!Remove, SnapInv
  <2> QED BY <2>1 DEF Atomic!Next
<1> QED BY <1>1, <1>2, StepRefines DEF Next

(* readModifyWriteDoc is an atomic change: every write that commits takes the *)
(* document from the value it has at that instant to Mutate of it, a call     *)
(* commits at most MaxRetries of them, and one that reports success made one. *)
THEOREM EditsAreAtomic == Spec => ImplementsAtomic
BY InitRefines, NextRefines, WritesOverWhatWasRead, PTL DEF Spec, ImplementsAtomic, Atomic!Spec
=============================================================================
