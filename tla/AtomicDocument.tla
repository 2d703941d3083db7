--------------------------- MODULE AtomicDocument ---------------------------
(* What a caller of readModifyWriteDoc may rely on, without the versions, the *)
(* attempts and the faults: the document holds one value; a call changes it   *)
(* in one step, from the value it has at that instant to Mutate of it. A call *)
(* that reports success made a change then; one that reports an error may have *)
(* made up to MaxRetries of them, none of which was based on an old value.    *)
EXTENDS Naturals

CONSTANTS Clients, Values, Absent, NoChange, Refusal, Mutate(_, _), MaxRetries

VARIABLES val, applied, result

avars == <<val, applied, result>>

Errors == {"refused", "conflict", "failed"}

Init ==
    /\ val \in Values \union {Absent}
    /\ applied = [c \in Clients |-> 0]
    /\ result = [c \in Clients |-> "none"]

(* A call starts. *)
Begin(c) ==
    /\ result[c] # "pending"
    /\ result' = [result EXCEPT ![c] = "pending"]
    /\ applied' = [applied EXCEPT ![c] = 0]
    /\ UNCHANGED val

(* The call's change, all at once; its success may never be reported.         *)
Change(c) ==
    /\ result[c] = "pending"
    /\ applied[c] < MaxRetries
    /\ Mutate(c, val) \in Values
    /\ val' = Mutate(c, val)
    /\ applied' = [applied EXCEPT ![c] = @ + 1]
    /\ \E r \in {"ok", "pending"} \union Errors : result' = [result EXCEPT ![c] = r]

(* The call finds nothing to change in the value as it is.                    *)
Leave(c) ==
    /\ result[c] = "pending"
    /\ Mutate(c, val) = NoChange
    /\ result' = [result EXCEPT ![c] = "unchanged"]
    /\ UNCHANGED <<val, applied>>

(* The caller's function rejects the value as it is.                          *)
Reject(c) ==
    /\ result[c] = "pending"
    /\ Mutate(c, val) = Refusal
    /\ result' = [result EXCEPT ![c] = "refused"]
    /\ UNCHANGED <<val, applied>>

(* The call gives up.                                                         *)
Fail(c) ==
    /\ result[c] = "pending"
    /\ \E r \in {"conflict", "failed"} : result' = [result EXCEPT ![c] = r]
    /\ UNCHANGED <<val, applied>>

(* The document is deleted (DeleteUser, DeleteSite).                          *)
Remove ==
    /\ val # Absent
    /\ val' = Absent
    /\ UNCHANGED <<applied, result>>

Next ==
    \/ \E c \in Clients : Begin(c) \/ Change(c) \/ Leave(c) \/ Reject(c) \/ Fail(c)
    \/ Remove

Spec == Init /\ [][Next]_avars
=============================================================================
