---------------------------- MODULE RootfsLease -----------------------------
(***************************************************************************)
(* What the operator promises about root filesystems, without controllers, *)
(* caches or pods.  An instance of a container is granted a filesystem,    *)
(* keeps that very filesystem until the instance ends or the filesystem is *)
(* evicted by somebody else, and may then be granted a new one.  Stopping  *)
(* and starting do not occur: they are no reason to change a lease.        *)
(***************************************************************************)
EXTENDS Naturals

CONSTANTS Names, None

VARIABLES inst,       \* uid of the instance of each name, or None
          rootfs,     \* uid of the filesystem it holds, or None
          fresh,      \* uids from here on have not been used
          evictions   \* evictions still to come

lvars == <<inst, rootfs, fresh, evictions>>

Init ==
    /\ inst = [n \in Names |-> None]
    /\ rootfs = [n \in Names |-> None]
    /\ fresh = 1
    /\ evictions \in Nat

Begin(n) ==
    /\ inst[n] = None
    /\ inst' = [inst EXCEPT ![n] = fresh]
    /\ fresh' = fresh + 1
    /\ UNCHANGED <<rootfs, evictions>>

Grant(n) ==
    /\ inst[n] # None /\ rootfs[n] = None
    /\ rootfs' = [rootfs EXCEPT ![n] = fresh]
    /\ fresh' = fresh + 1
    /\ UNCHANGED <<inst, evictions>>

End(n) ==
    /\ inst[n] # None
    /\ inst' = [inst EXCEPT ![n] = None]
    /\ rootfs' = [rootfs EXCEPT ![n] = None]
    /\ UNCHANGED <<fresh, evictions>>

Evict(n) ==
    /\ rootfs[n] # None /\ evictions > 0
    /\ rootfs' = [rootfs EXCEPT ![n] = None]
    /\ evictions' = evictions - 1
    /\ UNCHANGED <<inst, fresh>>

\* Other objects use up uids, evictions strike elsewhere.
Elsewhere ==
    /\ fresh' \in {fresh, fresh + 1}
    /\ evictions' \in {evictions, evictions - 1} /\ evictions' \in Nat
    /\ UNCHANGED <<inst, rootfs>>

Next == Elsewhere \/ \E n \in Names : Begin(n) \/ Grant(n) \/ End(n) \/ Evict(n)

Spec == Init /\ [][Next]_lvars
=============================================================================
