------------------------------ MODULE Libraries ------------------------------
(***************************************************************************)
(* The libraries that the kernel and the programs are built from, side by  *)
(* side: a behaviour is about one of the data structures, the one of       *)
(* lib.kind.  Calls of Btree, Ihash, Zalloc, Slab, Reserve, BitArray,      *)
(* PthreadKeys, FreeSpace, AddressSpace, Shootdown and ThreadControl are   *)
(* sequential, their callers hold a lock; those of CapAlloc, Storage,      *)
(* Signals and Maps are made by threads; Activation is about one thread    *)
(* and the faults that it takes.                                           *)
(***************************************************************************)
EXTENDS Btree, Ihash, Zalloc, Slab, Reserve, ThreadControl, AddressSpace, CapAlloc, Storage,
        Signals, Activation, Maps, Shootdown

Init ==
    \/ BtreeInit \/ IhashInit \/ ZallocInit \/ SlabInit \/ ReserveInit \/ NumbersInit
    \/ AsInit \/ CapInit \/ StorageInit \/ SigInit \/ ActInit \/ MapInit \/ ShootInit

Next ==
    \/ BtreeNext \/ IhashNext \/ ZallocNext \/ SlabNext \/ ReserveNext \/ NumbersNext
    \/ AsNext \/ CapNext \/ StorageNext \/ SigNext \/ ActNext \/ MapNext \/ ShootNext

Spec == Init /\ [][Next]_vars
=============================================================================
