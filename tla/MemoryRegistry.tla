--------------------------- MODULE MemoryRegistry ---------------------------
(***************************************************************************)
(* The registration of buffers (shim/cuda_mr.cpp): MemoryRegistry gives a  *)
(* handle to a buffer that NCCL registers and pins the pages of host       *)
(* memory through CudaRuntime, which asks CUDA and falls back on mlock.    *)
(*                                                                         *)
(* The pages are pinned before the registry's lock is taken and the region *)
(* is entered under it, so two threads can register the same buffer at     *)
(* once; unpinning happens under the lock.  CUDA keeps one registration of *)
(* a buffer, whoever made it: a second cudaHostRegister fails, and the     *)
(* first cudaHostUnregister ends it.  mlock may fail (RLIMIT_MEMLOCK), and *)
(* nothing ever unlocks.                                                   *)
(*                                                                         *)
(* Abstracted: a region's size, since no two buffers overlap; its refcount *)
(* is always 1, as nothing increments it; device_ptr and flush, which no   *)
(* other state depends on.                                                 *)
(***************************************************************************)
EXTENDS Naturals, FiniteSets

CONSTANTS
  HostBuffers,    \* buffers in host memory
  DeviceBuffers,  \* buffers in device memory
  Registrars,     \* threads that call regMr
  NoBuffer,       \* a thread that registers nothing
  MaxRegions      \* bound on the handles given out

ASSUME RegistryAssumption ==
  /\ MaxRegions \in Nat
  /\ NoBuffer \notin HostBuffers \cup DeviceBuffers
  /\ HostBuffers \cap DeviceBuffers = {}

VARIABLES
  cuda,        \* CudaRuntime::ready_: libcudart is there
  registered,  \* buffers that CUDA holds page-locked
  locked,      \* buffers that mlock holds
  regions,     \* regions_: handle -> [addr, host_registered]
  next_id,     \* next_id_
  entering     \* per thread, the region it has pinned and not yet entered

registryVars == <<cuda, registered, locked, regions, next_id, entering>>

Idle == [addr |-> NoBuffer, host_registered |-> FALSE]

RegistryInit ==
  /\ cuda \in BOOLEAN
  /\ registered = {} /\ locked = {}
  /\ regions = [id \in {} |-> Idle]
  /\ next_id = 1
  /\ entering = [t \in Registrars |-> Idle]

(* CudaRuntime::host_register: CUDA if it can, else mlock.                 *)
HostRegister(addr) ==
  \/ /\ cuda /\ addr \notin registered
     /\ registered' = registered \cup {addr} /\ UNCHANGED locked
  \/ locked' = locked \cup {addr} /\ UNCHANGED registered

(* CudaRuntime::host_unregister: cudaHostUnregister fails, and changes     *)
(* nothing, when CUDA does not hold the buffer; mlock is never undone.     *)
\* mutant: the fallback's pages are unlocked as well
HostUnregisterUnlocks(addr) ==
  /\ registered' = registered \ {addr}
  /\ locked' = locked \ {addr}

HostUnregister(addr) ==
  /\ registered' = registered \ {addr}
  /\ UNCHANGED locked

(* register_mr up to the lock.  Nothing is pinned when CUDA and mlock both *)
(* fail, when the buffer is in device memory, and when it is said to be:   *)
(* by the caller, or by is_device_pointer, which takes a buffer that CUDA  *)
(* has mapped at its own address for device memory.                        *)
PinRegion(t, addr) ==
  /\ entering[t] = Idle
  /\ next_id <= MaxRegions
  /\ \/ /\ addr \in HostBuffers /\ HostRegister(addr)
        /\ entering' = [entering EXCEPT ![t] = [addr |-> addr, host_registered |-> TRUE]]
     \/ /\ UNCHANGED <<registered, locked>>
        /\ entering' = [entering EXCEPT ![t] = [addr |-> addr, host_registered |-> FALSE]]
  /\ UNCHANGED <<cuda, regions, next_id>>

(* register_mr under the lock.                                             *)
EnterRegion(t) ==
  /\ entering[t] # Idle
  /\ next_id <= MaxRegions
  /\ regions' = [id \in DOMAIN regions \cup {next_id} |->
                   IF id = next_id THEN entering[t] ELSE regions[id]]
  /\ next_id' = next_id + 1
  /\ entering' = [entering EXCEPT ![t] = Idle]
  /\ UNCHANGED <<cuda, registered, locked>>

(* deregister_mr; a handle that is not known changes nothing.              *)
DeregisterMr(id) ==
  /\ id \in DOMAIN regions
  /\ IF regions[id].host_registered THEN HostUnregister(regions[id].addr)
     ELSE UNCHANGED <<registered, locked>>
  /\ regions' = [other \in DOMAIN regions \ {id} |-> regions[other]]
  /\ UNCHANGED <<cuda, next_id, entering>>

RegistryNext ==
  \/ \E t \in Registrars, addr \in HostBuffers \cup DeviceBuffers : PinRegion(t, addr)
  \/ \E t \in Registrars : EnterRegion(t)
  \/ \E id \in DOMAIN regions : DeregisterMr(id)

RegistrySpec == RegistryInit /\ [][RegistryNext]_registryVars

-----------------------------------------------------------------------------
(* Properties *)

(* Type invariant: regions_ holds only handles that were given out.        *)
Regions == [addr : HostBuffers \cup DeviceBuffers, host_registered : BOOLEAN]

RegistryTypeOK ==
  /\ cuda \in BOOLEAN
  /\ registered \subseteq HostBuffers /\ locked \subseteq HostBuffers
  /\ next_id \in Nat \ {0}
  /\ DOMAIN regions \subseteq 1 .. (next_id - 1)
  /\ \A id \in DOMAIN regions : regions[id] \in Regions
  /\ entering \in [Registrars -> Regions \cup {Idle}]

(* A region that says its buffer is pinned is right as long as it is       *)
(* registered, also when the buffer was registered more than once, by      *)
(* several threads, and other handles to it are deregistered first; and    *)
(* CUDA holds no buffer for which there is no region (register_mr,         *)
(* cuda_mr.cpp:196-197, against deregister_mr, :223-226).                  *)
Claims(addr) ==
  { id \in DOMAIN regions : regions[id].host_registered /\ regions[id].addr = addr }

Entering(addr) ==
  { t \in Registrars : entering[t].host_registered /\ entering[t].addr = addr }

PinnedWhileRegistered ==
  \A addr \in HostBuffers :
    /\ Claims(addr) # {} => addr \in registered \cup locked
    /\ addr \in registered => Claims(addr) \cup Entering(addr) # {}
=============================================================================
