----------------------------- MODULE DataParts -----------------------------
(***************************************************************************)
(* The smaller parts of the runtime side by side: the table of timer       *)
(* containers, the netlink server, the kernel's list of memory blocks, the *)
(* growing array, the registry, the message buffer and the deletion of a   *)
(* module.  They share no state; the names of their variables are told     *)
(* apart here, and what each of them promises is stated here.              *)
(***************************************************************************)
EXTENDS TimerContainer, ZipcKernel

CONSTANTS
  Threads, Ptrs, MaxSize, Shrink,                  \* KernelMem
  Vals, Junk, FirstSizes, Steps, MaxLen,           \* ArrayList, Junk also of Buf
  Names, Comps, None, NameOf, KeyOf,               \* Registry
  Byte, Wrong, W, Chunks, Asked, InitLen, MaxBytes,  \* Buf
  NThrs                                            \* ModuleShutdown

VARIABLES
  kmem, blocks, owned, at, memfault,
  data, alloced, len, step, stored, arrayfault,
  index, count, look, found, since, regfault,
  buf, maxlen, buflen, offset, out, call, buffault,
  head, next, run, thrat, prev, del

M == INSTANCE KernelMem WITH fault <- memfault
A == INSTANCE ArrayList WITH Sizes <- FirstSizes, fault <- arrayfault
R == INSTANCE Registry WITH fault <- regfault
B == INSTANCE Buf WITH MaxLen <- MaxBytes, len <- buflen, fault <- buffault
Shut == INSTANCE ModuleShutdown WITH at <- thrat

-----------------------------------------------------------------------------
\* Cells of an array keep what was stored in them however it grows and shrinks, and
\* the kernel's list of blocks is exact whatever threads do to it in between
\* (zarraylist.c, zcrt_mem_kernal.c).
HeapSound == A!ArrayKeeps /\ M!MemExact

\* The hash table of an ipc server is a map from names to components: what a thread
\* registers and unregisters in the chains is what happens to the map; a lookup that
\* runs beside it, node by node, finds the component that was there all the time; and
\* the count is the number of nodes (zhash.c, zipc_server.c).
RegistryIsMap == R!Map!Spec /\ [](R!LookupFinds /\ R!CountExact)

\* A message buffer is a stream: what each call was given is what comes in, at the end
\* or instead of what was there, as many bytes as are asked for are read, in order and
\* once, and nothing of what the memory held before; and no call writes or moves past
\* the memory there is (zbuf.c).
BufIsStream == B!Stream!Spec /\ [](B!LengthsNest /\ B!NoOverrun)

\* Deleting the module tells every schedule thread to stop, although threads leave
\* the list it walks (zmodule.c, zschedule.c).
ShutdownTellsAll == Shut!AllTold
=============================================================================
