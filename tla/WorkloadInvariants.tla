-------------------------- MODULE WorkloadInvariants --------------------------
(***************************************************************************)
(* The inductive invariants of the manager: of its types, of the           *)
(* operation lock, and of what the store, the runtimes and the operations  *)
(* agree on. The proofs about the manager show that its steps keep them.   *)
(***************************************************************************)
EXTENDS WorkloadManager

\* The fields of a goroutine's record.
Fields == {"pc", "id", "req", "wl", "st", "tr", "vols", "then"}

\* A goroutine's record has all its fields.
Shaped(r) == r = [f \in Fields |-> r[f]]

\* Where a reconcile, a GetStatus and the freeing of volumes may be.
RecPC ==
  {"idle", "rec_load", "rec_observe", "rec_delete", "rec_create", "rec_restart", "rec_start",
   "rec_stop", "rec_recheck", "pend_stop", "pend_start", "pend_delete", "pend_save", "save"}

GetPC == {"idle", "get_workload", "get_observe", "get_save"}

FreePC == {"free_detach", "free_attachment", "free_lookup", "free_delete", "free_record"}

\* Between the first SaveWorkload of an apply and its last attachment.
SetUpPC == {"apply_initial", "vol_provision", "vol_record", "vol_attach", "vol_attachment"}

\* Where an operation has a status at hand, allocates a volume, and has allocated
\* none yet.
StatusPC ==
  {"commit", "save", "trans_save", "trans_status", "trans_start", "trans_stop", "trans_recheck",
   "rec_observe", "rec_delete", "rec_create", "rec_restart", "rec_start", "rec_stop", "rec_recheck",
   "pend_stop", "pend_start", "pend_delete", "pend_save", "get_workload", "get_observe", "get_save"}

AllocatePC == {"vol_provision", "vol_record", "vol_attach", "vol_attachment"}

EarlyPC == {"apply_status", "apply_admit", "apply_delete_old", "apply_save", "apply_initial"}

\* A volume with the policy it was allocated under; a release knows no policy yet.
Allocation == [vol : Vol, policy : {"none", "delete", "retain"}]

\* The local variables that are in use where the goroutine stands.
Held(r) ==
  /\ r.pc # "idle" => r.id \in WId
  /\ r.pc \in {"apply_status", "apply_admit"} => r.req \in Workload
  /\ r.pc \notin {"idle", "apply_admit", "get_workload"} => r.wl \in Workload
  /\ r.pc \in StatusPC => r.st \in Status
  /\ r.pc = "rec_start" => r.tr \in Tracker
  /\ r.pc \in AllocatePC => Len(r.vols) < Len(ManagedVolumes(r.wl))
  /\ r.pc \in EarlyPC => r.vols = <<>>
  /\ r.pc \in FreePC => r.vols # <<>> /\ r.then \in {"fail_read", "delete_store", "idle"}

\* The variables other than proc have their types.
StoreTyped ==
  /\ wl \in [WId -> Workload \cup {None}]
  /\ st \in [WId -> Status \cup {None}]
  /\ res \in [WType -> [WId -> Resource \cup {None}]]
  /\ tracker \in [WId -> Tracker \cup {None}]
  /\ lock \in [WId -> Proc \cup {None}]
  /\ vol \in [Vol -> Volume(WId)]
  /\ crashes \in 0 .. MaxCrashes

\* The goroutines have theirs.
ProcTyped == proc \in [Proc -> LocalState] /\ \A p \in Proc : Held(proc[p])

\* The inductive invariant of the types.
TypeInv == StoreTyped /\ ProcTyped

\* What holds of the goroutine p when its record is r, it has the lock l and x is
\* the stored workload.
Operation(p, r, l, x) ==
  /\ r.pc # "idle" => l = p
  /\ r.pc \in {"apply_status", "apply_admit"} => r.req \in Workload
  /\ r.pc \notin {"idle", "apply_admit"} => r.wl \in Workload
  /\ r.pc \in FreePC => r.then \in {"fail_read", "delete_store", "idle"}
  /\ r.pc \in SetUpPC => x # None
  /\ p \in RecProc => r.pc \in RecPC /\ (r.pc \notin {"idle", "save"} => r.wl = x)

\* The inductive invariant of the lock.
LockInv ==
  /\ proc = [q \in Proc |-> proc[q]]
  /\ \A q \in Proc : Shaped(proc[q])
  /\ wl \in [WId -> Workload \cup {None}]
  /\ lock = [i \in WId |-> lock[i]]
  /\ \A p \in OpProc \cup RecProc :
       /\ proc[p].pc # "idle" => proc[p].id \in WId
       /\ Operation(p, proc[p], lock[proc[p].id], wl[proc[p].id])
  /\ \A p \in GetProc : proc[p].pc \in GetPC

\* A runtime whose Delete always succeeds, and one type of workload.
SafeDelete == "delete" \notin RuntimeFaults /\ \A ty, tz \in WType : ty = tz

\* Nobody but the locked operations writes statuses, and no write fails.
Reliable == ~StoreFaults /\ GetProc = {}

\* Moreover a revision that is not admitted leaves no trace.
Replacing == SafeDelete /\ "full" \notin Admission

\* Where an operation works for the workload that is in the store.
AgreePC ==
  {"apply_initial", "vol_provision", "vol_record", "vol_attach", "vol_attachment", "vol_fail", "vol_save",
   "free_detach", "free_attachment", "free_lookup", "free_delete", "free_record",
   "apply_create", "apply_start", "apply_final", "commit",
   "trans_status", "trans_start", "trans_stop", "trans_recheck",
   "delete_runtime", "delete_list", "delete_store",
   "rec_load", "rec_observe", "rec_delete", "rec_create", "rec_restart", "rec_start", "rec_stop", "rec_recheck",
   "pend_stop", "pend_start", "pend_delete", "pend_save"}

\* Where it is on its way to a start.
StartPC ==
  {"apply_start", "trans_start", "rec_delete", "rec_create", "rec_restart", "rec_start", "pend_stop", "pend_start"}

\* Where a reconcile has decided to start or recreate.
RetryPC == {"rec_delete", "rec_create", "rec_restart", "rec_start"}

\* Where an operation carries the status it will save.
CarryPC ==
  {"commit", "save", "trans_save", "trans_status", "trans_start", "trans_stop", "trans_recheck",
   "rec_observe", "rec_delete", "rec_create", "rec_restart", "rec_start", "rec_stop", "rec_recheck",
   "pend_stop", "pend_start", "pend_delete", "pend_save"}

\* What holds of an operation at label l that has the workload w and the status t
\* in hand, when x and s are the stored ones and c is the number of crashes.
Carries(l, w, t, x, s, c) ==
  /\ l \in {"apply_status", "apply_admit"} => w = x
  /\ l \in AgreePC \cup {"trans_save"} => x # None /\ x.type = w.type /\ x.rev = w.rev
  /\ l \in AgreePC => x.desired = w.desired
  /\ l \in StartPC => w.desired = "Running"
  /\ GetProc = {} =>
       /\ l = "rec_observe" => t = s
       /\ l \in RetryPC => ~s.terminal
  /\ Reliable => (l \in {"fail_read", "save"} => x # None)
  /\ Replacing => l # "apply_reject"
  /\ Reliable /\ Replacing /\ c = 0 =>
       /\ l = "fail_read" => x.rev = w.rev
       /\ l \in CarryPC => t.rev = x.rev

\* The same of a resource m under the operation's ID: an apply finds none of another
\* revision when it saves its own, and a delete none at all when it releases volumes
\* and records.  n is where the operation goes on after the volumes.
Vacated(l, w, n, m) ==
  /\ SafeDelete =>
       /\ l \in {"delete_list", "delete_store"} => m = None
       /\ l \in FreePC /\ n = "delete_store" => m = None
  /\ Replacing => (l = "apply_save" /\ m # None => m.rev = w.rev)

\* What always holds of a workload x, its status s and a resource m under its ID.
Kept(x, s, m) ==
  /\ SafeDelete => (m # None => x # None)
  /\ Reliable => (x = None => s = None)
  /\ Replacing => (m # None => m.rev = x.rev)

\* The status names the revision that is stored, or an apply is about to renew it.
Current(i) ==
  wl[i] # None /\ st[i] # None /\ st[i].rev # wl[i].rev =>
    lock[i] \in OpProc /\ proc[lock[i]].pc = "apply_initial" /\ proc[lock[i]].id = i

\* What the operation of a goroutine carries, with what it has vacated in the runtimes.
Carried(p) ==
  LET r == proc[p]
  IN  /\ Carries(r.pc, r.wl, r.st, wl[r.id], st[r.id], crashes)
      /\ \A ty \in WType : Vacated(r.pc, r.wl, r.then, res[ty][r.id])

\* The inductive invariant of the store.
StoreInv ==
  /\ \A p \in OpProc \cup RecProc : proc[p].pc # "idle" => Carried(p)
  /\ \A i \in WId : \A ty \in WType : Kept(wl[i], st[i], res[ty][i])
  /\ Reliable /\ Replacing /\ crashes = 0 => \A i \in WId : Current(i)

\* A volume's entry has all its fields.
VolumeShaped(x) == x = [f \in {"dir", "stage", "rec", "att"} |-> x[f]]

\* The inductive invariant of the attachments.
AttachmentInv ==
  /\ vol = [v \in Vol |-> vol[v]]
  /\ \A v \in Vol : VolumeShaped(vol[v])
  /\ AttachmentsRecorded

\* One workload: nobody else names its volumes.
Alone == \A i, j \in WId : i = j

\* No revision names a volume twice.
Distinct ==
  \A r \in Rev : \A m, n \in 1 .. Len(VolumesOf[r]) : VolumesOf[r][m].vol = VolumesOf[r][n].vol => m = n

\* And what is detached or removed is gone.
Tidy == Distinct /\ VolumeFaults \cap {"detach", "remove"} = {}

\* The volume that is being set up, and the one that is being freed.
NextOf(w, vs) == ManagedVolumes(w)[Len(vs) + 1]

LastOf(vs) == vs[Len(vs)]

\* Where the volumes in hand are what this apply has allocated.  n is where the
\* operation goes on after it has freed them.
Allocated(l, n) ==
  l \in AllocatePC \cup {"vol_save", "apply_create", "apply_start"} \/ (l \in FreePC /\ n # "delete_store")

\* The allocations vs are the first ones of w, and their handles in x are theirs.
Recorded(w, vs, x) ==
  \A k \in 1 .. Len(vs) :
    k <= Len(ManagedVolumes(w)) /\ vs[k] = ManagedVolumes(w)[k] /\ x[vs[k].vol].rec = vs[k].policy

\* What holds of an operation at label l that has the workload w and the volumes vs
\* in hand, when x are the volumes: a local volume is there before its attachment is
\* saved, and a volume is removed after its attachment has gone, by the policy of the
\* handle that is stored; the handles of what was allocated are those of this revision.
Sound(l, w, vs, n, x) ==
  /\ l \in {"vol_record", "vol_attach", "vol_attachment"} =>
       (DriverOf[NextOf(w, vs).vol] = "local" => x[NextOf(w, vs).vol].dir)
  /\ l \in {"free_lookup", "free_delete", "free_record"} => x[LastOf(vs).vol].att = {}
  /\ l = "free_lookup" => n = "delete_store"
  /\ l = "free_delete" /\ n = "delete_store" => x[LastOf(vs).vol].rec = "delete"
  /\ l = "free_delete" /\ n # "delete_store" => LastOf(vs).policy # "retain"
  /\ Distinct /\ Allocated(l, n) => Recorded(w, vs, x)
  /\ Distinct /\ l \in {"vol_attach", "vol_attachment"} => x[NextOf(w, vs).vol].rec = NextOf(w, vs).policy

\* A volume that is in order while nobody works on it.
Clean(y) ==
  /\ y.dir /\ y.rec # "retain" => y.att # {}
  /\ y.dir => y.rec # "none"
  /\ y.stage \subseteq y.att

\* The volume that an operation is working on.
Hand(l, w, vs) ==
  IF l \in {"vol_record", "vol_attach", "vol_attachment"} THEN {NextOf(w, vs).vol}
  ELSE IF l \in {"free_attachment", "free_lookup", "free_delete", "free_record"} THEN {LastOf(vs).vol}
  ELSE {}

\* What is known of that volume; and that a delete works on all that is attached.
Handled(l, w, vs, n, x) ==
  /\ l \in {"vol_record", "vol_attach"} => x[NextOf(w, vs).vol].stage \subseteq x[NextOf(w, vs).vol].att
  /\ l \in {"free_attachment", "free_lookup", "free_delete", "free_record"} => x[LastOf(vs).vol].stage = {}
  /\ l \in {"free_attachment", "free_lookup"} => (x[LastOf(vs).vol].dir => x[LastOf(vs).vol].rec # "none")
  /\ l = "free_record" => ~x[LastOf(vs).vol].dir
  /\ l \in FreePC /\ n = "delete_store" =>
       \A v \in Vol : x[v].att # {} => \E k \in 1 .. Len(vs) : vs[k].vol = v
  /\ l = "delete_store" => \A v \in Vol : x[v].att = {}

\* A local volume is a directory, the others have staging directories.
Placed(v, y) ==
  /\ DriverOf[v] # "local" => ~y.dir
  /\ DriverOf[v] \notin {"nfs", "ceph-rbd"} => y.stage = {}
  /\ DriverOf[v] = "local" /\ y.att # {} => y.dir

\* The inductive invariant of the volumes.
VolumeInv ==
  /\ \A v \in Vol : Placed(v, vol[v])
  /\ \A p \in OpProc : Sound(proc[p].pc, proc[p].wl, proc[p].vols, proc[p].then, vol)
  /\ Tidy /\ crashes = 0 =>
       /\ \A p \in OpProc : Handled(proc[p].pc, proc[p].wl, proc[p].vols, proc[p].then, vol)
       /\ \A v \in Vol :
            Clean(vol[v]) \/ \E p \in OpProc : v \in Hand(proc[p].pc, proc[p].wl, proc[p].vols)
===============================================================================
