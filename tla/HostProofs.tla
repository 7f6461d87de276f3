----------------------------- MODULE HostProofs -----------------------------
(***************************************************************************)
(* Proofs of HostCleansUp, for any number of host processes and enclaves,  *)
(* and of SharedObjectsAgree, for any sizes and addresses.  The invariant  *)
(* of QEMU says what an enclave that is alone may rely on: no other        *)
(* enclave of its name is in use or has a QEMU that is being started, and  *)
(* the socket, once there is one, is that of its own QEMU.  The invariant  *)
(* of the shared memory puts every object between the tuple and            *)
(* shmem_offset and behind the objects before it; the sums of addresses    *)
(* that the code computes wrap around, and the proofs show where they      *)
(* cannot.                                                                 *)
(***************************************************************************)
EXTENDS MCHost, TLAPS

\* The values of pc and of qemu, and those of a QEMU that is not yet listening.
Points == {"none", "spawn", "wait", "map", "ready", "joining", "destroying", "cleanup", "failed", "destroyed"}
QemuStates == {"none", "starting", "paused", "running", "exited", "reaped"}
Early == {"none", "starting"}

\* The types that the steps keep.
QemuTypes ==
  /\ pc \in [Instances -> Points] /\ qemu \in [Instances -> QemuStates] /\ DOMAIN monitor = 1..PerHost
  /\ ran \in [Instances -> BOOLEAN] /\ alone \in [Instances -> BOOLEAN] /\ joined \in [Instances -> BOOLEAN]

\* An instance that is alone and in use has the socket of its name to itself, and
\* what the host has seen is its own QEMU.
AloneOK(i) ==
  /\ \A r \in Rivals(i) : ~Going(r) /\ qemu[r] # "starting"
  /\ monitor[instance_id(i)] \in {None, i}
  /\ qemu[i] \notin Early => monitor[instance_id(i)] = i
  /\ pc[i] \notin {"spawn", "wait"} => qemu[i] \notin Early

\* What is true of an instance.
InstanceOK(i) ==
  /\ pc[i] \in {"none", "spawn"} => qemu[i] = "none" /\ ~ran[i] /\ ~joined[i]
  /\ pc[i] \in {"failed", "destroyed"} => qemu[i] \in {"none", "exited", "reaped"} \/ i \in terminated
  /\ i \in terminated => pc[i] \in {"failed", "destroyed"}
  /\ joined[i] \/ pc[i] \in {"cleanup", "destroyed"} => qemu[i] \in {"none", "reaped"}
  /\ monitor[instance_id(i)] = i => qemu[i] \notin Early
  /\ pc[i] = "destroyed" => monitor[instance_id(i)] # i
  /\ alone[i] /\ Going(i) => AloneOK(i)
  /\ alone[i] /\ pc[i] = "failed" => monitor[instance_id(i)] # i /\ qemu[i] # "starting"
  /\ alone[i] /\ ran[i] => qemu[i] \notin {"none", "starting", "paused"}

\* The invariant.
QemuInv == QemuTypes /\ \A i \in Instances : InstanceOK(i)

-----------------------------------------------------------------------------

\* The ids are in the domain.
LEMMA IdIn == ASSUME NEW i \in Instances PROVE instance_id(i) \in 1..PerHost
<1>1. PICK g \in 1..Runs, m \in 1..PerHost : i = <<g, m>>
  BY DEF Instances
<1> QED BY Zenon, <1>1 DEF instance_id

\* A QEMU that was resumed or reaped, or is as it was.
Later(j) ==
  \/ qemu'[j] = qemu[j]
  \/ qemu[j] = "paused" /\ qemu'[j] = "running"
  \/ qemu[j] = "exited" /\ qemu'[j] = "reaped"

\* What a step for an instance leaves as it is in another one.
Kept(j) ==
  /\ pc'[j] = pc[j] /\ ran'[j] = ran[j] /\ joined'[j] = joined[j] /\ Later(j)
  /\ (j \in terminated' <=> j \in terminated) /\ (alone'[j] => alone[j])

LEMMA KeepInstance ==
  ASSUME NEW j \in Instances, InstanceOK(j), Kept(j), Going(j)' => Going(j),
         \/ monitor'[instance_id(j)] = monitor[instance_id(j)]
         \/ monitor'[instance_id(j)] # j /\ ~(alone'[j] /\ Going(j)'),
         alone'[j] /\ Going(j)' => \A r \in Rivals(j) : ~Going(r)' /\ qemu'[r] # "starting"
  PROVE  InstanceOK(j)'
<1>1. /\ (qemu[j] \notin Early <=> qemu'[j] \notin Early) /\ (qemu'[j] = "none" <=> qemu[j] = "none")
      /\ (qemu'[j] = "starting" <=> qemu[j] = "starting")
      /\ (qemu'[j] = "paused" => qemu[j] = "paused")
      /\ (qemu[j] \in {"none", "reaped"} => qemu'[j] \in {"none", "reaped"})
      /\ (qemu[j] \in {"none", "exited", "reaped"} => qemu'[j] \in {"none", "exited", "reaped"})
  BY Zenon DEF Kept, Later, Early
<1>2. alone'[j] /\ Going(j)' => AloneOK(j)'
  <2>1. SUFFICES ASSUME alone'[j], Going(j)' PROVE AloneOK(j)'
    BY Zenon
  <2>2. AloneOK(j) /\ monitor'[instance_id(j)] = monitor[instance_id(j)]
    BY Zenon, <2>1 DEF InstanceOK, Kept
  <2>3. \A r \in Rivals(j)' : ~Going(r)' /\ (qemu[r] # "starting")'
    BY Zenon, <2>1 DEF Rivals
  <2> QED BY Zenon, <1>1, <2>2, <2>3 DEF AloneOK, Kept
<1>3. alone'[j] /\ pc'[j] = "failed" => monitor'[instance_id(j)] # j /\ qemu'[j] # "starting"
  BY Zenon, <1>1 DEF InstanceOK, Kept
<1>4. monitor'[instance_id(j)] = j => qemu'[j] \notin Early
  BY Zenon, <1>1 DEF InstanceOK
<1>5. pc'[j] = "destroyed" => monitor'[instance_id(j)] # j
  BY Zenon DEF InstanceOK, Kept
<1>6. alone'[j] /\ ran'[j] => qemu'[j] \notin {"none", "starting", "paused"}
  BY Zenon, <1>1 DEF InstanceOK, Kept
<1>7. /\ pc'[j] \in {"none", "spawn"} => qemu'[j] = "none" /\ ~ran'[j] /\ ~joined'[j]
      /\ pc'[j] \in {"failed", "destroyed"} => qemu'[j] \in {"none", "exited", "reaped"} \/ j \in terminated'
      /\ j \in terminated' => pc'[j] \in {"failed", "destroyed"}
      /\ joined'[j] \/ pc'[j] \in {"cleanup", "destroyed"} => qemu'[j] \in {"none", "reaped"}
  BY Zenon, <1>1 DEF InstanceOK, Kept
<1> QED BY Zenon, <1>2, <1>3, <1>4, <1>5, <1>6, <1>7 DEF InstanceOK

\* A step for the instance i, which is in use or whose QEMU is being started, or
\* which disturbs none that is alone.
StepOf(i) ==
  /\ ended' = ended /\ QemuTypes'
  /\ \A j \in Instances : j # i => Kept(j)
  /\ \A n \in 1..PerHost : n # instance_id(i) => monitor'[n] = monitor[n]
  /\ monitor'[instance_id(i)] \in {monitor[instance_id(i)], None, i}
  /\ \/ Going(i) \/ qemu[i] = "starting"
     \/ \A j \in Rivals(i) : ~(alone'[j] /\ Going(j))
     \/ monitor' = monitor /\ ~Going(i)' /\ qemu'[i] # "starting"

LEMMA TouchStep ==
  ASSUME QemuAssumption, QemuInv, NEW i \in Instances, StepOf(i), InstanceOK(i)'
  PROVE  QemuInv'
<1>1. ASSUME NEW j \in Instances, j # i PROVE InstanceOK(j)'
  <2>0. InstanceOK(j) /\ Kept(j) /\ None # j /\ ended' = ended
    BY Zenon, <1>1 DEF QemuInv, StepOf, QemuAssumption
  <2>1. \A r \in Instances : r # i => (Going(r)' <=> Going(r)) /\ (qemu'[r] = "starting" <=> qemu[r] = "starting")
    BY Zenon DEF StepOf, Kept, Later, Going, Alive
  <2>2. Going(j)' <=> Going(j)
    BY Zenon, <1>1, <2>1
  <2>3. CASE j \in Rivals(i)
    <3>1. i \in Rivals(j) /\ instance_id(j) = instance_id(i)
      BY Zenon, <1>1, <2>3 DEF Rivals
    <3>2. CASE alone'[j] /\ Going(j)
      <4>1. alone[j] /\ AloneOK(j)
        BY Zenon, <2>0, <3>2 DEF Kept, InstanceOK
      <4>2. ~Going(i) /\ qemu[i] # "starting"
        BY Zenon, <3>1, <4>1 DEF AloneOK
      <4>3. monitor' = monitor /\ ~Going(i)' /\ qemu'[i] # "starting"
        BY Zenon, <2>3, <3>2, <4>2 DEF StepOf
      <4>4. \A r \in Rivals(j) : ~Going(r)' /\ qemu'[r] # "starting"
        BY Zenon, <2>1, <4>1, <4>3 DEF AloneOK, Rivals
      <4> QED BY Zenon, <2>0, <2>2, <4>3, <4>4, KeepInstance
    <3>3. CASE ~(alone'[j] /\ Going(j))
      <4>1. monitor'[instance_id(j)] = monitor[instance_id(j)] \/ monitor'[instance_id(j)] # j
        BY Zenon, <1>1, <2>0, <3>1 DEF StepOf
      <4> QED BY Zenon, <2>0, <2>2, <3>3, <4>1, KeepInstance
    <3> QED BY Zenon, <3>2, <3>3
  <2>4. CASE j \notin Rivals(i)
    <3>1. instance_id(j) # instance_id(i)
      BY Zenon, <1>1, <2>4 DEF Rivals
    <3>2. monitor'[instance_id(j)] = monitor[instance_id(j)]
      BY Zenon, <3>1, IdIn DEF StepOf
    <3>3. \A r \in Rivals(j) : r # i /\ r \in Instances
      BY Zenon, <3>1 DEF Rivals
    <3>4. alone'[j] /\ Going(j)' => \A r \in Rivals(j) : ~Going(r)' /\ qemu'[r] # "starting"
      BY Zenon, <2>0, <2>1, <2>2, <3>3 DEF InstanceOK, AloneOK, Kept
    <3> QED BY Zenon, <2>0, <2>2, <3>2, <3>4, KeepInstance
  <2> QED BY Zenon, <2>3, <2>4
<1> QED BY Zenon, <1>1 DEF QemuInv, StepOf

\* No rival of an instance that is alone comes into use by a step of its own.
LEMMA RivalsQuiet ==
  ASSUME QemuInv, NEW i \in Instances, StepOf(i), alone[i], Going(i)
  PROVE  \A r \in Rivals(i)' : ~Going(r)' /\ (qemu[r] # "starting")'
<1>1. AloneOK(i) BY Zenon DEF QemuInv, InstanceOK
<1>2. \A r \in Rivals(i) : r \in Instances /\ r # i BY Zenon DEF Rivals
<1>3. \A r \in Rivals(i) : ~Going(r)' /\ (qemu[r] # "starting")'
  BY Zenon, <1>1, <1>2 DEF AloneOK, StepOf, Kept, Later, Going, Alive
<1> QED BY Zenon, <1>3 DEF Rivals

\* The host goes on, and nothing else changes.
LEMMA GoStep ==
  ASSUME QemuAssumption, QemuInv, NEW i \in Instances, Going(i),
         NEW q \in {"wait", "map", "ready", "joining", "destroying", "cleanup"}, Goto(i, q),
         q = "cleanup" => joined[i], q # "wait" /\ alone[i] => qemu[i] \notin Early,
         UNCHANGED <<qemu, terminated, monitor, shmem, joined, ended, history>>
  PROVE  QemuInv'
<1>1. /\ pc' = [pc EXCEPT ![i] = q] /\ qemu' = qemu /\ terminated' = terminated /\ monitor' = monitor
      /\ joined' = joined /\ ended' = ended /\ ran' = ran /\ alone' = alone
  BY Zenon DEF Goto, history
<1>2. q \in Points BY Zenon DEF Points
<1>3. pc' \in [Instances -> Points] /\ pc'[i] = q /\ \A j \in Instances : j # i => pc'[j] = pc[j]
  BY Zenon, <1>1, <1>2 DEF QemuInv, QemuTypes
<1>4. QemuTypes' BY Zenon, <1>1, <1>3 DEF QemuInv, QemuTypes
<1>5. StepOf(i) BY Zenon, <1>1, <1>3, <1>4 DEF StepOf, Kept, Later
<1>6. alone[i] => AloneOK(i) BY Zenon DEF QemuInv, InstanceOK
<1>7. alone'[i] /\ Going(i)' => AloneOK(i)'
  <2>1. SUFFICES ASSUME alone[i] PROVE AloneOK(i)' BY Zenon, <1>1
  <2>2. \A r \in Rivals(i)' : ~Going(r)' /\ (qemu[r] # "starting")' BY Zenon, <1>5, <2>1, RivalsQuiet
  <2>3. pc'[i] \notin {"spawn", "wait"} => qemu'[i] \notin Early BY Zenon, <1>1, <1>3, <2>1
  <2> QED BY Zenon, <1>1, <1>6, <2>1, <2>2, <2>3 DEF AloneOK
<1>8. i \notin terminated /\ pc'[i] \notin {"none", "spawn", "failed", "destroyed"}
  BY Zenon, <1>3 DEF QemuInv, InstanceOK, Going
<1>9. InstanceOK(i) BY Zenon DEF QemuInv
<1>10. joined'[i] \/ pc'[i] \in {"cleanup", "destroyed"} => qemu'[i] \in {"none", "reaped"}
  BY Zenon, <1>1, <1>3, <1>8, <1>9 DEF InstanceOK
<1>11. InstanceOK(i)' BY Zenon, <1>1, <1>7, <1>8, <1>9, <1>10 DEF InstanceOK
<1> QED BY Zenon, <1>5, <1>11, TouchStep

\* The constructor begins.
LEMMA RemoveStep ==
  ASSUME QemuAssumption, QemuInv, NEW i \in Instances, RemoveStale(i) PROVE QemuInv'
<1> DEFINE free == \A r \in Rivals(i) : ~Going(r) /\ qemu[r] # "starting"
           a == [j \in Instances |-> IF j = i THEN free ELSE alone[j] /\ ~(j \in Rivals(i) /\ Going(j))]
<1>1. /\ pc[i] = "none" /\ Alive(i) /\ pc' = [pc EXCEPT ![i] = "spawn"]
      /\ monitor' = [monitor EXCEPT ![instance_id(i)] = None] /\ alone' = a
      /\ qemu' = qemu /\ terminated' = terminated /\ joined' = joined /\ ended' = ended /\ ran' = ran
  BY Zenon DEF RemoveStale, At, Goto
<1>2. "spawn" \in Points BY Zenon DEF Points
<1>3. pc' \in [Instances -> Points] /\ pc'[i] = "spawn" /\ \A j \in Instances : j # i => pc'[j] = pc[j]
  BY Zenon, <1>1, <1>2 DEF QemuInv, QemuTypes
<1>4. /\ alone'[i] = free
      /\ \A j \in Instances : j # i => alone'[j] = (alone[j] /\ ~(j \in Rivals(i) /\ Going(j)))
  BY Zenon, <1>1
<1>5. alone' \in [Instances -> BOOLEAN]
  <2>1. \A j \in Instances : (IF j = i THEN free ELSE alone[j] /\ ~(j \in Rivals(i) /\ Going(j))) \in BOOLEAN
    BY Zenon
  <2> QED BY Zenon, <1>1, <2>1
<1>6. /\ DOMAIN monitor' = 1..PerHost /\ monitor'[instance_id(i)] = None
      /\ \A n \in 1..PerHost : n # instance_id(i) => monitor'[n] = monitor[n]
  BY Zenon, <1>1, IdIn DEF QemuInv, QemuTypes
<1>7. QemuTypes' BY Zenon, <1>1, <1>3, <1>5, <1>6 DEF QemuInv, QemuTypes
<1>8. \A j \in Instances : j # i => Kept(j)
  BY Zenon, <1>1, <1>3, <1>4 DEF Kept, Later
<1>9. \A j \in Rivals(i) : ~(alone'[j] /\ Going(j)) BY Zenon, <1>4 DEF Rivals
<1>10. StepOf(i) BY Zenon, <1>1, <1>6, <1>7, <1>8, <1>9 DEF StepOf
<1>11. InstanceOK(i) /\ None # i BY Zenon DEF QemuInv, QemuAssumption
<1>12. qemu[i] = "none" /\ ~ran[i] /\ ~joined[i] /\ i \notin terminated BY Zenon, <1>1, <1>11 DEF InstanceOK
<1>13. alone'[i] => AloneOK(i)'
  <2>1. SUFFICES ASSUME free PROVE AloneOK(i)' BY Zenon, <1>4
  <2>2. \A r \in Rivals(i) : ~Going(r)' /\ qemu'[r] # "starting"
    BY Zenon, <1>1, <1>3, <2>1 DEF Rivals, Going, Alive
  <2>3. \A r \in Rivals(i)' : ~Going(r)' /\ (qemu[r] # "starting")' BY Zenon, <2>2 DEF Rivals
  <2> QED BY Zenon, <1>1, <1>3, <1>6, <1>12, <2>3 DEF AloneOK, Early
<1> HIDE DEF a, free
<1>14. InstanceOK(i)' BY Zenon, <1>1, <1>3, <1>6, <1>11, <1>12, <1>13 DEF InstanceOK, Early
<1> QED BY Zenon, <1>10, <1>14, TouchStep

\* QEMU is spawned.
LEMMA SpawnStep ==
  ASSUME QemuAssumption, QemuInv, NEW i \in Instances, posix_spawn(i) PROVE QemuInv'
<1>1. /\ pc[i] = "spawn" /\ Alive(i) /\ pc' = [pc EXCEPT ![i] = "wait"] /\ qemu' = [qemu EXCEPT ![i] = "starting"]
      /\ terminated' = terminated /\ monitor' = monitor /\ joined' = joined /\ ended' = ended
      /\ ran' = ran /\ alone' = alone
  BY Zenon DEF posix_spawn, At, Goto, history
<1>2. "wait" \in Points /\ "starting" \in QemuStates /\ Going(i) BY Zenon, <1>1 DEF Points, QemuStates, Going
<1>3. /\ pc' \in [Instances -> Points] /\ pc'[i] = "wait" /\ qemu' \in [Instances -> QemuStates] /\ qemu'[i] = "starting"
      /\ \A j \in Instances : j # i => pc'[j] = pc[j] /\ qemu'[j] = qemu[j]
  BY Zenon, <1>1, <1>2 DEF QemuInv, QemuTypes
<1>4. QemuTypes' BY Zenon, <1>1, <1>3 DEF QemuInv, QemuTypes
<1>5. StepOf(i) BY Zenon, <1>1, <1>2, <1>3, <1>4 DEF StepOf, Kept, Later
<1>6. InstanceOK(i) BY Zenon DEF QemuInv
<1>7. qemu[i] = "none" /\ ~ran[i] /\ ~joined[i] /\ i \notin terminated /\ monitor[instance_id(i)] # i
  BY Zenon, <1>1, <1>6 DEF InstanceOK, Early
<1>8. alone'[i] => AloneOK(i)'
  <2>1. SUFFICES ASSUME alone[i] PROVE AloneOK(i)' BY Zenon, <1>1
  <2>2. \A r \in Rivals(i)' : ~Going(r)' /\ (qemu[r] # "starting")' BY Zenon, <1>2, <1>5, <2>1, RivalsQuiet
  <2>3. AloneOK(i) BY Zenon, <1>2, <1>6, <2>1 DEF InstanceOK
  <2> QED BY Zenon, <1>1, <1>3, <2>2, <2>3 DEF AloneOK, Early
<1>9. InstanceOK(i)' BY Zenon, <1>1, <1>3, <1>7, <1>8 DEF InstanceOK
<1> QED BY Zenon, <1>5, <1>9, TouchStep

\* cleanup, at the end of the destructor or of a constructor that throws.
LEMMA CleanupStep ==
  ASSUME QemuAssumption, QemuInv, NEW i \in Instances, Going(i), NEW q \in {"failed", "destroyed"},
         pc[i] \in {"map", "cleanup"}, q = "destroyed" => pc[i] = "cleanup",
         Goto(i, q), cleanup(i), UNCHANGED <<qemu, shmem, joined, ended, history>>
  PROVE  QemuInv'
<1>1. /\ pc' = [pc EXCEPT ![i] = q] /\ monitor' = [monitor EXCEPT ![instance_id(i)] = None]
      /\ terminated' = (IF qemu[i] = "none" THEN terminated ELSE terminated \cup {i})
      /\ qemu' = qemu /\ joined' = joined /\ ended' = ended /\ ran' = ran /\ alone' = alone
  BY Zenon DEF cleanup, Goto, history
<1>2. q \in Points BY Zenon DEF Points
<1>3. pc' \in [Instances -> Points] /\ pc'[i] = q /\ \A j \in Instances : j # i => pc'[j] = pc[j]
  BY Zenon, <1>1, <1>2 DEF QemuInv, QemuTypes
<1>4. /\ DOMAIN monitor' = 1..PerHost /\ monitor'[instance_id(i)] = None
      /\ \A n \in 1..PerHost : n # instance_id(i) => monitor'[n] = monitor[n]
  BY Zenon, <1>1, IdIn DEF QemuInv, QemuTypes
<1>5. QemuTypes' BY Zenon, <1>1, <1>3, <1>4 DEF QemuInv, QemuTypes
<1>6. \A j \in Instances : j # i => (j \in terminated' <=> j \in terminated) BY Zenon, <1>1
<1>7. StepOf(i) BY Zenon, <1>1, <1>3, <1>4, <1>5, <1>6 DEF StepOf, Kept, Later
<1>8. InstanceOK(i) /\ None # i BY Zenon DEF QemuInv, QemuAssumption
<1>9. qemu[i] = "none" \/ i \in terminated' BY Zenon, <1>1
<1>10. joined'[i] \/ pc'[i] \in {"cleanup", "destroyed"} => qemu'[i] \in {"none", "reaped"}
  BY Zenon, <1>1, <1>3, <1>8 DEF InstanceOK
<1>11. alone[i] => qemu[i] # "starting"
  BY Zenon, <1>8 DEF InstanceOK, AloneOK, Early
<1>12. ~Going(i)' /\ pc'[i] \notin {"none", "spawn"} BY Zenon, <1>3 DEF Going
<1>13. InstanceOK(i)' BY Zenon, <1>1, <1>3, <1>4, <1>8, <1>9, <1>10, <1>11, <1>12 DEF InstanceOK
<1> QED BY Zenon, <1>7, <1>13, TouchStep

\* async_run.
LEMMA RunStep ==
  ASSUME QemuAssumption, QemuInv, NEW i \in Instances, async_run(i) PROVE QemuInv'
<1> DEFINE m == monitor[instance_id(i)]
           Q(j) == IF j = m /\ qemu[j] = "paused" THEN "running" ELSE qemu[j]
<1>1. /\ pc[i] = "ready" /\ Alive(i) /\ ran' = [ran EXCEPT ![i] = TRUE] /\ qemu' = [j \in Instances |-> Q(j)]
      /\ pc' = pc /\ terminated' = terminated /\ monitor' = monitor /\ joined' = joined /\ ended' = ended /\ alone' = alone
  BY Zenon DEF async_run, At
<1>2. Going(i) BY Zenon, <1>1 DEF Going
<1>3. \A j \in Instances : qemu'[j] = Q(j) BY Zenon, <1>1
<1>4. \A j \in Instances : Later(j) BY Zenon, <1>3 DEF Later
<1>5. qemu' \in [Instances -> QemuStates]
  <2>1. \A j \in Instances : Q(j) \in QemuStates BY Zenon DEF QemuInv, QemuTypes, QemuStates
  <2> QED BY Zenon, <1>1, <2>1
<1>6. ran' \in [Instances -> BOOLEAN] /\ ran'[i] /\ \A j \in Instances : j # i => ran'[j] = ran[j]
  BY Zenon, <1>1 DEF QemuInv, QemuTypes
<1>7. QemuTypes' BY Zenon, <1>1, <1>5, <1>6 DEF QemuInv, QemuTypes
<1>8. StepOf(i) BY Zenon, <1>1, <1>2, <1>4, <1>6, <1>7 DEF StepOf, Kept
<1>9. InstanceOK(i) BY Zenon DEF QemuInv
<1>10. alone[i] => AloneOK(i) /\ m = i /\ qemu[i] \notin Early
  BY Zenon, <1>1, <1>2, <1>9 DEF InstanceOK, AloneOK
<1>11. (qemu'[i] \in Early <=> qemu[i] \in Early) /\ (qemu[i] \in {"none", "reaped"} => qemu'[i] = qemu[i])
  BY Zenon, <1>4 DEF Later, Early
<1>12. alone[i] => qemu'[i] \notin {"none", "starting", "paused"}
  BY Zenon, <1>3, <1>10 DEF Early
<1> HIDE DEF m, Q
<1>13. alone'[i] => AloneOK(i)'
  <2>1. SUFFICES ASSUME alone[i] PROVE AloneOK(i)' BY Zenon, <1>1
  <2>2. \A r \in Rivals(i)' : ~Going(r)' /\ (qemu[r] # "starting")' BY Zenon, <1>2, <1>8, <2>1, RivalsQuiet
  <2> QED BY Zenon, <1>1, <1>10, <1>11, <2>1, <2>2 DEF AloneOK
<1>14. joined'[i] \/ pc'[i] \in {"cleanup", "destroyed"} => qemu'[i] \in {"none", "reaped"}
  BY Zenon, <1>1, <1>9, <1>11 DEF InstanceOK
<1>15. InstanceOK(i)' BY Zenon, <1>1, <1>9, <1>11, <1>12, <1>13, <1>14 DEF InstanceOK
<1> QED BY Zenon, <1>8, <1>15, TouchStep

\* waitpid returns.
LEMMA WaitStep ==
  ASSUME QemuAssumption, QemuInv, NEW i \in Instances, waitpid(i) PROVE QemuInv'
<1> DEFINE q == IF pc[i] = "joining" THEN "ready" ELSE "cleanup"
<1>1. /\ pc[i] \in {"joining", "destroying"} /\ Alive(i) /\ pc' = [pc EXCEPT ![i] = q] /\ joined' = [joined EXCEPT ![i] = TRUE]
      /\ \/ Awaited(i) = {} /\ qemu' = qemu
         \/ \E j \in Awaited(i) : qemu[j] = "exited" /\ qemu' = [qemu EXCEPT ![j] = "reaped"]
      /\ terminated' = terminated /\ monitor' = monitor /\ ended' = ended /\ ran' = ran /\ alone' = alone
  BY Zenon DEF waitpid, Goto, history
<1>2. q \in {"ready", "cleanup"} /\ q \in Points /\ Going(i) BY Zenon, <1>1 DEF Points, Going
<1>3. /\ pc' \in [Instances -> Points] /\ pc'[i] = q /\ joined' \in [Instances -> BOOLEAN] /\ joined'[i]
      /\ \A j \in Instances : j # i => pc'[j] = pc[j] /\ joined'[j] = joined[j]
  BY Zenon, <1>1, <1>2 DEF QemuInv, QemuTypes
<1>4. /\ qemu' \in [Instances -> QemuStates] /\ \A j \in Instances : Later(j)
      /\ qemu'[i] \in {"none", "reaped"}
  <2>0. qemu \in [Instances -> QemuStates] BY Zenon DEF QemuInv, QemuTypes
  <2>1. CASE Awaited(i) = {} /\ qemu' = qemu
    <3>1. qemu[i] \in {"none", "reaped"}
      <4>1. qemu[i] \notin {"none", "reaped"} => i \in Awaited(i) BY Zenon DEF Awaited
      <4> QED BY Zenon, <2>1, <4>1
    <3> QED BY Zenon, <2>0, <2>1, <3>1 DEF Later
  <2>2. CASE \E j \in Awaited(i) : qemu[j] = "exited" /\ qemu' = [qemu EXCEPT ![j] = "reaped"]
    <3>1. PICK j \in Awaited(i) : qemu[j] = "exited" /\ qemu' = [qemu EXCEPT ![j] = "reaped"] BY Zenon, <2>2
    <3>2. j \in Instances /\ (qemu[i] = "none" \/ j = i) BY Zenon DEF Awaited
    <3>3. "reaped" \in QemuStates BY Zenon DEF QemuStates
    <3>4. /\ qemu' \in [Instances -> QemuStates] /\ qemu'[j] = "reaped" /\ \A x \in Instances : x # j => qemu'[x] = qemu[x]
      BY Zenon, <2>0, <3>1, <3>2, <3>3
    <3>5. \A x \in Instances : Later(x) BY Zenon, <3>1, <3>4 DEF Later
    <3> QED BY Zenon, <3>2, <3>4, <3>5
  <2> QED BY Zenon, <1>1, <2>1, <2>2
<1>5. QemuTypes' BY Zenon, <1>1, <1>3, <1>4 DEF QemuInv, QemuTypes
<1>6. StepOf(i) BY Zenon, <1>1, <1>2, <1>3, <1>4, <1>5 DEF StepOf, Kept
<1>7. InstanceOK(i) BY Zenon DEF QemuInv
<1>8. (qemu'[i] \in Early <=> qemu[i] \in Early) /\ qemu'[i] # "paused" /\ (qemu'[i] = "starting" <=> qemu[i] = "starting")
      /\ (qemu'[i] = "none" <=> qemu[i] = "none")
  BY Zenon, <1>4 DEF Later, Early
<1>9. alone'[i] => AloneOK(i)'
  <2>1. SUFFICES ASSUME alone[i] PROVE AloneOK(i)' BY Zenon, <1>1
  <2>2. \A r \in Rivals(i)' : ~Going(r)' /\ (qemu[r] # "starting")' BY Zenon, <1>2, <1>6, <2>1, RivalsQuiet
  <2>3. AloneOK(i) /\ qemu[i] \notin Early BY Zenon, <1>1, <1>2, <1>7, <2>1 DEF InstanceOK, AloneOK
  <2> QED BY Zenon, <1>1, <1>8, <2>2, <2>3 DEF AloneOK
<1> HIDE DEF q
<1>10. pc'[i] \notin {"none", "spawn", "failed", "destroyed"} /\ i \notin terminated
  BY Zenon, <1>1, <1>2, <1>3, <1>7 DEF InstanceOK
<1>11. InstanceOK(i)' BY Zenon, <1>1, <1>4, <1>7, <1>8, <1>9, <1>10 DEF InstanceOK
<1> QED BY Zenon, <1>6, <1>11, TouchStep

\* QEMU makes its socket.
LEMMA MonitorStep ==
  ASSUME QemuAssumption, QemuInv, NEW i \in Instances, QemuMonitor(i) PROVE QemuInv'
<1>1. /\ qemu[i] = "starting" /\ qemu' = [qemu EXCEPT ![i] = "paused"] /\ monitor' = [monitor EXCEPT ![instance_id(i)] = i]
      /\ pc' = pc /\ terminated' = terminated /\ joined' = joined /\ ended' = ended /\ ran' = ran /\ alone' = alone
  BY Zenon DEF QemuMonitor, history
<1>2. "paused" \in QemuStates BY Zenon DEF QemuStates
<1>3. /\ qemu' \in [Instances -> QemuStates] /\ qemu'[i] = "paused" /\ DOMAIN monitor' = 1..PerHost
      /\ \A j \in Instances : j # i => qemu'[j] = qemu[j]
  BY Zenon, <1>1, <1>2 DEF QemuInv, QemuTypes
<1>4. monitor'[instance_id(i)] = i /\ \A n \in 1..PerHost : n # instance_id(i) => monitor'[n] = monitor[n]
  BY Zenon, <1>1, IdIn DEF QemuInv, QemuTypes
<1>5. QemuTypes' BY Zenon, <1>1, <1>3 DEF QemuInv, QemuTypes
<1>6. StepOf(i) BY Zenon, <1>1, <1>3, <1>4, <1>5 DEF StepOf, Kept, Later
<1>7. InstanceOK(i) BY Zenon DEF QemuInv
<1>8. /\ pc[i] \notin {"none", "spawn", "cleanup", "destroyed"} /\ ~joined[i] /\ ~(alone[i] /\ ran[i])
      /\ ~(alone[i] /\ pc[i] = "failed")
  BY Zenon, <1>1, <1>7 DEF InstanceOK
<1>9. (pc[i] = "failed" => i \in terminated) BY Zenon, <1>1, <1>7 DEF InstanceOK
<1>10. alone'[i] /\ Going(i)' => AloneOK(i)'
  <2>1. SUFFICES ASSUME alone[i], Going(i) PROVE AloneOK(i)' BY Zenon, <1>1 DEF Going, Alive
  <2>2. \A r \in Rivals(i)' : ~Going(r)' /\ (qemu[r] # "starting")' BY Zenon, <1>6, <2>1, RivalsQuiet
  <2> QED BY Zenon, <1>3, <1>4, <2>2 DEF AloneOK, Early
<1>11. qemu'[i] \notin Early BY Zenon, <1>3 DEF Early
<1>12. InstanceOK(i)' BY Zenon, <1>1, <1>7, <1>8, <1>9, <1>10, <1>11 DEF InstanceOK
<1> QED BY Zenon, <1>6, <1>12, TouchStep

\* QEMU ends.
LEMMA ExitStep ==
  ASSUME QemuAssumption, QemuInv, NEW i \in Instances, QemuExits(i) PROVE QemuInv'
<1>1. /\ qemu[i] = "running" \/ (i \in terminated /\ qemu[i] \in {"starting", "paused"})
      /\ qemu' = [qemu EXCEPT ![i] = "exited"] /\ monitor' = monitor
      /\ pc' = pc /\ terminated' = terminated /\ joined' = joined /\ ended' = ended /\ ran' = ran /\ alone' = alone
  BY Zenon DEF QemuExits, history
<1>2. "exited" \in QemuStates BY Zenon DEF QemuStates
<1>3. /\ qemu' \in [Instances -> QemuStates] /\ qemu'[i] = "exited" /\ \A j \in Instances : j # i => qemu'[j] = qemu[j]
  BY Zenon, <1>1, <1>2 DEF QemuInv, QemuTypes
<1>4. QemuTypes' BY Zenon, <1>1, <1>3 DEF QemuInv, QemuTypes
<1>5. Going(i)' <=> Going(i) BY Zenon, <1>1 DEF Going, Alive
<1>6. StepOf(i) BY Zenon, <1>1, <1>3, <1>4, <1>5 DEF StepOf, Kept, Later
<1>7. InstanceOK(i) BY Zenon DEF QemuInv
<1>8. Going(i) => qemu[i] = "running" BY Zenon, <1>1, <1>7 DEF InstanceOK, Going
<1>9. qemu[i] \notin {"none", "reaped"} BY Zenon, <1>1
<1>10. alone'[i] /\ Going(i)' => AloneOK(i)'
  <2>1. SUFFICES ASSUME alone[i], Going(i) PROVE AloneOK(i)' BY Zenon, <1>1, <1>5
  <2>2. \A r \in Rivals(i)' : ~Going(r)' /\ (qemu[r] # "starting")' BY Zenon, <1>6, <2>1, RivalsQuiet
  <2>3. AloneOK(i) /\ qemu[i] \notin Early /\ qemu'[i] \notin Early BY Zenon, <1>3, <1>7, <1>8, <2>1 DEF InstanceOK, Early
  <2> QED BY Zenon, <1>1, <2>2, <2>3 DEF AloneOK
<1>11. pc[i] \notin {"none", "spawn", "cleanup", "destroyed"} /\ ~joined[i] BY Zenon, <1>7, <1>9 DEF InstanceOK
<1>12. qemu'[i] \notin Early /\ qemu'[i] \notin {"none", "starting", "paused"} BY Zenon, <1>3 DEF Early
<1>13. InstanceOK(i)' BY Zenon, <1>1, <1>3, <1>7, <1>10, <1>11, <1>12 DEF InstanceOK
<1> QED BY Zenon, <1>6, <1>13, TouchStep

\* A host process ends, and nothing else changes: no instance comes into use.
LEMMA EndStep ==
  ASSUME QemuInv, ended \subseteq ended',
         UNCHANGED <<pc, qemu, terminated, monitor, joined, history>>
  PROVE  QemuInv'
<1>1. /\ pc' = pc /\ qemu' = qemu /\ terminated' = terminated /\ monitor' = monitor /\ joined' = joined
      /\ ran' = ran /\ alone' = alone
  BY Zenon DEF history
<1>2. QemuTypes' BY Zenon, <1>1 DEF QemuInv, QemuTypes
<1>3. \A j \in Instances : Going(j)' => Going(j) BY Zenon, <1>1 DEF Going, Alive
<1>4. ASSUME NEW j \in Instances PROVE InstanceOK(j)'
  <2>1. InstanceOK(j) /\ Kept(j) BY Zenon, <1>1 DEF QemuInv, Kept, Later
  <2>2. alone'[j] /\ Going(j)' => \A r \in Rivals(j) : ~Going(r)' /\ qemu'[r] # "starting"
    BY Zenon, <1>1, <1>3, <2>1 DEF InstanceOK, AloneOK, Rivals
  <2> QED BY Zenon, <1>1, <1>3, <2>1, <2>2, KeepInstance
<1> QED BY Zenon, <1>2, <1>4 DEF QemuInv

LEMMA QemuInitial == ASSUME QemuAssumption, Init PROVE QemuInv
<1>1. "none" \in Points /\ "none" \in QemuStates BY Zenon DEF Points, QemuStates
<1>2. QemuTypes BY Zenon, <1>1 DEF Init, QemuTypes
<1>3. ASSUME NEW i \in Instances PROVE InstanceOK(i)
  <2>1. pc[i] = "none" /\ qemu[i] = "none" /\ ~ran[i] /\ ~joined[i] /\ ~alone[i] /\ i \notin terminated
    BY Zenon DEF Init
  <2>2. monitor[instance_id(i)] = None BY Zenon, IdIn DEF Init
  <2>3. None # i BY Zenon DEF QemuAssumption
  <2> QED BY Zenon, <2>1, <2>2, <2>3 DEF InstanceOK
<1> QED BY Zenon, <1>2, <1>3 DEF QemuInv

\* Every step preserves the invariant.
LEMMA QemuPreserved == ASSUME QemuAssumption, QemuInv, [Next]_vars PROVE QemuInv'
<1>1. ASSUME NEW i \in Instances, HostStep(i) PROVE QemuInv'
  <2>0. InstanceOK(i) BY Zenon DEF QemuInv
  <2>1. CASE RemoveStale(i) BY Zenon, <2>1, RemoveStep
  <2>2. CASE posix_spawn(i) BY Zenon, <2>2, SpawnStep
  <2>3. CASE SpawnFails(i)
    <3>1. Going(i) /\ Goto(i, "wait") /\ UNCHANGED <<qemu, terminated, monitor, shmem, joined, ended, history>>
      BY Zenon, <2>3 DEF SpawnFails, At, Going
    <3> QED BY Zenon, <3>1, GoStep
  <2>4. CASE WaitForMonitor(i)
    <3>1. /\ pc[i] = "wait" /\ Going(i) /\ Goto(i, "map") /\ monitor[instance_id(i)] # None
          /\ UNCHANGED <<qemu, terminated, monitor, shmem, joined, ended, history>>
      BY Zenon, <2>4 DEF WaitForMonitor, At, Going
    <3>2. alone[i] => qemu[i] \notin Early BY Zenon, <2>0, <3>1 DEF InstanceOK, AloneOK
    <3> QED BY Zenon, <3>1, <3>2, GoStep
  <2>5. CASE Map(i)
    <3>1. /\ pc[i] = "map" /\ Going(i) /\ Goto(i, "ready")
          /\ UNCHANGED <<qemu, terminated, monitor, shmem, joined, ended, history>>
      BY Zenon, <2>5 DEF Map, At, Going
    <3>2. alone[i] => qemu[i] \notin Early BY Zenon, <2>0, <3>1 DEF InstanceOK, AloneOK
    <3> QED BY Zenon, <3>1, <3>2, GoStep
  <2>6. CASE MapFails(i)
    <3>1. /\ pc[i] = "map" /\ Going(i) /\ Goto(i, "failed") /\ cleanup(i)
          /\ UNCHANGED <<qemu, shmem, joined, ended, history>>
      BY Zenon, <2>6 DEF MapFails, At, Going
    <3> QED BY Zenon, <3>1, CleanupStep
  <2>7. CASE async_run(i) BY Zenon, <2>7, RunStep
  <2>8. CASE join(i)
    <3> DEFINE q == IF joined[i] THEN "ready" ELSE "joining"
    <3>1. /\ pc[i] = "ready" /\ Going(i) /\ Goto(i, q) /\ q \in {"ready", "joining"}
          /\ UNCHANGED <<qemu, terminated, monitor, shmem, joined, ended, history>>
      BY Zenon, <2>8 DEF join, At, Going
    <3>2. alone[i] => qemu[i] \notin Early BY Zenon, <2>0, <3>1 DEF InstanceOK, AloneOK
    <3> HIDE DEF q
    <3> QED BY Zenon, <3>1, <3>2, GoStep
  <2>9. CASE Destroy(i)
    <3> DEFINE q == IF joined[i] THEN "cleanup" ELSE "destroying"
    <3>1. /\ pc[i] = "ready" /\ Going(i) /\ Goto(i, q) /\ q \in {"cleanup", "destroying"} /\ (q = "cleanup" => joined[i])
          /\ UNCHANGED <<qemu, terminated, monitor, shmem, joined, ended, history>>
      BY Zenon, <2>9 DEF Destroy, At, Going
    <3>2. alone[i] => qemu[i] \notin Early BY Zenon, <2>0, <3>1 DEF InstanceOK, AloneOK
    <3> HIDE DEF q
    <3> QED BY Zenon, <3>1, <3>2, GoStep
  <2>10. CASE waitpid(i) BY Zenon, <2>10, WaitStep
  <2>11. CASE Cleanup(i)
    <3>1. /\ pc[i] = "cleanup" /\ Going(i) /\ Goto(i, "destroyed") /\ cleanup(i)
          /\ UNCHANGED <<qemu, shmem, joined, ended, history>>
      BY Zenon, <2>11 DEF Cleanup, At, Going
    <3> QED BY Zenon, <3>1, CleanupStep
  <2> QED BY Zenon, <1>1, <2>1, <2>2, <2>3, <2>4, <2>5, <2>6, <2>7, <2>8, <2>9, <2>10, <2>11 DEF HostStep
<1>2. ASSUME NEW i \in Instances, QemuStep(i) PROVE QemuInv'
  <2>1. CASE QemuMemory(i) BY Zenon, <2>1, EndStep DEF QemuMemory
  <2> QED BY Zenon, <1>2, <2>1, MonitorStep, ExitStep DEF QemuStep
<1>3. ASSUME NEW h \in 1..Runs, HostEnds(h) PROVE QemuInv'
  BY Zenon, <1>3, EndStep DEF HostEnds
<1>4. CASE UNCHANGED vars BY Zenon, <1>4, EndStep DEF vars, history
<1> QED BY Zenon, <1>1, <1>2, <1>3, <1>4 DEF Next

\* An enclave under QEMU that is destroyed, or whose constructor throws, leaves
\* no QEMU behind that was not told to end, and not the socket that its QEMU has
\* made; async_run resumes the guest of its own instance, whatever host
\* processes that were killed have left, unless the name was in use by another
\* process or a QEMU of that name was still being started.
THEOREM CleansUp == Spec => []HostCleansUp
<1>1. QemuInv => HostCleansUp
  BY Zenon DEF QemuInv, InstanceOK, HostCleansUp, NothingLeftBehind, ResumesItsOwn
<1>2. Init => QemuInv BY Zenon, QemuInitial, MCHostAssumptions
<1>3. QemuInv /\ [Next]_vars => QemuInv' BY Zenon, QemuPreserved, MCHostAssumptions
<1> QED BY <1>1, <1>2, <1>3, PTL DEF Spec

-----------------------------------------------------------------------------
(* The shared memory. *)

\* The values of a word, and the places of objects in the shared memory.
Words == 0..WordSize - 1
Places == [start : Nat, size : Nat]

\* The types that the steps keep.
SharedTypes ==
  /\ types \in [tuple : TupleSizes, buffer : BufferSizes, offsets : OffsetsSizes \X Alignments]
  /\ shmem_offset \in 0..SHMEM_SIZE - 1
  /\ objects \in Seq(Places) /\ mapped \in Seq(Places) /\ Len(objects) <= 4
  /\ tuple \in [1..4 -> [start : Words, size : Words]]

\* What is true of the object i, and of it and a later one.
ObjectOK(i) ==
  /\ objects[i].start >= types.tuple /\ objects[i].size > 0
  /\ objects[i].start + objects[i].size <= shmem_offset
  /\ i \in {2, 4} => objects[i].start % types.offsets[2] = 0 /\ objects[i].size = types.offsets[1]
Apart(i, j) == i < j => objects[i].start + objects[i].size <= objects[j].start

\* What the host has done before it goes on, and the guest before it runs.
HostOK ==
  /\ host \in {"new", "allocating"} => guest = "off" /\ mapped = <<>>
  /\ host = "new" => shmem_offset = 0 /\ objects = <<>>
  /\ host = "allocating" => shmem_offset >= types.tuple
  /\ host = "ready" => mapped = <<>>
  /\ host \in {"ready", "running"} /\ Len(objects) = 4 => \A i \in 1..4 : tuple[i] = Shared!GuestAddress(objects[i])
  /\ guest # "off" => host = "running"

\* The invariant.
SharedInv ==
  /\ SharedTypes /\ HostOK
  /\ \A i \in 1..Len(objects) : ObjectOK(i)
  /\ \A i, j \in 1..Len(objects) : Apart(i, j)
  /\ Shared!GuestSeesTheSameObjects /\ Shared!AcceptedIsShared

-----------------------------------------------------------------------------

\* Sums that stay below w, sums that do not, and multiples of a.
LEMMA NoWrap ==
  ASSUME NEW w \in Nat \ {0}, NEW x \in 0..w - 1
  PROVE  x % w = x
  OBVIOUS

LEMMA Wraps ==
  ASSUME NEW w \in Nat \ {0}, NEW x \in w..2 * w - 1
  PROVE  x % w = x - w
  OBVIOUS

LEMMA RoundDown ==
  ASSUME NEW m \in Nat, NEW a \in Nat \ {0}
  PROVE  /\ (m \div a) * a \in 0..m /\ ((m \div a) * a) % a = 0
  OBVIOUS

\* What is assumed of the addresses.
LEMMA SharedConstants ==
  ASSUME Shared!SharedMemoryAssumption
  PROVE  /\ WordSize \in Nat \ {0} /\ SHMEM_SIZE \in Nat \ {0} /\ SHMEM_START \in Nat \ {0}
         /\ SHMEM_START + SHMEM_SIZE < WordSize
  BY DEF Shared!SharedMemoryAssumption

\* What the sizes are.
LEMMA SharedSizes ==
  ASSUME Shared!SharedMemoryAssumption, SharedTypes
  PROVE  /\ types.tuple \in Nat \ {0} /\ types.buffer \in Words /\ types.offsets[1] \in Words \ {0}
         /\ types.offsets[2] \in Nat \ {0}
<1>1. /\ types.tuple \in TupleSizes /\ types.buffer \in BufferSizes /\ types.offsets \in OffsetsSizes \X Alignments
  BY DEF SharedTypes
<1>2. types.offsets[1] \in OffsetsSizes /\ types.offsets[2] \in Alignments
  BY <1>1
<1>3. TupleSizes \subseteq Nat \ {0} /\ Alignments \subseteq Nat \ {0} /\ BufferSizes \subseteq Words /\ OffsetsSizes \subseteq Words \ {0}
  BY SharedConstants DEF Shared!SharedMemoryAssumption, Words
<1> QED BY Zenon, <1>1, <1>2, <1>3

\* A sum of two words that is not below the first has not wrapped around.
LEMMA SumIs ==
  ASSUME Shared!SharedMemoryAssumption, NEW x \in Words, NEW y \in Words, (x + y) % WordSize > x
  PROVE  (x + y) % WordSize = x + y /\ y > 0 /\ x + y < WordSize
<1>1. WordSize \in Nat \ {0}
  BY Zenon, SharedConstants
<1>2. CASE x + y \in 0..WordSize - 1
  <2>1. (x + y) % WordSize = x + y
    BY <1>1, <1>2, NoWrap
  <2> QED BY <1>1, <1>2, <2>1 DEF Words
<1>3. CASE x + y \in WordSize..2 * WordSize - 1
  <2>1. \A z \in WordSize..2 * WordSize - 1 : z % WordSize = z - WordSize
    BY Zenon, <1>1, Wraps
  <2>2. (x + y) % WordSize = (x + y) - WordSize
    BY Zenon, <1>3, <2>1
  <2> QED BY <1>1, <1>3, <2>2 DEF Words
<1> QED BY <1>1, <1>2, <1>3 DEF Words

\* AlignUp gives an aligned word, also where the sum wraps around.
LEMMA AlignIs ==
  ASSUME Shared!SharedMemoryAssumption, NEW n \in Nat, NEW a \in Nat \ {0}
  PROVE  Shared!AlignUp(n, a) \in Words /\ Shared!AlignUp(n, a) % a = 0
<1>1. WordSize \in Nat \ {0}
  BY Zenon, SharedConstants
<1>2. PICK m : m = (n + a - 1) % WordSize
  BY Zenon
<1>3. m \in Nat /\ m < WordSize
  BY <1>1, <1>2
<1>4. (m \div a) * a \in 0..m /\ ((m \div a) * a) % a = 0
  BY Zenon, <1>3, RoundDown
<1>5. Shared!AlignUp(n, a) = (m \div a) * a
  BY Zenon, <1>2 DEF Shared!AlignUp
<1>6. 0..m \subseteq Words
  BY <1>1, <1>3 DEF Words
<1> QED BY Zenon, <1>4, <1>5, <1>6

\* What an allocation that succeeds has found.
LEMMA FitsIs ==
  ASSUME Shared!SharedMemoryAssumption, SharedTypes, NEW start \in Words, NEW size \in Words, Shared!Fits(start, size)
  PROVE  /\ (start + size) % WordSize = start + size /\ size > 0 /\ start >= shmem_offset
         /\ start + size \in 0..SHMEM_SIZE - 1
<1>1. /\ start >= shmem_offset /\ (start + size) % WordSize > start /\ (start + size) % WordSize < SHMEM_SIZE
  BY Zenon DEF Shared!Fits
<1>2. (start + size) % WordSize = start + size /\ size > 0
  BY Zenon, <1>1, SumIs
<1>3. start + size < SHMEM_SIZE /\ start \in Nat /\ size \in Nat
  BY SharedConstants, <1>1, <1>2 DEF Words
<1> QED BY <1>1, <1>2, <1>3, SharedConstants

\* A sequence with an element added.
LEMMA Appended ==
  ASSUME NEW S, NEW s \in Seq(S), NEW e \in S
  PROVE  /\ Append(s, e) \in Seq(S) /\ Len(Append(s, e)) = Len(s) + 1
         /\ \A i \in 1..Len(s) : Append(s, e)[i] = s[i]
         /\ Append(s, e)[Len(s) + 1] = e
         /\ DOMAIN s = 1..Len(s) /\ DOMAIN Append(s, e) = 1..Len(s) + 1 /\ Len(s) \in Nat
  OBVIOUS

\* The fields of a place.
LEMMA PlaceIs ==
  ASSUME NEW n \in Nat, NEW m \in Nat
  PROVE  Shared!Range(n, m) \in Places /\ Shared!Range(n, m).start = n /\ Shared!Range(n, m).size = m
  BY DEF Shared!Range, Places

-----------------------------------------------------------------------------

\* Nothing is allocated at the start.
LEMMA SharedStarts ==
  ASSUME Shared!SharedMemoryAssumption, Shared!Init
  PROVE  SharedInv
<1>1. SharedTypes
  <2>1. 0 \in Words /\ 0 \in 0..SHMEM_SIZE - 1
    BY SharedConstants DEF Words
  <2>2. types \in [tuple : TupleSizes, buffer : BufferSizes, offsets : OffsetsSizes \X Alignments]
    BY DEF Shared!Init
  <2>3. tuple \in [1..4 -> [start : Words, size : Words]]
    BY <2>1 DEF Shared!Init, Shared!NoTuple, Shared!Range
  <2>4. objects \in Seq(Places) /\ mapped \in Seq(Places) /\ Len(objects) <= 4
    BY DEF Shared!Init
  <2> QED BY <2>1, <2>2, <2>3, <2>4 DEF SharedTypes, Shared!Init
<1>2. objects = <<>> /\ mapped = <<>> /\ host = "new" /\ guest = "off" /\ shmem_offset = 0
  BY Zenon DEF Shared!Init
<1>3. HostOK
  BY <1>2 DEF HostOK
<1>4. 1..Len(objects) = {} /\ DOMAIN mapped = {} /\ Len(objects) = 0
  BY <1>2
<1> QED BY <1>1, <1>3, <1>4 DEF SharedInv, Shared!GuestSeesTheSameObjects, Shared!AcceptedIsShared

\* Nothing changes.
LEMMA SharedSame ==
  ASSUME SharedInv, UNCHANGED Shared!vars
  PROVE  SharedInv'
  BY Zenon DEF SharedInv, Shared!vars, SharedTypes, HostOK, ObjectOK, Apart, Shared!GuestSeesTheSameObjects, Shared!AcceptedIsShared

\* The host gives up, before it starts the guest.
LEMMA ThrowStep ==
  ASSUME SharedInv, host \in {"new", "allocating"}, Shared!Throw
  PROVE  SharedInv'
<1>1. UNCHANGED <<types, shmem_offset, objects, tuple, guest, mapped>> /\ host' = "failed"
  BY Zenon DEF Shared!Throw
<1>2. SharedTypes' /\ Shared!GuestSeesTheSameObjects' /\ Shared!AcceptedIsShared'
  BY Zenon, <1>1 DEF SharedInv, SharedTypes, Shared!GuestSeesTheSameObjects, Shared!AcceptedIsShared
<1>3. HostOK'
  BY <1>1 DEF SharedInv, HostOK
<1>4. /\ \A i \in 1..Len(objects)' : ObjectOK(i)'
      /\ \A i, j \in 1..Len(objects)' : Apart(i, j)'
  BY Zenon, <1>1 DEF SharedInv, ObjectOK, Apart
<1> QED BY Zenon, <1>2, <1>3, <1>4 DEF SharedInv

\* The tuple is the first in the shared memory.
LEMMA ReserveStep ==
  ASSUME Shared!SharedMemoryAssumption, SharedInv, Shared!Reserve
  PROVE  SharedInv'
<1>1. /\ UNCHANGED <<types, objects, tuple, guest, mapped>> /\ host = "new" /\ host' = "allocating"
      /\ shmem_offset' = shmem_offset + types.tuple /\ types.tuple < SHMEM_SIZE
  BY Zenon DEF Shared!Reserve
<1>2. /\ shmem_offset = 0 /\ objects = <<>> /\ guest = "off" /\ mapped = <<>>
  BY <1>1 DEF SharedInv, HostOK
<1>3. types.tuple \in Nat \ {0}
  BY Zenon, SharedSizes DEF SharedInv
<1>4. shmem_offset' = types.tuple /\ shmem_offset' \in 0..SHMEM_SIZE - 1
  BY <1>1, <1>2, <1>3, SharedConstants
<1>5. SharedTypes'
  BY Zenon, <1>1, <1>4 DEF SharedInv, SharedTypes
<1>6. HostOK'
  BY <1>1, <1>2, <1>3, <1>4 DEF HostOK
<1>7. Shared!GuestSeesTheSameObjects' /\ Shared!AcceptedIsShared'
  BY Zenon, <1>1 DEF SharedInv, Shared!GuestSeesTheSameObjects, Shared!AcceptedIsShared
<1>8. /\ \A i \in 1..Len(objects)' : ObjectOK(i)'
      /\ \A i, j \in 1..Len(objects)' : Apart(i, j)'
  BY <1>1, <1>2
<1> QED BY Zenon, <1>5, <1>6, <1>7, <1>8 DEF SharedInv

\* An object that is allocated lies behind the ones before it.
LEMMA AllocateStep ==
  ASSUME Shared!SharedMemoryAssumption, SharedInv, host = "allocating", Len(objects) \in {0, 1, 2, 3},
         NEW size \in Words, NEW a \in Nat \ {0}, Shared!allocate_shared_inner(size, a),
         Len(objects) \in {1, 3} => size = types.offsets[1] /\ a = types.offsets[2]
  PROVE  SharedInv'
<1>1. PICK start : start = Shared!AlignUp(shmem_offset, a)
  BY Zenon
<1>2. SharedTypes /\ shmem_offset \in Nat /\ objects \in Seq(Places)
  BY DEF SharedInv, SharedTypes
<1>3. start \in Words /\ start % a = 0
  BY Zenon, <1>1, <1>2, AlignIs
<1>4. CASE Shared!Throw
  BY Zenon, <1>4, ThrowStep
<1>5. CASE /\ Shared!Fits(start, size)
           /\ shmem_offset' = (start + size) % WordSize
           /\ objects' = Append(objects, Shared!Range(start, size))
           /\ UNCHANGED <<host, types, tuple, guest, mapped>>
  <2>1. /\ (start + size) % WordSize = start + size /\ size > 0 /\ start >= shmem_offset
        /\ start + size \in 0..SHMEM_SIZE - 1
    BY Zenon, <1>2, <1>3, <1>5, FitsIs
  <2>2. shmem_offset' = start + size /\ shmem_offset' \in 0..SHMEM_SIZE - 1
    BY Zenon, <1>5, <2>1
  <2>3. start \in Nat /\ size \in Nat
    BY <1>3 DEF Words
  <2>4. Shared!Range(start, size) \in Places /\ Shared!Range(start, size).start = start /\ Shared!Range(start, size).size = size
    BY Zenon, <2>3, PlaceIs
  <2>5. PICK n : n = Len(objects)
    BY Zenon
  <2>6. /\ objects' \in Seq(Places) /\ Len(objects)' = n + 1 /\ n \in Nat
        /\ \A i \in 1..n : objects'[i] = objects[i]
        /\ objects'[n + 1] = Shared!Range(start, size)
    BY <1>2, <1>5, <2>4, <2>5, Appended
  <2>7. n \in {0, 1, 2, 3}
    BY Zenon, <2>5
  <2>8. types' = types /\ tuple' = tuple /\ guest' = guest /\ mapped' = mapped /\ host' = "allocating"
    BY Zenon, <1>5
  <2>9. SharedTypes'
    <3>1. Len(objects)' <= 4
      BY <2>6, <2>7
    <3> QED BY Zenon, <1>2, <2>2, <2>6, <2>8, <3>1 DEF SharedTypes
  <2>10. guest = "off" /\ mapped = <<>> /\ shmem_offset >= types.tuple
    BY Zenon DEF SharedInv, HostOK
  <2>11. types.tuple \in Nat
    BY Zenon, <1>2, SharedSizes
  <2>12. HostOK'
    <3>1. shmem_offset' >= types.tuple
      BY <1>2, <2>1, <2>2, <2>3, <2>10, <2>11
    <3> QED BY <2>8, <2>10, <3>1 DEF HostOK
  <2>13. Shared!GuestSeesTheSameObjects' /\ Shared!AcceptedIsShared'
    <3>1. DOMAIN mapped' = {}
      BY <2>8, <2>10
    <3> QED BY <2>8, <2>10, <3>1 DEF Shared!GuestSeesTheSameObjects, Shared!AcceptedIsShared
  <2>14. ASSUME NEW i \in 1..n PROVE
           /\ ObjectOK(i)' /\ objects[i] \in Places /\ objects'[i] = objects[i]
           /\ objects[i].start + objects[i].size <= start
    <3>1. ObjectOK(i)
      BY Zenon, <2>5, <2>14 DEF SharedInv
    <3>2. objects[i] \in Places /\ objects'[i] = objects[i]
      BY <1>2, <2>5, <2>6
    <3>3. objects[i].start + objects[i].size <= shmem_offset
      BY Zenon, <3>1 DEF ObjectOK
    <3>4. objects[i].start + objects[i].size <= start /\ objects[i].start + objects[i].size <= shmem_offset'
      BY <1>2, <2>1, <2>2, <2>3, <3>2, <3>3 DEF Places
    <3> QED BY Zenon, <2>8, <3>1, <3>2, <3>4 DEF ObjectOK
  <2>15. ObjectOK(n + 1)'
    <3>1. start >= types.tuple /\ start + size <= shmem_offset'
      BY <1>2, <2>1, <2>2, <2>3, <2>10, <2>11
    <3>2. n + 1 \in {2, 4} => n \in {1, 3}
      BY <2>7
    <3>3. n + 1 \in {2, 4} => start % types.offsets[2] = 0 /\ size = types.offsets[1]
      BY Zenon, <1>3, <2>5, <3>2
    <3> QED BY Zenon, <2>1, <2>4, <2>6, <2>8, <3>1, <3>3 DEF ObjectOK
  <2>16. \A i \in 1..Len(objects)' : i \in 1..n \/ i = n + 1
    BY <2>6
  <2>17. ASSUME NEW i \in 1..Len(objects)', NEW j \in 1..Len(objects)' PROVE Apart(i, j)'
    <3>1. CASE i \in 1..n /\ j \in 1..n
      <4>1. Apart(i, j)
        BY Zenon, <2>5, <3>1 DEF SharedInv
      <4> QED BY Zenon, <2>14, <3>1, <4>1 DEF Apart
    <3>2. CASE i \in 1..n /\ j = n + 1
      BY Zenon, <2>4, <2>6, <2>14, <3>2 DEF Apart
    <3>3. CASE i = n + 1
      <4>1. ~(i < j)
        BY <2>6, <3>3
      <4> QED BY Zenon, <4>1 DEF Apart
    <3> QED BY Zenon, <2>16, <3>1, <3>2, <3>3
  <2> QED BY Zenon, <2>9, <2>12, <2>13, <2>14, <2>15, <2>16, <2>17 DEF SharedInv
<1> QED BY Zenon, <1>1, <1>4, <1>5 DEF Shared!allocate_shared_inner

\* The host writes a tuple of words, the guest addresses of its objects when it
\* has four.
LEMMA InitializeStep ==
  ASSUME SharedInv, host = "allocating", NEW args, Shared!initialize(args),
         args \in [1..4 -> [start : Words, size : Words]],
         Len(objects) = 4 => \A i \in 1..4 : args[i] = Shared!GuestAddress(objects[i])
  PROVE  SharedInv'
<1>1. UNCHANGED <<types, shmem_offset, objects, guest, mapped>> /\ tuple' = args /\ host' = "ready"
  BY Zenon DEF Shared!initialize
<1>2. SharedTypes'
  BY Zenon, <1>1 DEF SharedInv, SharedTypes
<1>3. HostOK'
  <2>1. guest = "off" /\ mapped = <<>>
    BY Zenon DEF SharedInv, HostOK
  <2>2. Len(objects)' = 4 => \A i \in 1..4 : tuple'[i] = Shared!GuestAddress(objects[i])'
    BY Zenon, <1>1 DEF Shared!GuestAddress
  <2> QED BY <1>1, <2>1, <2>2 DEF HostOK
<1>4. Shared!GuestSeesTheSameObjects' /\ Shared!AcceptedIsShared'
  BY Zenon, <1>1 DEF SharedInv, Shared!GuestSeesTheSameObjects, Shared!AcceptedIsShared
<1>5. /\ \A i \in 1..Len(objects)' : ObjectOK(i)'
      /\ \A i, j \in 1..Len(objects)' : Apart(i, j)'
  BY Zenon, <1>1 DEF SharedInv, ObjectOK, Apart
<1> QED BY Zenon, <1>2, <1>3, <1>4, <1>5 DEF SharedInv

\* The guest address of an object of the host, and that it is a word.
LEMMA AddressIs ==
  ASSUME Shared!SharedMemoryAssumption, SharedInv, NEW i \in 1..Len(objects)
  PROVE  /\ Shared!GuestAddress(objects[i]) \in [start : Words, size : Words]
         /\ Shared!GuestAddress(objects[i]).start = SHMEM_START + objects[i].start
         /\ Shared!GuestAddress(objects[i]).size = objects[i].size
         /\ objects[i] \in Places /\ objects[i].size > 0
         /\ objects[i].start + objects[i].size < SHMEM_SIZE
<1>1. objects \in Seq(Places) /\ shmem_offset \in 0..SHMEM_SIZE - 1
  BY Zenon DEF SharedInv, SharedTypes
<1>2. objects[i] \in Places
  BY <1>1
<1>3. objects[i].size > 0 /\ objects[i].start + objects[i].size <= shmem_offset
  BY Zenon DEF SharedInv, ObjectOK
<1>4. objects[i].start \in Nat /\ objects[i].size \in Nat
  BY <1>2 DEF Places
<1>5. objects[i].start + objects[i].size < SHMEM_SIZE
  BY <1>1, <1>3, <1>4, SharedConstants
<1>6. SHMEM_START + objects[i].start \in Words /\ objects[i].size \in Words
  <2>1. PICK s \in Nat, n \in Nat : s = objects[i].start /\ n = objects[i].size
    BY Zenon, <1>4
  <2>2. s + n < SHMEM_SIZE
    BY Zenon, <1>5, <2>1
  <2>3. SHMEM_START + s \in Words /\ n \in Words
    BY <2>2, SharedConstants DEF Words
  <2> QED BY Zenon, <2>1, <2>3
<1> QED BY <1>2, <1>3, <1>5, <1>6 DEF Shared!GuestAddress, Shared!Range

\* RingbufferGuest passes its objects.
LEMMA InitializeRingsStep ==
  ASSUME Shared!SharedMemoryAssumption, SharedInv, Shared!InitializeRings
  PROVE  SharedInv'
<1>1. PICK args : args = [i \in 1..4 |-> Shared!GuestAddress(objects[i])]
  BY Zenon
<1>2. host = "allocating" /\ Len(objects) = 4 /\ Shared!initialize(args)
  BY Zenon, <1>1 DEF Shared!InitializeRings
<1>3. \A i \in 1..4 : args[i] = Shared!GuestAddress(objects[i])
  BY Zenon, <1>1
<1>4. \A i \in 1..4 : Shared!GuestAddress(objects[i]) \in [start : Words, size : Words]
  BY Zenon, <1>2, AddressIs
<1>5. args \in [1..4 -> [start : Words, size : Words]]
  BY Zenon, <1>1, <1>4
<1> QED BY Zenon, <1>2, <1>3, <1>5, InitializeStep

\* Another user passes what it likes.
LEMMA InitializeOtherStep ==
  ASSUME Shared!SharedMemoryAssumption, SharedInv, NEW n \in 1..4, NEW start \in OtherStarts,
         NEW size \in OtherSizes, Shared!InitializeOther(n, start, size)
  PROVE  SharedInv'
<1>1. PICK args : args = [i \in 1..4 |-> IF i = n THEN Shared!Range(start, size) ELSE Shared!Range(SHMEM_START, 1)]
  BY Zenon
<1>2. host = "allocating" /\ objects = <<>> /\ Shared!initialize(args)
  BY Zenon, <1>1 DEF Shared!InitializeOther
<1>3. start \in Words /\ size \in Words /\ SHMEM_START \in Words /\ 1 \in Words
  <2>1. OtherStarts \subseteq Words /\ OtherSizes \subseteq Words
    BY Zenon DEF Shared!SharedMemoryAssumption, Words
  <2>2. SHMEM_START \in Words /\ 1 \in Words
    BY DEF Words, Shared!SharedMemoryAssumption
  <2> QED BY Zenon, <2>1, <2>2
<1>4. args \in [1..4 -> [start : Words, size : Words]]
  BY <1>1, <1>3 DEF Shared!Range
<1>5. Len(objects) # 4
  BY <1>2
<1> QED BY Zenon, <1>2, <1>4, <1>5, InitializeStep

\* The guest starts, with nothing mapped.
LEMMA StartGuestStep ==
  ASSUME SharedInv, Shared!async_run
  PROVE  SharedInv'
<1>1. /\ UNCHANGED <<types, shmem_offset, objects, tuple, mapped>> /\ host = "ready" /\ host' = "running"
      /\ guest' = "main"
  BY Zenon DEF Shared!async_run
<1>2. SharedTypes' /\ Shared!AcceptedIsShared'
  BY Zenon, <1>1 DEF SharedInv, SharedTypes, Shared!AcceptedIsShared
<1>3. HostOK'
  <2>1. Len(objects)' = 4 => \A i \in 1..4 : tuple'[i] = Shared!GuestAddress(objects[i])'
    BY Zenon, <1>1 DEF SharedInv, HostOK, Shared!GuestAddress
  <2> QED BY <1>1, <2>1 DEF HostOK
<1>4. Shared!GuestSeesTheSameObjects'
  BY <1>1 DEF SharedInv, Shared!GuestSeesTheSameObjects
<1>5. /\ \A i \in 1..Len(objects)' : ObjectOK(i)'
      /\ \A i, j \in 1..Len(objects)' : Apart(i, j)'
  BY Zenon, <1>1 DEF SharedInv, ObjectOK, Apart
<1> QED BY Zenon, <1>2, <1>3, <1>4, <1>5 DEF SharedInv

-----------------------------------------------------------------------------

\* What check_valid_subrange accepts, it accepts for the object itself and not
\* for one whose end has wrapped around.
LEMMA ValidIs ==
  ASSUME Shared!SharedMemoryAssumption, NEW start \in Words, NEW size \in Words,
         Shared!check_valid_subrange(start, (start + size) % WordSize)
  PROVE  /\ start - SHMEM_START \in Nat /\ size \in Nat
         /\ (start - SHMEM_START) + size <= SHMEM_SIZE
<1>1. /\ start >= SHMEM_START
      /\ (start + size) % WordSize < SHMEM_START + SHMEM_SIZE /\ start < (start + size) % WordSize
  BY Zenon DEF Shared!check_valid_subrange
<1>2. start \in Nat /\ size \in Nat /\ (start + size) % WordSize \in Nat
  BY SharedConstants DEF Words
<1>3. (start + size) % WordSize > start
  BY <1>1, <1>2
<1>4. (start + size) % WordSize = start + size
  BY Zenon, <1>3, SumIs
<1> QED BY <1>1, <1>2, <1>4, SharedConstants

\* Every object that the host could allocate is accepted.
LEMMA AllocatedIsValid ==
  ASSUME Shared!SharedMemoryAssumption, NEW s \in Nat, NEW n \in Nat \ {0}, s + n < SHMEM_SIZE
  PROVE  Shared!check_valid_subrange(SHMEM_START + s, ((SHMEM_START + s) + n) % WordSize)
<1>1. (SHMEM_START + s) + n \in 0..WordSize - 1
  BY SharedConstants
<1>2. ((SHMEM_START + s) + n) % WordSize = (SHMEM_START + s) + n
  BY Zenon, <1>1, SharedConstants, NoWrap
<1> QED BY <1>2, SharedConstants DEF Shared!check_valid_subrange

\* One object of the tuple is looked at: it is taken where the host has put it,
\* or refused, which the ones of RingbufferGuest are not.
LEMMA MapStep ==
  ASSUME Shared!SharedMemoryAssumption, SharedInv, guest = "main", Len(mapped) \in {0, 1, 2, 3},
         NEW r, r = tuple[Len(mapped) + 1], NEW size \in Words, Len(objects) = 4 => size = r.size,
         \/ Shared!check_valid_subrange(r.start, (r.start + size) % WordSize) /\ Shared!Accept(Shared!Range(Shared!Pointer(r), size))
         \/ ~Shared!check_valid_subrange(r.start, (r.start + size) % WordSize) /\ Shared!Exit
  PROVE  SharedInv'
<1>1. /\ UNCHANGED <<host, types, shmem_offset, objects, tuple>>
  BY Zenon DEF Shared!Accept, Shared!Exit
<1>2. PICK n : n = Len(mapped)
  BY Zenon
<1>3. n \in {0, 1, 2, 3} /\ n + 1 \in 1..4
  BY <1>2
<1>4. tuple \in [1..4 -> [start : Words, size : Words]] /\ mapped \in Seq(Places) /\ objects \in Seq(Places)
  BY Zenon DEF SharedInv, SharedTypes
<1>5. r \in [start : Words, size : Words]
  BY Zenon, <1>2, <1>3, <1>4
<1>6. r.start \in Words
  BY <1>5
<1>7. host = "running"
  BY DEF SharedInv, HostOK
<1>8. ASSUME Len(objects) = 4
      PROVE  /\ r.start = SHMEM_START + objects[n + 1].start /\ size = objects[n + 1].size
             /\ objects[n + 1] \in Places
             /\ Shared!check_valid_subrange(r.start, (r.start + size) % WordSize)
  <2>1. r = Shared!GuestAddress(objects[n + 1])
    BY Zenon, <1>2, <1>3, <1>7, <1>8 DEF SharedInv, HostOK
  <2>2. n + 1 \in 1..Len(objects)
    BY Zenon, <1>3, <1>8
  <2>3. /\ r.start = SHMEM_START + objects[n + 1].start /\ r.size = objects[n + 1].size
        /\ objects[n + 1] \in Places /\ objects[n + 1].size > 0
        /\ objects[n + 1].start + objects[n + 1].size < SHMEM_SIZE
    BY Zenon, <2>1, <2>2, AddressIs
  <2>4. objects[n + 1].start \in Nat /\ objects[n + 1].size \in Nat \ {0}
    BY <2>3 DEF Places
  <2>5. Shared!check_valid_subrange(SHMEM_START + objects[n + 1].start,
          ((SHMEM_START + objects[n + 1].start) + objects[n + 1].size) % WordSize)
    BY Zenon, <2>3, <2>4, AllocatedIsValid
  <2> QED BY Zenon, <1>8, <2>3, <2>5
<1>9. /\ \A i \in 1..Len(objects)' : ObjectOK(i)'
      /\ \A i, j \in 1..Len(objects)' : Apart(i, j)'
  BY Zenon, <1>1 DEF SharedInv, ObjectOK, Apart
<1>10. HostOK'
  <2>1. Len(objects)' = 4 => \A i \in 1..4 : tuple'[i] = Shared!GuestAddress(objects[i])'
    BY Zenon, <1>1, <1>7 DEF SharedInv, HostOK, Shared!GuestAddress
  <2> QED BY <1>1, <1>7, <2>1 DEF HostOK
<1>11. CASE ~Shared!check_valid_subrange(r.start, (r.start + size) % WordSize) /\ Shared!Exit
  <2>1. mapped' = mapped /\ Len(objects)' # 4
    BY Zenon, <1>1, <1>8, <1>11 DEF Shared!Exit
  <2>2. SharedTypes' /\ Shared!AcceptedIsShared' /\ Shared!GuestSeesTheSameObjects'
    BY Zenon, <1>1, <2>1 DEF SharedInv, SharedTypes, Shared!AcceptedIsShared, Shared!GuestSeesTheSameObjects
  <2> QED BY Zenon, <1>9, <1>10, <2>2 DEF SharedInv
<1>12. CASE Shared!check_valid_subrange(r.start, (r.start + size) % WordSize) /\ Shared!Accept(Shared!Range(Shared!Pointer(r), size))
  <2>1. PICK s : s = r.start - SHMEM_START
    BY Zenon
  <2>2. s \in Nat /\ size \in Nat /\ s + size <= SHMEM_SIZE
    BY Zenon, <1>6, <1>12, <2>1, ValidIs
  <2>3. Shared!Range(s, size) \in Places /\ Shared!Range(s, size).start = s /\ Shared!Range(s, size).size = size
    BY Zenon, <2>2, PlaceIs
  <2>4. mapped' = Append(mapped, Shared!Range(s, size)) /\ guest' \in {"app_main", "main"}
    BY <1>12, <2>1 DEF Shared!Accept, Shared!Pointer
  <2>5. /\ mapped' \in Seq(Places) /\ DOMAIN mapped = 1..n /\ DOMAIN mapped' = 1..n + 1
        /\ \A i \in 1..n : mapped'[i] = mapped[i]
        /\ mapped'[n + 1] = Shared!Range(s, size)
    BY <1>2, <1>4, <2>3, <2>4, Appended
  <2>6. \A i \in 1..n + 1 : i \in 1..n \/ i = n + 1
    BY <1>3
  <2>7. SharedTypes'
    BY Zenon, <1>1, <2>5 DEF SharedInv, SharedTypes
  <2>8. Shared!AcceptedIsShared'
    <3>1. s >= 0
      BY <2>2
    <3> QED BY Zenon, <2>2, <2>3, <2>5, <2>6, <3>1 DEF SharedInv, Shared!AcceptedIsShared
  <2>9. Shared!GuestSeesTheSameObjects'
    <3>1. SUFFICES ASSUME Len(objects) = 4
                   PROVE  guest' # "exited" /\ \A i \in 1..n + 1 : mapped'[i] = objects[i]
      BY Zenon, <1>1, <2>5 DEF Shared!GuestSeesTheSameObjects
    <3>2. guest' # "exited"
      BY <2>4
    <3>3. Shared!Range(s, size) = objects[n + 1]
      BY <1>8, <2>1, <3>1, SharedConstants DEF Shared!Range, Places
    <3> QED BY Zenon, <2>5, <2>6, <3>1, <3>2, <3>3 DEF SharedInv, Shared!GuestSeesTheSameObjects
  <2> QED BY Zenon, <1>9, <1>10, <2>7, <2>8, <2>9 DEF SharedInv
<1> QED BY Zenon, <1>11, <1>12

\* A ring, whose size is in the tuple.
LEMMA MapRingStep ==
  ASSUME Shared!SharedMemoryAssumption, SharedInv, Shared!MapRing
  PROVE  SharedInv'
<1>1. PICK r : r = tuple[Len(mapped) + 1]
  BY Zenon
<1>2. /\ guest = "main" /\ Len(mapped) \in {0, 1, 2, 3}
      /\ \/ Shared!validate_array(r) /\ Shared!Accept(Shared!Range(Shared!Pointer(r), r.size))
         \/ ~Shared!validate_array(r) /\ Shared!Exit
  BY Zenon, <1>1 DEF Shared!MapRing
<1>3. Len(mapped) + 1 \in 1..4
  <2>1. PICK n : n = Len(mapped)
    BY Zenon
  <2>2. n \in {0, 1, 2, 3}
    BY Zenon, <1>2, <2>1
  <2>3. n + 1 \in 1..4
    BY <2>2
  <2> QED BY Zenon, <2>1, <2>3
<1>4. r \in [start : Words, size : Words]
  BY Zenon, <1>1, <1>3 DEF SharedInv, SharedTypes
<1>5. r.size \in Words
  BY <1>4
<1> QED BY Zenon, <1>1, <1>2, <1>5, MapStep DEF Shared!validate_array

\* Offsets, whose size the guest knows.
LEMMA MapOffsetsStep ==
  ASSUME Shared!SharedMemoryAssumption, SharedInv, Shared!MapOffsets
  PROVE  SharedInv'
<1>1. PICK r : r = tuple[Len(mapped) + 1]
  BY Zenon
<1>2. /\ guest = "main" /\ Len(mapped) \in {1, 3}
      /\ \/ Shared!validate_object(r) /\ Shared!Accept(Shared!Range(Shared!Pointer(r), types.offsets[1]))
         \/ ~Shared!validate_object(r) /\ Shared!Exit
  BY Zenon, <1>1 DEF Shared!MapOffsets
<1>3. Len(mapped) + 1 \in {2, 4} /\ Len(mapped) + 1 \in 1..4 /\ Len(mapped) \in {0, 1, 2, 3}
  <2>1. PICK n : n = Len(mapped)
    BY Zenon
  <2>2. n \in {1, 3}
    BY Zenon, <1>2, <2>1
  <2>3. n + 1 \in {2, 4} /\ n + 1 \in 1..4 /\ n \in {0, 1, 2, 3}
    BY <2>2
  <2> QED BY Zenon, <2>1, <2>3
<1>4. types.offsets[1] \in Words
  BY Zenon, SharedSizes DEF SharedInv
<1>5. Len(objects) = 4 => types.offsets[1] = r.size
  <2>1. SUFFICES ASSUME Len(objects) = 4 PROVE types.offsets[1] = r.size
    BY Zenon
  <2>2. host = "running"
    BY <1>2 DEF SharedInv, HostOK
  <2>3. r = Shared!GuestAddress(objects[Len(mapped) + 1])
    BY Zenon, <1>1, <1>3, <2>1, <2>2 DEF SharedInv, HostOK
  <2>4. r.size = objects[Len(mapped) + 1].size
    BY Zenon, <1>3, <2>1, <2>3, AddressIs
  <2>5. ObjectOK(Len(mapped) + 1)
    BY Zenon, <1>3, <2>1 DEF SharedInv
  <2> QED BY Zenon, <1>3, <2>4, <2>5 DEF ObjectOK
<1> QED BY Zenon, <1>1, <1>2, <1>3, <1>4, <1>5, MapStep DEF Shared!validate_object

\* Every step keeps the invariant.
LEMMA SharedPreserved ==
  ASSUME Shared!SharedMemoryAssumption, SharedInv, [Shared!Next]_(Shared!vars)
  PROVE  SharedInv'
<1>1. CASE Shared!Reserve
  BY Zenon, <1>1, ReserveStep
<1>2. CASE Shared!ReserveFails
  <2>1. host \in {"new", "allocating"}
    BY <1>2 DEF Shared!ReserveFails
  <2> QED BY Zenon, <1>2, <2>1, ThrowStep DEF Shared!ReserveFails
<1>3. CASE Shared!AllocateRing
  <2>1. host = "allocating" /\ Len(objects) \in {0, 2} /\ Shared!allocate_shared_inner(types.buffer, 1)
    BY Zenon, <1>3 DEF Shared!AllocateRing, Shared!allocate_shared_array
  <2>2. types.buffer \in Words
    BY Zenon, SharedSizes DEF SharedInv
  <2>3. Len(objects) \in {0, 2}
    BY Zenon, <2>1
  <2>4. Len(objects) \in {0, 1, 2, 3} /\ Len(objects) \notin {1, 3} /\ 1 \in Nat \ {0}
    <3>1. \A n \in {0, 2} : n \in {0, 1, 2, 3} /\ n \notin {1, 3} /\ 1 \in Nat \ {0}
      OBVIOUS
    <3> QED BY Zenon, <2>3, <3>1
  <2> QED BY Zenon, <2>1, <2>2, <2>4, AllocateStep
<1>4. CASE Shared!AllocateOffsets
  <2>1. /\ host = "allocating" /\ Len(objects) \in {1, 3}
        /\ Shared!allocate_shared_inner(types.offsets[1], types.offsets[2])
    BY Zenon, <1>4 DEF Shared!AllocateOffsets, Shared!allocate_shared
  <2>2. types.offsets[1] \in Words /\ types.offsets[2] \in Nat \ {0}
    BY Zenon, SharedSizes DEF SharedInv
  <2>3. Len(objects) \in {0, 1, 2, 3}
    BY Zenon, <2>1
  <2> QED BY Zenon, <2>1, <2>2, <2>3, AllocateStep
<1>5. CASE Shared!InitializeRings
  BY Zenon, <1>5, InitializeRingsStep
<1>6. CASE Shared!async_run
  BY Zenon, <1>6, StartGuestStep
<1>7. CASE Shared!MapRing
  BY Zenon, <1>7, MapRingStep
<1>8. CASE Shared!MapOffsets
  BY Zenon, <1>8, MapOffsetsStep
<1>9. CASE \E n \in 1..4, start \in OtherStarts, size \in OtherSizes : Shared!InitializeOther(n, start, size)
  BY Zenon, <1>9, InitializeOtherStep
<1>10. CASE UNCHANGED Shared!vars
  BY Zenon, <1>10, SharedSame
<1> QED BY Zenon, <1>1, <1>2, <1>3, <1>4, <1>5, <1>6, <1>7, <1>8, <1>9, <1>10 DEF Shared!Next

\* The invariant says that objects are apart in shared memory.
LEMMA ObjectsApart ==
  ASSUME Shared!SharedMemoryAssumption, SharedInv
  PROVE  Shared!ObjectsAreApart
<1>1. DOMAIN objects = 1..Len(objects)
  BY DEF SharedInv, SharedTypes
<1>2. ASSUME NEW i \in 1..Len(objects)
      PROVE  /\ objects[i].start >= types.tuple
             /\ objects[i].size > 0 /\ objects[i].start + objects[i].size <= SHMEM_SIZE
             /\ i \in {2, 4} => objects[i].start % types.offsets[2] = 0
  <2>1. ObjectOK(i)
    BY Zenon DEF SharedInv
  <2>2. objects[i] \in Places /\ objects[i].start + objects[i].size < SHMEM_SIZE
    BY Zenon, AddressIs
  <2>3. objects[i].start + objects[i].size <= SHMEM_SIZE
    BY <2>2, SharedConstants DEF Places
  <2> QED BY Zenon, <2>1, <2>3 DEF ObjectOK
<1> QED BY Zenon, <1>1, <1>2 DEF SharedInv, Apart, Shared!ObjectsAreApart

\* Objects that allocate_shared_inner gives to RingbufferGuest are aligned, lie
\* behind the tuple in shared memory and are apart; the guest accepts them all
\* and sees each where the host has it; and whatever address and size are in
\* the tuple, what validate_array and validate_object accept is shared memory.
THEOREM ObjectsAgree == Shared!Spec => []SharedObjectsAgree
<1>1. Shared!Init => SharedInv
  BY Zenon, SharedStarts, MCHostAssumptions
<1>2. SharedInv /\ [Shared!Next]_(Shared!vars) => SharedInv'
  BY Zenon, SharedPreserved, MCHostAssumptions
<1>3. SharedInv => SharedObjectsAgree
  BY Zenon, ObjectsApart, MCHostAssumptions DEF SharedInv, SharedObjectsAgree
<1> QED BY <1>1, <1>2, <1>3, PTL DEF Shared!Spec

=============================================================================
