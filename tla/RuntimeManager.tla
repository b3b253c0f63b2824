--------------------------- MODULE RuntimeManager ---------------------------
(***************************************************************************)
(* internal/runtime/runtime.go and its callers in controlplane/plane.go:   *)
(* the lifecycle of the one runtime a generation may have.  It is kept     *)
(* three times, in the manager's map (mem), in a file per runtime (file)   *)
(* and by the container service (container), and every write of one of     *)
(* them can fail or be the last before a crash.                            *)
(*                                                                         *)
(* m.mu is held during a whole call of the manager; it does not stop the   *)
(* clock, nor calls that only touch the workspace, so each adapter call    *)
(* and each write is an action.  The lease files are those of              *)
(* WorkspaceLease, reduced to the fence of the lease per generation.       *)
(* Generations exist from the start; Manager.Delete, which nothing but a   *)
(* test calls, is left out, and so are the two adapters that do nothing.   *)
(***************************************************************************)
EXTENDS Naturals

CONSTANTS
  Generation,
  Caller,       \* goroutines that call the control plane
  MaxFence,     \* bound: leases acquired
  None          \* no record, no call, no generation

ASSUME FenceAssumption == MaxFence \in Nat

Fence == 1 .. MaxFence

State == {"CREATING", "READY", "RUNNING", "STOPPING", "STOPPED", "FAILED", "QUARANTINED"}

\* A Runtime: its fence, which with the generation is its identity, and
\* whether its ExternalID is set.
Runtime == [state : State, fence : Fence, external : BOOLEAN]

\* The manager's steps that hold m.mu.
Locked == {"clean", "unlink", "record", "create", "ready", "start", "running", "stop", "stopped"}

\* A call of the control plane: the generation, the fence of its cached
\* lease, and the step it takes next.
Call == [gen : Generation, fence : Fence,
         at : Locked \cup {"reserved", "release", "discard", "remove"}]

ASSUME NoneAssumption == None \notin Runtime /\ None \notin Call /\ None \notin Generation

VARIABLES
  phase,      \* "down", "recovering" (runtimes), "clearing" (leases), "serving"
  todo,       \* generations the current recovery has yet to visit
  cleaning,   \* the generation whose container Recover has stopped
  fence,      \* the fence counter
  openFence,  \* history: the counter when the control plane was last opened
  lease,      \* the fence of .lease.json, 0 without one
  expired,    \* generations whose lease has expired
  gone,       \* generations discarded or quarantined
  reserved,   \* the fence of .runtime-owner.json, 0 without one
  record,     \* Plane.workspaces: the fence of the cached lease, 0 without one
  call,       \* what each caller is doing
  mem,        \* Manager.runtimes
  file,       \* the .runtime.json of a generation
  container,  \* what the container service has under a runtime's identity
  processes   \* generations with a process in their runtime

plane == <<phase, todo, cleaning, openFence, record, call>>
leases == <<fence, lease, expired, gone, reserved>>
vars == <<phase, todo, cleaning, fence, openFence, lease, expired, gone, reserved,
          record, call, mem, file, container, processes>>

TypeOK ==
  /\ phase \in {"down", "recovering", "clearing", "serving"}
  /\ todo \subseteq Generation /\ cleaning \in Generation \cup {None}
  /\ fence \in 0 .. MaxFence /\ openFence \in 0 .. MaxFence
  /\ lease \in [Generation -> 0 .. MaxFence]
  /\ expired \subseteq Generation /\ gone \subseteq Generation
  /\ reserved \in [Generation -> 0 .. MaxFence]
  /\ record \in [Generation -> 0 .. MaxFence]
  /\ call \in [Caller -> Call \cup {None}]
  /\ mem \in [Generation -> Runtime \cup {None}]
  /\ file \in [Generation -> Runtime \cup {None}]
  /\ container \in [Generation \X Fence -> {"absent", "created", "running", "stopped"}]
  /\ processes \subseteq Generation

Init ==
  /\ phase = "down" /\ todo = {} /\ cleaning = None
  /\ fence = 0 /\ openFence = 0
  /\ lease = [g \in Generation |-> 0]
  /\ expired = {} /\ gone = {}
  /\ reserved = [g \in Generation |-> 0]
  /\ record = [g \in Generation |-> 0]
  /\ call = [c \in Caller |-> None]
  /\ mem = [g \in Generation |-> None]
  /\ file = [g \in Generation |-> None]
  /\ container = [id \in Generation \X Fence |-> "absent"]
  /\ processes = {}

-----------------------------------------------------------------------------
(* Helpers.                                                                *)

\* AssertLease with a lease of fence f.
LeaseAsserted(g, f) == f # 0 /\ lease[g] = f /\ g \notin expired /\ g \notin gone

MutexFree == \A c \in Caller : call[c] # None => call[c].at \notin Locked

\* A call of the control plane goes on from its cached record.
Begin(c, g, step) ==
  /\ phase = "serving" /\ call[c] = None
  /\ call' = [call EXCEPT ![c] = [gen |-> g, fence |-> record[g], at |-> step]]

Goto(c, step) == call' = [call EXCEPT ![c].at = step]
Return(c) == call' = [call EXCEPT ![c] = None]

\* The file is replaced, or the write fails and it stays.
Persisted(g, r) == file' = [file EXCEPT ![g] = r]
PersistFails == UNCHANGED file
MayPersist(g, r) == Persisted(g, r) \/ PersistFails

Remember(g, r) == mem' = [mem EXCEPT ![g] = r]

InUnfenced(r, state) == [r EXCEPT !.state = state, !.fence = 0]

In(r, state) == [r EXCEPT !.state = state]

Becomes(g, f, state) == container' = [container EXCEPT ![<<g, f>>] = state]

\* A container command that fails may have had its effect or not.
MayBecome(g, f, state) == Becomes(g, f, state) \/ UNCHANGED container

-----------------------------------------------------------------------------
(* The workspace: leases, expiry, discarding.                              *)

\* ensureWorkspace, for a generation that is not cached.
Attach(g) ==
  /\ phase = "serving" /\ record[g] = 0 /\ g \notin gone
  /\ lease[g] = 0 /\ fence < MaxFence
  /\ fence' = fence + 1
  /\ lease' = [lease EXCEPT ![g] = fence']
  /\ record' = [record EXCEPT ![g] = fence']
  /\ expired' = expired \ {g}
  /\ UNCHANGED <<phase, todo, cleaning, openFence, gone, reserved, call, mem, file, container, processes>>

\* The same, when AcquireLease finds an expired lease: quarantine.
AttachExpired(g) ==
  /\ phase = "serving" /\ record[g] = 0 /\ g \notin gone
  /\ lease[g] # 0 /\ g \in expired
  /\ gone' = gone \cup {g}
  /\ UNCHANGED <<plane, fence, lease, expired, reserved, mem, file, container, processes>>

Expire(g) ==
  /\ lease[g] # 0 /\ g \notin expired
  /\ expired' = expired \cup {g}
  /\ UNCHANGED <<plane, fence, lease, gone, reserved, mem, file, container, processes>>

\* DiscardWorkspace drops the cached record first of all.
Discard(c, g) ==
  /\ record[g] # 0
  /\ Begin(c, g, "discard")
  /\ record' = [record EXCEPT ![g] = 0]
  /\ UNCHANGED <<phase, todo, cleaning, openFence, leases, mem, file, container, processes>>

\* Authorisation or ReleaseLease may fail; the generation then stays leased.
DiscardRelease(c) ==
  /\ call[c] # None /\ call[c].at = "discard"
  /\ LET g == call[c].gen
     IN  \/ /\ g \notin gone /\ lease[g] = call[c].fence
            /\ lease' = [lease EXCEPT ![g] = 0]
            /\ Goto(c, "remove")
         \/ UNCHANGED lease /\ Return(c)
  /\ UNCHANGED <<phase, todo, cleaning, openFence, fence, expired, gone, reserved, record,
                 mem, file, container, processes>>

\* DiscardGeneration refuses when somebody has acquired a lease meanwhile.
DiscardRemove(c) ==
  /\ call[c] # None /\ call[c].at = "remove"
  /\ LET g == call[c].gen
     IN  IF lease[g] = 0
         THEN gone' = gone \cup {g} /\ reserved' = [reserved EXCEPT ![g] = 0]
         ELSE UNCHANGED <<gone, reserved>>
  /\ Return(c)
  /\ UNCHANGED <<phase, todo, cleaning, openFence, fence, lease, expired, record,
                 mem, file, container, processes>>

-----------------------------------------------------------------------------
(* RuntimeCreate: ReserveRuntime, Manager.Create, and on any failure       *)
(* ReleaseRuntime.                                                         *)

UnreservedByOthers(g) == reserved[g] \in {0, record[g]}

Unreserved(g) == reserved[g] = 0

Reserve(c, g) ==
  /\ LeaseAsserted(g, record[g]) /\ Unreserved(g)
  /\ reserved' = [reserved EXCEPT ![g] = record[g]]
  /\ Begin(c, g, "reserved")
  /\ UNCHANGED <<phase, todo, cleaning, openFence, fence, lease, expired, gone, record,
                 mem, file, container, processes>>

\* Only a stopped runtime gives way to a new one.
Replaceable(g) == mem[g] # None => mem[g].state = "STOPPED"

\* Manager.Create takes m.mu; validateSpec asserts the lease, and the
\* candidate may have been refreshed since the caller's record was made.
AdmitCreate(c) ==
  /\ call[c] # None /\ call[c].at = "reserved" /\ MutexFree
  /\ LET g == call[c].gen
     IN  \/ /\ LeaseAsserted(g, call[c].fence) /\ Replaceable(g)
            /\ Goto(c, IF mem[g] = None THEN "record"
                       ELSE IF mem[g].external THEN "clean" ELSE "unlink")
         \/ Goto(c, "release")
  /\ UNCHANGED <<phase, todo, cleaning, openFence, leases, record, mem, file, container, processes>>

At(c, step) == phase = "serving" /\ call[c] # None /\ call[c].at = step

\* Delete the container of the stopped runtime.
CleanStopped(c) ==
  /\ At(c, "clean")
  /\ LET g == call[c].gen
         old == mem[g]
     IN  \/ /\ container[<<g, old.fence>>] \in {"created", "stopped"}
            /\ Becomes(g, old.fence, "absent")
            /\ Goto(c, "unlink")
            /\ UNCHANGED <<mem, file>>
         \/ /\ \/ UNCHANGED container
               \/ /\ container[<<g, old.fence>>] \in {"created", "stopped"}
                  /\ Becomes(g, old.fence, "absent")
            /\ Remember(g, In(old, "QUARANTINED"))
            /\ MayPersist(g, In(old, "QUARANTINED"))
            /\ Goto(c, "release")
  /\ UNCHANGED <<phase, todo, cleaning, openFence, leases, record, processes>>

\* Remove its file and forget it.
UnlinkStopped(c) ==
  /\ At(c, "unlink")
  /\ LET g == call[c].gen
     IN  \/ Persisted(g, None) /\ Remember(g, None) /\ Goto(c, "record")
         \/ UNCHANGED <<mem, file>> /\ Goto(c, "release")
  /\ UNCHANGED <<phase, todo, cleaning, openFence, leases, record, container, processes>>

\* CREATING is persisted before the container service is asked.
RecordCreating(c) ==
  /\ At(c, "record")
  /\ LET g == call[c].gen
         new == [state |-> "CREATING", fence |-> call[c].fence, external |-> FALSE]
     IN  \/ Persisted(g, new) /\ Remember(g, new) /\ Goto(c, "create")
         \/ PersistFails /\ Remember(g, None) /\ Goto(c, "release")
  /\ UNCHANGED <<phase, todo, cleaning, openFence, leases, record, container, processes>>

AdapterCreate(c) ==
  /\ At(c, "create")
  /\ LET g == call[c].gen
         f == call[c].fence
     IN  \/ /\ container[<<g, f>>] = "absent"
            /\ Becomes(g, f, "created")
            /\ Goto(c, "ready")
            /\ UNCHANGED <<mem, file>>
         \/ /\ UNCHANGED container \/ (container[<<g, f>>] = "absent" /\ Becomes(g, f, "created"))
            /\ Remember(g, In(mem[g], "FAILED"))
            /\ MayPersist(g, In(mem[g], "FAILED"))
            /\ Goto(c, "release")
  /\ UNCHANGED <<phase, todo, cleaning, openFence, leases, record, processes>>

\* When READY cannot be persisted, the map keeps CREATING.
CreateReady(c) ==
  /\ At(c, "ready")
  /\ LET g == call[c].gen
         ready == [mem[g] EXCEPT !.state = "READY", !.external = TRUE]
     IN  \/ Persisted(g, ready) /\ Remember(g, ready) /\ Return(c)
         \/ PersistFails /\ UNCHANGED mem /\ Goto(c, "release")
  /\ UNCHANGED <<phase, todo, cleaning, openFence, leases, record, container, processes>>

\* ReleaseRuntime; its error is ignored.
ReleaseRuntime(c) ==
  /\ At(c, "release")
  /\ LET g == call[c].gen
     IN  reserved' = IF LeaseAsserted(g, call[c].fence) /\ reserved[g] = call[c].fence
                     THEN [reserved EXCEPT ![g] = 0]
                     ELSE reserved
  /\ Return(c)
  /\ UNCHANGED <<phase, todo, cleaning, openFence, fence, lease, expired, gone, record,
                 mem, file, container, processes>>

-----------------------------------------------------------------------------
(* RuntimeStart, RuntimeStop and ProcessStart.                             *)

\* The caller's lease is that of the runtime, and in force.
Owned(g, state) ==
  /\ mem[g] # None /\ mem[g].state = state
  /\ mem[g].fence = record[g] /\ LeaseAsserted(g, record[g])

Start(c, g) ==
  /\ MutexFree
  /\ Owned(g, "READY")
  /\ Begin(c, g, "start")
  /\ UNCHANGED <<phase, todo, cleaning, openFence, leases, record, mem, file, container, processes>>

\* When the adapter fails, FAILED is persisted and the map keeps READY.
AdapterStart(c) ==
  /\ At(c, "start")
  /\ LET g == call[c].gen
         f == call[c].fence
     IN  \/ /\ container[<<g, f>>] \in {"created", "stopped"}
            /\ Becomes(g, f, "running")
            /\ Remember(g, In(mem[g], "RUNNING"))
            /\ Goto(c, "running")
            /\ UNCHANGED file
         \/ /\ \/ UNCHANGED container
               \/ container[<<g, f>>] \in {"created", "stopped"} /\ Becomes(g, f, "running")
            /\ MayPersist(g, In(mem[g], "FAILED"))
            /\ Return(c)
            /\ UNCHANGED mem
  /\ UNCHANGED <<phase, todo, cleaning, openFence, leases, record, processes>>

RecordRunning(c) ==
  /\ At(c, "running")
  /\ MayPersist(call[c].gen, mem[call[c].gen])
  /\ Return(c)
  /\ UNCHANGED <<phase, todo, cleaning, openFence, leases, record, mem, container, processes>>

\* STOPPING is persisted, not remembered.
Stop(c, g) ==
  /\ MutexFree
  /\ Owned(g, "RUNNING")
  /\ Persisted(g, In(mem[g], "STOPPING"))
  /\ Begin(c, g, "stop")
  /\ UNCHANGED <<phase, todo, cleaning, openFence, leases, record, mem, container, processes>>

StopFailedStopped(r) == In(r, "STOPPED")

StopFailed(r) == In(r, "QUARANTINED")

\* When the adapter fails, QUARANTINED is persisted and the map keeps RUNNING.
AdapterStop(c) ==
  /\ At(c, "stop")
  /\ LET g == call[c].gen
         f == call[c].fence
     IN  \/ /\ container[<<g, f>>] # "absent"
            /\ Becomes(g, f, "stopped")
            /\ processes' = processes \ {g}
            /\ Remember(g, In(mem[g], "STOPPED"))
            /\ Goto(c, "stopped")
            /\ UNCHANGED file
         \/ /\ \/ UNCHANGED <<container, processes>>
               \/ /\ container[<<g, f>>] = "running"
                  /\ Becomes(g, f, "stopped") /\ processes' = processes \ {g}
            /\ MayPersist(g, StopFailed(mem[g]))
            /\ Return(c)
            /\ UNCHANGED mem
  /\ UNCHANGED <<phase, todo, cleaning, openFence, leases, record>>

\* The reservation is given back only when STOPPED could be persisted.
RecordStopped(c) ==
  /\ At(c, "stopped")
  /\ LET g == call[c].gen
     IN  \/ Persisted(g, mem[g]) /\ Goto(c, "release")
         \/ PersistFails /\ Return(c)
  /\ UNCHANGED <<phase, todo, cleaning, openFence, leases, record, mem, container, processes>>

\* ProcessStart compares the runtime with the cached lease and asks the
\* container service to run the command.
StartProcess(g) ==
  /\ phase = "serving" /\ record[g] # 0 /\ MutexFree
  /\ mem[g] # None /\ mem[g].state = "RUNNING" /\ mem[g].fence = record[g]
  /\ container[<<g, mem[g].fence>>] = "running"
  /\ processes' = processes \cup {g}
  /\ UNCHANGED <<plane, leases, mem, file, container>>

EndProcess(g) ==
  /\ g \in processes
  /\ processes' = processes \ {g}
  /\ UNCHANGED <<plane, leases, mem, file, container>>

-----------------------------------------------------------------------------
(* Crashes, and Plane.Open: NewManager loads the files, Manager.Recover    *)
(* cleans up, and Repository.Recover then removes leases and reservations. *)

Down ==
  /\ phase' = "down" /\ todo' = {} /\ cleaning' = None
  /\ record' = [g \in Generation |-> 0]
  /\ call' = [c \in Caller |-> None]
  /\ mem' = [g \in Generation |-> None]

\* A crash, or an opening that fails at any of its steps.
Crash ==
  /\ phase # "down"
  /\ Down
  /\ UNCHANGED <<openFence, leases, file, container, processes>>

Open ==
  /\ phase = "down"
  /\ phase' = "recovering"
  /\ mem' = file
  /\ todo' = {g \in Generation : file[g] # None}
  /\ openFence' = fence
  /\ UNCHANGED <<cleaning, record, call, leases, file, container, processes>>

RecoveringAnyway(r) == r.state \in {"CREATING", "STOPPING"}

\* The states whose runtime Recover cleans up.
Active(r) == r.state \in {"CREATING", "RUNNING", "STOPPING"}

\* The generation and the persisted lease, expired or not, are still those
\* of the runtime.
StillBound(g) == g \notin gone /\ lease[g] = mem[g].fence

Recovering(g) == phase = "recovering" /\ g \in todo /\ cleaning = None

CleanupFailedStopped(r) == [r EXCEPT !.state = "STOPPED", !.external = FALSE]

\* A runtime the adapter could not stop or delete.
CleanupFailed(r) == In(r, "QUARANTINED")

\* Recover leaves the runtime in a state, which it persists.
Settle(g, r) ==
  /\ Remember(g, r) /\ Persisted(g, r)
  /\ todo' = todo \ {g} /\ cleaning' = None

RecoverInactive(g) ==
  /\ Recovering(g) /\ ~Active(mem[g])
  /\ todo' = todo \ {g}
  /\ UNCHANGED <<phase, cleaning, openFence, record, call, leases, mem, file, container, processes>>

RecoverUnbound(g) ==
  /\ Recovering(g) /\ Active(mem[g]) /\ ~StillBound(g)
  /\ Settle(g, In(mem[g], "QUARANTINED"))
  /\ UNCHANGED <<phase, openFence, record, call, leases, container, processes>>

RecoverUncreated(g) ==
  /\ Recovering(g) /\ Active(mem[g]) /\ StillBound(g) /\ ~mem[g].external
  /\ Settle(g, In(mem[g], "STOPPED"))
  /\ UNCHANGED <<phase, openFence, record, call, leases, container, processes>>

RecoverStop(g) ==
  /\ Recovering(g) /\ Active(mem[g]) /\ StillBound(g) /\ mem[g].external
  /\ LET f == mem[g].fence
     IN  \/ /\ container[<<g, f>>] # "absent"
            /\ Becomes(g, f, "stopped") /\ processes' = processes \ {g}
            /\ cleaning' = g
            /\ UNCHANGED <<todo, mem, file>>
         \/ /\ \/ UNCHANGED <<container, processes>>
               \/ /\ container[<<g, f>>] = "running"
                  /\ Becomes(g, f, "stopped") /\ processes' = processes \ {g}
            /\ Settle(g, CleanupFailed(mem[g]))
  /\ UNCHANGED <<phase, openFence, record, call, leases>>

RecoverDelete(g) ==
  /\ cleaning = g
  /\ LET f == mem[g].fence
     IN  \/ /\ Becomes(g, f, "absent")
            /\ Settle(g, [mem[g] EXCEPT !.state = "STOPPED", !.external = FALSE])
         \/ /\ MayBecome(g, f, "absent")
            /\ Settle(g, CleanupFailed(mem[g]))
  /\ UNCHANGED <<phase, openFence, record, call, leases, processes>>

RuntimesRecovered ==
  /\ phase = "recovering" /\ todo = {}
  /\ phase' = "clearing"
  /\ todo' = Generation
  /\ UNCHANGED <<cleaning, openFence, record, call, leases, mem, file, container, processes>>

\* Repository.Recover, generation by generation.
ClearOwnership(g) ==
  /\ phase = "clearing" /\ g \in todo
  /\ lease' = [lease EXCEPT ![g] = 0]
  /\ reserved' = [reserved EXCEPT ![g] = 0]
  /\ expired' = expired \ {g}
  /\ todo' = todo \ {g}
  /\ UNCHANGED <<phase, cleaning, openFence, record, call, fence, gone, mem, file, container, processes>>

Serve ==
  /\ phase = "clearing" /\ todo = {}
  /\ phase' = "serving"
  /\ UNCHANGED <<todo, cleaning, openFence, record, call, leases, mem, file, container, processes>>

-----------------------------------------------------------------------------
WorkspaceStep ==
  \/ \E g \in Generation : Attach(g) \/ AttachExpired(g) \/ Expire(g)
  \/ \E c \in Caller : (\E g \in Generation : Discard(c, g)) \/ DiscardRelease(c) \/ DiscardRemove(c)

CreateStep ==
  \E c \in Caller :
    \/ \E g \in Generation : Reserve(c, g)
    \/ AdmitCreate(c) \/ CleanStopped(c) \/ UnlinkStopped(c) \/ RecordCreating(c)
    \/ AdapterCreate(c) \/ CreateReady(c) \/ ReleaseRuntime(c)

RunStep ==
  \/ \E c \in Caller :
       \/ \E g \in Generation : Start(c, g) \/ Stop(c, g)
       \/ AdapterStart(c) \/ RecordRunning(c) \/ AdapterStop(c) \/ RecordStopped(c)
  \/ \E g \in Generation : StartProcess(g) \/ EndProcess(g)

RecoverStep ==
  \/ Open
  \/ \E g \in Generation :
       \/ RecoverInactive(g) \/ RecoverUnbound(g) \/ RecoverUncreated(g)
       \/ RecoverStop(g) \/ RecoverDelete(g)
       \/ ClearOwnership(g)
  \/ RuntimesRecovered \/ Serve

Next == WorkspaceStep \/ CreateStep \/ RunStep \/ RecoverStep \/ Crash

Spec == Init /\ [][Next]_vars
=============================================================================
