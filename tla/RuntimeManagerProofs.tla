------------------------ MODULE RuntimeManagerProofs ------------------------
(***************************************************************************)
(* Theorems about RuntimeManager, for any number of generations, callers   *)
(* and leases.                                                             *)
(***************************************************************************)
EXTENDS RuntimeManagerProps, TLAPS

\* No fence is greater than the counter, and those of calls and of cached
\* leases were acquired since the control plane was opened.
FencesSpent ==
  /\ openFence <= fence
  /\ phase \in {"recovering", "clearing"} => openFence = fence
  /\ \A g \in Generation :
       /\ record[g] <= fence /\ (record[g] # 0 => record[g] > openFence)
       /\ mem[g] # None => mem[g].fence <= fence
       /\ file[g] # None => file[g].fence <= fence
  /\ \A c \in Caller : call[c] # None => call[c].fence <= fence /\ call[c].fence > openFence

\* Calls are made, and leases cached, only while the control plane serves.
Serving ==
  /\ phase # "serving" =>
       (\A c \in Caller : call[c] = None) /\ (\A g \in Generation : record[g] = 0)
  /\ phase = "down" => cleaning = None /\ \A g \in Generation : mem[g] = None

Holds(c) == call[c] # None /\ call[c].at \in Locked

Mutex == \A c, d \in Caller : Holds(c) /\ Holds(d) => c = d

\* The runtime a call works on, while it holds the mutex.
Expected(m, f, at) ==
  /\ at = "record" => m = None
  /\ at \in Locked \ {"record"} => m # None
  /\ at \in {"clean", "unlink"} => m.state = "STOPPED"
  /\ at \in {"create", "ready"} => m.state = "CREATING" /\ m.fence = f
  /\ at = "start" => m.state = "READY" /\ m.fence = f
  /\ at \in {"running", "stop"} => m.state = "RUNNING" /\ m.fence = f
  /\ at = "stopped" => m.state = "STOPPED" /\ m.fence = f

CallsExpect ==
  \A c \in Caller : call[c] # None => Expected(mem[call[c].gen], call[c].fence, call[c].at)

\* Map and file agree on which runtime there is, and the file does not say
\* STOPPED too early.
Agree(m, r) ==
  /\ m = None <=> r = None
  /\ r # None =>
       /\ m.fence = r.fence /\ m.external = r.external
       /\ r.state = "STOPPED" => m.state \in {"STOPPED", "QUARANTINED"}

CopiesAgree == phase # "down" => \A g \in Generation : Agree(mem[g], file[g])

\* A runtime that is STOPPED, or whose container was not recorded, does not run.
Quiet(k, g, r) ==
  r # None =>
    /\ r.state = "STOPPED" \/ ~r.external => k[<<g, r.fence>>] # "running"
    /\ r.state = "READY" => r.external

ContainersRecorded ==
  \A g \in Generation :
    /\ Quiet(container, g, mem[g]) /\ Quiet(container, g, file[g])
    /\ \A f \in Fence : container[<<g, f>>] = "running" => file[g] # None /\ file[g].fence = f

\* What recovery has passed.
RecoveryInv ==
  /\ cleaning # None =>
       /\ phase = "recovering" /\ cleaning \in todo
       /\ container[<<cleaning, mem[cleaning].fence>>] = "stopped"
  /\ phase = "recovering" => \A g \in todo : mem[g] # None
  /\ \A g \in Generation :
       /\ phase = "clearing" \/ (phase = "recovering" /\ g \notin todo)
       /\ mem[g] # None
       => ~Active(mem[g])
  /\ phase = "serving" =>
       \A g \in Generation : mem[g] # None /\ mem[g].state = "RUNNING" => mem[g].fence > openFence

\* The steps at which a call has the reservation, until it succeeds or gives
\* it back.
Claiming == {"reserved", "clean", "unlink", "record", "create", "ready", "stopped", "release"}

Claims(c, g) == call[c] # None /\ call[c].gen = g /\ call[c].at \in Claiming

\* A runtime of this opening that may be started, or runs.
Usable(m) == m # None /\ m.state \in {"READY", "RUNNING"} /\ m.fence > openFence

ReservationInv ==
  phase = "serving" =>
    \A g \in Generation \ gone :
      /\ Usable(mem[g]) => reserved[g] = mem[g].fence
      /\ \A c \in Caller : Claims(c, g) => reserved[g] = call[c].fence /\ ~Usable(mem[g])
      /\ \A c, d \in Caller : Claims(c, g) /\ Claims(d, g) => c = d

Inv ==
  /\ TypeOK /\ FencesSpent /\ Serving /\ Mutex /\ CallsExpect /\ CopiesAgree
  /\ ContainersRecorded /\ RecoveryInv /\ ReservationInv

-----------------------------------------------------------------------------
LEMMA Kinds ==
  /\ None \notin Runtime /\ None \notin Call /\ None \notin Generation
  /\ MaxFence \in Nat
  /\ Fence = 1 .. MaxFence
  /\ \A r \in Runtime : r.state \in State /\ r.fence \in Fence /\ r.external \in BOOLEAN
  /\ \A k \in Call : k.gen \in Generation /\ k.fence \in Fence
BY NoneAssumption, FenceAssumption DEF Runtime, Call, Fence

\* A runtime in another state is a runtime.
LEMMA InState ==
  ASSUME NEW r \in Runtime, NEW s \in State
  PROVE  /\ In(r, s) \in Runtime /\ In(r, s).state = s
         /\ In(r, s).fence = r.fence /\ In(r, s).external = r.external
BY DEF In, Runtime

LEMMA InitInv == Init => Inv
<1> SUFFICES ASSUME Init
             PROVE  Inv
  OBVIOUS
<1>1. 0 \in 0 .. MaxFence
  BY FenceAssumption
<1>2. TypeOK
  BY <1>1 DEF Init, TypeOK
<1>3. FencesSpent /\ Serving /\ Mutex /\ CallsExpect
  BY DEF Init, FencesSpent, Serving, Mutex, Holds, CallsExpect
<1>4. CopiesAgree /\ ContainersRecorded /\ RecoveryInv /\ ReservationInv
  <2>1. \A g \in Generation, f \in Fence : container[<<g, f>>] = "absent"
    BY DEF Init
  <2> QED
    BY <2>1 DEF Init, CopiesAgree, ContainersRecorded, Quiet, RecoveryInv, ReservationInv
<1> QED
  BY <1>2, <1>3, <1>4 DEF Inv

-----------------------------------------------------------------------------
(* Calls that hold the mutex.                                              *)

\* A call that holds the mutex leaves its runtime, in the map as m and in the
\* file as r, and goes on at a step of its own, gives the reservation back, or
\* returns.
LEMMA LockedKeeps ==
  ASSUME Inv, phase = "serving",
         UNCHANGED <<phase, todo, cleaning, openFence, leases, record>>,
         NEW c \in Caller, Holds(c),
         NEW g, g = call[c].gen, NEW f, f = call[c].fence,
         NEW step \in {"unlink", "record", "create", "ready", "running", "stopped",
                       "release", "none"},
         call' \in [Caller -> Call \cup {None}],
         \A d \in Caller \ {c} : call'[d] = call[d],
         step = "none" => call'[c] = None,
         step # "none" => call'[c] # None /\ call'[c].gen = g /\ call'[c].fence = f
                          /\ call'[c].at = step,
         NEW m \in Runtime \cup {None}, NEW r \in Runtime \cup {None},
         mem' \in [Generation -> Runtime \cup {None}], mem'[g] = m,
         file' \in [Generation -> Runtime \cup {None}], file'[g] = r,
         \A h \in Generation \ {g} : mem'[h] = mem[h] /\ file'[h] = file[h],
         container' \in [Generation \X Fence -> {"absent", "created", "running", "stopped"}],
         \A h \in Generation \ {g}, e \in Fence : container'[<<h, e>>] = container[<<h, e>>],
         processes' \subseteq Generation,
         m # None => m.fence <= fence,
         Expected(m, f, step), Agree(m, r),
         Quiet(container', g, m), Quiet(container', g, r),
         \A e \in Fence : container'[<<g, e>>] = "running" => r # None /\ r.fence = e,
         Usable(m) => m.fence = f /\ step \notin Claiming,
         m # None /\ m.state = "RUNNING" => m.fence = f
  PROVE  Inv'
<1> USE DEF leases
<1>t. /\ TypeOK /\ FencesSpent /\ Serving /\ Mutex /\ CallsExpect /\ CopiesAgree
      /\ ContainersRecorded /\ RecoveryInv /\ ReservationInv
  BY DEF Inv
<1>g. g \in Generation /\ f \in Fence /\ call[c] # None /\ call[c] \in Call
      /\ f > openFence /\ f <= fence /\ call[c].at \in Locked
  BY <1>t, Kinds DEF TypeOK, Holds, FencesSpent
<1>d. \A d \in Caller \ {c} : call[d] # None => call[d].at \notin Locked
  BY <1>t DEF Mutex, Holds
<1>1. TypeOK'
  BY <1>t DEF TypeOK
<1>2. FencesSpent'
  <2>1. r # None => r.fence <= fence
    BY DEF Agree
  <2>2. \A h \in Generation : /\ mem'[h] # None => mem'[h].fence <= fence
                              /\ file'[h] # None => file'[h].fence <= fence
    BY <1>t, <2>1 DEF FencesSpent
  <2>3. \A d \in Caller : call'[d] # None => call'[d].fence <= fence /\ call'[d].fence > openFence
    BY <1>t, <1>g DEF FencesSpent
  <2> QED
    BY <1>t, <2>2, <2>3 DEF FencesSpent
<1>3. Serving'
  BY <1>t DEF Serving
<1>4. Mutex'
  BY <1>d DEF Mutex, Holds
<1>5. CallsExpect'
  <2> SUFFICES ASSUME NEW d \in Caller, call'[d] # None
               PROVE  Expected(mem'[call'[d].gen], call'[d].fence, call'[d].at)
    BY DEF CallsExpect
  <2>1. CASE d = c
    BY <2>1
  <2>2. CASE d # c
    BY <1>d, <2>2 DEF Expected, Locked
  <2> QED
    BY <2>1, <2>2
<1>6. CopiesAgree'
  BY <1>t DEF CopiesAgree
<1>7. ContainersRecorded'
  <2> SUFFICES ASSUME NEW h \in Generation
               PROVE  /\ Quiet(container', h, mem[h]') /\ Quiet(container', h, file[h]')
                      /\ \A e \in Fence : container'[<<h, e>>] = "running" =>
                           file'[h] # None /\ file'[h].fence = e
    BY DEF ContainersRecorded
  <2>1. CASE h = g
    BY <2>1
  <2>2. CASE h # g
    <3>1. \A q \in Runtime : q.fence \in Fence
      BY Kinds
    <3>2. mem[h] \in Runtime \cup {None} /\ file[h] \in Runtime \cup {None}
      BY <1>t DEF TypeOK
    <3> QED
      BY <1>t, <2>2, <3>1, <3>2 DEF ContainersRecorded, Quiet
  <2> QED
    BY <2>1, <2>2
<1>8. RecoveryInv'
  <2>1. cleaning = None
    BY <1>t DEF RecoveryInv
  <2>2. \A h \in Generation :
          mem'[h] # None /\ mem'[h].state = "RUNNING" => mem'[h].fence > openFence
    BY <1>t, <1>g DEF RecoveryInv, Usable
  <2> QED
    BY <2>1, <2>2 DEF RecoveryInv
<1>9. ReservationInv'
  <2> SUFFICES ASSUME NEW h \in Generation \ gone
               PROVE  /\ Usable(mem[h])' => reserved[h] = mem'[h].fence
                      /\ \A d \in Caller :
                         Claims(d, h)' => reserved[h] = call'[d].fence /\ ~Usable(mem[h])'
                      /\ \A d, e \in Caller : Claims(d, h)' /\ Claims(e, h)' => d = e
    BY DEF ReservationInv
  <2>0. /\ Usable(mem[h]) => reserved[h] = mem[h].fence
        /\ \A d \in Caller : Claims(d, h) => reserved[h] = call[d].fence /\ ~Usable(mem[h])
        /\ \A d, e \in Caller : Claims(d, h) /\ Claims(e, h) => d = e
    BY <1>t DEF ReservationInv
  <2>1. CASE h # g
    <3>1. \A d \in Caller : Claims(d, h)' => Claims(d, h) /\ call'[d] = call[d]
      BY <2>1 DEF Claims
    <3>2. mem'[h] = mem[h]
      BY <2>1
    <3> QED
      BY <2>0, <3>1, <3>2 DEF Usable
  <2>2. CASE h = g
    <3>1. Claims(c, g) \/ (Usable(mem[g]) /\ mem[g].fence = f)
      <4>1. CASE call[c].at \in {"start", "running", "stop"}
        BY <1>t, <1>g, <4>1 DEF CallsExpect, Expected, Usable, Locked
      <4>2. CASE call[c].at \notin {"start", "running", "stop"}
        BY <1>g, <4>2 DEF Claims, Claiming, Locked
      <4> QED
        BY <4>1, <4>2
    <3>2. reserved[g] = f /\ \A d \in Caller \ {c} : ~Claims(d, g)
      BY <2>0, <2>2, <3>1 DEF Claims
    <3>3. \A d \in Caller \ {c} : ~Claims(d, g)'
      BY <3>2 DEF Claims
    <3>4. Claims(c, g)' => step \in Claiming /\ call'[c].fence = f
      BY DEF Claims
    <3>5. Usable(mem[g])' => m.fence = f /\ step \notin Claiming
      BY DEF Usable
    <3> QED
      BY <2>2, <3>2, <3>3, <3>4, <3>5
  <2> QED
    BY <2>1, <2>2
<1> QED
  BY <1>1, <1>2, <1>3, <1>4, <1>5, <1>6, <1>7, <1>8, <1>9 DEF Inv

\* The map, the file and the container after a write.
LEMMA Writes ==
  ASSUME TypeOK, NEW g \in Generation
  PROVE  /\ \A m \in Runtime \cup {None} : Remember(g, m) =>
              /\ mem' \in [Generation -> Runtime \cup {None}] /\ mem'[g] = m
              /\ \A h \in Generation \ {g} : mem'[h] = mem[h]
         /\ \A r \in Runtime \cup {None} : Persisted(g, r) =>
              /\ file' \in [Generation -> Runtime \cup {None}] /\ file'[g] = r
              /\ \A h \in Generation \ {g} : file'[h] = file[h]
         /\ UNCHANGED mem => mem' \in [Generation -> Runtime \cup {None}]
         /\ UNCHANGED file => file' \in [Generation -> Runtime \cup {None}]
BY DEF TypeOK, Remember, Persisted

LEMMA ContainerWrites ==
  ASSUME TypeOK, NEW g \in Generation, NEW f \in Fence,
         NEW s \in {"absent", "created", "running", "stopped"},
         Becomes(g, f, s) \/ UNCHANGED container
  PROVE  /\ container' \in [Generation \X Fence -> {"absent", "created", "running", "stopped"}]
         /\ \A h \in Generation \ {g}, e \in Fence : container'[<<h, e>>] = container[<<h, e>>]
         /\ \A e \in Fence \ {f} : container'[<<g, e>>] = container[<<g, e>>]
         /\ container'[<<g, f>>] \in {s, container[<<g, f>>]}
         /\ Becomes(g, f, s) => container'[<<g, f>>] = s
BY DEF TypeOK, Becomes

\* What is known when a call makes the step it is at.
LEMMA Working ==
  ASSUME Inv, NEW c \in Caller, NEW at \in Locked, At(c, at),
         NEW g, g = call[c].gen, NEW f, f = call[c].fence
  PROVE  /\ phase = "serving" /\ Holds(c) /\ g \in Generation /\ f \in Fence
         /\ f <= fence /\ f > openFence
         /\ Expected(mem[g], f, at) /\ Agree(mem[g], file[g])
         /\ Quiet(container, g, mem[g]) /\ Quiet(container, g, file[g])
         /\ \A e \in Fence : container[<<g, e>>] = "running" => file[g] # None /\ file[g].fence = e
         /\ mem[g] \in Runtime \cup {None} /\ file[g] \in Runtime \cup {None}
         /\ mem[g] # None => mem[g].fence <= fence
<1>1. call[c] # None /\ call[c].at = at /\ phase = "serving" /\ call[c] \in Call
  BY DEF At, Inv, TypeOK
<1>2. g \in Generation /\ f \in Fence
  BY <1>1, Kinds
<1> QED
  BY <1>1, <1>2
  DEF Inv, TypeOK, Holds, FencesSpent, CallsExpect, CopiesAgree, ContainersRecorded

\* Where a call goes.
LEMMA Goes ==
  ASSUME TypeOK, NEW c \in Caller, call[c] # None,
         NEW step \in Locked \cup {"reserved", "release", "discard", "remove", "none"},
         step = "none" => Return(c), step # "none" => Goto(c, step)
  PROVE  /\ call' \in [Caller -> Call \cup {None}]
         /\ \A d \in Caller \ {c} : call'[d] = call[d]
         /\ step = "none" => call'[c] = None
         /\ step # "none" => call'[c] # None /\ call'[c].gen = call[c].gen
                             /\ call'[c].fence = call[c].fence /\ call'[c].at = step
<1>1. call \in [Caller -> Call \cup {None}] /\ call[c] \in Call
  BY DEF TypeOK
<1>2. CASE step = "none"
  BY <1>1, <1>2 DEF Return
<1>3. CASE step # "none"
  <2>1. call' = [call EXCEPT ![c].at = step]
    BY <1>3 DEF Goto
  <2>2. [call[c] EXCEPT !.at = step] \in Call
    BY <1>1, <1>3 DEF Call
  <2>3. call'[c] = [call[c] EXCEPT !.at = step]
    BY <1>1, <2>1
  <2>4. call'[c] # None
    BY <2>2, <2>3, Kinds
  <2>5. call'[c].gen = call[c].gen /\ call'[c].fence = call[c].fence /\ call'[c].at = step
    BY <1>1, <2>3 DEF Call
  <2> QED
    BY <1>1, <1>3, <2>1, <2>2, <2>3, <2>4, <2>5
<1> QED
  BY <1>2, <1>3

\* The two together: the copies become m and r, and one container changes.
LEMMA StepKeeps ==
  ASSUME Inv, NEW c \in Caller, NEW at \in Locked, At(c, at),
         UNCHANGED <<phase, todo, cleaning, openFence, leases, record>>,
         processes' \subseteq Generation,
         NEW g, g = call[c].gen, NEW f, f = call[c].fence,
         NEW step \in {"unlink", "record", "create", "ready", "running", "stopped",
                       "release", "none"},
         step = "none" => Return(c), step # "none" => Goto(c, step),
         NEW m \in Runtime \cup {None}, NEW r \in Runtime \cup {None},
         Remember(g, m), Persisted(g, r),
         NEW e \in Fence, NEW s \in {"absent", "created", "running", "stopped"},
         Becomes(g, e, s) \/ UNCHANGED container,
         m # None => m.fence <= fence,
         Expected(m, f, step), Agree(m, r),
         Quiet(container', g, m), Quiet(container', g, r),
         \A d \in Fence : container'[<<g, d>>] = "running" => r # None /\ r.fence = d,
         Usable(m) => m.fence = f /\ step \notin Claiming,
         m # None /\ m.state = "RUNNING" => m.fence = f
  PROVE  Inv'
<1>1. TypeOK /\ g \in Generation /\ Holds(c) /\ call[c] # None /\ phase = "serving"
  BY Working DEF Inv, Holds
<1>2. /\ call' \in [Caller -> Call \cup {None}]
      /\ \A d \in Caller \ {c} : call'[d] = call[d]
      /\ step = "none" => call'[c] = None
      /\ step # "none" => call'[c] # None /\ call'[c].gen = g
                          /\ call'[c].fence = f /\ call'[c].at = step
  BY <1>1, Goes DEF Locked
<1>3. /\ mem' \in [Generation -> Runtime \cup {None}] /\ mem'[g] = m
      /\ file' \in [Generation -> Runtime \cup {None}] /\ file'[g] = r
      /\ \A h \in Generation \ {g} : mem'[h] = mem[h] /\ file'[h] = file[h]
  BY <1>1, Writes
<1>4. /\ container' \in [Generation \X Fence -> {"absent", "created", "running", "stopped"}]
      /\ \A h \in Generation \ {g}, d \in Fence : container'[<<h, d>>] = container[<<h, d>>]
  BY <1>1 DEF Becomes, TypeOK
<1> QED
  BY <1>1, <1>2, <1>3, <1>4, LockedKeeps

\* A variable that is left alone is one to which its own value is assigned.
LEMMA Unwritten ==
  ASSUME TypeOK, NEW g \in Generation
  PROVE  /\ UNCHANGED mem => Remember(g, mem[g])
         /\ UNCHANGED file => Persisted(g, file[g])
         /\ \A r \in Runtime : MayPersist(g, r) =>
              \E q \in Runtime \cup {None} : q \in {r, file[g]} /\ Persisted(g, q)
<1>1. UNCHANGED mem => Remember(g, mem[g])
  BY DEF TypeOK, Remember
<1>2. UNCHANGED file => Persisted(g, file[g])
  BY DEF TypeOK, Persisted
<1>3. file[g] \in Runtime \cup {None}
  BY DEF TypeOK
<1> QED
  BY <1>1, <1>2, <1>3 DEF MayPersist, PersistFails

LEMMA CleanStoppedInv ==
  ASSUME Inv, NEW c \in Caller, CleanStopped(c)
  PROVE  Inv'
<1> PICK g, f : g = call[c].gen /\ f = call[c].fence
  OBVIOUS
<1> PICK old : old = mem[g]
  OBVIOUS
<1>w. At(c, "clean") /\ "clean" \in Locked
  BY DEF CleanStopped, Locked
<1>1. /\ phase = "serving" /\ g \in Generation /\ f \in Fence /\ f <= fence
      /\ old # None /\ old.state = "STOPPED" /\ Agree(old, file[g])
      /\ \A e \in Fence : container[<<g, e>>] = "running" => file[g] # None /\ file[g].fence = e
      /\ Quiet(container, g, old) /\ Quiet(container, g, file[g])
      /\ old \in Runtime /\ file[g] \in Runtime \cup {None} /\ old.fence <= fence
  BY <1>w, Working DEF Expected, Locked
<1>t. TypeOK /\ old.fence \in Fence
  BY <1>1, Kinds DEF Inv
<1>u. UNCHANGED <<phase, todo, cleaning, openFence, leases, record, processes>>
  BY DEF CleanStopped
<1>p. processes' \subseteq Generation
  BY <1>t, <1>u DEF TypeOK
<1>2. Becomes(g, old.fence, "absent") \/ UNCHANGED container
  BY DEF CleanStopped
<1>3. \A e \in Fence : container'[<<g, e>>] # "running"
  <2>1. \A e \in Fence : container[<<g, e>>] # "running"
    BY <1>1 DEF Agree, Quiet
  <2> QED
    BY <1>1, <1>2, <1>t, <2>1 DEF Becomes, TypeOK
<1>5. CASE UNCHANGED <<mem, file>> /\ Goto(c, "unlink")
  <2>1. Remember(g, old) /\ Persisted(g, file[g])
    BY <1>1, <1>5, <1>t, Unwritten
  <2>2. Expected(old, f, "unlink") /\ ~Usable(old)
    BY <1>1 DEF Expected, Usable, Locked
  <2>3. Quiet(container', g, old) /\ Quiet(container', g, file[g])
    BY <1>1, <1>3, Kinds DEF Quiet
  <2> QED
    BY <1>1, <1>2, <1>3, <1>5, <1>p, <1>t, <1>u, <1>w, <2>1, <2>2, <2>3, StepKeeps
<1>6. CASE /\ Remember(g, In(old, "QUARANTINED"))
           /\ MayPersist(g, In(old, "QUARANTINED"))
           /\ Goto(c, "release")
  <2>1. PICK m \in Runtime : m = In(old, "QUARANTINED") /\ m.state = "QUARANTINED"
                             /\ m.fence = old.fence /\ m.external = old.external
    BY <1>1, InState DEF State
  <2>2. PICK r \in Runtime \cup {None} : r \in {m, file[g]} /\ Persisted(g, r)
    BY <1>1, <1>6, <1>t, <2>1, Unwritten
  <2>3. Agree(m, r) /\ Expected(m, f, "release") /\ ~Usable(m) /\ m.state # "RUNNING"
    BY <1>1, <2>1, <2>2, Kinds DEF Agree, Expected, Usable, Locked
  <2>4. Quiet(container', g, m) /\ Quiet(container', g, r)
    BY <1>1, <1>3, <2>1, <2>2, Kinds DEF Quiet
  <2> QED
    <3>1. \A e \in Fence : container'[<<g, e>>] = "running" => r # None /\ r.fence = e
      BY <1>3
    <3>2. m \in Runtime \cup {None} /\ (m # None => m.fence <= fence)
      BY <1>1, <2>1
    <3>3. Remember(g, m) /\ Persisted(g, r) /\ Goto(c, "release")
      BY <1>6, <2>1, <2>2
    <3>4. old.fence \in Fence
      BY <1>t
    <3> QED
      BY <1>2, <1>p, <1>u, <1>w, <2>3, <2>4, <3>1, <3>2, <3>3, <3>4, StepKeeps
<1> QED
  BY <1>5, <1>6 DEF CleanStopped

LEMMA UnlinkStoppedInv ==
  ASSUME Inv, NEW c \in Caller, UnlinkStopped(c)
  PROVE  Inv'
<1> PICK g, f : g = call[c].gen /\ f = call[c].fence
  OBVIOUS
<1> PICK old, kept : old = mem[g] /\ kept = file[g]
  OBVIOUS
<1>w. At(c, "unlink") /\ "unlink" \in Locked
  BY DEF UnlinkStopped, Locked
<1>1. /\ phase = "serving" /\ g \in Generation /\ f \in Fence /\ f <= fence /\ f > openFence
      /\ Agree(old, kept) /\ Quiet(container, g, old) /\ Quiet(container, g, kept)
      /\ \A e \in Fence : container[<<g, e>>] = "running" => kept # None /\ kept.fence = e
      /\ old \in Runtime \cup {None} /\ kept \in Runtime \cup {None}
      /\ old # None => old.fence <= fence
  BY <1>w, Working
<1>e. old # None /\ old.state = "STOPPED"
  BY <1>w, Working DEF Expected, Locked
<1>t. TypeOK
  BY DEF Inv
<1>u. UNCHANGED <<phase, todo, cleaning, openFence, leases, record, container, processes>>
  BY DEF UnlinkStopped
<1>p. processes' \subseteq Generation
  BY <1>t, <1>u DEF TypeOK
<1>s. "absent" \in {"absent", "created", "running", "stopped"}
  OBVIOUS
<1>2. \A e \in Fence : container'[<<g, e>>] # "running"
  BY <1>1, <1>e, <1>u DEF Agree, Quiet
<1>3. CASE Persisted(g, None) /\ Remember(g, None) /\ Goto(c, "record")
  <2>1. /\ Expected(None, f, "record") /\ Agree(None, None)
        /\ ~Usable(None) /\ Quiet(container', g, None)
    BY DEF Expected, Agree, Usable, Quiet
  <2> QED
    BY <1>1, <1>2, <1>3, <1>p, <1>s, <1>u, <1>w, <2>1, StepKeeps
<1>4. CASE UNCHANGED <<mem, file>> /\ Goto(c, "release")
  <2>1. Remember(g, old) /\ Persisted(g, kept)
    BY <1>1, <1>4, <1>t, Unwritten
  <2>2. Expected(old, f, "release") /\ ~Usable(old) /\ old.state # "RUNNING"
    BY <1>e DEF Expected, Usable, Locked
  <2>3. Quiet(container', g, old) /\ Quiet(container', g, kept)
    BY <1>1, <1>u
  <2> QED
    BY <1>1, <1>2, <1>4, <1>p, <1>s, <1>u, <1>w, <2>1, <2>2, <2>3, StepKeeps
<1> QED
  BY <1>3, <1>4 DEF UnlinkStopped

LEMMA RecordCreatingInv ==
  ASSUME Inv, NEW c \in Caller, RecordCreating(c)
  PROVE  Inv'
<1> PICK g, f : g = call[c].gen /\ f = call[c].fence
  OBVIOUS
<1> PICK old, kept : old = mem[g] /\ kept = file[g]
  OBVIOUS
<1>w. At(c, "record") /\ "record" \in Locked
  BY DEF RecordCreating, Locked
<1>1. /\ phase = "serving" /\ g \in Generation /\ f \in Fence /\ f <= fence /\ f > openFence
      /\ Agree(old, kept) /\ Quiet(container, g, old) /\ Quiet(container, g, kept)
      /\ \A e \in Fence : container[<<g, e>>] = "running" => kept # None /\ kept.fence = e
      /\ old \in Runtime \cup {None} /\ kept \in Runtime \cup {None}
      /\ old # None => old.fence <= fence
  BY <1>w, Working
<1>e. old = None
  BY <1>w, Working DEF Expected, Locked
<1>t. TypeOK
  BY DEF Inv
<1>u. UNCHANGED <<phase, todo, cleaning, openFence, leases, record, container, processes>>
  BY DEF RecordCreating
<1>p. processes' \subseteq Generation
  BY <1>t, <1>u DEF TypeOK
<1>s. "absent" \in {"absent", "created", "running", "stopped"}
  OBVIOUS
<1>2. kept = None /\ \A e \in Fence : container'[<<g, e>>] # "running"
  BY <1>1, <1>e, <1>u DEF Agree
<1> PICK new : new = [state |-> "CREATING", fence |-> f, external |-> FALSE]
  OBVIOUS
<1>3. /\ new \in Runtime /\ new # None /\ new.state = "CREATING"
      /\ new.fence = f /\ ~new.external
  <2>1. new \in Runtime
    BY <1>1 DEF Runtime, State
  <2> QED
    BY <2>1, Kinds
<1>4. CASE Persisted(g, new) /\ Remember(g, new) /\ Goto(c, "create")
  <2>1. Expected(new, f, "create") /\ Agree(new, new) /\ ~Usable(new) /\ Quiet(container', g, new)
    BY <1>1, <1>2, <1>3 DEF Expected, Agree, Usable, Quiet, Locked
  <2> QED
    BY <1>1, <1>2, <1>3, <1>4, <1>p, <1>s, <1>u, <1>w, <2>1, StepKeeps
<1>5. CASE PersistFails /\ Remember(g, None) /\ Goto(c, "release")
  <2>1. /\ Expected(None, f, "release") /\ Agree(None, None)
        /\ ~Usable(None) /\ Quiet(container', g, None)
    BY DEF Expected, Agree, Usable, Quiet, Locked
  <2>2. Persisted(g, None)
    BY <1>1, <1>2, <1>5, <1>t, Unwritten DEF PersistFails
  <2> QED
    BY <1>1, <1>2, <1>5, <1>p, <1>s, <1>u, <1>w, <2>1, <2>2, StepKeeps
<1> QED
  BY <1>4, <1>5 DEF RecordCreating

LEMMA CreateReadyInv ==
  ASSUME Inv, NEW c \in Caller, CreateReady(c)
  PROVE  Inv'
<1> PICK g, f : g = call[c].gen /\ f = call[c].fence
  OBVIOUS
<1> PICK old, kept : old = mem[g] /\ kept = file[g]
  OBVIOUS
<1>w. At(c, "ready") /\ "ready" \in Locked
  BY DEF CreateReady, Locked
<1>1. /\ phase = "serving" /\ g \in Generation /\ f \in Fence /\ f <= fence /\ f > openFence
      /\ Agree(old, kept) /\ Quiet(container, g, old) /\ Quiet(container, g, kept)
      /\ \A e \in Fence : container[<<g, e>>] = "running" => kept # None /\ kept.fence = e
      /\ old \in Runtime \cup {None} /\ kept \in Runtime \cup {None}
      /\ old # None => old.fence <= fence
  BY <1>w, Working
<1>e. old # None /\ old.state = "CREATING" /\ old.fence = f
  BY <1>w, Working DEF Expected, Locked
<1>t. TypeOK
  BY DEF Inv
<1>u. UNCHANGED <<phase, todo, cleaning, openFence, leases, record, container, processes>>
  BY DEF CreateReady
<1>p. processes' \subseteq Generation
  BY <1>t, <1>u DEF TypeOK
<1>s. "absent" \in {"absent", "created", "running", "stopped"}
  OBVIOUS
<1>2. CASE UNCHANGED <<mem, file>> /\ Goto(c, "release")
  <2>1. Remember(g, old) /\ Persisted(g, kept)
    BY <1>1, <1>2, <1>t, Unwritten
  <2>2. Expected(old, f, "release") /\ ~Usable(old) /\ old.state # "RUNNING"
    BY <1>e DEF Expected, Usable, Locked
  <2>3. Quiet(container', g, old) /\ Quiet(container', g, kept)
    BY <1>1, <1>u
  <2>4. \A e \in Fence : container'[<<g, e>>] = "running" => kept # None /\ kept.fence = e
    BY <1>1, <1>u
  <2> QED
    BY <1>1, <1>2, <1>p, <1>s, <1>u, <1>w, <2>1, <2>2, <2>3, <2>4, StepKeeps
<1>r. PICK ready : ready = [old EXCEPT !.state = "READY", !.external = TRUE]
  OBVIOUS
<1>3. /\ ready \in Runtime /\ ready # None /\ ready.state = "READY"
      /\ ready.fence = f /\ ready.external
  BY <1>1, <1>e, <1>r, Kinds DEF Runtime, State
<1>4. CASE Persisted(g, ready) /\ Remember(g, ready) /\ Return(c)
  <2>1. /\ Expected(ready, f, "none") /\ Agree(ready, ready) /\ Quiet(container', g, ready)
        /\ "none" \notin Claiming
    BY <1>3 DEF Expected, Agree, Quiet, Locked, Claiming
  <2>2. \A e \in Fence : container'[<<g, e>>] = "running" => ready # None /\ ready.fence = e
    BY <1>1, <1>3, <1>e, <1>u DEF Agree
  <2>3. /\ ready \in Runtime \cup {None} /\ (ready # None => ready.fence <= fence)
        /\ (Usable(ready) => ready.fence = f /\ "none" \notin Claiming)
        /\ (ready # None /\ ready.state = "RUNNING" => ready.fence = f)
    BY <1>1, <1>3, <2>1
  <2>4. f \in Fence
    BY <1>1
  <2> QED
    BY <1>4, <1>p, <1>s, <1>u, <1>w, <2>1, <2>2, <2>3, <2>4, StepKeeps
<1> QED
  BY <1>2, <1>4, <1>r DEF CreateReady, PersistFails

LEMMA RecordRunningInv ==
  ASSUME Inv, NEW c \in Caller, RecordRunning(c)
  PROVE  Inv'
<1> PICK g, f : g = call[c].gen /\ f = call[c].fence
  OBVIOUS
<1> PICK old, kept : old = mem[g] /\ kept = file[g]
  OBVIOUS
<1>w. At(c, "running") /\ "running" \in Locked
  BY DEF RecordRunning, Locked
<1>1. /\ phase = "serving" /\ g \in Generation /\ f \in Fence /\ f <= fence /\ f > openFence
      /\ Agree(old, kept) /\ Quiet(container, g, old) /\ Quiet(container, g, kept)
      /\ \A e \in Fence : container[<<g, e>>] = "running" => kept # None /\ kept.fence = e
      /\ old \in Runtime \cup {None} /\ kept \in Runtime \cup {None}
      /\ old # None => old.fence <= fence
  BY <1>w, Working
<1>e. old # None /\ old.state = "RUNNING" /\ old.fence = f
  BY <1>w, Working DEF Expected, Locked
<1>t. TypeOK
  BY DEF Inv
<1>u. UNCHANGED <<phase, todo, cleaning, openFence, leases, record, container, processes>>
  BY DEF RecordRunning
<1>p. processes' \subseteq Generation
  BY <1>t, <1>u DEF TypeOK
<1>s. "absent" \in {"absent", "created", "running", "stopped"}
  OBVIOUS
<1>2. UNCHANGED mem /\ MayPersist(g, old) /\ Return(c)
  BY DEF RecordRunning
<1>3. PICK r \in Runtime \cup {None} : r \in {old, kept} /\ Persisted(g, r)
  BY <1>1, <1>2, <1>e, <1>t, Unwritten
<1>4. Remember(g, old)
  BY <1>1, <1>2, <1>t, Unwritten
<1>5. /\ Expected(old, f, "none") /\ Agree(old, r) /\ "none" \notin Claiming
      /\ Quiet(container', g, old) /\ Quiet(container', g, r)
  BY <1>1, <1>3, <1>e, <1>u DEF Expected, Agree, Locked, Claiming
<1>6. \A e \in Fence : container'[<<g, e>>] = "running" => r # None /\ r.fence = e
  BY <1>1, <1>3, <1>e, <1>u DEF Agree
<1> QED
  BY <1>1, <1>2, <1>3, <1>4, <1>5, <1>6, <1>e, <1>p, <1>s, <1>u, <1>w, StepKeeps

LEMMA RecordStoppedInv ==
  ASSUME Inv, NEW c \in Caller, RecordStopped(c)
  PROVE  Inv'
<1> PICK g, f : g = call[c].gen /\ f = call[c].fence
  OBVIOUS
<1> PICK old, kept : old = mem[g] /\ kept = file[g]
  OBVIOUS
<1>w. At(c, "stopped") /\ "stopped" \in Locked
  BY DEF RecordStopped, Locked
<1>1. /\ phase = "serving" /\ g \in Generation /\ f \in Fence /\ f <= fence /\ f > openFence
      /\ Agree(old, kept) /\ Quiet(container, g, old) /\ Quiet(container, g, kept)
      /\ \A e \in Fence : container[<<g, e>>] = "running" => kept # None /\ kept.fence = e
      /\ old \in Runtime \cup {None} /\ kept \in Runtime \cup {None}
      /\ old # None => old.fence <= fence
  BY <1>w, Working
<1>e. old # None /\ old.state = "STOPPED" /\ old.fence = f
  BY <1>w, Working DEF Expected, Locked
<1>t. TypeOK
  BY DEF Inv
<1>u. UNCHANGED <<phase, todo, cleaning, openFence, leases, record, container, processes>>
  BY DEF RecordStopped
<1>p. processes' \subseteq Generation
  BY <1>t, <1>u DEF TypeOK
<1>s. "absent" \in {"absent", "created", "running", "stopped"}
  OBVIOUS
<1>2. UNCHANGED mem
  BY DEF RecordStopped
<1>3. PICK r, step : /\ r \in {old, kept} /\ step \in {"release", "none"} /\ Persisted(g, r)
                     /\ step = "none" => Return(c)
                     /\ step # "none" => Goto(c, step)
  <2>1. CASE Persisted(g, old) /\ Goto(c, "release")
    BY <2>1
  <2>2. CASE UNCHANGED file /\ Return(c)
    BY <1>1, <1>t, <2>2, Unwritten
  <2> QED
    BY <2>1, <2>2 DEF RecordStopped, PersistFails
<1>4. Remember(g, old)
  BY <1>1, <1>2, <1>t, Unwritten
<1>5. /\ Expected(old, f, step) /\ Agree(old, r) /\ ~Usable(old)
      /\ Quiet(container', g, old) /\ Quiet(container', g, r)
  BY <1>1, <1>3, <1>e, <1>u DEF Expected, Agree, Locked, Usable
<1>6. \A e \in Fence : container'[<<g, e>>] # "running"
  BY <1>1, <1>e, <1>u DEF Agree, Quiet
<1>7. old.state # "RUNNING" /\ r \in Runtime \cup {None} /\ (step = "release" \/ step = "none")
  BY <1>1, <1>3, <1>e
<1> QED
  BY <1>1, <1>3, <1>4, <1>5, <1>6, <1>7, <1>p, <1>s, <1>u, <1>w, StepKeeps

LEMMA AdapterCreateInv ==
  ASSUME Inv, NEW c \in Caller, AdapterCreate(c)
  PROVE  Inv'
<1> PICK g, f : g = call[c].gen /\ f = call[c].fence
  OBVIOUS
<1> PICK old, kept : old = mem[g] /\ kept = file[g]
  OBVIOUS
<1>w. At(c, "create") /\ "create" \in Locked
  BY DEF AdapterCreate, Locked
<1>1. /\ phase = "serving" /\ g \in Generation /\ f \in Fence /\ f <= fence /\ f > openFence
      /\ Agree(old, kept) /\ Quiet(container, g, old) /\ Quiet(container, g, kept)
      /\ \A e \in Fence : container[<<g, e>>] = "running" => kept # None /\ kept.fence = e
      /\ old \in Runtime \cup {None} /\ kept \in Runtime \cup {None}
      /\ old # None => old.fence <= fence
  BY <1>w, Working
<1>e. old # None /\ old.state = "CREATING" /\ old.fence = f
  BY <1>w, Working DEF Expected, Locked
<1>t. TypeOK
  BY DEF Inv
<1>u. UNCHANGED <<phase, todo, cleaning, openFence, leases, record, processes>>
  BY DEF AdapterCreate
<1>p. processes' \subseteq Generation
  BY <1>t, <1>u DEF TypeOK
<1>2. Becomes(g, f, "created") \/ UNCHANGED container
  BY DEF AdapterCreate
<1>3. /\ \A e \in Fence : container'[<<g, e>>] = "running" => kept # None /\ kept.fence = e
      /\ \A e \in Fence : container'[<<g, e>>] = "running" => container[<<g, e>>] = "running"
  BY <1>1, <1>2, <1>t DEF Becomes, TypeOK
<1>4. kept # None /\ kept.fence = f /\ (kept.external <=> old.external) /\ kept.state # "STOPPED"
  BY <1>1, <1>e DEF Agree
<1>5. "created" \in {"absent", "created", "running", "stopped"}
  OBVIOUS
<1>6. CASE UNCHANGED <<mem, file>> /\ Goto(c, "ready")
  <2>1. Remember(g, old) /\ Persisted(g, kept)
    BY <1>1, <1>6, <1>t, Unwritten
  <2>2. Expected(old, f, "ready") /\ ~Usable(old) /\ old.state # "RUNNING"
    BY <1>e DEF Expected, Usable, Locked
  <2>3. Quiet(container', g, old) /\ Quiet(container', g, kept)
    BY <1>1, <1>3, <1>e, <1>4 DEF Quiet
  <2> QED
    BY <1>1, <1>2, <1>3, <1>5, <1>6, <1>p, <1>u, <1>w, <2>1, <2>2, <2>3, StepKeeps
<1>7. CASE /\ Remember(g, In(old, "FAILED"))
           /\ MayPersist(g, In(old, "FAILED"))
           /\ Goto(c, "release")
  <2>1. PICK m \in Runtime : m = In(old, "FAILED") /\ m.state = "FAILED"
                             /\ m.fence = old.fence /\ m.external = old.external
    BY <1>1, <1>e, InState DEF State
  <2>2. PICK r \in Runtime \cup {None} : r \in {m, kept} /\ Persisted(g, r)
    BY <1>1, <1>7, <1>t, <2>1, Unwritten
  <2>3. Agree(m, r) /\ Expected(m, f, "release") /\ ~Usable(m) /\ m.state # "RUNNING"
    BY <1>1, <1>4, <1>e, <2>1, <2>2, Kinds DEF Agree, Expected, Usable, Locked
  <2>4. Quiet(container', g, m) /\ Quiet(container', g, r)
    BY <1>1, <1>3, <1>4, <1>e, <2>1, <2>2, Kinds DEF Quiet
  <2>5. \A e \in Fence : container'[<<g, e>>] = "running" => r # None /\ r.fence = e
    BY <1>3, <1>4, <1>e, <2>1, <2>2, Kinds
  <2>6. m \in Runtime \cup {None} /\ (m # None => m.fence <= fence) /\ f \in Fence
    BY <1>1, <1>e, <2>1
  <2>7. Remember(g, m) /\ Persisted(g, r) /\ Goto(c, "release")
    BY <1>7, <2>1, <2>2
  <2> QED
    BY <1>2, <1>5, <1>p, <1>u, <1>w, <2>3, <2>4, <2>5, <2>6, <2>7, StepKeeps
<1> QED
  BY <1>6, <1>7 DEF AdapterCreate

LEMMA AdapterStartInv ==
  ASSUME Inv, NEW c \in Caller, AdapterStart(c)
  PROVE  Inv'
<1> PICK g, f : g = call[c].gen /\ f = call[c].fence
  OBVIOUS
<1> PICK old, kept : old = mem[g] /\ kept = file[g]
  OBVIOUS
<1>w. At(c, "start") /\ "start" \in Locked
  BY DEF AdapterStart, Locked
<1>1. /\ phase = "serving" /\ g \in Generation /\ f \in Fence /\ f <= fence /\ f > openFence
      /\ Agree(old, kept) /\ Quiet(container, g, old) /\ Quiet(container, g, kept)
      /\ \A e \in Fence : container[<<g, e>>] = "running" => kept # None /\ kept.fence = e
      /\ old \in Runtime \cup {None} /\ kept \in Runtime \cup {None}
      /\ old # None => old.fence <= fence
  BY <1>w, Working
<1>e. old # None /\ old.state = "READY" /\ old.fence = f
  BY <1>w, Working DEF Expected, Locked
<1>t. TypeOK
  BY DEF Inv
<1>u. UNCHANGED <<phase, todo, cleaning, openFence, leases, record, processes>>
  BY DEF AdapterStart
<1>p. processes' \subseteq Generation
  BY <1>t, <1>u DEF TypeOK
<1>2. Becomes(g, f, "running") \/ UNCHANGED container
  BY DEF AdapterStart
<1>3. \A e \in Fence : container'[<<g, e>>] = "running" => e = f
  BY <1>1, <1>2, <1>e, <1>t DEF Becomes, TypeOK, Agree
<1>4. /\ old.external /\ kept # None /\ kept.fence = f
      /\ kept.external /\ kept.state # "STOPPED"
  BY <1>1, <1>e DEF Agree, Quiet
<1>5. "running" \in {"absent", "created", "running", "stopped"} /\ "none" \notin Claiming
  BY DEF Claiming
<1>6. CASE UNCHANGED file /\ Remember(g, In(old, "RUNNING")) /\ Goto(c, "running")
  <2>1. PICK m \in Runtime : m = In(old, "RUNNING") /\ m.state = "RUNNING"
                             /\ m.fence = old.fence /\ m.external = old.external
    BY <1>1, <1>e, InState DEF State
  <2>2. Remember(g, m) /\ Persisted(g, kept) /\ Goto(c, "running")
    BY <1>1, <1>6, <1>t, <2>1, Unwritten
  <2>3. m # None /\ Expected(m, f, "running") /\ Agree(m, kept) /\ "running" \notin Claiming
    BY <1>1, <1>4, <1>e, <2>1, Kinds DEF Expected, Agree, Claiming, Locked
  <2>4. Quiet(container', g, m) /\ Quiet(container', g, kept)
    BY <1>1, <1>4, <2>1, <1>e DEF Quiet
  <2>5. \A e \in Fence : container'[<<g, e>>] = "running" => kept # None /\ kept.fence = e
    BY <1>3, <1>4
  <2>6. /\ m \in Runtime \cup {None} /\ kept \in Runtime \cup {None}
        /\ m.fence <= fence /\ f \in Fence /\ m.fence = f
    BY <1>1, <1>e, <2>1
  <2> QED
    BY <1>2, <1>5, <1>p, <1>u, <1>w, <2>2, <2>3, <2>4, <2>5, <2>6, StepKeeps
<1>7. CASE UNCHANGED mem /\ MayPersist(g, In(old, "FAILED")) /\ Return(c)
  <2>1. PICK q \in Runtime : q = In(old, "FAILED") /\ q.state = "FAILED"
                             /\ q.fence = old.fence /\ q.external = old.external
    BY <1>1, <1>e, InState DEF State
  <2>2. PICK r \in Runtime \cup {None} : r \in {q, kept} /\ Persisted(g, r)
    BY <1>1, <1>7, <1>t, <2>1, Unwritten
  <2>3. r # None /\ r.fence = f /\ r.external /\ r.state # "STOPPED"
    BY <1>4, <1>e, <2>1, <2>2, Kinds
  <2>4. Remember(g, old) /\ Return(c)
    BY <1>1, <1>7, <1>t, Unwritten
  <2>5. Expected(old, f, "none") /\ Agree(old, r)
    BY <1>4, <1>e, <2>3 DEF Expected, Agree, Locked
  <2>6. Quiet(container', g, old) /\ Quiet(container', g, r)
    BY <1>4, <1>e, <2>3 DEF Quiet
  <2>7. \A e \in Fence : container'[<<g, e>>] = "running" => r # None /\ r.fence = e
    BY <1>3, <2>3
  <2> QED
    BY <1>1, <1>2, <1>5, <1>e, <1>p, <1>u, <1>w, <2>2, <2>4, <2>5, <2>6, <2>7, StepKeeps
<1> QED
  BY <1>6, <1>7 DEF AdapterStart

LEMMA AdapterStopInv ==
  ASSUME Inv, NEW c \in Caller, AdapterStop(c)
  PROVE  Inv'
<1> PICK g, f : g = call[c].gen /\ f = call[c].fence
  OBVIOUS
<1> PICK old, kept : old = mem[g] /\ kept = file[g]
  OBVIOUS
<1>w. At(c, "stop") /\ "stop" \in Locked
  BY DEF AdapterStop, Locked
<1>1. /\ phase = "serving" /\ g \in Generation /\ f \in Fence /\ f <= fence /\ f > openFence
      /\ Agree(old, kept) /\ Quiet(container, g, old) /\ Quiet(container, g, kept)
      /\ \A e \in Fence : container[<<g, e>>] = "running" => kept # None /\ kept.fence = e
      /\ old \in Runtime \cup {None} /\ kept \in Runtime \cup {None}
      /\ old # None => old.fence <= fence
  BY <1>w, Working
<1>e. old # None /\ old.state = "RUNNING" /\ old.fence = f
  BY <1>w, Working DEF Expected, Locked
<1>t. TypeOK
  BY DEF Inv
<1>u. UNCHANGED <<phase, todo, cleaning, openFence, leases, record>>
  BY DEF AdapterStop
<1>p. processes' \subseteq Generation
  BY <1>t DEF AdapterStop, TypeOK
<1>2. Becomes(g, f, "stopped") \/ UNCHANGED container
  BY DEF AdapterStop
<1>3. \A e \in Fence : container'[<<g, e>>] = "running" => container[<<g, e>>] = "running" /\ e = f
  BY <1>1, <1>2, <1>e, <1>t DEF Becomes, TypeOK, Agree
<1>4. kept # None /\ kept.fence = f /\ kept.external = old.external /\ kept.state # "STOPPED"
  BY <1>1, <1>e DEF Agree
<1>5. "stopped" \in {"absent", "created", "running", "stopped"} /\ "none" \notin Claiming
  BY DEF Claiming
<1>6. CASE /\ Becomes(g, f, "stopped") /\ UNCHANGED file
           /\ Remember(g, In(old, "STOPPED")) /\ Goto(c, "stopped")
  <2>1. PICK m \in Runtime : m = In(old, "STOPPED") /\ m.state = "STOPPED"
                             /\ m.fence = old.fence /\ m.external = old.external
    BY <1>1, <1>e, InState DEF State
  <2>2. Remember(g, m) /\ Persisted(g, kept) /\ Goto(c, "stopped")
    BY <1>1, <1>6, <1>t, <2>1, Unwritten
  <2>3. m # None /\ Expected(m, f, "stopped") /\ Agree(m, kept) /\ ~Usable(m)
    BY <1>1, <1>4, <1>e, <2>1, Kinds DEF Expected, Agree, Usable, Locked
  <2>4. \A e \in Fence : container'[<<g, e>>] # "running"
    BY <1>1, <1>3, <1>6, <1>t DEF Becomes, TypeOK
  <2>5. Quiet(container', g, m) /\ Quiet(container', g, kept)
    BY <1>1, <1>4, <1>e, <2>1, <2>4, Kinds DEF Quiet
  <2>6. /\ m \in Runtime \cup {None} /\ kept \in Runtime \cup {None}
        /\ m.fence <= fence /\ f \in Fence /\ m.state # "RUNNING"
    BY <1>1, <1>e, <2>1
  <2> QED
    BY <1>2, <1>5, <1>p, <1>u, <1>w, <2>2, <2>3, <2>4, <2>5, <2>6, StepKeeps
<1>7. CASE UNCHANGED mem /\ MayPersist(g, StopFailed(old)) /\ Return(c)
  <2>1. PICK q \in Runtime : q = StopFailed(old) /\ q.state = "QUARANTINED"
                             /\ q.fence = old.fence /\ q.external = old.external
    BY <1>1, <1>e, InState DEF State, StopFailed
  <2>2. PICK r \in Runtime \cup {None} : r \in {q, kept} /\ Persisted(g, r)
    BY <1>1, <1>7, <1>t, <2>1, Unwritten
  <2>3. r # None /\ r.fence = f /\ r.external = old.external /\ r.state # "STOPPED"
    BY <1>4, <1>e, <2>1, <2>2, Kinds
  <2>4. Remember(g, old) /\ Return(c)
    BY <1>1, <1>7, <1>t, Unwritten
  <2>5. Expected(old, f, "none") /\ Agree(old, r)
    BY <1>4, <1>e, <2>3 DEF Expected, Agree, Locked
  <2>6. Quiet(container', g, old) /\ Quiet(container', g, r)
    <3>1. r.state = "READY" => r.external
      BY <1>1, <2>1, <2>2, <2>3 DEF Quiet
    <3> QED
      BY <1>1, <1>3, <1>e, <2>3, <3>1 DEF Quiet
  <2>7. \A e \in Fence : container'[<<g, e>>] = "running" => r # None /\ r.fence = e
    BY <1>3, <2>3
  <2> QED
    BY <1>1, <1>2, <1>5, <1>e, <1>p, <1>u, <1>w, <2>2, <2>4, <2>5, <2>6, <2>7, StepKeeps
<1> QED
  BY <1>6, <1>7 DEF AdapterStop

-----------------------------------------------------------------------------
(* Calls that do not hold the mutex, or are about to take it.              *)

LEMMA Parts ==
  Inv => /\ TypeOK /\ FencesSpent /\ Serving /\ Mutex /\ CallsExpect /\ CopiesAgree
         /\ ContainersRecorded /\ RecoveryInv /\ ReservationInv
BY DEF Inv

\* One call changes, to k; the map stays.
LEMMA OwnCall ==
  ASSUME Inv, phase = "serving",
         UNCHANGED <<phase, todo, cleaning, openFence, fence, mem, container, processes>>,
         NEW c \in Caller, NEW k \in Call \cup {None},
         call' = [call EXCEPT ![c] = k],
         lease' \in [Generation -> 0 .. MaxFence],
         reserved' \in [Generation -> 0 .. MaxFence],
         record' \in [Generation -> 0 .. MaxFence],
         expired' \subseteq Generation, gone' \subseteq Generation,
         file' \in [Generation -> Runtime \cup {None}],
         \A h \in Generation : record'[h] = record[h] \/ record'[h] = 0,
         \A h \in Generation : file'[h] # None => file'[h].fence <= fence,
         k # None => k.fence <= fence /\ k.fence > openFence
                     /\ Expected(mem[k.gen], k.fence, k.at),
         k # None /\ k.at \in Locked => MutexFree
  PROVE  TypeOK' /\ FencesSpent' /\ Serving' /\ Mutex' /\ CallsExpect'
<1>1. /\ call \in [Caller -> Call \cup {None}]
      /\ call' \in [Caller -> Call \cup {None}]
      /\ \A d \in Caller \ {c} : call'[d] = call[d]
      /\ call'[c] = k
  BY DEF Inv, TypeOK
<1>2. TypeOK'
  BY <1>1, Parts DEF TypeOK
<1>3. FencesSpent'
  <2>1. \A d \in Caller : call'[d] # None => call'[d].fence <= fence /\ call'[d].fence > openFence
    BY <1>1, Parts DEF FencesSpent
  <2>2. \A h \in Generation :
          /\ record'[h] <= fence /\ (record'[h] # 0 => record'[h] > openFence)
          /\ mem'[h] # None => mem'[h].fence <= fence
          /\ file'[h] # None => file'[h].fence <= fence
    <3>1. fence \in Nat /\ openFence \in Nat
      BY Kinds, Parts DEF TypeOK
    <3> QED
      BY <3>1, Parts DEF FencesSpent
  <2> QED
    BY <2>1, <2>2, Parts DEF FencesSpent
<1>4. Serving'
  BY DEF Serving
<1>5. Mutex'
  <2>1. \A d \in Caller \ {c} : Holds(d)' <=> Holds(d)
    BY <1>1 DEF Holds
  <2>2. Holds(c)' => \A d \in Caller : ~Holds(d)
    BY <1>1 DEF Holds, MutexFree
  <2> QED
    BY <2>1, <2>2, Parts DEF Mutex
<1>6. CallsExpect'
  BY <1>1, Parts DEF CallsExpect
<1> QED
  BY <1>2, <1>3, <1>4, <1>5, <1>6

\* What the manager and recovery know stays when they and the containers do.
LEMMA Untouched ==
  ASSUME Inv, UNCHANGED <<phase, todo, cleaning, openFence, mem, file, container>>
  PROVE  CopiesAgree' /\ ContainersRecorded' /\ RecoveryInv'
<1>1. CopiesAgree'
  BY Parts DEF CopiesAgree
<1>2. ContainersRecorded'
  BY Parts DEF ContainersRecorded
<1>3. RecoveryInv'
  BY Parts DEF RecoveryInv
<1> QED
  BY <1>1, <1>2, <1>3

\* A call that does not come to claim a reservation takes none from another.
LEMMA ReservationStays ==
  ASSUME Inv, UNCHANGED <<phase, openFence, mem>>,
         NEW c \in Caller, NEW k \in Call \cup {None},
         call' = [call EXCEPT ![c] = k],
         k # None /\ k.at \in Claiming =>
           /\ call[c] # None /\ call[c].at \in Claiming
           /\ call[c].gen = k.gen /\ call[c].fence = k.fence,
         gone \subseteq gone',
         \A h \in Generation \ gone' : reserved'[h] = reserved[h]
  PROVE  ReservationInv'
<1>1. /\ \A d \in Caller \ {c} : call'[d] = call[d]
      /\ call'[c] = k
  BY DEF Inv, TypeOK
<1>2. \A d \in Caller, h \in Generation :
        Claims(d, h)' => Claims(d, h) /\ call'[d].fence = call[d].fence
  BY <1>1 DEF Claims
<1> SUFFICES ASSUME phase = "serving", NEW h \in Generation \ gone'
             PROVE  /\ Usable(mem[h])' => reserved'[h] = mem'[h].fence
                    /\ \A d \in Caller :
                         Claims(d, h)' => reserved'[h] = call'[d].fence /\ ~Usable(mem[h])'
                    /\ \A d, e \in Caller : Claims(d, h)' /\ Claims(e, h)' => d = e
  BY DEF ReservationInv
<1>3. /\ Usable(mem[h]) => reserved[h] = mem[h].fence
      /\ \A d \in Caller : Claims(d, h) => reserved[h] = call[d].fence /\ ~Usable(mem[h])
      /\ \A d, e \in Caller : Claims(d, h) /\ Claims(e, h) => d = e
  BY Parts DEF ReservationInv
<1>4. Usable(mem[h])' <=> Usable(mem[h])
  BY DEF Usable
<1> QED
  BY <1>2, <1>3, <1>4

\* A call that begins from the cached record of a generation.
LEMMA Begins ==
  ASSUME Inv, NEW c \in Caller, NEW g \in Generation, record[g] # 0,
         NEW step \in Locked \cup {"reserved", "release", "discard", "remove"},
         Begin(c, g, step)
  PROVE  \E k \in Call : /\ k # None /\ k.gen = g /\ k.fence = record[g] /\ k.at = step
                         /\ k.fence <= fence /\ k.fence > openFence /\ k.fence \in Fence
                         /\ call' = [call EXCEPT ![c] = k]
                         /\ phase = "serving" /\ call[c] = None
<1>1. record[g] \in Fence
  BY Parts, Kinds DEF TypeOK
<1> PICK k : k = [gen |-> g, fence |-> record[g], at |-> step]
  OBVIOUS
<1>2. k \in Call /\ k.gen = g /\ k.fence = record[g] /\ k.at = step
  BY <1>1 DEF Call
<1>3. k # None
  BY <1>2, Kinds
<1> QED
  BY <1>1, <1>2, <1>3, Parts DEF Begin, FencesSpent

\* A call that goes on, or returns.
LEMMA Continues ==
  ASSUME Inv, NEW c \in Caller, call[c] # None,
         NEW step \in Locked \cup {"reserved", "release", "discard", "remove"}
  PROVE  /\ phase = "serving" /\ call[c] \in Call
         /\ call[c].gen \in Generation /\ call[c].fence \in Fence
         /\ call[c].fence <= fence /\ call[c].fence > openFence
         /\ Goto(c, step) =>
              \E k \in Call : /\ k # None /\ k.gen = call[c].gen /\ k.fence = call[c].fence
                              /\ k.at = step /\ call' = [call EXCEPT ![c] = k]
<1>1. phase = "serving" /\ call \in [Caller -> Call \cup {None}] /\ call[c] \in Call
      /\ call[c].fence <= fence /\ call[c].fence > openFence
  BY Parts DEF TypeOK, Serving, FencesSpent
<1> PICK k : k = [call[c] EXCEPT !.at = step]
  OBVIOUS
<1>2. k \in Call /\ k.gen = call[c].gen /\ k.fence = call[c].fence /\ k.at = step
  BY <1>1 DEF Call
<1>3. Goto(c, step) => call' = [call EXCEPT ![c] = k]
  BY <1>1 DEF Goto
<1> QED
  BY <1>1, <1>2, <1>3, Kinds

LEMMA DiscardInv ==
  ASSUME Inv, NEW c \in Caller, NEW g \in Generation, Discard(c, g)
  PROVE  Inv'
<1>1. PICK k \in Call : /\ k # None /\ k.gen = g /\ k.fence = record[g] /\ k.at = "discard"
                        /\ k.fence <= fence /\ k.fence > openFence
                        /\ call' = [call EXCEPT ![c] = k] /\ phase = "serving"
  BY Begins DEF Discard
<1>2. UNCHANGED <<phase, todo, cleaning, openFence, fence, lease, expired, gone, reserved,
                  mem, file, container, processes>>
  BY DEF Discard, leases
<1>3. /\ record' \in [Generation -> 0 .. MaxFence]
      /\ \A h \in Generation : record'[h] = record[h] \/ record'[h] = 0
  BY Parts, FenceAssumption DEF Discard, TypeOK
<1>4. TypeOK' /\ FencesSpent' /\ Serving' /\ Mutex' /\ CallsExpect'
  <2>1. /\ lease' \in [Generation -> 0 .. MaxFence] /\ reserved' \in [Generation -> 0 .. MaxFence]
        /\ expired' \subseteq Generation /\ gone' \subseteq Generation
        /\ file' \in [Generation -> Runtime \cup {None}]
        /\ \A h \in Generation : file'[h] # None => file'[h].fence <= fence
    BY <1>2, Parts DEF TypeOK, FencesSpent
  <2>2. Expected(mem[k.gen], k.fence, k.at) /\ k.at \notin Locked
    BY <1>1 DEF Expected, Locked
  <2> QED
    BY <1>1, <1>2, <1>3, <2>1, <2>2, OwnCall
<1>5. CopiesAgree' /\ ContainersRecorded' /\ RecoveryInv'
  BY <1>2, Untouched
<1>6. ReservationInv'
  BY <1>1, <1>2, ReservationStays DEF Claiming
<1> QED
  BY <1>4, <1>5, <1>6 DEF Inv

LEMMA DiscardReleaseInv ==
  ASSUME Inv, NEW c \in Caller, DiscardRelease(c)
  PROVE  Inv'
<1>1. UNCHANGED <<phase, todo, cleaning, openFence, fence, expired, gone, reserved, record,
                  mem, file, container, processes>>
  BY DEF DiscardRelease
<1>2. call[c] # None /\ call[c].at = "discard"
  BY DEF DiscardRelease
<1>3. phase = "serving" /\ call[c] \in Call /\ call[c].fence <= fence /\ call[c].fence > openFence
  BY <1>2, Continues
<1>4. PICK k \in Call \cup {None} :
        /\ call' = [call EXCEPT ![c] = k]
        /\ k # None => k.at = "remove" /\ k.fence = call[c].fence
  <2>1. CASE Goto(c, "remove")
    BY <1>2, <2>1, Continues
  <2>2. CASE Return(c)
    BY <2>2 DEF Return
  <2> QED
    BY <2>1, <2>2 DEF DiscardRelease
<1>5. lease' \in [Generation -> 0 .. MaxFence]
  BY Parts, FenceAssumption DEF DiscardRelease, TypeOK
<1>6. TypeOK' /\ FencesSpent' /\ Serving' /\ Mutex' /\ CallsExpect'
  <2>1. /\ record' \in [Generation -> 0 .. MaxFence] /\ reserved' \in [Generation -> 0 .. MaxFence]
        /\ expired' \subseteq Generation /\ gone' \subseteq Generation
        /\ file' \in [Generation -> Runtime \cup {None}]
        /\ \A h \in Generation : file'[h] # None => file'[h].fence <= fence
        /\ \A h \in Generation : record'[h] = record[h]
    BY <1>1, Parts DEF TypeOK, FencesSpent
  <2>2. k # None => Expected(mem[k.gen], k.fence, k.at) /\ k.at \notin Locked
    BY <1>4 DEF Expected, Locked
  <2> QED
    BY <1>1, <1>3, <1>4, <1>5, <2>1, <2>2, OwnCall
<1>7. CopiesAgree' /\ ContainersRecorded' /\ RecoveryInv'
  BY <1>1, Untouched
<1>8. ReservationInv'
  BY <1>1, <1>4, ReservationStays DEF Claiming
<1> QED
  BY <1>6, <1>7, <1>8 DEF Inv

LEMMA DiscardRemoveInv ==
  ASSUME Inv, NEW c \in Caller, DiscardRemove(c)
  PROVE  Inv'
<1>1. UNCHANGED <<phase, todo, cleaning, openFence, fence, lease, expired, record,
                  mem, file, container, processes>>
  BY DEF DiscardRemove
<1>2. call[c] # None /\ call' = [call EXCEPT ![c] = None]
  BY DEF DiscardRemove, Return
<1>3. phase = "serving" /\ call[c].gen \in Generation
  BY <1>2, Continues
<1>4. /\ reserved' \in [Generation -> 0 .. MaxFence]
      /\ gone \subseteq gone' /\ gone' \subseteq Generation
      /\ \A h \in Generation \ gone' : reserved'[h] = reserved[h]
  <2>1. CASE UNCHANGED <<gone, reserved>>
    BY <2>1, Parts DEF TypeOK
  <2>2. CASE gone' = gone \cup {call[c].gen} /\ reserved' = [reserved EXCEPT ![call[c].gen] = 0]
    BY <1>3, <2>2, Parts, FenceAssumption DEF TypeOK
  <2> QED
    BY <2>1, <2>2 DEF DiscardRemove
<1>5. TypeOK' /\ FencesSpent' /\ Serving' /\ Mutex' /\ CallsExpect'
  <2>1. /\ record' \in [Generation -> 0 .. MaxFence] /\ lease' \in [Generation -> 0 .. MaxFence]
        /\ expired' \subseteq Generation
        /\ file' \in [Generation -> Runtime \cup {None}]
        /\ \A h \in Generation : file'[h] # None => file'[h].fence <= fence
        /\ \A h \in Generation : record'[h] = record[h]
    BY <1>1, Parts DEF TypeOK, FencesSpent
  <2> QED
    BY <1>1, <1>2, <1>3, <1>4, <2>1, OwnCall
<1>6. CopiesAgree' /\ ContainersRecorded' /\ RecoveryInv'
  BY <1>1, Untouched
<1>7. ReservationInv'
  BY <1>1, <1>2, <1>4, ReservationStays
<1> QED
  BY <1>5, <1>6, <1>7 DEF Inv

LEMMA AdmitCreateInv ==
  ASSUME Inv, NEW c \in Caller, AdmitCreate(c)
  PROVE  Inv'
<1>1. UNCHANGED <<phase, todo, cleaning, openFence, fence, lease, expired, gone, reserved, record,
                  mem, file, container, processes>>
  BY DEF AdmitCreate, leases
<1>2. call[c] # None /\ call[c].at = "reserved" /\ MutexFree
  BY DEF AdmitCreate
<1>3. phase = "serving" /\ call[c].fence <= fence /\ call[c].fence > openFence
  BY <1>2, Continues
<1>4. PICK step \in {"record", "clean", "unlink", "release"} :
        /\ Goto(c, step)
        /\ step = "record" => mem[call[c].gen] = None
        /\ step \in {"clean", "unlink"} =>
             mem[call[c].gen] # None /\ mem[call[c].gen].state = "STOPPED"
  BY DEF AdmitCreate, Replaceable
<1>5. PICK k \in Call : /\ k # None /\ k.gen = call[c].gen /\ k.fence = call[c].fence
                        /\ k.at = step /\ call' = [call EXCEPT ![c] = k]
  BY <1>2, <1>4, Continues DEF Locked
<1>6. TypeOK' /\ FencesSpent' /\ Serving' /\ Mutex' /\ CallsExpect'
  <2>1. /\ record' \in [Generation -> 0 .. MaxFence] /\ reserved' \in [Generation -> 0 .. MaxFence]
        /\ lease' \in [Generation -> 0 .. MaxFence]
        /\ expired' \subseteq Generation /\ gone' \subseteq Generation
        /\ file' \in [Generation -> Runtime \cup {None}]
        /\ \A h \in Generation : file'[h] # None => file'[h].fence <= fence
        /\ \A h \in Generation : record'[h] = record[h]
    BY <1>1, Parts DEF TypeOK, FencesSpent
  <2>2. Expected(mem[k.gen], k.fence, k.at)
    BY <1>4, <1>5 DEF Expected, Locked
  <2> QED
    BY <1>1, <1>2, <1>3, <1>5, <2>1, <2>2, OwnCall
<1>7. CopiesAgree' /\ ContainersRecorded' /\ RecoveryInv'
  BY <1>1, Untouched
<1>8. ReservationInv'
  BY <1>1, <1>2, <1>5, ReservationStays DEF Claiming
<1> QED
  BY <1>6, <1>7, <1>8 DEF Inv

LEMMA StartInv ==
  ASSUME Inv, NEW c \in Caller, NEW g \in Generation, Start(c, g)
  PROVE  Inv'
<1>1. UNCHANGED <<phase, todo, cleaning, openFence, fence, lease, expired, gone, reserved, record,
                  mem, file, container, processes>>
  BY DEF Start, leases
<1>2. /\ MutexFree /\ mem[g] # None /\ mem[g].state = "READY"
      /\ mem[g].fence = record[g] /\ record[g] # 0
  BY DEF Start, Owned, LeaseAsserted
<1>3. PICK k \in Call : /\ k # None /\ k.gen = g /\ k.fence = record[g] /\ k.at = "start"
                        /\ k.fence <= fence /\ k.fence > openFence
                        /\ call' = [call EXCEPT ![c] = k] /\ phase = "serving"
  BY <1>2, Begins DEF Start, Locked
<1>4. TypeOK' /\ FencesSpent' /\ Serving' /\ Mutex' /\ CallsExpect'
  <2>1. /\ record' \in [Generation -> 0 .. MaxFence] /\ reserved' \in [Generation -> 0 .. MaxFence]
        /\ lease' \in [Generation -> 0 .. MaxFence]
        /\ expired' \subseteq Generation /\ gone' \subseteq Generation
        /\ file' \in [Generation -> Runtime \cup {None}]
        /\ \A h \in Generation : file'[h] # None => file'[h].fence <= fence
        /\ \A h \in Generation : record'[h] = record[h]
    BY <1>1, Parts DEF TypeOK, FencesSpent
  <2>2. Expected(mem[k.gen], k.fence, k.at)
    BY <1>2, <1>3 DEF Expected, Locked
  <2> QED
    BY <1>1, <1>2, <1>3, <2>1, <2>2, OwnCall
<1>5. CopiesAgree' /\ ContainersRecorded' /\ RecoveryInv'
  BY <1>1, Untouched
<1>6. ReservationInv'
  BY <1>1, <1>3, ReservationStays DEF Claiming
<1> QED
  BY <1>4, <1>5, <1>6 DEF Inv

LEMMA StopInv ==
  ASSUME Inv, NEW c \in Caller, NEW g \in Generation, Stop(c, g)
  PROVE  Inv'
<1>1. UNCHANGED <<phase, todo, cleaning, openFence, fence, lease, expired, gone, reserved, record,
                  mem, container, processes>>
  BY DEF Stop, leases
<1>2. /\ MutexFree /\ mem[g] # None /\ mem[g].state = "RUNNING"
      /\ mem[g].fence = record[g] /\ record[g] # 0 /\ Persisted(g, In(mem[g], "STOPPING"))
  BY DEF Stop, Owned, LeaseAsserted
<1>3. PICK k \in Call : /\ k # None /\ k.gen = g /\ k.fence = record[g] /\ k.at = "stop"
                        /\ k.fence <= fence /\ k.fence > openFence
                        /\ call' = [call EXCEPT ![c] = k] /\ phase = "serving"
  BY <1>2, Begins DEF Stop, Locked
<1>4. mem[g] \in Runtime
  BY <1>2, Parts DEF TypeOK
<1>5. PICK r \in Runtime : /\ r = In(mem[g], "STOPPING") /\ r.state = "STOPPING"
                           /\ r.fence = mem[g].fence /\ r.external = mem[g].external
  BY <1>4, InState DEF State
<1>6. /\ file' \in [Generation -> Runtime \cup {None}] /\ file'[g] = r
      /\ \A h \in Generation \ {g} : file'[h] = file[h]
  BY <1>2, <1>5, Parts, Writes
<1>7. TypeOK' /\ FencesSpent' /\ Serving' /\ Mutex' /\ CallsExpect'
  <2>1. /\ record' \in [Generation -> 0 .. MaxFence] /\ reserved' \in [Generation -> 0 .. MaxFence]
        /\ lease' \in [Generation -> 0 .. MaxFence]
        /\ expired' \subseteq Generation /\ gone' \subseteq Generation
        /\ \A h \in Generation : file'[h] # None => file'[h].fence <= fence
        /\ \A h \in Generation : record'[h] = record[h]
    BY <1>1, <1>2, <1>5, <1>6, Parts DEF TypeOK, FencesSpent
  <2>2. Expected(mem[k.gen], k.fence, k.at)
    BY <1>2, <1>3 DEF Expected, Locked
  <2> QED
    BY <1>1, <1>2, <1>3, <1>6, <2>1, <2>2, OwnCall
<1>8. r # None /\ Agree(mem[g], file[g]) /\ Quiet(container, g, mem[g])
      /\ \A f \in Fence : container[<<g, f>>] = "running" => file[g] # None /\ file[g].fence = f
  BY <1>3, <1>5, Kinds, Parts DEF CopiesAgree, ContainersRecorded
<1>9. CopiesAgree'
  <2>1. Agree(mem[g], r)
    BY <1>2, <1>5, <1>8 DEF Agree
  <2> QED
    BY <1>1, <1>3, <1>6, <2>1, Parts DEF CopiesAgree
<1>10. ContainersRecorded'
  <2>1. Quiet(container, g, r)
    BY <1>2, <1>5, <1>8 DEF Quiet
  <2>2. \A f \in Fence : container[<<g, f>>] = "running" => r.fence = f
    BY <1>2, <1>5, <1>8 DEF Agree
  <2> QED
    BY <1>1, <1>6, <1>8, <2>1, <2>2, Parts DEF ContainersRecorded
<1>11. RecoveryInv'
  BY <1>1, Parts DEF RecoveryInv
<1>12. ReservationInv'
  BY <1>1, <1>3, ReservationStays DEF Claiming
<1> QED
  BY <1>7, <1>9, <1>10, <1>11, <1>12 DEF Inv

LEMMA ReserveInv ==
  ASSUME Inv, NEW c \in Caller, NEW g \in Generation, Reserve(c, g)
  PROVE  Inv'
<1>1. UNCHANGED <<phase, todo, cleaning, openFence, fence, lease, expired, gone, record,
                  mem, file, container, processes>>
  BY DEF Reserve
<1>2. /\ reserved[g] = 0 /\ record[g] # 0 /\ g \notin gone
      /\ reserved' = [reserved EXCEPT ![g] = record[g]]
  BY DEF Reserve, LeaseAsserted, Unreserved
<1>3. PICK k \in Call : /\ k # None /\ k.gen = g /\ k.fence = record[g] /\ k.at = "reserved"
                        /\ k.fence <= fence /\ k.fence > openFence
                        /\ call' = [call EXCEPT ![c] = k] /\ phase = "serving" /\ call[c] = None
  BY <1>2, Begins DEF Reserve
<1>4. /\ reserved' \in [Generation -> 0 .. MaxFence] /\ reserved'[g] = k.fence
      /\ \A h \in Generation \ {g} : reserved'[h] = reserved[h]
      /\ \A d \in Caller \ {c} : call'[d] = call[d]
      /\ call'[c] = k
  BY <1>2, <1>3, Parts DEF TypeOK
<1>5. TypeOK' /\ FencesSpent' /\ Serving' /\ Mutex' /\ CallsExpect'
  <2>1. /\ record' \in [Generation -> 0 .. MaxFence]
        /\ lease' \in [Generation -> 0 .. MaxFence]
        /\ expired' \subseteq Generation /\ gone' \subseteq Generation
        /\ file' \in [Generation -> Runtime \cup {None}]
        /\ \A h \in Generation : file'[h] # None => file'[h].fence <= fence
        /\ \A h \in Generation : record'[h] = record[h]
    BY <1>1, Parts DEF TypeOK, FencesSpent
  <2>2. Expected(mem[k.gen], k.fence, k.at) /\ k.at \notin Locked
    BY <1>3 DEF Expected, Locked
  <2> QED
    BY <1>1, <1>3, <1>4, <2>1, <2>2, OwnCall
<1>6. CopiesAgree' /\ ContainersRecorded' /\ RecoveryInv'
  BY <1>1, Untouched
<1>7. ReservationInv'
  <2>1. ~Usable(mem[g]) /\ \A d \in Caller : ~Claims(d, g)
    <3>1. g \in Generation \ gone
      BY <1>2
    <3>2. /\ Usable(mem[g]) => reserved[g] = mem[g].fence
          /\ \A d \in Caller : Claims(d, g) => reserved[g] = call[d].fence
      BY <1>3, <3>1, Parts DEF ReservationInv
    <3>3. \A d \in Caller : call[d] # None => call[d].fence # 0
      BY Parts, Kinds DEF TypeOK, FencesSpent
    <3>4. mem[g] # None => mem[g].fence # 0
      BY Parts, Kinds DEF TypeOK
    <3> QED
      BY <1>2, <3>2, <3>3, <3>4 DEF Claims, Usable
  <2> SUFFICES ASSUME NEW h \in Generation \ gone
               PROVE  /\ Usable(mem[h]) => reserved'[h] = mem[h].fence
                      /\ \A d \in Caller :
                         Claims(d, h)' => reserved'[h] = call'[d].fence /\ ~Usable(mem[h])
                      /\ \A d, e \in Caller : Claims(d, h)' /\ Claims(e, h)' => d = e
    BY <1>1 DEF ReservationInv, Usable
  <2>2. CASE h = g
    BY <1>4, <2>1, <2>2 DEF Claims
  <2>3. CASE h # g
    <3>1. \A d \in Caller : Claims(d, h)' => Claims(d, h) /\ call'[d] = call[d]
      BY <1>3, <1>4, <2>3 DEF Claims
    <3> QED
      BY <1>3, <1>4, <2>3, <3>1, Parts DEF ReservationInv
  <2> QED
    BY <2>2, <2>3
<1> QED
  BY <1>5, <1>6, <1>7 DEF Inv

LEMMA ReleaseRuntimeInv ==
  ASSUME Inv, NEW c \in Caller, ReleaseRuntime(c)
  PROVE  Inv'
<1>1. UNCHANGED <<phase, todo, cleaning, openFence, fence, lease, expired, gone, record,
                  mem, file, container, processes>>
  BY DEF ReleaseRuntime
<1>2. /\ phase = "serving" /\ call[c] # None /\ call[c].at = "release"
      /\ call' = [call EXCEPT ![c] = None]
  BY DEF ReleaseRuntime, At, Return
<1> PICK g : g = call[c].gen
  OBVIOUS
<1>3. g \in Generation
  BY <1>2, Continues
<1>4. /\ reserved' \in [Generation -> 0 .. MaxFence]
      /\ \A h \in Generation \ {g} : reserved'[h] = reserved[h]
      /\ call'[c] = None /\ \A d \in Caller \ {c} : call'[d] = call[d]
  BY <1>2, <1>3, FenceAssumption, Parts DEF ReleaseRuntime, TypeOK
<1>5. TypeOK' /\ FencesSpent' /\ Serving' /\ Mutex' /\ CallsExpect'
  <2>1. /\ record' \in [Generation -> 0 .. MaxFence]
        /\ lease' \in [Generation -> 0 .. MaxFence]
        /\ expired' \subseteq Generation /\ gone' \subseteq Generation
        /\ file' \in [Generation -> Runtime \cup {None}]
        /\ \A h \in Generation : file'[h] # None => file'[h].fence <= fence
        /\ \A h \in Generation : record'[h] = record[h]
    BY <1>1, Parts DEF TypeOK, FencesSpent
  <2> QED
    BY <1>1, <1>2, <1>4, <2>1, OwnCall
<1>6. CopiesAgree' /\ ContainersRecorded' /\ RecoveryInv'
  BY <1>1, Untouched
<1>7. ReservationInv'
  <2> SUFFICES ASSUME NEW h \in Generation \ gone
               PROVE  /\ Usable(mem[h]) => reserved'[h] = mem[h].fence
                      /\ \A d \in Caller :
                         Claims(d, h)' => reserved'[h] = call'[d].fence /\ ~Usable(mem[h])
                      /\ \A d, e \in Caller : Claims(d, h)' /\ Claims(e, h)' => d = e
    BY <1>1 DEF ReservationInv, Usable
  <2>1. /\ Usable(mem[h]) => reserved[h] = mem[h].fence
        /\ \A d \in Caller : Claims(d, h) => reserved[h] = call[d].fence /\ ~Usable(mem[h])
        /\ \A d, e \in Caller : Claims(d, h) /\ Claims(e, h) => d = e
    BY <1>2, Parts DEF ReservationInv
  <2>2. \A d \in Caller : Claims(d, h)' => Claims(d, h) /\ call'[d] = call[d] /\ d # c
    BY <1>4 DEF Claims
  <2>3. CASE h = g
    <3>1. Claims(c, g)
      BY <1>2 DEF Claims, Claiming
    <3> QED
      BY <2>1, <2>2, <2>3, <3>1
  <2>4. CASE h # g
    BY <1>4, <2>1, <2>2, <2>4
  <2> QED
    BY <2>3, <2>4
<1> QED
  BY <1>5, <1>6, <1>7 DEF Inv

LEMMA AttachInv ==
  ASSUME Inv, NEW g \in Generation, Attach(g)
  PROVE  Inv'
<1>1. UNCHANGED <<phase, todo, cleaning, openFence, gone, reserved, call,
                  mem, file, container, processes>>
  BY DEF Attach
<1>2. /\ phase = "serving" /\ fence < MaxFence /\ fence' = fence + 1
      /\ lease' = [lease EXCEPT ![g] = fence'] /\ record' = [record EXCEPT ![g] = fence']
      /\ expired' = expired \ {g}
  BY DEF Attach
<1>3. fence \in 0 .. MaxFence /\ openFence \in 0 .. MaxFence /\ MaxFence \in Nat
  BY FenceAssumption, Parts DEF TypeOK
<1>4. fence' \in 0 .. MaxFence
  BY <1>2, <1>3
<1>5. TypeOK'
  <2>1. /\ lease' \in [Generation -> 0 .. MaxFence]
        /\ record' \in [Generation -> 0 .. MaxFence]
        /\ expired' \subseteq Generation
    BY <1>2, <1>4, Parts DEF TypeOK
  <2> QED
    BY <1>1, <1>4, <2>1, Parts DEF TypeOK
<1>6. FencesSpent'
  <2>1. openFence <= fence /\ openFence < fence'
    BY <1>2, <1>3, Parts DEF FencesSpent
  <2>2. /\ \A h \in Generation : record[h] \in 0 .. MaxFence
        /\ \A h \in Generation : mem[h] # None => mem[h].fence \in Fence
        /\ \A h \in Generation : file[h] # None => file[h].fence \in Fence
        /\ \A c \in Caller : call[c] # None => call[c].fence \in Fence
    BY Parts, Kinds DEF TypeOK
  <2>3. \A h \in Generation : record'[h] <= fence' /\ (record'[h] # 0 => record'[h] > openFence)
    <3>1. \A h \in Generation : record'[h] = fence' \/ record'[h] = record[h]
      BY <1>2, Parts DEF TypeOK
    <3> QED
      BY <1>2, <1>3, <1>4, <2>1, <2>2, <3>1, Parts DEF FencesSpent
  <2>4. \A h \in Generation : /\ mem[h] # None => mem[h].fence <= fence'
                              /\ file[h] # None => file[h].fence <= fence'
    BY <1>2, <1>3, <2>2, Kinds, Parts DEF FencesSpent
  <2>5. \A c \in Caller : call[c] # None => call[c].fence <= fence' /\ call[c].fence > openFence
    BY <1>2, <1>3, <2>2, Kinds, Parts DEF FencesSpent
  <2> QED
    BY <1>1, <1>2, <2>1, <1>3, <1>4, <2>3, <2>4, <2>5 DEF FencesSpent
<1>7. Serving' /\ Mutex' /\ CallsExpect'
  BY <1>1, <1>2, Parts DEF Serving, Mutex, Holds, CallsExpect
<1>8. CopiesAgree' /\ ContainersRecorded' /\ RecoveryInv'
  BY <1>1, Untouched
<1>9. ReservationInv'
  BY <1>1, Parts DEF ReservationInv, Usable, Claims
<1> QED
  BY <1>5, <1>6, <1>7, <1>8, <1>9 DEF Inv

\* Expiry, quarantine, and processes touch neither calls nor runtimes.
LEMMA AsideInv ==
  ASSUME Inv,
         UNCHANGED <<phase, todo, cleaning, openFence, fence, lease, reserved, record, call,
                     mem, file, container>>,
         expired' \subseteq Generation, gone' \subseteq Generation, gone \subseteq gone',
         processes' \subseteq Generation
  PROVE  Inv'
<1>1. TypeOK'
  BY Parts DEF TypeOK
<1>2. FencesSpent' /\ Serving' /\ Mutex' /\ CallsExpect'
  BY Parts DEF FencesSpent, Serving, Mutex, Holds, CallsExpect
<1>3. CopiesAgree' /\ ContainersRecorded' /\ RecoveryInv'
  BY Untouched
<1>4. ReservationInv'
  BY Parts DEF ReservationInv, Usable, Claims
<1> QED
  BY <1>1, <1>2, <1>3, <1>4 DEF Inv

LEMMA AsidesInv ==
  ASSUME Inv, NEW g \in Generation,
         AttachExpired(g) \/ Expire(g) \/ StartProcess(g) \/ EndProcess(g)
  PROVE  Inv'
<1>1. expired \subseteq Generation /\ gone \subseteq Generation /\ processes \subseteq Generation
  BY Parts DEF TypeOK
<1>2. CASE AttachExpired(g)
  BY <1>1, <1>2, AsideInv DEF AttachExpired, plane
<1>3. CASE Expire(g)
  BY <1>1, <1>3, AsideInv DEF Expire, plane
<1>4. CASE StartProcess(g)
  BY <1>1, <1>4, AsideInv DEF StartProcess, plane, leases
<1>5. CASE EndProcess(g)
  BY <1>1, <1>5, AsideInv DEF EndProcess, plane, leases
<1> QED
  BY <1>2, <1>3, <1>4, <1>5

-----------------------------------------------------------------------------
(* Recovery.                                                               *)

\* While the control plane recovers, nobody calls it.
LEMMA Idle ==
  ASSUME Inv, phase # "serving"
  PROVE  (\A c \in Caller : call[c] = None) /\ (\A g \in Generation : record[g] = 0)
BY DEF Inv, Serving

\* The copies of the runtime being recovered become m.  Recovery either has
\* finished with it or has just stopped its container.
LEMMA RecoverKeeps ==
  ASSUME Inv, phase = "recovering", UNCHANGED <<phase, openFence, record, call, leases>>,
         NEW g \in Generation, g \in todo, NEW m \in Runtime, NEW r \in Runtime,
         Remember(g, m), Persisted(g, r),
         m.fence = mem[g].fence, Agree(m, r),
         NEW s \in {"absent", "created", "running", "stopped"},
         Becomes(g, m.fence, s) \/ UNCHANGED container,
         \A e \in Fence : container'[<<g, e>>] = "running" => r.fence = e,
         Quiet(container', g, m), Quiet(container', g, r),
         processes' \subseteq Generation,
         \/ todo' = todo \ {g} /\ cleaning' = None /\ ~Active(m)
         \/ todo' = todo /\ cleaning' = g /\ container'[<<g, m.fence>>] = "stopped"
  PROVE  Inv'
<1>1. phase' = "recovering" /\ openFence' = openFence /\ fence' = fence
      /\ UNCHANGED <<record, call, lease, expired, gone, reserved>>
  BY DEF leases
<1>2. m # None /\ r # None /\ m.fence \in Fence /\ mem[g] # None
  BY Kinds, Parts DEF RecoveryInv
<1>3. /\ mem' \in [Generation -> Runtime \cup {None}] /\ mem'[g] = m
      /\ file' \in [Generation -> Runtime \cup {None}] /\ file'[g] = r
      /\ \A h \in Generation \ {g} : mem'[h] = mem[h] /\ file'[h] = file[h]
  BY Parts, Writes
<1>4. /\ container' \in [Generation \X Fence -> {"absent", "created", "running", "stopped"}]
      /\ \A h \in Generation \ {g}, e \in Fence : container'[<<h, e>>] = container[<<h, e>>]
  BY <1>2, Parts DEF Becomes, TypeOK
<1>5. TypeOK'
  <2>1. todo' \subseteq Generation /\ cleaning' \in Generation \cup {None}
    BY Parts DEF TypeOK
  <2> QED
    BY <1>1, <1>3, <1>4, <2>1, Parts DEF TypeOK
<1>6. FencesSpent'
  <2>1. m.fence <= fence /\ r.fence <= fence
    BY <1>2, Parts DEF FencesSpent, Agree
  <2>2. \A h \in Generation : /\ mem'[h] # None => mem'[h].fence <= fence
                              /\ file'[h] # None => file'[h].fence <= fence
    BY <1>3, <2>1, Parts DEF FencesSpent
  <2> QED
    BY <1>1, <2>2, Parts DEF FencesSpent
<1>7. Serving' /\ Mutex' /\ CallsExpect' /\ ReservationInv'
  BY <1>1, Idle DEF Serving, Mutex, Holds, CallsExpect, ReservationInv
<1>8. CopiesAgree'
  BY <1>3, Parts DEF CopiesAgree
<1>9. ContainersRecorded'
  <2> SUFFICES ASSUME NEW h \in Generation
               PROVE  /\ Quiet(container', h, mem'[h]) /\ Quiet(container', h, file'[h])
                      /\ \A e \in Fence : container'[<<h, e>>] = "running" =>
                           file'[h] # None /\ file'[h].fence = e
    BY DEF ContainersRecorded
  <2>1. CASE h = g
    BY <1>2, <1>3, <2>1
  <2>2. CASE h # g
    <3>1. mem'[h] = mem[h] /\ file'[h] = file[h]
      BY <1>3, <2>2
    <3>2. /\ mem[h] # None => mem[h].fence \in Fence
          /\ file[h] # None => file[h].fence \in Fence
      BY Kinds, Parts DEF TypeOK
    <3>3. \A e \in Fence : container'[<<h, e>>] = container[<<h, e>>]
      BY <1>4, <2>2
    <3>4. /\ Quiet(container, h, mem[h]) /\ Quiet(container, h, file[h])
          /\ \A e \in Fence : container[<<h, e>>] = "running" => file[h] # None /\ file[h].fence = e
      BY Parts DEF ContainersRecorded
    <3>5. Quiet(container', h, mem[h]) /\ Quiet(container', h, file[h])
      BY <3>2, <3>3, <3>4 DEF Quiet
    <3> QED
      BY <3>1, <3>3, <3>4, <3>5
  <2> QED
    BY <2>1, <2>2
<1>10. RecoveryInv'
  <2>1. cleaning' # None => /\ cleaning' \in todo'
                            /\ container'[<<cleaning', mem'[cleaning'].fence>>] = "stopped"
    BY <1>3
  <2>2. \A h \in todo' : mem'[h] # None
    BY <1>2, <1>3, Parts DEF RecoveryInv, TypeOK
  <2>3. \A h \in Generation : h \notin todo' /\ mem'[h] # None => ~Active(mem'[h])
    BY <1>3, Parts DEF RecoveryInv
  <2> QED
    BY <1>1, <2>1, <2>2, <2>3 DEF RecoveryInv
<1> QED
  BY <1>5, <1>6, <1>7, <1>8, <1>9, <1>10 DEF Inv

\* What is known of the runtime that recovery visits.
LEMMA Visited ==
  ASSUME Inv, NEW g \in Generation, phase = "recovering", g \in todo
  PROVE  /\ mem[g] \in Runtime /\ file[g] \in Runtime /\ mem[g].fence \in Fence
         /\ mem[g] # None /\ file[g] # None /\ Agree(mem[g], file[g])
         /\ Quiet(container, g, mem[g]) /\ Quiet(container, g, file[g])
         /\ \A e \in Fence : container[<<g, e>>] = "running" => mem[g].fence = e
<1>1. mem[g] # None /\ mem[g] \in Runtime
  BY Parts DEF RecoveryInv, TypeOK
<1>2. Agree(mem[g], file[g])
  BY Parts DEF CopiesAgree
<1>3. file[g] # None /\ file[g] \in Runtime /\ file[g].fence = mem[g].fence
  BY <1>1, <1>2, Parts DEF Agree, TypeOK
<1> QED
  BY <1>1, <1>2, <1>3, Kinds, Parts DEF ContainersRecorded

\* Recovery leaves the runtime in a state, its container at rest.
LEMMA SettleInv ==
  ASSUME Inv, NEW g \in Generation, phase = "recovering", g \in todo,
         UNCHANGED <<phase, openFence, record, call, leases>>,
         NEW m \in Runtime, Settle(g, m), m.fence = mem[g].fence,
         m.state \in {"STOPPED", "QUARANTINED"},
         NEW s \in {"absent", "stopped"},
         Becomes(g, m.fence, s) \/ UNCHANGED container,
         m.state = "STOPPED" \/ ~m.external => container'[<<g, m.fence>>] # "running",
         processes' \subseteq Generation
  PROVE  Inv'
<1>1. m # None /\ m.fence \in Fence /\ ~Active(m) /\ Agree(m, m)
  BY Kinds DEF Active, Agree
<1>2. Quiet(container', g, m)
  BY DEF Quiet
<1>3. \A e \in Fence : container'[<<g, e>>] = "running" => m.fence = e
  BY <1>1, Visited, Parts DEF Becomes, TypeOK
<1>4. Remember(g, m) /\ Persisted(g, m) /\ todo' = todo \ {g} /\ cleaning' = None
  BY DEF Settle
<1>5. s \in {"absent", "created", "running", "stopped"}
  OBVIOUS
<1> QED
  BY <1>1, <1>2, <1>3, <1>4, <1>5, RecoverKeeps

LEMMA RecoverInactiveInv ==
  ASSUME Inv, NEW g \in Generation, RecoverInactive(g)
  PROVE  Inv'
<1>1. phase = "recovering" /\ g \in todo /\ cleaning = None /\ ~Active(mem[g])
  BY DEF RecoverInactive, Recovering
<1>2. todo' = todo \ {g} /\ cleaning' = None
      /\ UNCHANGED <<phase, openFence, record, call, leases, mem, file, container, processes>>
  BY <1>1 DEF RecoverInactive
<1> PICK m, r : m = mem[g] /\ r = file[g]
  OBVIOUS
<1>3. /\ m \in Runtime /\ r \in Runtime /\ r # None /\ Agree(m, r)
      /\ Quiet(container', g, m) /\ Quiet(container', g, r)
      /\ \A e \in Fence : container'[<<g, e>>] = "running" => m.fence = e
  BY <1>1, <1>2, Visited
<1>4. \A e \in Fence : container'[<<g, e>>] = "running" => r.fence = e
  BY <1>3 DEF Agree
<1>5. Remember(g, m) /\ Persisted(g, r) /\ processes' \subseteq Generation
  BY <1>2, Unwritten, Parts DEF TypeOK
<1>6. "absent" \in {"absent", "created", "running", "stopped"}
  OBVIOUS
<1> QED
  BY <1>1, <1>2, <1>3, <1>4, <1>5, <1>6, RecoverKeeps

LEMMA RecoverUnboundInv ==
  ASSUME Inv, NEW g \in Generation, RecoverUnbound(g)
  PROVE  Inv'
<1>1. phase = "recovering" /\ g \in todo
      /\ UNCHANGED <<phase, openFence, record, call, leases, container, processes>>
  BY DEF RecoverUnbound, Recovering
<1>2. PICK m \in Runtime : /\ m = In(mem[g], "QUARANTINED") /\ m.state = "QUARANTINED"
                           /\ m.fence = mem[g].fence /\ m.external = mem[g].external
  BY <1>1, Visited, InState DEF State
<1>3. Settle(g, m)
  BY <1>2 DEF RecoverUnbound
<1>4. ~m.external => container'[<<g, m.fence>>] # "running"
  BY <1>1, <1>2, Visited DEF Quiet
<1>5. processes' \subseteq Generation
  BY <1>1, Parts DEF TypeOK
<1> QED
  BY <1>1, <1>2, <1>3, <1>4, <1>5, SettleInv

LEMMA RecoverUncreatedInv ==
  ASSUME Inv, NEW g \in Generation, RecoverUncreated(g)
  PROVE  Inv'
<1>1. phase = "recovering" /\ g \in todo /\ ~mem[g].external
      /\ UNCHANGED <<phase, openFence, record, call, leases, container, processes>>
  BY DEF RecoverUncreated, Recovering
<1>2. PICK m \in Runtime : /\ m = In(mem[g], "STOPPED") /\ m.state = "STOPPED"
                           /\ m.fence = mem[g].fence
  BY <1>1, Visited, InState DEF State
<1>3. Settle(g, m)
  BY <1>2 DEF RecoverUncreated
<1>4. container'[<<g, m.fence>>] # "running"
  BY <1>1, <1>2, Visited DEF Quiet
<1>5. processes' \subseteq Generation
  BY <1>1, Parts DEF TypeOK
<1> QED
  BY <1>1, <1>2, <1>3, <1>4, <1>5, SettleInv

LEMMA RecoverStopInv ==
  ASSUME Inv, NEW g \in Generation, RecoverStop(g)
  PROVE  Inv'
<1>1. phase = "recovering" /\ g \in todo /\ mem[g].external
      /\ UNCHANGED <<phase, openFence, record, call, leases>>
  BY DEF RecoverStop, Recovering
<1>2. Becomes(g, mem[g].fence, "stopped") \/ UNCHANGED container
  BY DEF RecoverStop
<1>3. processes' \subseteq Generation
  BY Parts DEF RecoverStop, TypeOK
<1>4. CASE /\ Becomes(g, mem[g].fence, "stopped")
           /\ cleaning' = g /\ UNCHANGED <<todo, mem, file>>
  <2> PICK m, r : m = mem[g] /\ r = file[g]
    OBVIOUS
  <2>1. /\ m \in Runtime /\ r \in Runtime /\ r # None /\ m # None /\ Agree(m, r)
        /\ Quiet(container, g, m) /\ Quiet(container, g, r) /\ m.fence \in Fence
        /\ \A e \in Fence : container[<<g, e>>] = "running" => m.fence = e
    BY <1>1, Visited
  <2>2. /\ container'[<<g, m.fence>>] = "stopped"
        /\ \A e \in Fence : container'[<<g, e>>] # "running"
    BY <1>4, <2>1, Parts DEF Becomes, TypeOK
  <2>3. Quiet(container', g, m) /\ Quiet(container', g, r)
    BY <2>1, <2>2, Kinds DEF Quiet
  <2>4. Remember(g, m) /\ Persisted(g, r) /\ Becomes(g, m.fence, "stopped")
    BY <1>4, Unwritten, Parts
  <2>5. "stopped" \in {"absent", "created", "running", "stopped"}
    OBVIOUS
  <2> QED
    BY <1>1, <1>3, <1>4, <2>1, <2>2, <2>3, <2>4, <2>5, RecoverKeeps
<1>5. CASE Settle(g, CleanupFailed(mem[g]))
  <2>1. PICK m \in Runtime : /\ m = CleanupFailed(mem[g]) /\ m.state = "QUARANTINED"
                             /\ m.fence = mem[g].fence /\ m.external
    BY <1>1, Visited, InState DEF State, CleanupFailed
  <2> QED
    BY <1>1, <1>2, <1>3, <1>5, <2>1, SettleInv
<1> QED
  BY <1>4, <1>5 DEF RecoverStop

LEMMA RecoverDeleteInv ==
  ASSUME Inv, NEW g \in Generation, RecoverDelete(g)
  PROVE  Inv'
<1>1. cleaning = g /\ UNCHANGED <<phase, openFence, record, call, leases, processes>>
  BY DEF RecoverDelete
<1>2. phase = "recovering" /\ g \in todo /\ container[<<g, mem[g].fence>>] = "stopped"
  BY <1>1, Kinds, Parts DEF RecoveryInv
<1>3. Becomes(g, mem[g].fence, "absent") \/ UNCHANGED container
  BY DEF RecoverDelete, MayBecome
<1>4. mem[g] \in Runtime /\ mem[g].fence \in Fence
  BY <1>2, Visited
<1>5. container'[<<g, mem[g].fence>>] # "running"
  BY <1>2, <1>3, <1>4, Parts DEF Becomes, TypeOK
<1>6. PICK m \in Runtime : /\ Settle(g, m) /\ m.fence = mem[g].fence
                           /\ m.state \in {"STOPPED", "QUARANTINED"}
  <2>1. CASE Settle(g, [mem[g] EXCEPT !.state = "STOPPED", !.external = FALSE])
    <3> PICK m : m = [mem[g] EXCEPT !.state = "STOPPED", !.external = FALSE]
      OBVIOUS
    <3>1. m \in Runtime /\ m.fence = mem[g].fence /\ m.state = "STOPPED"
      BY <1>4 DEF Runtime, State
    <3> QED
      BY <2>1, <3>1
  <2>2. CASE Settle(g, CleanupFailed(mem[g]))
    <3>1. PICK m \in Runtime : /\ m = CleanupFailed(mem[g]) /\ m.state = "QUARANTINED"
                               /\ m.fence = mem[g].fence
      BY <1>4, InState DEF State, CleanupFailed
    <3> QED
      BY <2>2, <3>1
  <2> QED
    BY <2>1, <2>2 DEF RecoverDelete
<1>7. processes' \subseteq Generation
  BY <1>1, Parts DEF TypeOK
<1> QED
  BY <1>1, <1>2, <1>3, <1>5, <1>6, <1>7, SettleInv

LEMMA OpenInv == Inv /\ Open => Inv'
<1> SUFFICES ASSUME Inv, Open
             PROVE  Inv'
  OBVIOUS
<1>1. /\ phase = "down" /\ phase' = "recovering" /\ mem' = file
      /\ todo' = {g \in Generation : file[g] # None} /\ openFence' = fence
      /\ UNCHANGED <<cleaning, record, call, fence, lease, expired, gone, reserved,
                     file, container, processes>>
  BY DEF Open, leases
<1>2. TypeOK'
  BY <1>1, Parts DEF TypeOK
<1>3. cleaning = None
  BY <1>1, Parts DEF Serving
<1>4. FencesSpent'
  <2>1. fence \in Nat
    BY FenceAssumption, Parts DEF TypeOK
  <2> QED
    BY <1>1, <2>1, Idle, Parts DEF FencesSpent
<1>5. Serving' /\ Mutex' /\ CallsExpect' /\ ReservationInv'
  BY <1>1, Idle DEF Serving, Mutex, Holds, CallsExpect, ReservationInv
<1>6. CopiesAgree'
  BY <1>1 DEF CopiesAgree, Agree
<1>7. ContainersRecorded'
  BY <1>1, Parts DEF ContainersRecorded
<1>8. RecoveryInv'
  BY <1>1, <1>3 DEF RecoveryInv
<1> QED
  BY <1>2, <1>4, <1>5, <1>6, <1>7, <1>8 DEF Inv

\* Leases are cleared, and phases change, while the runtimes are left alone.
LEMMA PhaseInv ==
  ASSUME Inv, phase # "serving",
         UNCHANGED <<openFence, fence, record, call, gone, mem, file, container, processes>>,
         lease' \in [Generation -> 0 .. MaxFence],
         reserved' \in [Generation -> 0 .. MaxFence],
         expired' \subseteq Generation, todo' \subseteq Generation,
         phase' \in {"clearing", "serving"}, cleaning' = None,
         phase \in {"recovering", "clearing"},
         \A h \in Generation : mem[h] # None => ~Active(mem[h])
  PROVE  Inv'
<1>1. TypeOK'
  BY Parts DEF TypeOK
<1>2. FencesSpent' /\ Serving' /\ Mutex' /\ CallsExpect'
  <2>1. FencesSpent'
    BY Parts DEF FencesSpent
  <2>2. Serving'
    BY Idle DEF Serving
  <2>3. Mutex' /\ CallsExpect'
    BY Idle DEF Mutex, Holds, CallsExpect
  <2> QED
    BY <2>1, <2>2, <2>3
<1>3. CopiesAgree' /\ ContainersRecorded'
  BY Parts DEF CopiesAgree, ContainersRecorded
<1>4. RecoveryInv'
  BY DEF RecoveryInv, Active
<1>5. ReservationInv'
  <2>1. \A h \in Generation : ~Usable(mem[h])
    <3>1. openFence = fence /\ fence \in Nat
      BY FenceAssumption, Parts DEF FencesSpent, TypeOK
    <3>2. \A h \in Generation : mem[h] # None => mem[h].fence <= fence /\ mem[h].fence \in Nat
      BY Kinds, Parts DEF FencesSpent, TypeOK
    <3> QED
      BY <3>1, <3>2 DEF Usable
  <2> QED
    BY <2>1, Idle DEF ReservationInv, Usable, Claims
<1> QED
  BY <1>1, <1>2, <1>3, <1>4, <1>5 DEF Inv

LEMMA RuntimesRecoveredInv == Inv /\ RuntimesRecovered => Inv'
<1> SUFFICES ASSUME Inv, RuntimesRecovered
             PROVE  Inv'
  OBVIOUS
<1>1. /\ phase = "recovering" /\ todo = {} /\ phase' = "clearing" /\ todo' = Generation
      /\ UNCHANGED <<cleaning, openFence, record, call, fence, lease, expired, gone, reserved,
                     mem, file, container, processes>>
  BY DEF RuntimesRecovered, leases
<1>2. cleaning = None /\ \A h \in Generation : mem[h] # None => ~Active(mem[h])
  BY <1>1, Parts DEF RecoveryInv
<1> QED
  BY <1>1, <1>2, PhaseInv, Parts DEF TypeOK

LEMMA ClearOwnershipInv ==
  ASSUME Inv, NEW g \in Generation, ClearOwnership(g)
  PROVE  Inv'
<1>1. /\ phase = "clearing" /\ phase' = "clearing" /\ todo' \subseteq todo
      /\ UNCHANGED <<cleaning, openFence, record, call, fence, gone,
                   mem, file, container, processes>>
  BY DEF ClearOwnership
<1>2. cleaning = None /\ \A h \in Generation : mem[h] # None => ~Active(mem[h])
  BY <1>1, Parts DEF RecoveryInv
<1>3. /\ lease' \in [Generation -> 0 .. MaxFence]
      /\ reserved' \in [Generation -> 0 .. MaxFence]
      /\ expired' \subseteq Generation
  BY FenceAssumption, Parts DEF ClearOwnership, TypeOK
<1>4. todo' \subseteq Generation
  BY <1>1, Parts DEF TypeOK
<1> QED
  BY <1>1, <1>2, <1>3, <1>4, PhaseInv

LEMMA ServeInv == Inv /\ Serve => Inv'
<1> SUFFICES ASSUME Inv, Serve
             PROVE  Inv'
  OBVIOUS
<1>1. /\ phase = "clearing" /\ phase' = "serving"
      /\ UNCHANGED <<todo, cleaning, openFence, record, call, fence, lease, expired, gone, reserved,
                     mem, file, container, processes>>
  BY DEF Serve, leases
<1>2. cleaning = None /\ \A h \in Generation : mem[h] # None => ~Active(mem[h])
  BY <1>1, Parts DEF RecoveryInv
<1> QED
  BY <1>1, <1>2, PhaseInv, Parts DEF TypeOK

LEMMA CrashInv == Inv /\ Crash => Inv'
<1> SUFFICES ASSUME Inv, Crash
             PROVE  Inv'
  OBVIOUS
<1>1. /\ phase' = "down" /\ todo' = {} /\ cleaning' = None
      /\ record' = [g \in Generation |-> 0]
      /\ call' = [c \in Caller |-> None]
      /\ mem' = [g \in Generation |-> None]
      /\ UNCHANGED <<openFence, fence, lease, expired, gone, reserved, file, container, processes>>
  BY DEF Crash, Down, leases
<1>2. TypeOK'
  BY <1>1, FenceAssumption, Parts DEF TypeOK
<1>3. FencesSpent'
  <2>1. fence \in Nat
    BY FenceAssumption, Parts DEF TypeOK
  <2> QED
    BY <1>1, <2>1, Parts DEF FencesSpent
<1>4. Serving' /\ Mutex' /\ CallsExpect' /\ CopiesAgree' /\ RecoveryInv' /\ ReservationInv'
  BY <1>1 DEF Serving, Mutex, Holds, CallsExpect, CopiesAgree, RecoveryInv, ReservationInv
<1>5. ContainersRecorded'
  BY <1>1, Parts DEF ContainersRecorded, Quiet
<1> QED
  BY <1>2, <1>3, <1>4, <1>5 DEF Inv

-----------------------------------------------------------------------------
LEMMA StutterInv == Inv /\ UNCHANGED vars => Inv'
<1> SUFFICES ASSUME Inv, UNCHANGED vars
             PROVE  Inv'
  OBVIOUS
<1>1. processes \subseteq Generation /\ expired \subseteq Generation /\ gone \subseteq Generation
  BY Parts DEF TypeOK
<1> QED
  BY <1>1, AsideInv DEF vars

LEMMA StepInv == Inv /\ [Next]_vars => Inv'
<1> SUFFICES ASSUME Inv, [Next]_vars
             PROVE  Inv'
  OBVIOUS
<1>1. CASE WorkspaceStep
  BY <1>1, AttachInv, AsidesInv, DiscardInv, DiscardReleaseInv, DiscardRemoveInv DEF WorkspaceStep
<1>2. CASE CreateStep
  BY <1>2, ReserveInv, AdmitCreateInv, CleanStoppedInv, UnlinkStoppedInv, RecordCreatingInv,
     AdapterCreateInv, CreateReadyInv, ReleaseRuntimeInv
  DEF CreateStep
<1>3. CASE RunStep
  BY <1>3, StartInv, StopInv, AdapterStartInv, RecordRunningInv, AdapterStopInv,
     RecordStoppedInv, AsidesInv
  DEF RunStep
<1>4. CASE RecoverStep
  BY <1>4, OpenInv, RecoverInactiveInv, RecoverUnboundInv, RecoverUncreatedInv, RecoverStopInv,
     RecoverDeleteInv, ClearOwnershipInv, RuntimesRecoveredInv, ServeInv
  DEF RecoverStep
<1>5. CASE Crash
  BY <1>5, CrashInv
<1>6. CASE UNCHANGED vars
  BY <1>6, StutterInv
<1> QED
  BY <1>1, <1>2, <1>3, <1>4, <1>5, <1>6 DEF Next

\* The invariant holds of every behaviour.
THEOREM InvHolds == Spec => []Inv
BY InitInv, StepInv, PTL DEF Spec

(***************************************************************************)
(* The three copies of a runtime, leases, reservations and calls keep      *)
(* their types.                                                            *)
(***************************************************************************)
THEOREM TypesHold == Spec => []TypeOK
<1>1. Inv => TypeOK
  BY DEF Inv
<1> QED
  BY <1>1, InvHolds, PTL

(***************************************************************************)
(* A runtime of an earlier opening of the control plane never runs for     *)
(* callers of the current one, wherever the crash fell: every runtime that *)
(* Recover leaves is inactive, and only RuntimeStart, which compares the   *)
(* runtime's lease with the caller's, makes one RUNNING.                   *)
(***************************************************************************)
THEOREM OldRuntimesStayStopped == Spec => []NeverResurrected
<1>1. Inv => NeverResurrected
  BY DEF Inv, RecoveryInv, NeverResurrected
<1> QED
  BY <1>1, InvHolds, PTL

(***************************************************************************)
(* A generation has at most one running container: it is always that of    *)
(* the identity in the generation's file.                                  *)
(***************************************************************************)
THEOREM OneRuns == Spec => []OneContainerRuns
<1>1. Inv => OneContainerRuns
  BY DEF Inv, ContainersRecorded, OneContainerRuns
<1> QED
  BY <1>1, InvHolds, PTL

(***************************************************************************)
(* A runtime that is recorded as STOPPED, in the map or in its file, has   *)
(* no running container, so that replacing it strands none.                *)
(***************************************************************************)
THEOREM StoppedIsStopped == Spec => []StoppedMeansStopped
<1>1. Inv => StoppedMeansStopped
  BY DEF Inv, ContainersRecorded, Quiet, StoppedMeansStopped
<1> QED
  BY <1>1, InvHolds, PTL

(***************************************************************************)
(* The generation of a runtime that is READY or RUNNING stays reserved for *)
(* that runtime: no failed call gives the reservation of another back.     *)
(***************************************************************************)
THEOREM ReservationsLast == Spec => []RunningIsReserved
<1>1. Inv => RunningIsReserved
  BY DEF Inv, ReservationInv, Usable, RunningIsReserved
<1> QED
  BY <1>1, InvHolds, PTL
=============================================================================
