--------------------------- MODULE AccessScopeProofs ---------------------------
(***************************************************************************)
(* The safety properties of AccessScope, for any services, channels,       *)
(* distributions of the services and bounds.                               *)
(***************************************************************************)
EXTENDS AccessScope, TLAPS

Busy(ch) == workers[ch] # Idle
Carries(ch) == Busy(ch) /\ workers[ch].step # "read"

\* Only the worker of the channel of some service is ever busy, and is at some step.
OwnChannel ==
  \A ch \in Channels : Busy(ch) =>
    /\ workers[ch].step # "idle"
    /\ \E s \in Services : channelOf[s] = ch

\* What was written, and what a worker is about to write, is in the mapping.
OnlyMapped ==
  /\ granted \subseteq mapping
  /\ \A ch \in Channels : Carries(ch) => workers[ch].hosts \subseteq mapping

\* Nobody takes back what was granted: what the only worker is about to write includes it.
Kept ==
  OneChannel =>
    /\ \A ch \in Channels : Carries(ch) => granted \subseteq workers[ch].hosts
    /\ granted # {} => accessor.hosts # None /\ granted \subseteq accessor.hosts

\* A service that is consumed is mapped, or will be read.
Consumed == consumes \subseteq mapping \cup unread

\* If no event waits, and no worker is about to read the mapping, then the only worker has
\* all of it, or is done with it.
Settling ==
  OneChannel /\ mapping # {} /\ (\A s \in Services : pending[s] = 0)
  /\ (\A ch \in Channels : workers[ch].step # "read")
  => /\ \A ch \in Channels : Busy(ch) => workers[ch].hosts = mapping
     /\ (\A ch \in Channels : ~Busy(ch)) /\ ~Lost => accessor.hosts = mapping

\* A ServiceAccessor that does not exist has no stamp.
Stampless == accessor.hosts = None => accessor = NoAccessor

\* A copy that is current is one.
CopiesTrue ==
  /\ accessorCache.current => accessorCache.object = accessor
  /\ sidecarCache.current => sidecarCache.object = sidecar

\* The Sidecar is right, or is not what the cache has, or the application is queued.
SidecarFollows ==
  /\ ~queued /\ sidecarCache.current /\ pods
  /\ accessorCache.object.hosts # None
  /\ causes \cap {"RequestFailed", "PodsLate"} = {}
  => sidecar = BuildSidecar(accessorCache.object.hosts)

AdapterInv == OwnChannel /\ OnlyMapped /\ Kept /\ Consumed /\ Settling
SidecarInv == Stampless /\ CopiesTrue /\ SidecarFollows

\* The inductive invariant.
IInv == TypeOK /\ AdapterInv /\ SidecarInv

-----------------------------------------------------------------------------
(* Data *)

\* Hosts that are there are a set of services; a Sidecar that was built exists.
LEMMA HostFacts ==
  /\ \A S \in SUBSET Services : S # None
  /\ \A h \in Hosts : h # None => h \in SUBSET Services
  /\ \A S \in SUBSET Services : BuildSidecar(S) \in SidecarHosts /\ BuildSidecar(S) # None
  /\ BuildDefaultEgress \in SidecarHosts
  BY AccessScopeAssumption DEF Hosts, SidecarHosts, BuildSidecar, BuildDefaultEgress

\* What becomes of a worker when the object it has read is written by another.
LEMMA BehindWorker ==
  ASSUME NEW w \in Workers
  PROVE  /\ Behind(w) \in Workers
         /\ Behind(w).step = w.step /\ Behind(w).hosts = w.hosts /\ Behind(w).tries = w.tries
         /\ w = Idle => Behind(w) = Idle
<1>1. Behind(w) \in Workers
  BY DEF Behind, Workers
<1>2. /\ Behind(w).step = w.step /\ Behind(w).hosts = w.hosts /\ Behind(w).tries = w.tries
      /\ Behind(w).current = FALSE
  BY DEF Behind, Workers
<1>3. w = Idle => w.current = FALSE
  BY DEF Idle, Call
<1>4. w.current = FALSE => Behind(w) = w
  BY <1>1, <1>2 DEF Workers
<1>5. QED
  BY <1>1, <1>2, <1>3, <1>4

\* An idle worker is one.
LEMMA IdleWorker == Idle \in Workers /\ Idle.step = "idle"
  BY AccessScopeAssumption DEF Idle, Call, Workers

\* With one channel there is one worker.
LEMMA OneWorker ==
  ASSUME OwnChannel, OneChannel,
         NEW c \in Channels, NEW d \in Channels, Busy(c), Busy(d)
  PROVE  c = d
  BY DEF OwnChannel, OneChannel

\* Copies of objects stay copies when they fall behind, or are made anew.
LEMMA CopyFacts ==
  /\ \A S : \A x \in S : Copy(x) \in Copies(S)
  /\ \A S : \A x \in Copies(S) : Behind(x) \in Copies(S)
  /\ \A x : Copy(x).object = x
  /\ \A S : \A x \in Copies(S) : ~Behind(x).current /\ Behind(x).object = x.object
  BY DEF Copy, Copies, Behind

-----------------------------------------------------------------------------
(* Initial states *)

\* Nothing is granted and nothing is under way at first.
LEMMA InitIInv == Init => IInv
<1> SUFFICES ASSUME Init PROVE IInv
  OBVIOUS
<1> USE HostFacts, IdleWorker, CopyFacts
<1>1. accessor \in Accessors /\ Stampless
  <2>1. PICK hosts \in {None, Services} : accessor = [hosts |-> hosts, stamped |-> FALSE]
    BY DEF Init
  <2>2. hosts \in Hosts
    BY <2>1 DEF Hosts
  <2>3. QED
    BY <2>1, <2>2 DEF Accessors, Stampless, NoAccessor
<1>2. sidecar \in SidecarHosts
  <2>1. CASE pods /\ accessor.hosts # None
    BY <1>1, <2>1 DEF Init, Accessors
  <2>2. CASE ~(pods /\ accessor.hosts # None)
    BY <2>2 DEF Init, SidecarHosts
  <2>3. QED
    BY <2>1, <2>2
<1>3. TypeOK
  BY <1>1, <1>2 DEF Init, TypeOK
<1>4. AdapterInv
  BY DEF Init, AdapterInv, OwnChannel, OnlyMapped, Kept, Consumed, Settling, Busy, Carries
<1>5. SidecarInv
  BY <1>1 DEF Init, SidecarInv, CopiesTrue, SidecarFollows, Copy
<1>6. QED
  BY <1>3, <1>4, <1>5 DEF IInv

-----------------------------------------------------------------------------
(* Steps of the adapter *)

\* What the workers and the registry client leave alone.
SidecarUntouched ==
  /\ UNCHANGED <<accessorVars, sidecarVars, pods, queued>>
  /\ causes \subseteq causes'

\* A step that leaves the objects alone does not disturb the Sidecar.
LEMMA SidecarSteps ==
  ASSUME SidecarInv, SidecarUntouched
  PROVE  SidecarInv'
  BY DEF SidecarInv, SidecarUntouched, accessorVars, sidecarVars, Stampless, CopiesTrue,
         SidecarFollows, BuildSidecar, NoAccessor

\* A step that writes the ServiceAccessor leaves its copies behind.
LEMMA AccessorWritten ==
  ASSUME TypeOK, SidecarInv, NEW hosts \in SUBSET Services, NEW stamped \in BOOLEAN,
         WriteAccessor(hosts, stamped), UNCHANGED <<sidecarVars, pods, queued>>,
         causes \subseteq causes'
  PROVE  /\ SidecarInv'
         /\ accessor' \in Accessors
         /\ {informer', accessorCache'} \subseteq Copies(Accessors)
         /\ accessor'.hosts = hosts
<1> USE HostFacts, CopyFacts
<1>1. accessor' \in Accessors /\ accessor'.hosts = hosts
  BY DEF WriteAccessor, Accessors, Hosts
<1>2. {informer', accessorCache'} \subseteq Copies(Accessors)
  BY DEF WriteAccessor, TypeOK
<1>3. ~accessorCache'.current /\ accessorCache'.object = accessorCache.object
  BY DEF WriteAccessor, TypeOK
<1>4. SidecarInv'
  BY <1>1, <1>3 DEF SidecarInv, sidecarVars, Stampless, CopiesTrue, SidecarFollows, BuildSidecar
<1>5. QED
  BY <1>1, <1>2, <1>4

\* Consumers come and go: the service is unread.
LEMMA ChangeConsumersStep ==
  ASSUME IInv, NEW s \in Services, ChangeConsumers(s)
  PROVE  IInv'
<1> USE DEF IInv, ChangeConsumers, Written, adapterVars, accessorVars, sidecarVars
<1>1. TypeOK'
  BY DEF TypeOK
<1>2. AdapterInv'
  BY DEF AdapterInv, TypeOK, OwnChannel, OnlyMapped, Kept, Consumed, Settling, Busy, Carries, Lost,
         OneChannel
<1>3. SidecarInv'
  BY SidecarSteps DEF SidecarUntouched
<1>4. QED
  BY <1>1, <1>2, <1>3

\* The mapping grows, and an event is on its way that tells of it.
LEMMA ReplaceAccessorsStep ==
  ASSUME IInv, NEW s \in Services, ReplaceAccessors(s)
  PROVE  IInv'
<1> USE DEF IInv, ReplaceAccessors, accessorVars, sidecarVars, history
<1>1. TypeOK'
  BY DEF TypeOK
<1>2. AdapterInv'
  <2>1. OwnChannel' /\ OnlyMapped' /\ Kept' /\ Consumed'
    BY DEF AdapterInv, TypeOK, OwnChannel, OnlyMapped, Kept, Consumed, Busy, Carries, OneChannel
  <2>2. CASE s \in consumes
    <3>1. pending'[s] # 0
      BY <2>2 DEF TypeOK
    <3>2. QED
      BY <2>1, <3>1 DEF AdapterInv, Settling
  <2>3. CASE s \notin consumes
    BY <2>1, <2>3 DEF AdapterInv, Settling, OneChannel, Busy, Lost
  <2>4. QED
    BY <2>2, <2>3
<1>3. SidecarInv'
  BY SidecarSteps DEF SidecarUntouched
<1>4. QED
  BY <1>1, <1>2, <1>3

\* A worker that has taken an event is about to read the mapping.
LEMMA TakeStep ==
  ASSUME IInv, NEW s \in Services, Take(s)
  PROVE  IInv'
<1> DEFINE ch == channelOf[s]
           taken == Call("read", {}, FALSE, 1)
<1> USE DEF IInv, Take, zkVars, accessorVars, sidecarVars, history
<1>1. ch \in Channels
  BY AccessScopeAssumption DEF TypeOK
<1>2. taken \in Workers /\ taken.step = "read"
  BY AccessScopeAssumption DEF Call, Workers
<1>3. workers' = [workers EXCEPT ![ch] = taken]
  OBVIOUS
<1> HIDE DEF taken
<1>4. TypeOK'
  <2>1. workers' \in [Channels -> Workers]
    BY <1>1, <1>2, <1>3 DEF TypeOK
  <2>2. pending' \in [Services -> Nat]
    BY DEF TypeOK
  <2>3. QED
    BY <2>1, <2>2 DEF TypeOK
<1>5. workers'[ch] = taken
  BY <1>1, <1>3 DEF TypeOK
<1>6. \A c \in Channels : c # ch => workers'[c] = workers[c]
  BY <1>3 DEF TypeOK
<1>7. AdapterInv'
  BY <1>1, <1>2, <1>5, <1>6 DEF AdapterInv, OwnChannel, OnlyMapped, Kept, Consumed, Settling,
     Busy, Carries, OneChannel
<1>8. SidecarInv'
  BY SidecarSteps DEF SidecarUntouched
<1>9. QED
  BY <1>4, <1>7, <1>8

\* What the steps of one call have in common.
CallStep ==
  /\ UNCHANGED <<zkVars, mapping, pending, channelOf, sidecarVars, pods, queued, writes>>
  /\ troubles' \in Nat
  /\ causes \subseteq causes'
  /\ causes' \subseteq {"AlreadyExists", "OldCopy", "RetriesUsedUp", "RequestFailed",
                       "Restarted", "MapRace", "PodsLate"}

\* A worker that goes on with the hosts it has, whatever its step.
LEMMA GoOn ==
  ASSUME IInv, NEW ch \in Channels, Carries(ch), CallStep,
         UNCHANGED <<accessorVars, granted>>,
         NEW w \in Workers, w.step # "idle", w.step # "read", w.hosts = workers[ch].hosts,
         workers' = [workers EXCEPT ![ch] = w]
  PROVE  IInv'
<1> USE DEF IInv, CallStep, zkVars, accessorVars, sidecarVars
<1>1. TypeOK'
  BY DEF TypeOK
<1>2. workers'[ch] = w /\ \A c \in Channels : c # ch => workers'[c] = workers[c]
  BY DEF TypeOK
<1>3. OwnChannel' /\ OnlyMapped' /\ Kept' /\ Consumed'
  BY <1>2 DEF AdapterInv, OwnChannel, OnlyMapped, Kept, Consumed, Busy, Carries, OneChannel
<1>4. Settling'
  <2>1. \A c \in Channels : workers'[c].step # "read" => workers[c].step # "read"
    BY <1>2 DEF Carries
  <2>2. w # Idle
    BY IdleWorker
  <2>3. QED
    BY <1>2, <2>1, <2>2 DEF AdapterInv, Settling, Busy, Carries, OneChannel
<1>5. SidecarInv'
  BY SidecarSteps DEF SidecarUntouched
<1>6. QED
  BY <1>1, <1>3, <1>4, <1>5 DEF AdapterInv

\* A worker that gives up, or finds nothing to write.
LEMMA ReturnStep ==
  ASSUME IInv, NEW ch \in Channels, Carries(ch), CallStep,
         UNCHANGED <<accessorVars, granted>>,
         Return(ch), Lost' \/ accessor.hosts = workers[ch].hosts
  PROVE  IInv'
<1> USE DEF IInv, CallStep, zkVars, accessorVars, sidecarVars
<1>1. TypeOK'
  BY IdleWorker DEF TypeOK, Return
<1>2. workers'[ch] = Idle /\ \A c \in Channels : c # ch => workers'[c] = workers[c]
  BY DEF TypeOK, Return
<1>3. OwnChannel' /\ OnlyMapped' /\ Kept' /\ Consumed'
  BY <1>2 DEF AdapterInv, OwnChannel, OnlyMapped, Kept, Consumed, Busy, Carries, OneChannel
<1>4. Settling'
  <2> SUFFICES ASSUME OneChannel, mapping # {}, \A s \in Services : pending[s] = 0,
                      \A c \in Channels : workers'[c].step # "read"
               PROVE  /\ \A c \in Channels : Busy(c)' => workers'[c].hosts = mapping
                      /\ (\A c \in Channels : ~Busy(c)') /\ ~Lost' => accessor.hosts = mapping
    BY DEF Settling, OneChannel, Busy
  <2>1. \A c \in Channels : workers[c].step # "read"
    BY <1>2 DEF Carries
  <2>2. \A c \in Channels : Busy(c) => workers[c].hosts = mapping
    BY <2>1 DEF AdapterInv, Settling
  <2>3. QED
    BY <1>2, <2>2 DEF Busy, Carries
<1>5. SidecarInv'
  BY SidecarSteps DEF SidecarUntouched
<1>6. QED
  BY <1>1, <1>3, <1>4, <1>5 DEF AdapterInv

\* A worker writes the ServiceAccessor: with one channel, nobody else is busy.
LEMMA ReplaceStep ==
  ASSUME IInv, NEW ch \in Channels, Carries(ch), CallStep, Replace(ch), UNCHANGED causes
  PROVE  IInv'
<1> USE DEF IInv, CallStep, zkVars, sidecarVars
<1>1. workers[ch] \in Workers /\ workers[ch].hosts \in SUBSET Services
  BY DEF TypeOK, Workers
<1>2. /\ SidecarInv'
      /\ accessor' \in Accessors
      /\ {informer', accessorCache'} \subseteq Copies(Accessors)
      /\ accessor'.hosts = workers[ch].hosts
  BY <1>1, AccessorWritten DEF Replace
<1>3. /\ workers'[ch] = Idle
      /\ \A c \in Channels : c # ch => workers'[c] = Behind(workers[c])
      /\ workers' \in [Channels -> Workers]
  BY IdleWorker, BehindWorker DEF Replace, TypeOK
<1>4. \A c \in Channels : c # ch =>
        /\ workers'[c].step = workers[c].step /\ workers'[c].hosts = workers[c].hosts
        /\ workers[c] = Idle => workers'[c] = Idle
  BY <1>3, BehindWorker DEF TypeOK
<1>5. granted' = granted \cup workers[ch].hosts
  BY DEF Replace
<1>6. TypeOK'
  BY <1>1, <1>2, <1>3, <1>5 DEF TypeOK
<1>7. OneChannel => \A c \in Channels : workers'[c] = Idle
  BY <1>3, <1>4, OneWorker DEF AdapterInv, Carries, Busy
<1>8. OwnChannel' /\ OnlyMapped' /\ Consumed'
  BY <1>3, <1>4, <1>5 DEF AdapterInv, OwnChannel, OnlyMapped, Consumed, Busy, Carries
<1>9. Kept'
  <2> SUFFICES ASSUME OneChannel PROVE
         /\ \A c \in Channels : ~Carries(c)'
         /\ accessor'.hosts # None /\ granted' \subseteq accessor'.hosts
    BY DEF Kept, OneChannel
  <2>1. granted \subseteq workers[ch].hosts
    BY DEF AdapterInv, Kept
  <2>2. QED
    BY <1>1, <1>2, <1>5, <1>7, <2>1, HostFacts DEF Carries, Busy
<1>10. Settling'
  <2> SUFFICES ASSUME OneChannel, mapping # {}, \A s \in Services : pending[s] = 0,
                      \A c \in Channels : workers'[c].step # "read"
               PROVE  /\ \A c \in Channels : ~Busy(c)'
                      /\ accessor'.hosts = mapping
    BY DEF Settling, OneChannel, Busy
  <2>1. \A c \in Channels : workers[c].step # "read"
    BY <1>4 DEF Carries
  <2>2. workers[ch].hosts = mapping
    BY <2>1 DEF AdapterInv, Settling, Carries
  <2>3. QED
    BY <1>2, <1>7, <2>2 DEF Busy
<1>11. QED
  BY <1>2, <1>6, <1>8, <1>9, <1>10 DEF AdapterInv

\* The hosts are those of the mapping, which were all that was ever granted.
LEMMA GetCachedScopedMappingStep ==
  ASSUME IInv, NEW ch \in Channels, GetCachedScopedMapping(ch)
  PROVE  IInv'
<1> USE DEF IInv, GetCachedScopedMapping, AtStep, zkVars, accessorVars, sidecarVars
<1>1. workers[ch] \in Workers /\ mapping \in SUBSET Services
  BY DEF TypeOK
<1>2. PICK w \in Workers : w = Call("get", mapping, FALSE, workers[ch].tries)
  BY <1>1 DEF Call, Workers
<1>3. w.step = "get" /\ w.hosts = mapping
  BY <1>2 DEF Call
<1>4. workers' = [workers EXCEPT ![ch] = w]
  BY <1>2
<1>5. TypeOK'
  BY <1>4 DEF TypeOK
<1>6. workers'[ch] = w /\ \A c \in Channels : c # ch => workers'[c] = workers[c]
  BY <1>4 DEF TypeOK
<1>7. Busy(ch)
  BY IdleWorker DEF Busy
<1>8. OwnChannel' /\ OnlyMapped' /\ Kept' /\ Consumed'
  BY <1>3, <1>6, <1>7 DEF AdapterInv, OwnChannel, OnlyMapped, Kept, Consumed, Busy, Carries, OneChannel
<1>9. Settling'
  <2>1. Busy(ch)'
    BY <1>3, <1>6, IdleWorker DEF Busy
  <2>2. OneChannel => \A c \in Channels : Busy(c)' => c = ch
    BY <1>6, <1>7, OneWorker DEF AdapterInv, Busy
  <2>3. QED
    BY <1>3, <1>6, <2>1, <2>2 DEF Settling, OneChannel, Busy
<1>10. SidecarInv'
  BY SidecarSteps DEF SidecarUntouched
<1>11. QED
  BY <1>5, <1>8, <1>9, <1>10 DEF AdapterInv

\* The steps that a worker at a given one may go on to are workers.
LEMMA NextCall ==
  ASSUME TypeOK, NEW ch \in Channels,
         NEW step \in {"get", "create", "update"}, NEW current \in BOOLEAN,
         NEW tries \in 0..RetrySteps
  PROVE  LET w == Call(step, workers[ch].hosts, current, tries)
         IN w \in Workers /\ w.step = step /\ w.hosts = workers[ch].hosts
<1>1. workers[ch].hosts \in SUBSET Services
  BY DEF TypeOK, Workers
<1>2. QED
  BY <1>1 DEF Call, Workers

\* Nothing is lost if the copy shows what is to be written and is not an old one.
LEMMA GetScopedAccessServicesStep ==
  ASSUME IInv, NEW ch \in Channels, GetScopedAccessServices(ch)
  PROVE  IInv'
<1> DEFINE wanted == [hosts |-> workers[ch].hosts, stamped |-> FALSE]
<1> USE DEF AtStep
<1> UNCHANGED <<accessorVars, granted>>
  BY DEF GetScopedAccessServices
<1>1. Carries(ch)
  BY IdleWorker DEF GetScopedAccessServices, Carries, Busy
<1>2. troubles \in Nat /\ workers[ch].tries \in 0..RetrySteps /\ informer.current \in BOOLEAN
  BY DEF IInv, TypeOK, Workers, Copies
<1>3. CASE /\ workers' = [workers EXCEPT ![ch] = Call("create", @.hosts, FALSE, @.tries)]
           /\ UNCHANGED causes
  <2>1. CallStep
    BY <1>2, <1>3 DEF GetScopedAccessServices, CallStep, IInv, TypeOK
  <2>2. QED
    BY <1>1, <1>2, <1>3, <2>1, NextCall, GoOn DEF IInv
<1>4. CASE /\ Return(ch)
           /\ IF accessor.hosts = wanted.hosts THEN UNCHANGED causes ELSE Cause("OldCopy")
  <2>1. CallStep
    BY <1>2, <1>4 DEF GetScopedAccessServices, CallStep, IInv, TypeOK, Cause
  <2>2. Lost' \/ accessor.hosts = workers[ch].hosts
    BY <1>4 DEF Lost, Cause
  <2>3. QED
    BY <1>1, <1>4, <2>1, <2>2, ReturnStep
<1>5. CASE /\ workers' = [workers EXCEPT
                           ![ch] = Call("update", @.hosts, informer.current, @.tries)]
           /\ UNCHANGED causes
  <2>1. CallStep
    BY <1>2, <1>5 DEF GetScopedAccessServices, CallStep, IInv, TypeOK
  <2>2. PICK w \in Workers :
          /\ w = Call("update", workers[ch].hosts, informer.current, workers[ch].tries)
          /\ w.step = "update" /\ w.hosts = workers[ch].hosts
    BY <1>2, NextCall DEF IInv
  <2>3. workers' = [workers EXCEPT ![ch] = w]
    BY <1>5, <2>2
  <2>4. QED
    BY <1>1, <2>1, <2>2, <2>3, GoOn
<1>6. QED
  BY <1>3, <1>4, <1>5 DEF GetScopedAccessServices

\* AlreadyExists is a loss.
LEMMA CreateScopedAccessServicesStep ==
  ASSUME IInv, NEW ch \in Channels, CreateScopedAccessServices(ch)
  PROVE  IInv'
<1>1. Carries(ch)
  BY IdleWorker DEF CreateScopedAccessServices, AtStep, Carries, Busy
<1>2. CallStep
  BY DEF CreateScopedAccessServices, AtStep, CallStep, IInv, TypeOK, Cause
<1>3. CASE accessor = NoAccessor
  BY <1>1, <1>2, <1>3, ReplaceStep DEF CreateScopedAccessServices
<1>4. CASE accessor # NoAccessor
  BY <1>1, <1>2, <1>4, ReturnStep DEF CreateScopedAccessServices, Cause, Lost
<1>5. QED
  BY <1>3, <1>4

\* So is the last conflict; before it the call starts again with the hosts it has.
LEMMA UpdateScopedAccessServicesStep ==
  ASSUME IInv, NEW ch \in Channels, UpdateScopedAccessServices(ch)
  PROVE  IInv'
<1>1. Carries(ch)
  BY IdleWorker DEF UpdateScopedAccessServices, AtStep, Carries, Busy
<1>2. CallStep
  BY DEF UpdateScopedAccessServices, AtStep, CallStep, IInv, TypeOK, Cause
<1>3. CASE workers[ch].current /\ Replace(ch) /\ UNCHANGED causes
  BY <1>1, <1>2, <1>3, ReplaceStep
<1>4. CASE /\ Return(ch) /\ Cause("RetriesUsedUp")
           /\ UNCHANGED <<accessorVars, granted>>
  BY <1>1, <1>2, <1>4, ReturnStep DEF Cause, Lost
<1>5. CASE /\ workers[ch].tries # RetrySteps
           /\ workers' = [workers EXCEPT ![ch] = Call("get", @.hosts, FALSE, @.tries + 1)]
           /\ UNCHANGED <<accessorVars, granted>>
  <2>1. workers[ch].tries \in 0..RetrySteps
    BY DEF IInv, TypeOK, Workers
  <2>2. workers[ch].tries + 1 \in 0..RetrySteps
    BY <1>5, <2>1, AccessScopeAssumption
  <2>3. QED
    BY <1>1, <1>2, <1>5, <2>2, NextCall, GoOn DEF IInv
<1>6. QED
  BY <1>3, <1>4, <1>5 DEF UpdateScopedAccessServices

\* A request that fails is a loss, and leaves the worker idle.
LEMMA RequestFailsStep ==
  ASSUME IInv, NEW ch \in Channels, RequestFails(ch)
  PROVE  IInv'
<1>1. Carries(ch)
  BY IdleWorker DEF RequestFails, AtStep, Carries, Busy
<1>2. CallStep
  BY DEF RequestFails, AtStep, CallStep, IInv, TypeOK, Cause, Trouble
<1>3. QED
  BY <1>1, <1>2, ReturnStep DEF RequestFails, Cause, Lost

\* A new process has nothing to lose: the mapping is empty, and nothing is granted.
LEMMA RestartStep ==
  ASSUME IInv, Restart
  PROVE  IInv'
<1> USE DEF IInv, Restart, Started, Trouble, sidecarVars
<1>1. causes \subseteq causes' /\ causes' \subseteq causes \cup {"Restarted", "MapRace"}
  OBVIOUS
<1>2. TypeOK'
  BY <1>1, IdleWorker, CopyFacts DEF TypeOK
<1>3. AdapterInv'
  BY DEF AdapterInv, TypeOK, OwnChannel, OnlyMapped, Kept, Consumed, Settling, Busy, Carries,
     OneChannel
<1>4. SidecarInv'
  BY <1>1 DEF SidecarInv, Stampless, CopiesTrue, SidecarFollows, BuildSidecar, NoAccessor
<1>5. QED
  BY <1>2, <1>3, <1>4

\* The informer catches up with the ServiceAccessor.
LEMMA SyncInformerStep ==
  ASSUME IInv, SyncInformer
  PROVE  IInv'
<1> USE DEF IInv, SyncInformer, zkVars, adapterVars, sidecarVars, history
<1>1. TypeOK'
  BY CopyFacts DEF TypeOK
<1>2. AdapterInv'
  BY DEF AdapterInv, OwnChannel, OnlyMapped, Kept, Consumed, Settling, Busy, Carries,
     OneChannel, Lost
<1>3. SidecarInv'
  BY DEF SidecarInv, Stampless, CopiesTrue, SidecarFollows, BuildSidecar, NoAccessor
<1>4. QED
  BY <1>1, <1>2, <1>3

-----------------------------------------------------------------------------
(* Steps of the controllers and of others *)

\* What these steps leave alone.
AdapterUntouched ==
  /\ UNCHANGED <<consumes, unread, mapping, pending, channelOf, granted>>
  /\ accessor'.hosts = accessor.hosts
  /\ \A ch \in Channels :
       /\ workers'[ch].step = workers[ch].step /\ workers'[ch].hosts = workers[ch].hosts
       /\ Busy(ch)' = Busy(ch)
  /\ causes \subseteq causes'

\* What the adapter does to the ServiceAccessor leaves the Sidecar and its copy alone.
LEMMA AdapterSteps ==
  ASSUME AdapterInv, AdapterUntouched
  PROVE  AdapterInv'
  BY DEF AdapterInv, AdapterUntouched, OwnChannel, OnlyMapped, Kept, Consumed, Settling,
         Carries, OneChannel, Lost

\* A step that writes the Sidecar leaves its copy behind.
LEMMA SidecarWritten ==
  ASSUME TypeOK, SidecarInv, NEW hosts \in SidecarHosts, WriteSidecar(hosts),
         UNCHANGED <<accessorVars, pods>>
  PROVE  /\ SidecarInv'
         /\ sidecar' \in SidecarHosts /\ sidecarCache' \in Copies(SidecarHosts)
<1> USE DEF WriteSidecar, accessorVars
<1>1. sidecar' \in SidecarHosts /\ sidecarCache' \in Copies(SidecarHosts)
  BY CopyFacts DEF TypeOK
<1>2. ~sidecarCache'.current
  BY CopyFacts DEF TypeOK
<1>3. SidecarInv'
  BY <1>2 DEF SidecarInv, Stampless, CopiesTrue, SidecarFollows, NoAccessor
<1>4. QED
  BY <1>1, <1>3

\* What is delivered is queued.
LEMMA DeliverStep ==
  ASSUME IInv, Deliver
  PROVE  IInv'
<1> USE DEF IInv, Deliver, zkVars, adapterVars, history
<1>1. TypeOK'
  BY CopyFacts DEF TypeOK
<1>2. AdapterInv'
  BY AdapterSteps DEF AdapterUntouched, Busy
<1>3. SidecarInv'
  BY CopyFacts DEF SidecarInv, Stampless, CopiesTrue, SidecarFollows, NoAccessor
<1>4. QED
  BY <1>1, <1>2, <1>3

\* A resync queues the Sidecar again, and changes nothing else.
LEMMA ResyncStep ==
  ASSUME IInv, Resync
  PROVE  IInv'
<1> USE DEF IInv, Resync, zkVars, adapterVars, accessorVars, sidecarVars, history
<1>1. TypeOK'
  BY DEF TypeOK
<1>2. AdapterInv'
  BY AdapterSteps DEF AdapterUntouched, Busy
<1>3. SidecarInv'
  BY DEF SidecarInv, Stampless, CopiesTrue, SidecarFollows, NoAccessor
<1>4. QED
  BY <1>1, <1>2, <1>3

\* If nothing has to be written, and the cache is right, then the Sidecar is; if it has to
\* be and is not, then the cache is behind.
LEMMA ReconcileStep ==
  ASSUME IInv, Reconcile
  PROVE  IInv'
<1> DEFINE hosts == accessorCache.object.hosts
<1> USE DEF IInv, zkVars, adapterVars, accessorVars
<1>1. /\ UNCHANGED <<zkVars, adapterVars, accessorVars, pods, granted, writes>>
      /\ queued' = FALSE
  BY DEF Reconcile
<1>2. CASE (hosts = None \/ ~pods) /\ UNCHANGED <<sidecarVars, troubles, causes>>
  <2>1. TypeOK'
    BY <1>1, <1>2 DEF TypeOK, sidecarVars
  <2>2. AdapterInv'
    BY <1>1, <1>2, AdapterSteps DEF AdapterUntouched, Busy
  <2>3. SidecarInv'
    BY <1>1, <1>2 DEF SidecarInv, Stampless, CopiesTrue, SidecarFollows, NoAccessor, sidecarVars
  <2>4. QED
    BY <2>1, <2>2, <2>3
<1>3. CASE hosts # None /\ ReconcileSidecar(hosts) /\ UNCHANGED <<troubles, causes>>
  <2>1. hosts \in SUBSET Services
    BY <1>3, HostFacts DEF TypeOK, Copies, Accessors
  <2>2. BuildSidecar(hosts) \in SidecarHosts /\ BuildSidecar(hosts) # None
    BY <2>1, HostFacts
  <2>3. AdapterInv'
    BY <1>1, <1>3, AdapterSteps DEF AdapterUntouched, Busy
  <2>4. CASE WriteSidecar(BuildSidecar(hosts))
    <3>1. SidecarInv' /\ sidecar' \in SidecarHosts /\ sidecarCache' \in Copies(SidecarHosts)
      BY <1>1, <2>2, <2>4, SidecarWritten
    <3>2. QED
      BY <1>1, <1>3, <2>3, <3>1 DEF TypeOK
  <2>5. CASE /\ UNCHANGED sidecarVars
             /\ ~(sidecarCache.object = None /\ sidecar = None)
             /\ ~(/\ sidecarCache.object \notin {None, BuildSidecar(hosts)}
                  /\ sidecarCache.current)
    <3>1. sidecarCache.current => sidecar = BuildSidecar(hosts)
      BY <2>5 DEF SidecarInv, CopiesTrue
    <3>2. SidecarInv'
      BY <1>1, <1>3, <2>5, <3>1
         DEF SidecarInv, Stampless, CopiesTrue, SidecarFollows, NoAccessor, sidecarVars, BuildSidecar
    <3>3. TypeOK'
      BY <1>1, <1>3, <2>5 DEF TypeOK, sidecarVars
    <3>4. QED
      BY <2>3, <3>2, <3>3
  <2>6. QED
    BY <1>3, <2>4, <2>5 DEF ReconcileSidecar
<1>4. CASE Trouble /\ Cause("RequestFailed") /\ UNCHANGED sidecarVars
  <2>1. TypeOK'
    <3>1. troubles' \in Nat
      BY <1>4 DEF TypeOK, Trouble
    <3>2. causes' \subseteq {"AlreadyExists", "OldCopy", "RetriesUsedUp", "RequestFailed",
                            "Restarted", "MapRace", "PodsLate"}
      BY <1>4 DEF TypeOK, Cause
    <3>3. QED
      BY <1>1, <1>4, <3>1, <3>2 DEF TypeOK, sidecarVars
  <2>2. AdapterInv'
    BY <1>1, <1>4, AdapterSteps DEF AdapterUntouched, Busy, Cause
  <2>3. SidecarInv'
    BY <1>1, <1>4 DEF SidecarInv, Stampless, CopiesTrue, SidecarFollows, NoAccessor, sidecarVars, Cause
  <2>4. QED
    BY <2>1, <2>2, <2>3
<1>5. QED
  BY <1>2, <1>3, <1>4 DEF Reconcile

\* The other controller creates a Sidecar, or changes its stamp.
LEMMA DefaultSidecarStep ==
  ASSUME IInv, DefaultSidecar
  PROVE  IInv'
<1> USE DEF IInv, DefaultSidecar, zkVars, adapterVars, history
<1>1. SidecarInv' /\ sidecar' \in SidecarHosts /\ sidecarCache' \in Copies(SidecarHosts)
  BY SidecarWritten, HostFacts
<1>2. TypeOK'
  BY <1>1 DEF TypeOK, accessorVars
<1>3. AdapterInv'
  BY AdapterSteps DEF AdapterUntouched, Busy, accessorVars
<1>4. QED
  BY <1>1, <1>2, <1>3

\* Workers that have read the ServiceAccessor before it is stamped will have a conflict.
LEMMA StampStep ==
  ASSUME IInv, Stamp
  PROVE  IInv'
<1> USE DEF IInv, Stamp, Written, zkVars
<1>1. accessor.hosts \in SUBSET Services
  BY HostFacts DEF TypeOK, Accessors, SidecarInv, Stampless
<1>2. /\ SidecarInv'
      /\ accessor' \in Accessors
      /\ {informer', accessorCache'} \subseteq Copies(Accessors)
      /\ accessor'.hosts = accessor.hosts
  BY <1>1, AccessorWritten
<1>3. workers' = [c \in Channels |-> Behind(workers[c])]
  OBVIOUS
<1>4. TypeOK'
  <2>1. workers' \in [Channels -> Workers]
    BY <1>3, BehindWorker DEF TypeOK
  <2>2. QED
    BY <1>2, <2>1 DEF TypeOK, sidecarVars
<1>5. \A c \in Channels :
        /\ workers'[c].step = workers[c].step /\ workers'[c].hosts = workers[c].hosts
        /\ workers'[c] = Idle <=> workers[c] = Idle
  <2> TAKE c \in Channels
  <2>1. workers[c] \in Workers /\ workers'[c] = Behind(workers[c])
    BY <1>3 DEF TypeOK
  <2>2. workers[c] # Idle => workers[c].step # "idle"
    BY DEF AdapterInv, OwnChannel, Busy
  <2>3. QED
    BY <2>1, <2>2, BehindWorker, IdleWorker
<1>6. AdapterInv'
  BY <1>2, <1>5, AdapterSteps DEF AdapterUntouched, Busy
<1>7. QED
  BY <1>2, <1>4, <1>6

\* Someone else changes the Sidecar, which is delivered from then on.
LEMMA TamperStep ==
  ASSUME IInv, Tamper
  PROVE  IInv'
<1> USE DEF IInv, Tamper, Written, zkVars, adapterVars
<1>1. PICK hosts \in {None, SidecarDefaultHosts} : WriteSidecar(hosts)
  OBVIOUS
<1>2. hosts \in SidecarHosts
  BY <1>1 DEF SidecarHosts
<1>3. SidecarInv' /\ sidecar' \in SidecarHosts /\ sidecarCache' \in Copies(SidecarHosts)
  BY <1>1, <1>2, SidecarWritten
<1>4. TypeOK'
  BY <1>3 DEF TypeOK, accessorVars
<1>5. AdapterInv'
  BY AdapterSteps DEF AdapterUntouched, Busy, accessorVars
<1>6. QED
  BY <1>3, <1>4, <1>5

\* Pods that start late leave a Sidecar that could not be built.
LEMMA StartPodsStep ==
  ASSUME IInv, StartPods
  PROVE  IInv'
<1> USE DEF IInv, StartPods, Trouble, Cause, zkVars, adapterVars, accessorVars, sidecarVars
<1>1. TypeOK'
  BY DEF TypeOK
<1>2. AdapterInv'
  BY AdapterSteps DEF AdapterUntouched, Busy
<1>3. SidecarInv'
  BY DEF SidecarInv, Stampless, CopiesTrue, SidecarFollows, NoAccessor
<1>4. QED
  BY <1>1, <1>2, <1>3

-----------------------------------------------------------------------------
(* Theorems *)

\* Every step preserves the inductive invariant.
LEMMA NextIInv == IInv /\ [Next]_vars => IInv'
<1> SUFFICES ASSUME IInv, [Next]_vars PROVE IInv'
  OBVIOUS
<1>1. ASSUME NEW s \in Services, ChangeConsumers(s) PROVE IInv'
  BY <1>1, ChangeConsumersStep
<1>2. CASE Adapter
  <2>1. ASSUME NEW s \in Services, ReplaceAccessors(s) PROVE IInv'
    BY <2>1, ReplaceAccessorsStep
  <2>2. ASSUME NEW ch \in Channels, Worker(ch) PROVE IInv'
    BY <2>2, TakeStep, GetCachedScopedMappingStep, GetScopedAccessServicesStep,
       CreateScopedAccessServicesStep, UpdateScopedAccessServicesStep DEF Worker
  <2>3. QED
    BY <1>2, <2>1, <2>2 DEF Adapter
<1>3. ASSUME NEW ch \in Channels, RequestFails(ch) PROVE IInv'
  BY <1>3, RequestFailsStep
<1>4. CASE Restart \/ SyncInformer \/ Deliver \/ Resync
  BY <1>4, RestartStep, SyncInformerStep, DeliverStep, ResyncStep
<1>5. CASE Reconcile \/ DefaultSidecar \/ Stamp \/ Tamper \/ StartPods
  BY <1>5, ReconcileStep, DefaultSidecarStep, StampStep, TamperStep, StartPodsStep
<1>6. CASE UNCHANGED vars
  <2> USE <1>6 DEF vars, zkVars, adapterVars, accessorVars, sidecarVars, history
  <2>1. TypeOK'
    BY DEF IInv, TypeOK
  <2>2. AdapterInv'
    BY AdapterSteps DEF IInv, AdapterUntouched, Busy
  <2>3. SidecarInv'
    BY SidecarSteps DEF IInv, SidecarUntouched
  <2>4. QED
    BY <2>1, <2>2, <2>3 DEF IInv
<1>7. QED
  BY <1>1, <1>2, <1>3, <1>4, <1>5, <1>6 DEF Next

\* What the inductive invariant says of the properties.
LEMMA IInvImplies == IInv => HostsKept /\ SettledScopes /\ SettledSidecar
<1> SUFFICES ASSUME IInv PROVE HostsKept /\ SettledScopes /\ SettledSidecar
  OBVIOUS
<1>1. HostsKept
  BY DEF IInv, AdapterInv, Kept, HostsKept
<1>2. SettledScopes
  BY IdleWorker DEF IInv, AdapterInv, Settling, Consumed, SettledScopes, AdapterQuiet, Busy
<1>3. SettledSidecar
  BY DEF IInv, SidecarInv, Stampless, CopiesTrue, SidecarFollows, SettledSidecar
<1>4. QED
  BY <1>1, <1>2, <1>3

\* The inductive invariant holds in every reachable state.
THEOREM Invariance == Spec => []IInv
  BY InitIInv, NextIInv, PTL DEF Spec

\* No worker tries more often than RetrySteps, and no call leaves a worker half-way.
THEOREM TypeCorrect == Spec => []TypeOK
<1>1. IInv => TypeOK
  BY DEF IInv
<1>2. QED
  BY <1>1, Invariance, PTL

\* With one worker the ServiceAccessor never loses a host that this process has written,
\* in whatever order the events are handled and whoever else writes it.
THEOREM HostsAreKept == Spec => []HostsKept
  BY Invariance, IInvImplies, PTL

\* With one worker, and if nothing was lost, the ServiceAccessor lists all that the
\* application consumes as soon as the adapter has nothing to do.
THEOREM ScopesSettle == Spec => []SettledScopes
  BY Invariance, IInvImplies, PTL

\* Once the controllers have nothing to do the Sidecar allows what the ServiceAccessor
\* lists, although two controllers create it and anybody may change it.
THEOREM SidecarsSettle == Spec => []SettledSidecar
  BY Invariance, IInvImplies, PTL

===============================================================================
