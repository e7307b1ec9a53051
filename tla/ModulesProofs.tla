--------------------------- MODULE ModulesProofs ----------------------------
(***************************************************************************)
(* The registries of ModuleManager and RequestManager, for any modules,    *)
(* files, commands and consoles: they agree with each other and with the   *)
(* modules that exist, and a request is stale, or crashes the server, only *)
(* after an unload or in the middle of a load.                             *)
(***************************************************************************)
EXTENDS Modules, TLAPS

\* The executor is not in the middle of a load or an unload.
Between == {"boot", "idle", "destroy", "end"}

\* Both keys of a module find it, or neither does.
KeysAgree ==
  \A m \in Mods : /\ modules[<<"file", m>>] = modules[<<"id", m>>]
                  /\ modules[<<"id", m>>] \in {m, None}

Mapped(m) == modules[<<"id", m>>] = m

\* A load or an unload works on one module: how far it has come tells what
\* there is of that module.
Working ==
  /\ xpc \in Between <=> cur = None
  /\ xpc = "open" => copy \in 1 .. Len(Copies[cur])
  /\ xpc = "register" => Kind[cur] = "command"
  /\ cur # None => (Mapped(cur) <=> xpc \in {"init", "unregister", "delete", "erase"})
  /\ xpc \in {"erase", "dlclose"} => epoch[cur] > 0

\* A module that nobody works on exists just when it is in the map.
Exists(m) == IF m = cur THEN xpc \in {"register", "store", "init", "unregister", "delete"}
             ELSE Mapped(m)

Existing == \A m \in Mods : live[m] = 1 <=> Exists(m)

\* The library of a module that exists is open.
LibrariesOpen ==
  \A m \in Mods :
    live[m] = 1 \/ (m = cur /\ xpc \in {"construct", "erase", "dlclose"}) => opened[m] > 0

\* The module's commands have been registered, and not taken out.
HasCommands(m) ==
  IF m = cur THEN \/ xpc = "unregister"
                  \/ xpc \in {"store", "init"} /\ Kind[m] = "command"
  ELSE live[m] = 1

\* A name leads to a module that has registered it ...
FactoriesOwned ==
  \A n \in Names : factories[n] # None =>
    n \in Commands[factories[n]] /\ HasCommands(factories[n])

\* ... and, when no other module can take it away, every name registered does.
FactoriesComplete ==
  DisjointCommands =>
    \A m \in Mods : HasCommands(m) => \A n \in Commands[m] : factories[n] = m

\* A request is no younger than its module, and stale only if the module was
\* unloaded since.
Sound(r) == /\ r.stamp <= epoch[r.mod]
            /\ r.stamp = epoch[r.mod] => live[r.mod] = 1

QueueSound == \A i \in 1 .. Len(queue) : Sound(queue[i])

HandlersSound ==
  \A h \in Handlers : IF hpc[h] = "idle" THEN req[h] = None
                      ELSE req[h] \in RequestType /\ Sound(req[h])

\* The destructor runs when nobody gives commands any more.
DestroyedLast == xpc \in {"destroy", "end"} => Quiet

IInv ==
  /\ TypeOK
  /\ KeysAgree
  /\ Working
  /\ Existing
  /\ LibrariesOpen
  /\ FactoriesOwned
  /\ FactoriesComplete
  /\ QueueSound
  /\ HandlersSound
  /\ DestroyedLast
  /\ CrashExplained

-----------------------------------------------------------------------------
(* What the proofs need to know of the constants and of sequences. *)

\* What is assumed of the modules.
LEMMA ConstantFacts ==
  /\ None \notin Mods /\ MaxRequests \in Nat
  /\ Len(Defaults) \in Nat /\ \A i \in 1 .. Len(Defaults) : Defaults[i] \in Mods
  /\ \A m \in Mods : /\ Kind[m] \in {"command", "shell", "python"} /\ Commands[m] \subseteq Names
                     /\ Len(Copies[m]) \in Nat
                     /\ Copies[m] # <<>> => Len(Copies[m]) > 0
<1>1. ASSUME NEW m \in Mods
      PROVE  /\ Len(Copies[m]) \in Nat
             /\ Copies[m] # <<>> => Len(Copies[m]) > 0
  <2>1. Copies[m] \in Seq(CopyKinds)
    BY <1>1, ModulesAssumption
  <2> QED
    BY <2>1
<1> QED
  BY <1>1, ModulesAssumption

\* Tail() takes the first element and moves the others up by one.
LEMMA TailFacts ==
  ASSUME NEW S, NEW q \in Seq(S), q # <<>>
  PROVE  /\ Head(q) \in S /\ Head(q) = q[1] /\ 1 \in 1 .. Len(q)
         /\ Tail(q) \in Seq(S)
         /\ \A i \in 1 .. Len(Tail(q)) : i + 1 \in 1 .. Len(q) /\ Tail(q)[i] = q[i + 1]
  OBVIOUS

\* Append() puts its element last and moves nothing else.
LEMMA AppendFacts ==
  ASSUME NEW S, NEW q \in Seq(S), NEW e \in S
  PROVE  /\ Append(q, e) \in Seq(S)
         /\ \A i \in 1 .. Len(Append(q, e)) :
              Append(q, e)[i] = IF i = Len(q) + 1 THEN e ELSE q[i]
         /\ \A i \in 1 .. Len(Append(q, e)) : i = Len(q) + 1 \/ i \in 1 .. Len(q)
  OBVIOUS

\* The two entries of a module are written together.
LEMMA BothKeys ==
  ASSUME TypeOK, NEW m \in Mods, NEW v \in Mods \cup {None},
         modules' = [modules EXCEPT ![<<"id", m>>] = v, ![<<"file", m>>] = v]
  PROVE  /\ modules' \in [Keys -> Mods \cup {None}]
         /\ \A x \in Mods : /\ modules'[<<"id", x>>] = IF x = m THEN v ELSE modules[<<"id", x>>]
                            /\ modules'[<<"file", x>>] = IF x = m THEN v ELSE modules[<<"file", x>>]
<1>1. <<"id", m>> \in Keys /\ <<"file", m>> \in Keys
  BY DEF Keys
<1>2. modules' \in [Keys -> Mods \cup {None}]
  BY <1>1 DEF TypeOK
<1>3. ASSUME NEW x \in Mods
      PROVE  /\ modules'[<<"id", x>>] = IF x = m THEN v ELSE modules[<<"id", x>>]
             /\ modules'[<<"file", x>>] = IF x = m THEN v ELSE modules[<<"file", x>>]
  <2>1. <<"id", x>> \in Keys /\ <<"file", x>> \in Keys
    BY DEF Keys
  <2> QED
    BY <1>1, <2>1 DEF TypeOK
<1> QED
  BY <1>2, <1>3

\* What a key finds is a module under that key.
LEMMA KeyFacts ==
  ASSUME IInv, NEW k \in Keys, modules[k] # None
  PROVE  modules[k] \in Mods /\ Mapped(modules[k]) /\ modules[<<"file", modules[k]>>] = modules[k]
<1>1. PICK t \in {"id", "file"}, m \in Mods : k = <<t, m>>
  BY DEF Keys
<1> QED
  BY <1>1 DEF IInv, KeysAgree, Mapped

\* What getModuleData() finds is a module in the map.
LEMMA DataFacts ==
  ASSUME IInv, NEW key \in {"id", "file"}, NEW m \in Mods \cup {None},
         getModuleData(key, m) # None
  PROVE  getModuleData(key, m) = m /\ m \in Mods /\ Mapped(m)
  BY ConstantFacts DEF IInv, KeysAgree, Mapped, getModuleData

\* The invariant holds before the first module is loaded.
LEMMA InitInv == Init => IInv
<1> SUFFICES ASSUME Init PROVE IInv
  OBVIOUS
<1> USE DEF Init
<1>1. TypeOK
  BY ConstantFacts DEF TypeOK
<1>2. \A m \in Mods : modules[<<"id", m>>] = None /\ modules[<<"file", m>>] = None
  BY DEF Keys
<1>3. KeysAgree /\ Working
  BY <1>2 DEF KeysAgree, Working, Between, Mapped
<1>6. Existing
  <2>1. \A m \in Mods : m # cur /\ ~Mapped(m) /\ live[m] = 0
    BY <1>2, ConstantFacts DEF Mapped
  <2> QED
    BY <2>1 DEF Existing, Exists
<1>4. LibrariesOpen /\ FactoriesOwned /\ FactoriesComplete
  BY ConstantFacts DEF LibrariesOpen, FactoriesOwned, FactoriesComplete, HasCommands
<1>5. QueueSound /\ HandlersSound /\ DestroyedLast /\ CrashExplained
  BY DEF QueueSound, HandlersSound, DestroyedLast, CrashExplained
<1> QED
  BY <1>1, <1>3, <1>4, <1>5, <1>6 DEF IInv

-----------------------------------------------------------------------------
(* The steps: one lemma per part of IInv. *)

LookUp(h) ==
  \E n \in Names : \E a \in {None} \cup
                                     (IF n \in {"load", "unload"} /\ h \notin Webs
                                      THEN Mods ELSE {}) :
    Lookup(h, n, a)

Executes == ExecuteLoad \/ ExecuteUnload \/ ExecuteOther \/ ExecuteUnmapped
Begins == loadModules \/ Executes
Opens == OpenLibrary \/ NextRelative \/ SearchTooDeep
Loads == Opens \/ Construct \/ RegisterCommands \/ StoreModule \/ InitModule
Unloads == UnregisterCommands \/ DeleteModule \/ EraseModule \/ CloseLibrary
Destroys == StartDestroy \/ DestroyModule \/ EndDestroy

Step == Begins \/ Loads \/ Unloads \/ Destroys \/ \E h \in Handlers : Handler(h)

\* A handler looks at the registries and changes none of them.
LEMMA HandlerFrames ==
  ASSUME NEW h \in Handlers, Handler(h)
  PROVE  UNCHANGED <<modules, factories, live, opened, xpc, job, cur, copy, boot, epoch>>
  BY DEF Handler, Lookup, Create, pushRequest, WebExecute, WebStats, HandlerFrame, mapvars,
     xvars

\* The executor's requests leave the registries alone until they go to work.
LEMMA PopFrames ==
  ASSUME Pop
  PROVE  UNCHANGED <<modules, factories, live, opened, boot, hpc, req, asked, epoch>>
  BY DEF Pop, mapvars, hvars

\* A popped request is one that was queued, and no module is worked on.
LEMMA PopFacts ==
  ASSUME IInv, Pop
  PROVE  /\ Head(queue) \in RequestType /\ Sound(Head(queue))
         /\ Head(queue).arg \in Mods \cup {None} /\ Head(queue).mod \in Mods
         /\ xpc = "idle" /\ cur = None
<1>1. Head(queue) \in RequestType /\ Sound(Head(queue))
  BY TailFacts DEF IInv, TypeOK, QueueSound, Pop
<1>2. Head(queue).arg \in Mods \cup {None} /\ Head(queue).mod \in Mods
  BY <1>1 DEF RequestType
<1> QED
  BY <1>1, <1>2 DEF Pop, IInv, Working, Between

\* The executor goes to the next default module or request, to work on a module
\* that is not loaded, or to unload one that is.
BeginLoad ==
  \E m \in Mods : ~Mapped(m) /\ Len(Copies[m]) > 0 /\ xpc' = "open" /\ cur' = m /\ copy' = 1

BeginUnload == \E m \in Mods : Mapped(m) /\ xpc' = "unregister" /\ cur' = m

Begin ==
  /\ xpc \in {"boot", "idle"} /\ cur = None
  /\ UNCHANGED <<modules, factories, live, opened, hpc, req, epoch>>
  /\ \/ xpc' \in {"boot", "idle"} /\ cur' = None
     \/ BeginLoad \/ BeginUnload

\* However a load or an unload begins, it picks a module and changes no registry.
LEMMA BeginFacts ==
  ASSUME IInv, Begins
  PROVE  Begin
<1>1. ASSUME NEW m \in Mods, Loadable(m) PROVE ~Mapped(m) /\ Len(Copies[m]) > 0
  BY <1>1, ConstantFacts DEF IInv, KeysAgree, Loadable, Mapped
<1>2. CASE loadModules
  <2>1. /\ xpc = "boot" /\ cur = None
        /\ UNCHANGED <<modules, factories, live, opened, hpc, req, epoch>>
    BY <1>2 DEF IInv, Working, Between, loadModules, LoadFrame, mapvars, hvars
  <2>2. Defaults[boot + 1] \in Mods
    BY <1>2, ConstantFacts DEF IInv, TypeOK, loadModules
  <2>3. (xpc' \in {"boot", "idle"} /\ cur' = None) \/ BeginLoad
    BY <1>1, <1>2, <2>1, <2>2 DEF BeginLoad, loadModules
  <2> QED
    BY <2>1, <2>3 DEF Begin
<1>3. CASE ExecuteLoad
  <2>1. Pop
    BY <1>3 DEF ExecuteLoad
  <2>2. (xpc' \in {"boot", "idle"} /\ cur' = None) \/ BeginLoad
    BY <1>1, <1>3, <2>1, PopFacts DEF BeginLoad, ExecuteLoad
  <2> QED
    BY <2>1, <2>2, PopFacts, PopFrames DEF Begin
<1>4. CASE ExecuteUnload
  <2>1. Pop
    BY <1>4 DEF ExecuteUnload
  <2>2. (xpc' \in {"boot", "idle"} /\ cur' = None) \/ BeginUnload
    BY <1>4, <2>1, PopFacts, DataFacts DEF BeginUnload, ExecuteUnload
  <2> QED
    BY <2>1, <2>2, PopFacts, PopFrames DEF Begin
<1>5. CASE ExecuteOther \/ ExecuteUnmapped
  <2>1. Pop /\ UNCHANGED <<xpc, cur>>
    BY <1>5 DEF ExecuteOther, ExecuteUnmapped
  <2> QED
    BY <2>1, PopFacts, PopFrames DEF Begin
<1> QED
  BY <1>2, <1>3, <1>4, <1>5 DEF Begins, Executes

\* The destructor takes out one module that is in the map.
LEMMA DestroyFacts ==
  ASSUME IInv, DestroyModule
  PROVE  /\ xpc = "destroy" /\ cur = None
         /\ UNCHANGED <<opened, xpc, cur, copy, hpc, req, epoch, queue>>
         /\ \E m \in Mods :
              /\ Mapped(m) /\ live[m] = 1
              /\ live' = [live EXCEPT ![m] = 0]
              /\ factories' = Unregister(m)
              /\ modules' = [modules EXCEPT ![<<"id", m>>] = None, ![<<"file", m>>] = None]
              /\ \A x \in Mods : Mapped(x)' <=> Mapped(x) /\ x # m
<1>1. PICK k \in Keys :
        /\ modules[k] # None
        /\ live' = [live EXCEPT ![modules[k]] = @ - 1]
        /\ factories' = Unregister(modules[k])
        /\ modules' = [modules EXCEPT ![<<"id", modules[k]>>] = None,
                                      ![<<"file", modules[k]>>] = None]
  BY DEF DestroyModule
<1>2. modules[k] \in Mods /\ Mapped(modules[k])
  BY <1>1, KeyFacts
<1>3. xpc = "destroy" /\ cur = None
  BY DEF IInv, Working, Between, DestroyModule
<1>4. live[modules[k]] = 1
  BY <1>2, <1>3, ConstantFacts DEF IInv, Existing, Exists
<1>5. live' = [live EXCEPT ![modules[k]] = 0]
  BY <1>1, <1>4
<1>6. UNCHANGED <<opened, xpc, cur, copy, hpc, req, epoch, queue>>
  BY DEF DestroyModule, LoadFrame, xvars, hvars
<1>7. \A x \in Mods : Mapped(x)' <=> Mapped(x) /\ x # modules[k]
  <2>1. PICK m \in Mods : m = modules[k]
    BY <1>2
  <2>2. modules' = [modules EXCEPT ![<<"id", m>>] = None, ![<<"file", m>>] = None]
    BY <1>1, <2>1
  <2>3. \A x \in Mods : modules'[<<"id", x>>] = IF x = m THEN None ELSE modules[<<"id", x>>]
    BY <2>2, BothKeys DEF IInv
  <2> QED
    BY <2>1, <2>3, ConstantFacts DEF Mapped
<1> QED
  BY <1>1, <1>2, <1>3, <1>4, <1>5, <1>6, <1>7

\* A file that does not load leads to the next one, or back.
LEMMA OpenFacts ==
  ASSUME IInv, Opens
  PROVE  /\ xpc = "open" /\ cur \in Mods /\ ~Mapped(cur)
         /\ UNCHANGED <<modules, factories, live, epoch>>
         /\ \A x \in Mods : opened'[x] >= opened[x]
         /\ \/ xpc' = "construct" /\ cur' = cur /\ opened'[cur] > 0
            \/ xpc' = "open" /\ cur' = cur /\ copy' \in 1 .. Len(Copies[cur])
            \/ xpc' \in {"boot", "idle"} /\ cur' = None
<1>1. xpc = "open" /\ cur \in Mods /\ ~Mapped(cur) /\ copy \in 1 .. Len(Copies[cur])
  BY DEF IInv, TypeOK, Working, Between, Opens, OpenLibrary, NextRelative, SearchTooDeep
<1>2. \A x \in Mods : opened'[x] >= opened[x]
  <2>1. opened \in [Mods -> Nat]
    BY DEF IInv, TypeOK
  <2>2. opened' = opened \/ opened' = [opened EXCEPT ![cur] = @ + 1]
    BY DEF Opens, OpenLibrary, NextRelative, SearchTooDeep, mapvars
  <2> QED
    BY <1>1, <2>1, <2>2
<1>3. \/ xpc' = "construct" /\ cur' = cur /\ Copies[cur][copy] = "good"
      \/ xpc' = "open" /\ cur' = cur /\ copy' \in 1 .. Len(Copies[cur])
      \/ xpc' \in {"boot", "idle"} /\ cur' = None
  BY <1>1, ConstantFacts DEF Opens, OpenLibrary, NextRelative, SearchTooDeep, NextFile,
     EndLoad, AfterLoad
<1>4. Copies[cur][copy] = "good" => opened'[cur] > 0
  BY <1>1 DEF IInv, TypeOK, Opens, OpenLibrary, NextRelative, SearchTooDeep
<1> QED
  BY <1>1, <1>2, <1>3, <1>4 DEF Opens, OpenLibrary, NextRelative, SearchTooDeep, LoadFrame,
     mapvars

\* StoreModule and EraseModule change what the map says of one module.
LEMMA StoreFacts ==
  ASSUME IInv, StoreModule
  PROVE  cur \in Mods /\ \A x \in Mods : Mapped(x)' <=> Mapped(x) \/ x = cur
<1>1. cur \in Mods
  BY DEF IInv, TypeOK, Working, Between, StoreModule
<1>2. \A x \in Mods : modules'[<<"id", x>>] = IF x = cur THEN cur ELSE modules[<<"id", x>>]
  BY <1>1, BothKeys DEF IInv, StoreModule
<1> QED
  BY <1>1, <1>2 DEF Mapped

\* The keys that are erased are those of the module in hand.
LEMMA EraseFacts ==
  ASSUME IInv, EraseModule
  PROVE  cur \in Mods /\ \A x \in Mods : Mapped(x)' <=> Mapped(x) /\ x # cur
<1>1. cur \in Mods
  BY DEF IInv, TypeOK, Working, Between, EraseModule
<1>2. \A x \in Mods : modules'[<<"id", x>>] = IF x = cur THEN None ELSE modules[<<"id", x>>]
  BY <1>1, BothKeys DEF IInv, EraseModule
<1> QED
  BY <1>1, <1>2, ConstantFacts DEF Mapped

\* TypeOK in three parts, as the provers want them.
Maps ==
  /\ modules \in [Keys -> Mods \cup {None}] /\ factories \in [Names -> Mods \cup {None}]
  /\ live \in [Mods -> 0 .. 1] /\ opened \in [Mods -> Nat] /\ epoch \in [Mods -> Nat]

Places ==
  /\ xpc \in {"boot", "idle", "open", "construct", "register", "store", "init",
              "unregister", "delete", "erase", "dlclose", "destroy", "end"}
  /\ cur \in Mods \cup {None} /\ copy \in Nat /\ boot \in 0 .. Len(Defaults)
  /\ hpc \in [Handlers -> {"idle", "create", "push"}] /\ asked \in 0 .. MaxRequests

Given ==
  /\ queue \in Seq(RequestType) /\ job \in RequestType \cup {None}
  /\ req \in [Handlers -> RequestType \cup {None}]

\* The registries keep their types: what is counted down was up.
LEMMA MapsStep ==
  ASSUME IInv, crash = "no", Step
  PROVE  Maps'
<1>1. ASSUME Begins PROVE Maps'
  <2>1. CASE loadModules
    BY <2>1, ConstantFacts DEF Maps, IInv, TypeOK, Working, Between, Existing, Exists,
       LibrariesOpen, Mapped, loadModules, Loadable, LoadFrame, mapvars, hvars
  <2>2. CASE ExecuteLoad
    BY <2>2, PopFrames DEF Maps, IInv, TypeOK, ExecuteLoad
  <2>3. CASE ExecuteUnload
    BY <2>3, PopFrames DEF Maps, IInv, TypeOK, ExecuteUnload
  <2>4. CASE ExecuteOther
    BY <2>4, PopFrames DEF Maps, IInv, TypeOK, ExecuteOther
  <2>5. CASE ExecuteUnmapped
    BY <2>5, PopFrames DEF Maps, IInv, TypeOK, ExecuteUnmapped
  <2> QED
    BY <1>1, <2>1, <2>2, <2>3, <2>4, <2>5 DEF Begins, Executes
<1>2. ASSUME Loads PROVE Maps'
  <2>1. CASE Opens
    <3>1. cur \in Mods /\ UNCHANGED <<modules, factories, live, epoch>>
      BY <2>1, OpenFacts
    <3>2. opened' = opened \/ opened' = [opened EXCEPT ![cur] = @ + 1]
      BY <2>1 DEF Opens, OpenLibrary, NextRelative, SearchTooDeep, mapvars
    <3> QED
      BY <3>1, <3>2 DEF Maps, IInv, TypeOK
  <2>2. CASE Construct
    BY <2>2, ConstantFacts DEF Maps, IInv, TypeOK, Working, Between, Existing, Exists,
       LibrariesOpen, Mapped, Construct, LoadStep, LoadFrame, hvars
  <2>3. CASE RegisterCommands
    BY <2>3, ConstantFacts DEF Maps, IInv, TypeOK, Working, Between, Register,
       RegisterCommands, LoadStep, LoadFrame
  <2>4. CASE StoreModule
    <3>1. cur \in Mods
      BY <2>4 DEF IInv, TypeOK, Working, Between, StoreModule
    <3> QED
      BY <2>4, <3>1, BothKeys DEF Maps, IInv, TypeOK, StoreModule, LoadStep, LoadFrame
  <2>5. CASE InitModule
    BY <2>5, ConstantFacts DEF Maps, IInv, TypeOK, Working, Between, Register, InitModule,
       EndLoad, LoadFrame
  <2> QED
    BY <1>2, <2>1, <2>2, <2>3, <2>4, <2>5 DEF Loads
<1>3. ASSUME Unloads PROVE Maps'
  <2>1. CASE UnregisterCommands
    BY <2>1, ConstantFacts DEF Maps, IInv, TypeOK, Working, Between, Unregister,
       UnregisterCommands, LoadStep, LoadFrame
  <2>2. CASE DeleteModule
    BY <2>2, ConstantFacts DEF Maps, IInv, TypeOK, Working, Between, Existing, Exists,
       LibrariesOpen, Mapped, DeleteModule, hvars
  <2>3. CASE EraseModule
    <3>1. cur \in Mods
      BY <2>3 DEF IInv, TypeOK, Working, Between, EraseModule
    <3> QED
      BY <2>3, <3>1, BothKeys DEF Maps, IInv, TypeOK, EraseModule, LoadStep, LoadFrame
  <2>4. CASE CloseLibrary
    BY <2>4, ConstantFacts DEF Maps, IInv, TypeOK, Working, Between, Existing, Exists,
       LibrariesOpen, Mapped, CloseLibrary, hvars
  <2> QED
    BY <1>3, <2>1, <2>2, <2>3, <2>4 DEF Unloads
<1>4. ASSUME Destroys PROVE Maps'
  <2>1. CASE StartDestroy
    BY <2>1, ConstantFacts DEF Maps, IInv, TypeOK, Working, Between, Existing, Exists,
       LibrariesOpen, Mapped, StartDestroy, mapvars, hvars
  <2>2. CASE DestroyModule
    <3>1. PICK m \in Mods :
            /\ live' = [live EXCEPT ![m] = 0]
            /\ factories' = Unregister(m)
            /\ modules' = [modules EXCEPT ![<<"id", m>>] = None, ![<<"file", m>>] = None]
      BY <2>2, DestroyFacts
    <3>2. modules' \in [Keys -> Mods \cup {None}]
      BY <3>1, BothKeys DEF IInv
    <3>3. live' \in [Mods -> 0 .. 1]
      BY <3>1 DEF IInv, TypeOK
    <3>4. factories' \in [Names -> Mods \cup {None}]
      BY <3>1 DEF IInv, TypeOK, Unregister
    <3> QED
      BY <2>2, <3>2, <3>3, <3>4, DestroyFacts DEF Maps, IInv, TypeOK
  <2>3. CASE EndDestroy
    BY <2>3, ConstantFacts DEF Maps, IInv, TypeOK, Working, Between, Existing, Exists,
       LibrariesOpen, Mapped, EndDestroy, LoadFrame, mapvars, hvars
  <2> QED
    BY <1>4, <2>1, <2>2, <2>3 DEF Destroys
<1>5. ASSUME NEW h \in Handlers, Handler(h) PROVE Maps'
  BY <1>5, HandlerFrames DEF Maps, IInv, TypeOK
<1> QED
  BY <1>1, <1>2, <1>3, <1>4, <1>5 DEF Step

\* Type correctness: the executor, the handlers and the registries.
LEMMA PlacesStep ==
  ASSUME IInv, crash = "no", Step
  PROVE  Places'
<1>1. ASSUME Begins PROVE Places'
  <2>1. CASE loadModules
    BY <2>1, ConstantFacts DEF Places, IInv, TypeOK, Working, Between, loadModules,
       Loadable, LoadFrame, mapvars, hvars
  <2>2. CASE ExecuteLoad
    <3>1. Head(queue) \in RequestType
      BY <2>2, TailFacts DEF IInv, TypeOK, ExecuteLoad, Pop
    <3>2. Head(queue).arg \in Mods \cup {None} /\ Head(queue).mod \in Mods
      BY <3>1 DEF RequestType
    <3> QED
      BY <2>2, <3>2, ConstantFacts DEF Places, IInv, TypeOK, ExecuteLoad, Loadable, Pop,
         Unmapped, mapvars, hvars
  <2>3. CASE ExecuteUnload
    <3>1. Head(queue) \in RequestType
      BY <2>3, TailFacts DEF IInv, TypeOK, ExecuteUnload, Pop
    <3>2. Head(queue).arg \in Mods \cup {None} /\ Head(queue).mod \in Mods
      BY <3>1 DEF RequestType
    <3> QED
      BY <2>3, <3>2, ConstantFacts, DataFacts DEF Places, IInv, TypeOK, ExecuteUnload, Pop,
         Unmapped, mapvars, hvars
  <2>4. CASE ExecuteOther
    <3>1. Head(queue) \in RequestType
      BY <2>4, TailFacts DEF IInv, TypeOK, ExecuteOther, Pop
    <3>2. Head(queue).arg \in Mods \cup {None} /\ Head(queue).mod \in Mods
      BY <3>1 DEF RequestType
    <3> QED
      BY <2>4, <3>2, ConstantFacts DEF Places, IInv, TypeOK, ExecuteOther, Pop, Unmapped,
         mapvars, hvars
  <2>5. CASE ExecuteUnmapped
    <3>1. Head(queue) \in RequestType
      BY <2>5, TailFacts DEF IInv, TypeOK, ExecuteUnmapped, Pop
    <3>2. Head(queue).arg \in Mods \cup {None} /\ Head(queue).mod \in Mods
      BY <3>1 DEF RequestType
    <3> QED
      BY <2>5, <3>2, ConstantFacts DEF Places, IInv, TypeOK, ExecuteUnmapped, Pop,
         Unmapped, mapvars, hvars
  <2> QED
    BY <1>1, <2>1, <2>2, <2>3, <2>4, <2>5 DEF Begins, Executes
<1>2. ASSUME Loads PROVE Places'
  <2>1. CASE Opens
    BY <2>1, ConstantFacts DEF Places, IInv, TypeOK, Working, Between, Opens, OpenLibrary,
       NextRelative, SearchTooDeep,
       mapvars, LoadFrame, NextFile, hvars, EndLoad, AfterLoad
  <2>2. CASE Construct
    BY <2>2, ConstantFacts DEF Places, IInv, TypeOK, Working, Between, Construct, LoadStep,
       LoadFrame, hvars
  <2>3. CASE RegisterCommands
    BY <2>3, ConstantFacts DEF Places, IInv, TypeOK, Working, Between, RegisterCommands,
       LoadStep, LoadFrame, hvars
  <2>4. CASE StoreModule
    BY <2>4, ConstantFacts DEF Places, IInv, TypeOK, Working, Between, StoreModule,
       LoadStep, LoadFrame, hvars
  <2>5. CASE InitModule
    BY <2>5, ConstantFacts DEF Places, IInv, TypeOK, Working, Between, InitModule, EndLoad,
       LoadFrame, AfterLoad, hvars
  <2> QED
    BY <1>2, <2>1, <2>2, <2>3, <2>4, <2>5 DEF Loads
<1>3. ASSUME Unloads PROVE Places'
  <2>1. CASE UnregisterCommands
    BY <2>1, ConstantFacts DEF Places, IInv, TypeOK, Working, Between, UnregisterCommands,
       LoadStep, LoadFrame, hvars
  <2>2. CASE DeleteModule
    BY <2>2, ConstantFacts DEF Places, IInv, TypeOK, Working, Between, DeleteModule, hvars
  <2>3. CASE EraseModule
    BY <2>3, ConstantFacts DEF Places, IInv, TypeOK, Working, Between, EraseModule,
       LoadStep, LoadFrame, hvars
  <2>4. CASE CloseLibrary
    BY <2>4, ConstantFacts DEF Places, IInv, TypeOK, Working, Between, CloseLibrary, hvars
  <2> QED
    BY <1>3, <2>1, <2>2, <2>3, <2>4 DEF Unloads
<1>4. ASSUME Destroys PROVE Places'
  <2>1. CASE StartDestroy
    BY <2>1, ConstantFacts DEF Places, IInv, TypeOK, Working, Between, StartDestroy,
       mapvars, hvars
  <2>2. CASE DestroyModule
    BY <2>2, ConstantFacts DEF Places, IInv, TypeOK, Working, Between, DestroyModule,
       LoadFrame, xvars, hvars
  <2>3. CASE EndDestroy
    BY <2>3, ConstantFacts DEF Places, IInv, TypeOK, Working, Between, EndDestroy,
       LoadFrame, mapvars, hvars
  <2> QED
    BY <1>4, <2>1, <2>2, <2>3 DEF Destroys
<1>5. ASSUME NEW h \in Handlers, Handler(h) PROVE Places'
  <2>1. CASE LookUp(h)
    <3>1. PICK n \in Names, a \in Mods \cup {None} : Lookup(h, n, a)
      BY <2>1 DEF LookUp
    <3>2. hpc' \in [Handlers -> {"idle", "create", "push"}]
      BY <3>1 DEF IInv, TypeOK, Lookup
    <3>3. asked' \in 0 .. MaxRequests
      BY <3>1, ConstantFacts DEF IInv, TypeOK, Lookup
    <3> QED
      BY <3>1, <3>2, <3>3 DEF Places, IInv, TypeOK, Lookup, HandlerFrame, xvars
  <2>2. CASE Create(h)
    BY <2>2, ConstantFacts DEF Places, IInv, TypeOK, Working, Between, Create,
       HandlerFrame, mapvars, xvars
  <2>3. CASE pushRequest(h)
    BY <2>3, ConstantFacts DEF Places, IInv, TypeOK, Working, Between, pushRequest,
       HandlerFrame, mapvars, xvars
  <2>4. CASE WebExecute(h)
    BY <2>4 DEF Places, IInv, TypeOK, WebExecute, HandlerFrame, xvars
  <2>5. CASE WebStats(h)
    <3>1. asked' \in 0 .. MaxRequests
      BY <2>5, ConstantFacts DEF IInv, TypeOK, WebStats
    <3> QED
      BY <2>5, <3>1 DEF Places, IInv, TypeOK, WebStats, HandlerFrame, xvars
  <2> QED
    BY <1>5, <2>1, <2>2, <2>3, <2>4, <2>5 DEF Handler, LookUp
<1> QED
  BY <1>1, <1>2, <1>3, <1>4, <1>5 DEF Step

\* Type correctness: what the consoles have given.
LEMMA GivenStep ==
  ASSUME IInv, crash = "no", Step
  PROVE  Given'
<1>1. ASSUME Begins PROVE Given'
  <2>1. CASE loadModules
    BY <2>1 DEF Given, IInv, TypeOK, loadModules, Loadable, LoadFrame, mapvars, hvars
  <2>2. CASE ExecuteLoad
    BY <2>2, TailFacts DEF Given, IInv, TypeOK, ExecuteLoad, Loadable, Pop, Unmapped,
       mapvars, hvars
  <2>3. CASE ExecuteUnload
    BY <2>3, TailFacts DEF Given, IInv, TypeOK, ExecuteUnload, Pop, Unmapped,
       getModuleData, mapvars, hvars
  <2>4. CASE ExecuteOther
    BY <2>4, TailFacts DEF Given, IInv, TypeOK, ExecuteOther, Pop, Unmapped, getModuleData,
       mapvars, hvars
  <2>5. CASE ExecuteUnmapped
    BY <2>5, TailFacts DEF Given, IInv, TypeOK, ExecuteUnmapped, Pop, Unmapped, mapvars,
       hvars
  <2> QED
    BY <1>1, <2>1, <2>2, <2>3, <2>4, <2>5 DEF Begins, Executes
<1>2. ASSUME Loads PROVE Given'
  <2>1. CASE Opens
    BY <2>1 DEF Given, IInv, TypeOK, Opens, OpenLibrary, NextRelative, SearchTooDeep,
       LoadFrame, mapvars, NextFile, hvars, EndLoad,
       AfterLoad
  <2>2. CASE Construct
    BY <2>2 DEF Given, IInv, TypeOK, Construct, LoadStep, LoadFrame, hvars
  <2>3. CASE RegisterCommands
    BY <2>3 DEF Given, IInv, TypeOK, RegisterCommands, LoadStep, LoadFrame, hvars
  <2>4. CASE StoreModule
    BY <2>4 DEF Given, IInv, TypeOK, StoreModule, LoadStep, LoadFrame, hvars
  <2>5. CASE InitModule
    BY <2>5 DEF Given, IInv, TypeOK, InitModule, EndLoad, LoadFrame, AfterLoad, hvars
  <2> QED
    BY <1>2, <2>1, <2>2, <2>3, <2>4, <2>5 DEF Loads
<1>3. ASSUME Unloads PROVE Given'
  <2>1. CASE UnregisterCommands
    BY <2>1 DEF Given, IInv, TypeOK, UnregisterCommands, LoadStep, LoadFrame, hvars
  <2>2. CASE DeleteModule
    BY <2>2 DEF Given, IInv, TypeOK, DeleteModule, hvars
  <2>3. CASE EraseModule
    BY <2>3 DEF Given, IInv, TypeOK, EraseModule, LoadStep, LoadFrame, hvars
  <2>4. CASE CloseLibrary
    BY <2>4 DEF Given, IInv, TypeOK, CloseLibrary, hvars
  <2> QED
    BY <1>3, <2>1, <2>2, <2>3, <2>4 DEF Unloads
<1>4. ASSUME Destroys PROVE Given'
  <2>1. CASE StartDestroy
    BY <2>1 DEF Given, IInv, TypeOK, StartDestroy, mapvars, hvars
  <2>2. CASE DestroyModule
    BY <2>2 DEF Given, IInv, TypeOK, DestroyModule, LoadFrame, xvars, hvars
  <2>3. CASE EndDestroy
    BY <2>3 DEF Given, IInv, TypeOK, EndDestroy, LoadFrame, mapvars, hvars
  <2> QED
    BY <1>4, <2>1, <2>2, <2>3 DEF Destroys
<1>5. ASSUME NEW h \in Handlers, Handler(h) PROVE Given'
  <2>1. CASE LookUp(h)
    <3>1. PICK n \in Names, a \in Mods \cup {None} : Lookup(h, n, a)
      BY <2>1 DEF LookUp
    <3>2. ASSUME NEW m \in Mods
          PROVE  [name |-> n, mod |-> m, arg |-> a, stamp |-> epoch[m]] \in RequestType
      BY DEF IInv, TypeOK, RequestType
    <3>3. \A m \in {factories[n]} \cup {cur} : m \in Mods \cup {None}
      BY DEF IInv, TypeOK
    <3>4. ~Registering \/ cur \in Mods
      BY DEF IInv, TypeOK, Working, Between, Registering
    <3> QED
      BY <3>1, <3>2, <3>3, <3>4 DEF Given, IInv, TypeOK, Lookup, HandlerFrame, xvars
  <2>2. CASE Create(h)
    BY <2>2 DEF Given, IInv, TypeOK, Create, HandlerFrame, mapvars, xvars
  <2>3. CASE pushRequest(h)
    <3>1. req[h] \in RequestType
      BY <2>3 DEF IInv, HandlersSound, pushRequest
    <3> QED
      BY <2>3, <3>1, AppendFacts DEF Given, IInv, TypeOK, pushRequest, HandlerFrame, xvars
  <2>4. CASE WebExecute(h)
    BY <2>4 DEF Given, IInv, TypeOK, WebExecute, HandlerFrame, xvars
  <2>5. CASE WebStats(h)
    BY <2>5 DEF Given, IInv, TypeOK, WebStats, HandlerFrame, xvars
  <2> QED
    BY <1>5, <2>1, <2>2, <2>3, <2>4, <2>5 DEF Handler, LookUp
<1> QED
  BY <1>1, <1>2, <1>3, <1>4, <1>5 DEF Step

\* Type correctness: the crash.
LEMMA CrashKnown ==
  ASSUME IInv, Step
  PROVE  crash' \in {"no", "race", "null", "freed", "path", "noshell"}
<1>1. CASE Begins
  BY <1>1 DEF IInv, TypeOK, Begins, Executes, loadModules, ExecuteLoad, ExecuteUnload,
     ExecuteOther, ExecuteUnmapped, Executed, LoadFrame
<1>2. CASE Loads
  BY <1>2 DEF IInv, TypeOK, Loads, Opens, OpenLibrary, NextRelative, SearchTooDeep,
     Construct,
     RegisterCommands, StoreModule, InitModule, LoadStep, LoadFrame
<1>3. CASE Unloads
  BY <1>3 DEF IInv, TypeOK, Unloads, UnregisterCommands, DeleteModule, EraseModule,
     CloseLibrary, LoadStep, LoadFrame
<1>4. CASE Destroys
  BY <1>4 DEF IInv, TypeOK, Destroys, StartDestroy, DestroyModule, EndDestroy, LoadFrame
<1>5. ASSUME NEW h \in Handlers, Handler(h)
      PROVE  crash' \in {"no", "race", "null", "freed", "path", "noshell"}
  BY <1>5 DEF IInv, TypeOK, Handler, Lookup, Create, pushRequest, WebExecute, WebStats,
     Executed
<1> QED
  BY <1>1, <1>2, <1>3, <1>4, <1>5 DEF Step

\* Every step keeps the types.
LEMMA TypeStep ==
  ASSUME IInv, crash = "no", Step
  PROVE  TypeOK'
<1>1. /\ Maps' /\ Places' /\ Given'
      /\ crash' \in {"no", "race", "null", "freed", "path", "noshell"}
  BY MapsStep, PlacesStep, GivenStep, CrashKnown
<1> QED
  BY <1>1 DEF TypeOK, Maps, Places, Given

\* Both keys of a module are stored and erased together.
LEMMA KeysStep ==
  ASSUME IInv, crash = "no", Step
  PROVE  KeysAgree'
<1>1. ASSUME Begins PROVE KeysAgree'
  BY <1>1, BeginFacts DEF IInv, KeysAgree, Begin
<1>2. ASSUME Loads PROVE KeysAgree'
  <2>1. CASE Opens
    BY <2>1, OpenFacts DEF IInv, KeysAgree
  <2>2. CASE Construct
    BY <2>2 DEF IInv, KeysAgree, Construct, LoadStep, LoadFrame, hvars
  <2>3. CASE RegisterCommands
    BY <2>3 DEF IInv, KeysAgree, RegisterCommands, LoadStep, LoadFrame, hvars
  <2>4. CASE StoreModule
    <3>1. cur \in Mods
      BY <2>4 DEF IInv, TypeOK, Working, Between, StoreModule
    <3>2. \A x \in Mods :
            /\ modules'[<<"id", x>>] = IF x = cur THEN cur ELSE modules[<<"id", x>>]
            /\ modules'[<<"file", x>>] = IF x = cur THEN cur ELSE modules[<<"file", x>>]
      BY <2>4, <3>1, BothKeys DEF IInv, StoreModule
    <3> QED
      BY <3>2 DEF IInv, KeysAgree
  <2>5. CASE InitModule
    BY <2>5 DEF IInv, KeysAgree, InitModule, EndLoad, LoadFrame, AfterLoad, hvars
  <2> QED
    BY <1>2, <2>1, <2>2, <2>3, <2>4, <2>5 DEF Loads
<1>3. ASSUME Unloads PROVE KeysAgree'
  <2>1. CASE UnregisterCommands
    BY <2>1 DEF IInv, KeysAgree, UnregisterCommands, LoadStep, LoadFrame, hvars
  <2>2. CASE DeleteModule
    BY <2>2 DEF IInv, KeysAgree, DeleteModule, hvars
  <2>3. CASE EraseModule
    <3>1. cur \in Mods
      BY <2>3 DEF IInv, TypeOK, Working, Between, EraseModule
    <3>2. \A x \in Mods :
            /\ modules'[<<"id", x>>] = IF x = cur THEN None ELSE modules[<<"id", x>>]
            /\ modules'[<<"file", x>>] = IF x = cur THEN None ELSE modules[<<"file", x>>]
      BY <2>3, <3>1, BothKeys DEF IInv, EraseModule
    <3> QED
      BY <3>2 DEF IInv, KeysAgree
  <2>4. CASE CloseLibrary
    BY <2>4 DEF IInv, KeysAgree, CloseLibrary, hvars
  <2> QED
    BY <1>3, <2>1, <2>2, <2>3, <2>4 DEF Unloads
<1>4. ASSUME Destroys PROVE KeysAgree'
  <2>1. CASE StartDestroy
    BY <2>1 DEF IInv, KeysAgree, StartDestroy, mapvars, hvars
  <2>2. CASE DestroyModule
    <3>1. PICK m \in Mods :
            modules' = [modules EXCEPT ![<<"id", m>>] = None, ![<<"file", m>>] = None]
      BY <2>2, DestroyFacts
    <3>2. \A x \in Mods :
            /\ modules'[<<"id", x>>] = IF x = m THEN None ELSE modules[<<"id", x>>]
            /\ modules'[<<"file", x>>] = IF x = m THEN None ELSE modules[<<"file", x>>]
      BY <3>1, BothKeys DEF IInv
    <3> QED
      BY <3>2 DEF IInv, KeysAgree
  <2>3. CASE EndDestroy
    BY <2>3 DEF IInv, KeysAgree, EndDestroy, LoadFrame, mapvars, hvars
  <2> QED
    BY <1>4, <2>1, <2>2, <2>3 DEF Destroys
<1>5. ASSUME NEW h \in Handlers, Handler(h) PROVE KeysAgree'
  BY <1>5, HandlerFrames DEF IInv, KeysAgree
<1> QED
  BY <1>1, <1>2, <1>3, <1>4, <1>5 DEF Step

\* A load or an unload works on one module, in the order of its steps.
LEMMA WorkingStep ==
  ASSUME IInv, crash = "no", Step
  PROVE  Working'
<1>1. ASSUME Begins PROVE Working'
  <2>0. UNCHANGED modules
    BY <1>1, BeginFacts DEF Begin
  <2>1. CASE xpc' \in {"boot", "idle"} /\ cur' = None
    BY <1>1, <2>1, BeginFacts, ConstantFacts DEF IInv, TypeOK, Working, Between, Mapped,
       Begin
  <2>2. CASE BeginLoad
    <3>1. PICK m \in Mods : /\ ~Mapped(m) /\ Len(Copies[m]) > 0
                            /\ xpc' = "open" /\ cur' = m /\ copy' = 1
      BY <2>2 DEF BeginLoad
    <3> QED
      BY <1>1, <3>1, BeginFacts, ConstantFacts DEF IInv, TypeOK, Working, Between, Mapped,
         Begin
  <2>3. CASE BeginUnload
    <3>1. PICK m \in Mods : Mapped(m) /\ xpc' = "unregister" /\ cur' = m
      BY <2>3 DEF BeginUnload
    <3> QED
      BY <1>1, <3>1, BeginFacts, ConstantFacts DEF IInv, TypeOK, Working, Between, Mapped,
         Begin
  <2> QED
    BY <1>1, <2>1, <2>2, <2>3, BeginFacts DEF Begin
<1>2. ASSUME Loads PROVE Working'
  <2>1. CASE Opens
    BY <2>1, OpenFacts, ConstantFacts DEF IInv, TypeOK, Working, Between, Mapped
  <2>2. CASE Construct
    BY <2>2, ConstantFacts DEF IInv, TypeOK, Working, Between, Mapped, Construct, LoadStep,
       LoadFrame, hvars
  <2>3. CASE RegisterCommands
    BY <2>3, ConstantFacts DEF IInv, TypeOK, Working, Between, Mapped, RegisterCommands,
       LoadStep, LoadFrame, hvars
  <2>4. CASE StoreModule
    BY <2>4, StoreFacts, ConstantFacts DEF IInv, TypeOK, Working, Between, StoreModule,
       LoadStep, LoadFrame
  <2>5. CASE InitModule
    BY <2>5, ConstantFacts DEF IInv, TypeOK, Working, Between, Mapped, InitModule, EndLoad,
       LoadFrame, AfterLoad, hvars
  <2> QED
    BY <1>2, <2>1, <2>2, <2>3, <2>4, <2>5 DEF Loads
<1>3. ASSUME Unloads PROVE Working'
  <2>1. CASE UnregisterCommands
    BY <2>1, ConstantFacts DEF IInv, TypeOK, Working, Between, Mapped, UnregisterCommands,
       LoadStep, LoadFrame, hvars
  <2>2. CASE DeleteModule
    BY <2>2, ConstantFacts DEF IInv, TypeOK, Working, Between, Mapped, DeleteModule, hvars
  <2>3. CASE EraseModule
    BY <2>3, EraseFacts, ConstantFacts DEF IInv, TypeOK, Working, Between, EraseModule,
       LoadStep, LoadFrame
  <2>4. CASE CloseLibrary
    BY <2>4, ConstantFacts DEF IInv, TypeOK, Working, Between, Mapped, CloseLibrary, hvars
  <2> QED
    BY <1>3, <2>1, <2>2, <2>3, <2>4 DEF Unloads
<1>4. ASSUME Destroys PROVE Working'
  <2>1. CASE StartDestroy
    BY <2>1, ConstantFacts DEF IInv, TypeOK, Working, Between, Mapped, StartDestroy,
       mapvars, hvars
  <2>2. CASE DestroyModule
    BY <2>2, DestroyFacts, ConstantFacts DEF IInv, TypeOK, Working, Between
  <2>3. CASE EndDestroy
    BY <2>3, ConstantFacts DEF IInv, TypeOK, Working, Between, Mapped, EndDestroy,
       LoadFrame, mapvars, hvars
  <2> QED
    BY <1>4, <2>1, <2>2, <2>3 DEF Destroys
<1>5. ASSUME NEW h \in Handlers, Handler(h) PROVE Working'
  BY <1>5, HandlerFrames DEF IInv, TypeOK, Working, Between, Mapped
<1> QED
  BY <1>1, <1>2, <1>3, <1>4, <1>5 DEF Step

\* A module object comes before its keys and goes before them.
LEMMA ExistingStep ==
  ASSUME IInv, crash = "no", Step
  PROVE  Existing'
<1>1. ASSUME Begins PROVE Existing'
  <2>1. CASE xpc' \in {"boot", "idle"} /\ cur' = None
    <3>1. xpc' \in {"boot", "idle"} /\ cur' = None
      BY <2>1
    <3> SUFFICES ASSUME NEW x \in Mods PROVE (live[x] = 1 <=> Exists(x))'
      BY DEF Existing
    <3>2. live[x] = 1 <=> Exists(x)
      BY DEF IInv, Existing
    <3> QED
      BY <1>1, <3>1, <3>2, BeginFacts, ConstantFacts DEF Begin, Exists, Mapped
  <2>2. CASE BeginLoad
    <3>1. PICK m \in Mods : ~Mapped(m) /\ xpc' = "open" /\ cur' = m
      BY <2>2 DEF BeginLoad
    <3> SUFFICES ASSUME NEW x \in Mods PROVE (live[x] = 1 <=> Exists(x))'
      BY DEF Existing
    <3>2. live[x] = 1 <=> Exists(x)
      BY DEF IInv, Existing
    <3> QED
      BY <1>1, <3>1, <3>2, BeginFacts, ConstantFacts DEF Begin, Exists, Mapped
  <2>3. CASE BeginUnload
    <3>1. PICK m \in Mods : Mapped(m) /\ xpc' = "unregister" /\ cur' = m
      BY <2>3 DEF BeginUnload
    <3> SUFFICES ASSUME NEW x \in Mods PROVE (live[x] = 1 <=> Exists(x))'
      BY DEF Existing
    <3>2. live[x] = 1 <=> Exists(x)
      BY DEF IInv, Existing
    <3> QED
      BY <1>1, <3>1, <3>2, BeginFacts, ConstantFacts DEF Begin, Exists, Mapped
  <2> QED
    BY <1>1, <2>1, <2>2, <2>3, BeginFacts DEF Begin
<1>2. ASSUME Loads PROVE Existing'
  <2>1. CASE Opens
    <3> SUFFICES ASSUME NEW x \in Mods PROVE (live[x] = 1 <=> Exists(x))'
      BY DEF Existing
    <3>1. live[x] = 1 <=> Exists(x)
      BY DEF IInv, Existing
    <3> QED
      BY <2>1, <3>1, OpenFacts, ConstantFacts DEF Exists, Mapped
  <2>2. CASE Construct
    <3> SUFFICES ASSUME NEW x \in Mods PROVE (live[x] = 1 <=> Exists(x))'
      BY DEF Existing
    <3>1. live[x] = 1 <=> Exists(x)
      BY DEF IInv, Existing
    <3> QED
      BY <2>2, <3>1, ConstantFacts DEF IInv, TypeOK, Working, Between, Exists, Mapped,
         Construct, LoadStep
  <2>3. CASE RegisterCommands
    <3> SUFFICES ASSUME NEW x \in Mods PROVE (live[x] = 1 <=> Exists(x))'
      BY DEF Existing
    <3>1. live[x] = 1 <=> Exists(x)
      BY DEF IInv, Existing
    <3> QED
      BY <2>3, <3>1, ConstantFacts DEF IInv, TypeOK, Working, Between, Exists, Mapped,
         RegisterCommands, LoadStep
  <2>4. CASE StoreModule
    <3> SUFFICES ASSUME NEW x \in Mods PROVE (live[x] = 1 <=> Exists(x))'
      BY DEF Existing
    <3>1. live[x] = 1 <=> Exists(x)
      BY DEF IInv, Existing
    <3> QED
      BY <2>4, <3>1, StoreFacts, ConstantFacts DEF IInv, TypeOK, Working, Between, Exists,
         StoreModule, LoadStep
  <2>5. CASE InitModule
    <3> SUFFICES ASSUME NEW x \in Mods PROVE (live[x] = 1 <=> Exists(x))'
      BY DEF Existing
    <3>1. live[x] = 1 <=> Exists(x)
      BY DEF IInv, Existing
    <3> QED
      BY <2>5, <3>1, ConstantFacts DEF IInv, TypeOK, Working, Between, Exists, Mapped,
         InitModule, EndLoad, AfterLoad
  <2> QED
    BY <1>2, <2>1, <2>2, <2>3, <2>4, <2>5 DEF Loads
<1>3. ASSUME Unloads PROVE Existing'
  <2>1. CASE UnregisterCommands
    <3> SUFFICES ASSUME NEW x \in Mods PROVE (live[x] = 1 <=> Exists(x))'
      BY DEF Existing
    <3>1. live[x] = 1 <=> Exists(x)
      BY DEF IInv, Existing
    <3> QED
      BY <2>1, <3>1, ConstantFacts DEF IInv, TypeOK, Working, Between, Exists, Mapped,
         UnregisterCommands, LoadStep
  <2>2. CASE DeleteModule
    <3> SUFFICES ASSUME NEW x \in Mods PROVE (live[x] = 1 <=> Exists(x))'
      BY DEF Existing
    <3>1. live[x] = 1 <=> Exists(x)
      BY DEF IInv, Existing
    <3> QED
      BY <2>2, <3>1, ConstantFacts DEF IInv, TypeOK, Working, Between, Exists, Mapped,
         DeleteModule
  <2>3. CASE EraseModule
    <3> SUFFICES ASSUME NEW x \in Mods PROVE (live[x] = 1 <=> Exists(x))'
      BY DEF Existing
    <3>1. live[x] = 1 <=> Exists(x)
      BY DEF IInv, Existing
    <3> QED
      BY <2>3, <3>1, EraseFacts, ConstantFacts DEF IInv, TypeOK, Working, Between, Exists,
         EraseModule, LoadStep
  <2>4. CASE CloseLibrary
    <3> SUFFICES ASSUME NEW x \in Mods PROVE (live[x] = 1 <=> Exists(x))'
      BY DEF Existing
    <3>1. live[x] = 1 <=> Exists(x)
      BY DEF IInv, Existing
    <3> QED
      BY <2>4, <3>1, ConstantFacts DEF IInv, TypeOK, Working, Between, Exists, Mapped,
         CloseLibrary
  <2> QED
    BY <1>3, <2>1, <2>2, <2>3, <2>4 DEF Unloads
<1>4. ASSUME Destroys PROVE Existing'
  <2>1. CASE StartDestroy
    <3> SUFFICES ASSUME NEW x \in Mods PROVE (live[x] = 1 <=> Exists(x))'
      BY DEF Existing
    <3>1. live[x] = 1 <=> Exists(x)
      BY DEF IInv, Existing
    <3> QED
      BY <2>1, <3>1, ConstantFacts DEF IInv, TypeOK, Working, Between, Exists, Mapped,
         StartDestroy, mapvars
  <2>2. CASE DestroyModule
    <3> SUFFICES ASSUME NEW x \in Mods PROVE (live[x] = 1 <=> Exists(x))'
      BY DEF Existing
    <3>1. live[x] = 1 <=> Exists(x)
      BY DEF IInv, Existing
    <3>2. PICK m \in Mods : /\ live' = [live EXCEPT ![m] = 0]
                             /\ \A y \in Mods : Mapped(y)' <=> Mapped(y) /\ y # m
      BY <2>2, DestroyFacts
    <3>3. cur = None /\ cur' = None
      BY <2>2, DestroyFacts
    <3>4. live'[x] = IF x = m THEN 0 ELSE live[x]
      BY <3>2 DEF IInv, TypeOK
    <3> QED
      BY <3>1, <3>2, <3>3, <3>4, ConstantFacts DEF IInv, TypeOK, Exists
  <2>3. CASE EndDestroy
    <3> SUFFICES ASSUME NEW x \in Mods PROVE (live[x] = 1 <=> Exists(x))'
      BY DEF Existing
    <3>1. live[x] = 1 <=> Exists(x)
      BY DEF IInv, Existing
    <3> QED
      BY <2>3, <3>1, ConstantFacts DEF IInv, TypeOK, Working, Between, Exists, Mapped,
         EndDestroy, mapvars
  <2> QED
    BY <1>4, <2>1, <2>2, <2>3 DEF Destroys
<1>5. ASSUME NEW h \in Handlers, Handler(h) PROVE Existing'
  <2> SUFFICES ASSUME NEW x \in Mods PROVE (live[x] = 1 <=> Exists(x))'
    BY DEF Existing
  <2>1. live[x] = 1 <=> Exists(x)
    BY DEF IInv, Existing
  <2> QED
    BY <1>5, <2>1, HandlerFrames DEF Exists, Mapped
<1> QED
  BY <1>1, <1>2, <1>3, <1>4, <1>5 DEF Step

\* A library is closed only after its module is gone.
LEMMA OpenStep ==
  ASSUME IInv, crash = "no", Step
  PROVE  LibrariesOpen'
<1>1. ASSUME Begins PROVE LibrariesOpen'
  <2>0. UNCHANGED modules
    BY <1>1, BeginFacts DEF Begin
  <2>1. CASE xpc' \in {"boot", "idle"} /\ cur' = None
    BY <1>1, <2>1, BeginFacts, ConstantFacts DEF IInv, TypeOK, Working, Between, Existing,
       Exists, Mapped, LibrariesOpen, Begin
  <2>2. CASE BeginLoad
    <3>1. PICK m \in Mods : /\ ~Mapped(m) /\ Len(Copies[m]) > 0
                            /\ xpc' = "open" /\ cur' = m /\ copy' = 1
      BY <2>2 DEF BeginLoad
    <3> QED
      BY <1>1, <3>1, BeginFacts, ConstantFacts DEF IInv, TypeOK, Working, Between,
         Existing, Exists, Mapped, LibrariesOpen, Begin
  <2>3. CASE BeginUnload
    <3>1. PICK m \in Mods : Mapped(m) /\ xpc' = "unregister" /\ cur' = m
      BY <2>3 DEF BeginUnload
    <3> QED
      BY <1>1, <3>1, BeginFacts, ConstantFacts DEF IInv, TypeOK, Working, Between,
         Existing, Exists, Mapped, LibrariesOpen, Begin
  <2> QED
    BY <1>1, <2>1, <2>2, <2>3, BeginFacts DEF Begin
<1>2. ASSUME Loads PROVE LibrariesOpen'
  <2>1. CASE Opens
    <3> SUFFICES ASSUME NEW x \in Mods,
                        live[x] = 1 \/ (x = cur' /\ xpc' \in {"construct", "erase", "dlclose"})
                 PROVE  opened'[x] > 0
      BY <2>1, OpenFacts DEF LibrariesOpen
    <3>1. opened[x] \in Nat /\ opened'[x] \in Nat
      BY <2>1, MapsStep DEF IInv, TypeOK, Maps, Step, Loads
    <3>2. CASE live[x] = 1
      BY <2>1, <3>1, <3>2, OpenFacts DEF IInv, LibrariesOpen
    <3>3. CASE x = cur' /\ xpc' \in {"construct", "erase", "dlclose"}
      BY <2>1, <3>3, OpenFacts
    <3> QED
      BY <3>2, <3>3
  <2>2. CASE Construct
    BY <2>2, ConstantFacts DEF IInv, TypeOK, Working, Between, Existing, Exists, Mapped,
       LibrariesOpen, Construct, LoadStep, LoadFrame, hvars
  <2>3. CASE RegisterCommands
    BY <2>3, ConstantFacts DEF IInv, TypeOK, Working, Between, Existing, Exists, Mapped,
       LibrariesOpen, RegisterCommands, LoadStep, LoadFrame, hvars
  <2>4. CASE StoreModule
    BY <2>4, StoreFacts, ConstantFacts DEF IInv, TypeOK, Working, Between, Existing,
       Exists, LibrariesOpen, StoreModule, LoadStep, LoadFrame
  <2>5. CASE InitModule
    BY <2>5, ConstantFacts DEF IInv, TypeOK, Working, Between, Existing, Exists, Mapped,
       LibrariesOpen, InitModule, EndLoad, LoadFrame, AfterLoad, hvars
  <2> QED
    BY <1>2, <2>1, <2>2, <2>3, <2>4, <2>5 DEF Loads
<1>3. ASSUME Unloads PROVE LibrariesOpen'
  <2>1. CASE UnregisterCommands
    BY <2>1, ConstantFacts DEF IInv, TypeOK, Working, Between, Existing, Exists, Mapped,
       LibrariesOpen, UnregisterCommands, LoadStep, LoadFrame, hvars
  <2>2. CASE DeleteModule
    BY <2>2, ConstantFacts DEF IInv, TypeOK, Working, Between, Existing, Exists, Mapped,
       LibrariesOpen, DeleteModule, hvars
  <2>3. CASE EraseModule
    BY <2>3, EraseFacts, ConstantFacts DEF IInv, TypeOK, Working, Between, Existing,
       Exists, LibrariesOpen, EraseModule, LoadStep, LoadFrame
  <2>4. CASE CloseLibrary
    BY <2>4, ConstantFacts DEF IInv, TypeOK, Working, Between, Existing, Exists, Mapped,
       LibrariesOpen, CloseLibrary, hvars
  <2> QED
    BY <1>3, <2>1, <2>2, <2>3, <2>4 DEF Unloads
<1>4. ASSUME Destroys PROVE LibrariesOpen'
  <2>1. CASE StartDestroy
    BY <2>1, ConstantFacts DEF IInv, TypeOK, Working, Between, Existing, Exists, Mapped,
       LibrariesOpen, StartDestroy, mapvars, hvars
  <2>2. CASE DestroyModule
    BY <2>2, DestroyFacts, ConstantFacts DEF IInv, TypeOK, Working, Between, Existing,
       Exists, LibrariesOpen
  <2>3. CASE EndDestroy
    BY <2>3, ConstantFacts DEF IInv, TypeOK, Working, Between, Existing, Exists, Mapped,
       LibrariesOpen, EndDestroy, LoadFrame, mapvars, hvars
  <2> QED
    BY <1>4, <2>1, <2>2, <2>3 DEF Destroys
<1>5. ASSUME NEW h \in Handlers, Handler(h) PROVE LibrariesOpen'
  BY <1>5, HandlerFrames DEF IInv, TypeOK, Working, Between, Existing, Exists, Mapped,
     LibrariesOpen
<1> QED
  BY <1>1, <1>2, <1>3, <1>4, <1>5 DEF Step

\* A factory is taken out before its module is deleted.
LEMMA OwnedStep ==
  ASSUME IInv, crash = "no", Step
  PROVE  FactoriesOwned'
<1>1. ASSUME Begins PROVE FactoriesOwned'
  <2>0. UNCHANGED modules
    BY <1>1, BeginFacts DEF Begin
  <2>1. CASE xpc' \in {"boot", "idle"} /\ cur' = None
    BY <1>1, <2>1, BeginFacts, ConstantFacts DEF IInv, TypeOK, Working, Between, Existing,
       Exists, Mapped, FactoriesOwned, HasCommands, Register, Unregister, Begin
  <2>2. CASE BeginLoad
    <3>1. PICK m \in Mods : /\ ~Mapped(m) /\ Len(Copies[m]) > 0
                            /\ xpc' = "open" /\ cur' = m /\ copy' = 1
      BY <2>2 DEF BeginLoad
    <3> QED
      BY <1>1, <3>1, BeginFacts, ConstantFacts DEF IInv, TypeOK, Working, Between,
         Existing, Exists, Mapped, FactoriesOwned, HasCommands, Register, Unregister, Begin
  <2>3. CASE BeginUnload
    <3>1. PICK m \in Mods : Mapped(m) /\ xpc' = "unregister" /\ cur' = m
      BY <2>3 DEF BeginUnload
    <3> QED
      BY <1>1, <3>1, BeginFacts, ConstantFacts DEF IInv, TypeOK, Working, Between,
         Existing, Exists, Mapped, FactoriesOwned, HasCommands, Register, Unregister, Begin
  <2> QED
    BY <1>1, <2>1, <2>2, <2>3, BeginFacts DEF Begin
<1>2. ASSUME Loads PROVE FactoriesOwned'
  <2>1. CASE Opens
    BY <2>1, OpenFacts, ConstantFacts DEF IInv, TypeOK, Working, Between, Existing, Exists,
       Mapped, FactoriesOwned, HasCommands, Register, Unregister
  <2>2. CASE Construct
    BY <2>2, ConstantFacts DEF IInv, TypeOK, Working, Between, Existing, Exists, Mapped,
       FactoriesOwned, HasCommands, Register, Unregister, Construct, LoadStep, LoadFrame,
       hvars
  <2>3. CASE RegisterCommands
    <3> SUFFICES ASSUME NEW n \in Names, factories'[n] # None
                 PROVE  n \in Commands[factories'[n]] /\ HasCommands(factories[n])'
      BY DEF FactoriesOwned
    <3>1. factories[n] # None => n \in Commands[factories[n]] /\ HasCommands(factories[n])
      BY DEF IInv, FactoriesOwned
    <3>2. cur \in Mods /\ Commands[cur] \subseteq Names
      BY <2>3, ConstantFacts DEF IInv, TypeOK, Working, Between, RegisterCommands
    <3>3. factories'[n] = IF n \in Commands[cur] /\ factories[n] = None THEN cur ELSE factories[n]
      BY <2>3 DEF RegisterCommands, Register
    <3>4. Kind[cur] = "command"
      BY <2>3 DEF IInv, Working, RegisterCommands
    <3>5. xpc = "register" /\ xpc' = "store" /\ cur' = cur /\ live' = live
      BY <2>3 DEF RegisterCommands, LoadStep
    <3> QED
      BY <3>1, <3>2, <3>3, <3>4, <3>5 DEF HasCommands
  <2>4. CASE StoreModule
    BY <2>4, StoreFacts, ConstantFacts DEF IInv, TypeOK, Working, Between, Existing,
       Exists, FactoriesOwned, HasCommands, Register, Unregister, StoreModule, LoadStep,
       LoadFrame
  <2>5. CASE InitModule
    BY <2>5, ConstantFacts DEF IInv, TypeOK, Working, Between, Existing, Exists, Mapped,
       FactoriesOwned, HasCommands, Register, Unregister, InitModule, EndLoad, LoadFrame,
       AfterLoad, hvars
  <2> QED
    BY <1>2, <2>1, <2>2, <2>3, <2>4, <2>5 DEF Loads
<1>3. ASSUME Unloads PROVE FactoriesOwned'
  <2>1. CASE UnregisterCommands
    BY <2>1, ConstantFacts DEF IInv, TypeOK, Working, Between, Existing, Exists, Mapped,
       FactoriesOwned, HasCommands, Register, Unregister, UnregisterCommands, LoadStep,
       LoadFrame, hvars
  <2>2. CASE DeleteModule
    BY <2>2, ConstantFacts DEF IInv, TypeOK, Working, Between, Existing, Exists, Mapped,
       FactoriesOwned, HasCommands, Register, Unregister, DeleteModule, hvars
  <2>3. CASE EraseModule
    BY <2>3, EraseFacts, ConstantFacts DEF IInv, TypeOK, Working, Between, Existing,
       Exists, FactoriesOwned, HasCommands, Register, Unregister, EraseModule, LoadStep,
       LoadFrame
  <2>4. CASE CloseLibrary
    BY <2>4, ConstantFacts DEF IInv, TypeOK, Working, Between, Existing, Exists, Mapped,
       FactoriesOwned, HasCommands, Register, Unregister, CloseLibrary, hvars
  <2> QED
    BY <1>3, <2>1, <2>2, <2>3, <2>4 DEF Unloads
<1>4. ASSUME Destroys PROVE FactoriesOwned'
  <2>1. CASE StartDestroy
    BY <2>1, ConstantFacts DEF IInv, TypeOK, Working, Between, Existing, Exists, Mapped,
       FactoriesOwned, HasCommands, Register, Unregister, StartDestroy, mapvars, hvars
  <2>2. CASE DestroyModule
    <3> SUFFICES ASSUME NEW n \in Names, factories'[n] # None
                 PROVE  n \in Commands[factories'[n]] /\ HasCommands(factories[n])'
      BY DEF FactoriesOwned
    <3>1. factories[n] # None => n \in Commands[factories[n]] /\ HasCommands(factories[n])
      BY DEF IInv, FactoriesOwned
    <3>2. PICK m \in Mods : live' = [live EXCEPT ![m] = 0] /\ factories' = Unregister(m)
      BY <2>2, DestroyFacts
    <3>3. factories'[n] = factories[n] /\ n \notin Commands[m]
      BY <3>2 DEF Unregister
    <3>4. factories[n] # m /\ factories[n] \in Mods
      BY <3>1, <3>3 DEF IInv, TypeOK
    <3> QED
      BY <2>2, <3>1, <3>2, <3>3, <3>4, DestroyFacts, ConstantFacts DEF HasCommands, IInv,
         TypeOK
  <2>3. CASE EndDestroy
    BY <2>3, ConstantFacts DEF IInv, TypeOK, Working, Between, Existing, Exists, Mapped,
       FactoriesOwned, HasCommands, Register, Unregister, EndDestroy, LoadFrame, mapvars,
       hvars
  <2> QED
    BY <1>4, <2>1, <2>2, <2>3 DEF Destroys
<1>5. ASSUME NEW h \in Handlers, Handler(h) PROVE FactoriesOwned'
  BY <1>5, HandlerFrames DEF IInv, TypeOK, Working, Between, Existing, Exists, Mapped,
     FactoriesOwned, HasCommands, Register, Unregister
<1> QED
  BY <1>1, <1>2, <1>3, <1>4, <1>5 DEF Step

\* All commands of a module are registered and taken out in one step, and no
\* other module takes them when the sets of commands are disjoint.
LEMMA CompleteStep ==
  ASSUME IInv, crash = "no", Step
  PROVE  FactoriesComplete'
<1>1. ASSUME Begins PROVE FactoriesComplete'
  <2>0. UNCHANGED modules
    BY <1>1, BeginFacts DEF Begin
  <2>1. CASE xpc' \in {"boot", "idle"} /\ cur' = None
    BY <1>1, <2>1, BeginFacts, ConstantFacts DEF IInv, TypeOK, Working, Between, Existing,
       Exists, Mapped, FactoriesOwned, FactoriesComplete, HasCommands, Register,
       Unregister, DisjointCommands, Begin
  <2>2. CASE BeginLoad
    <3>1. PICK m \in Mods : /\ ~Mapped(m) /\ Len(Copies[m]) > 0
                            /\ xpc' = "open" /\ cur' = m /\ copy' = 1
      BY <2>2 DEF BeginLoad
    <3>2. cur = None /\ UNCHANGED <<factories, live>>
      BY <1>1, BeginFacts DEF Begin
    <3>3. \A x \in Mods : HasCommands(x)' => HasCommands(x)
      BY <3>1, <3>2, ConstantFacts DEF HasCommands
    <3> QED
      BY <3>2, <3>3 DEF IInv, FactoriesComplete
  <2>3. CASE BeginUnload
    <3>1. PICK m \in Mods : Mapped(m) /\ xpc' = "unregister" /\ cur' = m
      BY <2>3 DEF BeginUnload
    <3> QED
      BY <1>1, <3>1, BeginFacts, ConstantFacts DEF IInv, TypeOK, Working, Between,
         Existing, Exists, Mapped, FactoriesOwned, FactoriesComplete, HasCommands,
         Register, Unregister, DisjointCommands, Begin
  <2> QED
    BY <1>1, <2>1, <2>2, <2>3, BeginFacts DEF Begin
<1>2. ASSUME Loads PROVE FactoriesComplete'
  <2>1. CASE Opens
    BY <2>1, OpenFacts, ConstantFacts DEF IInv, TypeOK, Working, Between, Existing, Exists,
       Mapped, FactoriesOwned, FactoriesComplete, HasCommands, Register, Unregister,
       DisjointCommands
  <2>2. CASE Construct
    BY <2>2, ConstantFacts DEF IInv, TypeOK, Working, Between, Existing, Exists, Mapped,
       FactoriesOwned, FactoriesComplete, HasCommands, Register, Unregister,
       DisjointCommands, Construct, LoadStep, LoadFrame, hvars
  <2>3. CASE RegisterCommands
    BY <2>3, ConstantFacts DEF IInv, TypeOK, Working, Between, Existing, Exists, Mapped,
       FactoriesOwned, FactoriesComplete, HasCommands, Register, Unregister,
       DisjointCommands, RegisterCommands, LoadStep, LoadFrame, hvars
  <2>4. CASE StoreModule
    BY <2>4, StoreFacts, ConstantFacts DEF IInv, TypeOK, Working, Between, Existing,
       Exists, FactoriesOwned, FactoriesComplete, HasCommands, Register, Unregister,
       DisjointCommands, StoreModule, LoadStep, LoadFrame
  <2>5. CASE InitModule
    <3> SUFFICES ASSUME DisjointCommands, NEW m \in Mods, HasCommands(m)', NEW n \in Commands[m]
                 PROVE  factories'[n] = m
      BY DEF FactoriesComplete
    <3>1. HasCommands(m) => factories[n] = m
      BY DEF IInv, FactoriesComplete
    <3>2. n \in Names
      BY ConstantFacts
    <3>3. xpc = "init" /\ cur \in Mods /\ cur' = None /\ live' = live
      BY <2>5 DEF IInv, TypeOK, Working, Between, InitModule, EndLoad
    <3>4. m = cur \/ HasCommands(m)
      BY <3>3, ConstantFacts DEF HasCommands
    <3>5. HasCommands(m) => factories'[n] = m
      BY <2>5, <3>1, <3>2, ConstantFacts DEF InitModule, Register
    <3>6. m = cur /\ ~HasCommands(m) => factories[n] = None
      <4>1. SUFFICES ASSUME m = cur, ~HasCommands(m), factories[n] # None PROVE FALSE
        OBVIOUS
      <4>2. factories[n] \in Mods /\ n \in Commands[factories[n]] /\ HasCommands(factories[n])
        BY <4>1, <3>2 DEF IInv, TypeOK, FactoriesOwned
      <4> QED
        BY <4>1, <4>2 DEF DisjointCommands
    <3>7. m = cur /\ ~HasCommands(m) => Kind[m] # "command"
      BY <3>3, ConstantFacts DEF HasCommands
    <3> QED
      BY <2>5, <3>2, <3>4, <3>5, <3>6, <3>7 DEF InitModule, Register
  <2> QED
    BY <1>2, <2>1, <2>2, <2>3, <2>4, <2>5 DEF Loads
<1>3. ASSUME Unloads PROVE FactoriesComplete'
  <2>1. CASE UnregisterCommands
    BY <2>1, ConstantFacts DEF IInv, TypeOK, Working, Between, Existing, Exists, Mapped,
       FactoriesOwned, FactoriesComplete, HasCommands, Register, Unregister,
       DisjointCommands, UnregisterCommands, LoadStep, LoadFrame, hvars
  <2>2. CASE DeleteModule
    BY <2>2, ConstantFacts DEF IInv, TypeOK, Working, Between, Existing, Exists, Mapped,
       FactoriesOwned, FactoriesComplete, HasCommands, Register, Unregister,
       DisjointCommands, DeleteModule, hvars
  <2>3. CASE EraseModule
    BY <2>3, EraseFacts, ConstantFacts DEF IInv, TypeOK, Working, Between, Existing,
       Exists, FactoriesOwned, FactoriesComplete, HasCommands, Register, Unregister,
       DisjointCommands, EraseModule, LoadStep, LoadFrame
  <2>4. CASE CloseLibrary
    BY <2>4, ConstantFacts DEF IInv, TypeOK, Working, Between, Existing, Exists, Mapped,
       FactoriesOwned, FactoriesComplete, HasCommands, Register, Unregister,
       DisjointCommands, CloseLibrary, hvars
  <2> QED
    BY <1>3, <2>1, <2>2, <2>3, <2>4 DEF Unloads
<1>4. ASSUME Destroys PROVE FactoriesComplete'
  <2>1. CASE StartDestroy
    BY <2>1, ConstantFacts DEF IInv, TypeOK, Working, Between, Existing, Exists, Mapped,
       FactoriesOwned, FactoriesComplete, HasCommands, Register, Unregister,
       DisjointCommands, StartDestroy, mapvars, hvars
  <2>2. CASE DestroyModule
    <3> SUFFICES ASSUME DisjointCommands, NEW m \in Mods, HasCommands(m)', NEW n \in Commands[m]
                 PROVE  factories'[n] = m
      BY DEF FactoriesComplete
    <3>1. HasCommands(m) => factories[n] = m
      BY DEF IInv, FactoriesComplete
    <3>2. n \in Names
      BY ConstantFacts
    <3>3. PICK k \in Mods : live' = [live EXCEPT ![k] = 0] /\ factories' = Unregister(k)
      BY <2>2, DestroyFacts
    <3>4. m # k /\ live[m] = 1
      BY <2>2, <3>3, DestroyFacts, ConstantFacts DEF HasCommands, IInv, TypeOK
    <3>5. HasCommands(m)
      BY <2>2, <3>4, DestroyFacts, ConstantFacts DEF HasCommands
    <3>6. n \notin Commands[k]
      BY <3>4 DEF DisjointCommands
    <3> QED
      BY <3>1, <3>2, <3>3, <3>5, <3>6 DEF Unregister
  <2>3. CASE EndDestroy
    BY <2>3, ConstantFacts DEF IInv, TypeOK, Working, Between, Existing, Exists, Mapped,
       FactoriesOwned, FactoriesComplete, HasCommands, Register, Unregister,
       DisjointCommands, EndDestroy, LoadFrame, mapvars, hvars
  <2> QED
    BY <1>4, <2>1, <2>2, <2>3 DEF Destroys
<1>5. ASSUME NEW h \in Handlers, Handler(h) PROVE FactoriesComplete'
  BY <1>5, HandlerFrames DEF IInv, TypeOK, Working, Between, Existing, Exists, Mapped,
     FactoriesOwned, FactoriesComplete, HasCommands, Register, Unregister, DisjointCommands
<1> QED
  BY <1>1, <1>2, <1>3, <1>4, <1>5 DEF Step

\* A step makes no request unsound: a module that goes is counted.
LEMMA SoundStep ==
  ASSUME IInv, crash = "no", Step, ~DestroyModule
  PROVE  \A r \in RequestType : Sound(r) => Sound(r)'
<1> SUFFICES ASSUME NEW r \in RequestType, Sound(r)
             PROVE  Sound(r)'
  OBVIOUS
<1>1. r.mod \in Mods /\ r.stamp \in Nat
  BY DEF RequestType
<1>2. CASE UNCHANGED <<live, epoch>>
  BY <1>2 DEF Sound
<1>3. CASE Construct
  <2>1. cur \in Mods /\ live[cur] = 0 /\ UNCHANGED epoch
    BY <1>3 DEF IInv, TypeOK, Working, Between, Existing, Exists, Construct, LoadStep,
       LoadFrame
  <2> QED
    BY <1>1, <1>3, <2>1 DEF IInv, TypeOK, Sound, Construct
<1>4. CASE DeleteModule
  <2>1. cur \in Mods
    BY <1>4 DEF IInv, TypeOK, Working, Between, DeleteModule
  <2> QED
    BY <1>1, <1>4, <2>1 DEF IInv, TypeOK, Sound, DeleteModule
<1>5. Begins => UNCHANGED <<live, epoch>>
  BY BeginFacts DEF Begin
<1>6. Loads => Construct \/ UNCHANGED <<live, epoch>>
  BY DEF Loads, Opens, OpenLibrary, NextRelative, SearchTooDeep, RegisterCommands,
     StoreModule, InitModule, LoadStep, LoadFrame, mapvars
<1>7. Unloads => DeleteModule \/ UNCHANGED <<live, epoch>>
  BY DEF Unloads, UnregisterCommands, EraseModule, CloseLibrary, LoadStep, LoadFrame
<1>8. Destroys => UNCHANGED <<live, epoch>>
  BY DEF Destroys, StartDestroy, EndDestroy, LoadFrame, mapvars
<1> QED
  BY <1>2, <1>3, <1>4, <1>5, <1>6, <1>7, <1>8, HandlerFrames DEF Step

\* The queue changes where a request is popped or pushed.
LEMMA QueueFrames ==
  ASSUME Step
  PROVE  \/ UNCHANGED queue
         \/ Pop
         \/ \E h \in Handlers : pushRequest(h)
<1>1. Begins => Pop \/ UNCHANGED queue
  BY DEF Begins, Executes, loadModules, ExecuteLoad, ExecuteUnload, ExecuteOther,
         ExecuteUnmapped, LoadFrame
<1>2. Loads => UNCHANGED queue
  BY DEF Loads, Opens, OpenLibrary, NextRelative, SearchTooDeep, Construct,
     RegisterCommands, StoreModule, InitModule, LoadStep,
         LoadFrame
<1>3. Unloads => UNCHANGED queue
  BY DEF Unloads, UnregisterCommands, DeleteModule, EraseModule, CloseLibrary, LoadStep,
         LoadFrame
<1>4. Destroys => UNCHANGED queue
  BY DEF Destroys, StartDestroy, DestroyModule, EndDestroy, LoadFrame
<1>5. ASSUME NEW h \in Handlers, Handler(h) PROVE pushRequest(h) \/ UNCHANGED queue
  BY <1>5 DEF Handler, Lookup, Create, WebExecute, WebStats
<1> QED
  BY <1>1, <1>2, <1>3, <1>4, <1>5 DEF Step

\* A queued request becomes stale only by an unload.
LEMMA QueueSoundStep ==
  ASSUME IInv, crash = "no", Step
  PROVE  QueueSound'
<1>1. CASE DestroyModule
  <2>1. queue = <<>> /\ queue' = queue
    BY <1>1, DestroyFacts DEF IInv, DestroyedLast, Quiet
  <2> QED
    BY <2>1 DEF QueueSound
<1>2. CASE ~DestroyModule
  <2>1. \A r \in RequestType : Sound(r) => Sound(r)'
    BY <1>2, SoundStep
  <2>2. \A i \in 1 .. Len(queue) : queue[i] \in RequestType /\ Sound(queue[i])
    BY DEF IInv, TypeOK, QueueSound
  <2>4. CASE UNCHANGED queue
    BY <2>1, <2>2, <2>4 DEF QueueSound, Sound
  <2>5. CASE Pop
    <3>1. \A i \in 1 .. Len(queue') : i + 1 \in 1 .. Len(queue) /\ queue'[i] = queue[i + 1]
      BY <2>5, TailFacts DEF Pop, IInv, TypeOK
    <3> QED
      BY <2>1, <2>2, <3>1 DEF QueueSound, Sound
  <2>6. ASSUME NEW h \in Handlers, pushRequest(h) PROVE QueueSound'
    <3>1. req[h] \in RequestType /\ Sound(req[h])
      BY <2>6 DEF IInv, HandlersSound, pushRequest
    <3>2. \A i \in 1 .. Len(queue') : queue'[i] = req[h] \/ (i \in 1 .. Len(queue) /\ queue'[i] = queue[i])
      BY <2>6, <3>1, AppendFacts DEF pushRequest, IInv, TypeOK
    <3> QED
      BY <2>1, <2>2, <3>1, <3>2 DEF QueueSound, Sound
  <2> QED
    BY <2>4, <2>5, <2>6, QueueFrames
<1> QED
  BY <1>1, <1>2

\* The executor leaves the handlers alone.
LEMMA ExecutorFrames ==
  ASSUME IInv, Begins \/ Loads \/ Unloads \/ Destroys
  PROVE  UNCHANGED <<hpc, req>>
<1>1. Begins => UNCHANGED <<hpc, req>>
  BY BeginFacts DEF Begin
<1>2. Loads => UNCHANGED <<hpc, req>>
  BY DEF Loads, Opens, OpenLibrary, NextRelative, SearchTooDeep, Construct,
     RegisterCommands, StoreModule, InitModule, LoadStep,
         LoadFrame, hvars
<1>3. Unloads => UNCHANGED <<hpc, req>>
  BY DEF Unloads, UnregisterCommands, DeleteModule, EraseModule, CloseLibrary, LoadStep,
         LoadFrame, hvars
<1>4. Destroys => UNCHANGED <<hpc, req>>
  BY DEF Destroys, StartDestroy, DestroyModule, EndDestroy, LoadFrame, hvars
<1> QED
  BY <1>1, <1>2, <1>3, <1>4

\* A command that can be looked up belongs to a module that exists.
LEMMA FoundAlive ==
  ASSUME IInv
  PROVE  /\ \A n \in Names : factories[n] # None => /\ factories[n] \in Mods
                                                    /\ live[factories[n]] = 1
         /\ Registering => cur \in Mods /\ live[cur] = 1
<1>1. ASSUME NEW n \in Names, factories[n] # None
      PROVE  factories[n] \in Mods /\ live[factories[n]] = 1
  <2>1. factories[n] \in Mods /\ HasCommands(factories[n])
    BY <1>1 DEF IInv, TypeOK, FactoriesOwned
  <2> QED
    BY <2>1 DEF IInv, Existing, Exists, HasCommands
<1>2. ASSUME Registering PROVE cur \in Mods /\ live[cur] = 1
  <2>1. xpc \in {"register", "unregister", "init"}
    BY <1>2 DEF Registering
  <2>2. cur \in Mods
    BY <2>1 DEF IInv, TypeOK, Working, Between
  <2> QED
    BY <2>1, <2>2 DEF IInv, Existing, Exists
<1> QED
  BY <1>1, <1>2

\* So does one that a handler has created and not yet pushed.
LEMMA HandlersSoundStep ==
  ASSUME IInv, crash = "no", Step
  PROVE  HandlersSound'
<1>1. CASE DestroyModule
  <2>1. UNCHANGED <<hpc, req>> /\ \A h \in Handlers : hpc[h] = "idle"
    BY <1>1, DestroyFacts DEF IInv, DestroyedLast, Quiet
  <2> QED
    BY <2>1 DEF IInv, HandlersSound
<1>2. CASE ~DestroyModule /\ UNCHANGED <<hpc, req>>
  BY <1>2, SoundStep DEF IInv, HandlersSound, Sound
<1>3. ASSUME NEW h \in Handlers, Handler(h) PROVE HandlersSound'
  <2>1. \A r \in RequestType : Sound(r) => Sound(r)'
    BY <1>3, HandlerFrames DEF Sound
  <2>2. CASE pushRequest(h) \/ Create(h) \/ WebExecute(h) \/ WebStats(h)
    BY <2>1, <2>2 DEF IInv, TypeOK, HandlersSound, pushRequest, Create, WebExecute,
       WebStats,
       Sound
  <2>3. CASE LookUp(h)
    <3>1. PICK n \in Names, a \in Mods \cup {None} : Lookup(h, n, a)
      BY <2>3 DEF LookUp
    <3>2. CASE UNCHANGED <<hpc, req>>
      BY <2>1, <3>2 DEF IInv, HandlersSound, Sound
    <3>3. ASSUME NEW m \in Mods, live[m] = 1, hpc' = [hpc EXCEPT ![h] = "create"],
                 req' = [req EXCEPT ![h] = [name |-> n, mod |-> m, arg |-> a, stamp |-> epoch[m]]]
          PROVE  HandlersSound'
      <4>1. PICK r : r = [name |-> n, mod |-> m, arg |-> a, stamp |-> epoch[m]]
        OBVIOUS
      <4>2. r \in RequestType /\ Sound(r)
        BY <3>3, <4>1 DEF IInv, TypeOK, RequestType, Sound
      <4>3. req' = [req EXCEPT ![h] = r]
        BY <3>3, <4>1
      <4> QED
        BY <2>1, <3>3, <4>2, <4>3 DEF IInv, TypeOK, HandlersSound, Sound
    <3>4. UNCHANGED <<hpc, req>> \/ \E m \in Mods :
            /\ live[m] = 1 /\ hpc' = [hpc EXCEPT ![h] = "create"]
            /\ req' = [req EXCEPT ![h] = [name |-> n, mod |-> m, arg |-> a, stamp |-> epoch[m]]]
      BY <3>1, FoundAlive DEF Lookup
    <3> QED
      BY <3>2, <3>3, <3>4
  <2> QED
    BY <1>3, <2>2, <2>3 DEF Handler, LookUp
<1> QED
  BY <1>1, <1>2, <1>3, ExecutorFrames DEF Step

\* Nothing is given to a ModuleManager that is being destroyed.
LEMMA DestroyedLastStep ==
  ASSUME IInv, crash = "no", Step
  PROVE  DestroyedLast'
<1>1. CASE Begins
  BY <1>1, BeginFacts DEF Begin, BeginLoad, BeginUnload, DestroyedLast
<1>2. CASE Loads
  BY <1>2, OpenFacts DEF Loads, Construct, RegisterCommands, StoreModule, InitModule,
     LoadStep,
         EndLoad, AfterLoad, DestroyedLast
<1>3. CASE Unloads
  BY <1>3 DEF Unloads, UnregisterCommands, DeleteModule, EraseModule, CloseLibrary,
     LoadStep,
         DestroyedLast
<1>4. CASE Destroys
  BY <1>4 DEF Destroys, StartDestroy, DestroyModule, EndDestroy, LoadFrame, hvars, xvars,
     IInv,
         DestroyedLast, Quiet
<1>5. ASSUME NEW h \in Handlers, Handler(h) PROVE DestroyedLast'
  BY <1>5 DEF Handler, Lookup, Create, pushRequest, WebExecute, WebStats, HandlerFrame,
     xvars, Serving, IInv,
         DestroyedLast, Quiet
<1> QED
  BY <1>1, <1>2, <1>3, <1>4, <1>5 DEF Step

\* Before the first unload every request finds its module, its library open.
LEMMA FreshFinds ==
  ASSUME IInv, NEW r \in RequestType, Sound(r), \A m \in Mods : ~(epoch[m] > 0)
  PROVE  r.mod \in Mods /\ live[r.mod] = 1 /\ opened[r.mod] > 0
<1>1. r.mod \in Mods /\ r.stamp \in Nat
  BY DEF RequestType
<1>2. live[r.mod] = 1
  BY <1>1 DEF IInv, TypeOK, Sound
<1> QED
  BY <1>1, <1>2 DEF IInv, LibrariesOpen

\* A live module that the map does not have yet is in the middle of its load.
LEMMA MissingFacts ==
  ASSUME IInv, NEW m \in Mods, live[m] = 1, getModuleData("id", m) = None
  PROVE  xpc \in {"register", "store"}
<1>1. ~Mapped(m)
  BY ConstantFacts DEF Mapped, getModuleData
<1> QED
  BY <1>1, ConstantFacts DEF IInv, Existing, Exists, Working

Unloaded == \E m \in Mods : epoch[m] > 0

\* The server crashes on a stale request, or in the middle of a load.
LEMMA CrashStep ==
  ASSUME IInv, crash = "no", Step
  PROVE  CrashExplained'
<1>0. ASSUME crash' \in {"no", "path", "noshell"} PROVE CrashExplained'
  BY <1>0 DEF CrashExplained
<1>1. CASE Begins
  <2>1. UNCHANGED epoch
    BY <1>1, BeginFacts DEF Begin
  <2>2. ASSUME Pop, ~Unloaded
        PROVE  /\ Head(queue).mod \in Mods /\ opened[Head(queue).mod] > 0
               /\ getModuleData("id", Head(queue).mod) # None
    <3>1. Head(queue).mod \in Mods /\ live[Head(queue).mod] = 1 /\ opened[Head(queue).mod] > 0
      BY <2>2, PopFacts, FreshFinds DEF Unloaded
    <3> QED
      BY <2>2, <3>1, PopFacts, MissingFacts
  <2>3. ExecuteOther => crash' = "no" \/ (crash' = "null" /\ Unloaded)
    BY <2>2 DEF ExecuteOther, Executed
  <2>4. ExecuteUnmapped => crash' = "no" \/ (crash' = "freed" /\ Unloaded)
    BY <2>2 DEF ExecuteUnmapped, Unmapped
  <2>5. loadModules \/ ExecuteLoad \/ ExecuteUnload => crash' = "no"
    BY DEF loadModules, ExecuteLoad, ExecuteUnload, LoadFrame
  <2> QED
    BY <1>1, <2>1, <2>3, <2>4, <2>5 DEF Begins, Executes, CrashExplained, Unloaded
<1>2. CASE Loads
  BY <1>0, <1>2 DEF Loads, Opens, OpenLibrary, NextRelative, SearchTooDeep, Construct,
     RegisterCommands, StoreModule, InitModule, LoadStep, LoadFrame
<1>3. CASE Unloads
  <2>1. CASE CloseLibrary
    <3>1. cur \in Mods /\ epoch[cur] > 0 /\ epoch' = epoch /\ crash' \in {"no", "freed"}
      BY <2>1 DEF IInv, TypeOK, Working, Between, CloseLibrary
    <3> QED
      BY <3>1 DEF CrashExplained
  <2> QED
    BY <1>0, <1>3, <2>1 DEF Unloads, UnregisterCommands, DeleteModule, EraseModule,
       LoadStep,
       LoadFrame
<1>4. CASE Destroys
  BY <1>0, <1>4 DEF Destroys, StartDestroy, DestroyModule, EndDestroy, LoadFrame
<1>5. ASSUME NEW h \in Handlers, Handler(h) PROVE CrashExplained'
  <2>0. UNCHANGED <<epoch, xpc>>
    BY <1>5, HandlerFrames
  <2>1. ASSUME hpc[h] # "idle"
        PROVE  /\ req[h].mod \in Mods
               /\ Unloaded \/ (live[req[h].mod] = 1 /\ opened[req[h].mod] > 0)
    <3>1. req[h] \in RequestType /\ Sound(req[h])
      BY <2>1 DEF IInv, HandlersSound
    <3>2. req[h].mod \in Mods
      BY <3>1 DEF RequestType
    <3> QED
      BY <3>1, <3>2, FreshFinds DEF Unloaded
  <2>2. Registering \/ Mapping => xpc \notin {"boot", "idle", "destroy", "end"}
    BY DEF Registering, Mapping
  <2>3. CASE LookUp(h) \/ WebStats(h)
    <3>1. crash' = "no" \/ (crash' = "race" /\ (Registering \/ Mapping))
      BY <2>3 DEF LookUp, Lookup, WebStats
    <3> QED
      BY <2>0, <2>2, <3>1 DEF CrashExplained
  <2>4. CASE Create(h)
    <3>1. crash' = "no" \/ (crash' = "freed" /\ Unloaded)
      BY <2>1, <2>4 DEF Create
    <3> QED
      BY <2>0, <3>1 DEF CrashExplained, Unloaded
  <2>5. CASE pushRequest(h)
    BY <1>0, <2>5 DEF pushRequest
  <2>6. CASE WebExecute(h)
    <3>1. req[h].mod \in Mods /\ (Unloaded \/ (live[req[h].mod] = 1 /\ opened[req[h].mod] > 0))
      BY <2>1, <2>6 DEF WebExecute
    <3>2. \/ crash' \in {"no", "noshell"}
          \/ crash' = "freed" /\ opened[req[h].mod] = 0
          \/ crash' = "null" /\ getModuleData("id", req[h].mod) = None
          \/ crash' = "race" /\ (Registering \/ Mapping)
      BY <2>6 DEF WebExecute, Unmapped, Executed
    <3>3. crash' = "freed" => Unloaded
      BY <3>1, <3>2
    <3>4. crash' = "null" => Unloaded \/ xpc \in {"register", "store"}
      BY <3>1, <3>2, MissingFacts
    <3> QED
      BY <2>0, <2>2, <3>2, <3>3, <3>4 DEF CrashExplained, Unloaded
  <2> QED
    BY <1>5, <2>3, <2>4, <2>5, <2>6 DEF Handler, LookUp
<1> QED
  BY <1>1, <1>2, <1>3, <1>4, <1>5 DEF Step

-----------------------------------------------------------------------------
(* The theorems. *)

\* Every step keeps the invariant.
LEMMA NextInv == IInv /\ [Next]_vars => IInv'
<1> SUFFICES ASSUME IInv, [Next]_vars PROVE IInv'
  OBVIOUS
<1>1. CASE crash = "no" /\ Step
  BY <1>1, TypeStep, KeysStep, WorkingStep, ExistingStep, OpenStep, OwnedStep, CompleteStep,
     QueueSoundStep, HandlersSoundStep, DestroyedLastStep, CrashStep DEF IInv
<1>2. CASE UNCHANGED vars
  <2> USE <1>2 DEF IInv, vars, mapvars, xvars, hvars
  <2>1. TypeOK' /\ KeysAgree' /\ Working' /\ Existing'
    BY DEF TypeOK, KeysAgree, Working, Existing, Exists, Mapped
  <2>2. LibrariesOpen' /\ FactoriesOwned' /\ FactoriesComplete'
    BY DEF LibrariesOpen, FactoriesOwned, FactoriesComplete, HasCommands
  <2>3. QueueSound' /\ HandlersSound' /\ DestroyedLast'
    BY DEF QueueSound, HandlersSound, Sound, DestroyedLast, Quiet
  <2>4. CrashExplained'
    BY DEF CrashExplained
  <2> QED
    BY <2>1, <2>2, <2>3, <2>4
<1>3. Executor => Step
  BY DEF Executor, Step, Begins, Executes, Loads, Opens, Unloads, Destroys
<1> QED
  BY <1>1, <1>2, <1>3 DEF Next, Finished, Step

\* The inductive invariant holds in every reachable state.
LEMMA Invariant == Spec => []IInv
<1> QED
  BY InitInv, NextInv, PTL DEF Spec

\* Every request that is queued or held is sound.
LEMMA AllSound == IInv => \A r \in Requests : r \in RequestType /\ Sound(r)
<1> SUFFICES ASSUME IInv, NEW r \in Requests PROVE r \in RequestType /\ Sound(r)
  OBVIOUS
<1>1. CASE r \in {queue[i] : i \in 1 .. Len(queue)}
  BY <1>1 DEF IInv, TypeOK, QueueSound
<1>2. CASE r \in {req[h] : h \in Handlers} \ {None}
  BY <1>2 DEF IInv, HandlersSound
<1> QED
  BY <1>1, <1>2 DEF Requests

\* No factory leads to a module that has been deleted.
LEMMA FactoriesAreLive == IInv => FactoriesLive
  BY FoundAlive DEF FactoriesLive

\* Between two loads both registries name the same modules.
LEMMA RegistryIsConsistent ==
  ASSUME DisjointCommands, IInv
  PROVE  RegistryConsistent
<1> SUFFICES ASSUME xpc \in {"boot", "idle", "destroy", "end"}, NEW m \in Mods
             PROVE  /\ live[m] = 1 <=> modules[<<"id", m>>] = m
                    /\ live[m] = 1 <=> modules[<<"file", m>>] = m
                    /\ \A n \in Commands[m] : live[m] = 1 <=> factories[n] = m
  BY DEF RegistryConsistent
<1>1. cur = None /\ m # cur
  BY ConstantFacts DEF IInv, Working, Between
<1>2. live[m] = 1 <=> modules[<<"id", m>>] = m
  BY <1>1 DEF IInv, Existing, Exists, Mapped
<1>3. modules[<<"file", m>>] = modules[<<"id", m>>]
  BY DEF IInv, KeysAgree
<1>4. ASSUME NEW n \in Commands[m] PROVE live[m] = 1 <=> factories[n] = m
  <2>1. n \in Names
    BY ConstantFacts
  <2>2. live[m] = 1 => factories[n] = m
    BY <1>1 DEF IInv, FactoriesComplete, HasCommands
  <2>3. factories[n] = m => live[m] = 1
    BY <2>1, FoundAlive, ConstantFacts
  <2> QED
    BY <2>2, <2>3
<1> QED
  BY <1>2, <1>3, <1>4

\* ModuleManager's map and RequestManager's _factories agree with the modules
\* that exist, whatever is loaded and unloaded in which order, and whichever
\* files fail to load (ModuleManager.cc:91-268, RequestManager.cc).
THEOREM RegistriesAgree ==
  ASSUME DisjointCommands
  PROVE  Spec => []RegistriesRight
<1>1. IInv => RegistriesRight
  BY RegistryIsConsistent, FactoriesAreLive DEF IInv, RegistriesRight
<1> QED
  BY <1>1, Invariant, PTL

\* For any number of consoles and web connections, any modules and any order of
\* loads and unloads: a request outlives its module only by an unload, and a
\* registry crashes the server only after an unload or in the middle of a load
\* or an unload, also when modules share names of commands (Request.h:123-167,
\* RequestManager.cc:63-73, WebServer.cc:98-112, 211).
THEOREM StaleOnlyByUnload == Spec => []StaleNeedsUnload
<1>1. IInv => StaleNeedsUnload
  BY AllSound DEF IInv, StaleNeedsUnload, RequestFresh, Sound
<1> QED
  BY <1>1, Invariant, PTL
=============================================================================
