------------------------------ MODULE Modules -------------------------------
(***************************************************************************)
(* Loadable modules and the commands they register: ModuleManager (the map *)
(* of loaded modules, two keys each), RequestManager's _factories, and the *)
(* commands `load` and `unload`.  Like every other request of a console    *)
(* they are executed by the one thread that holds processRequestsMutex     *)
(* (here: the executor), while the handler threads of the consoles look up *)
(* commands, create requests and queue them.  The handler threads of web   *)
(* connections execute what they create themselves, without that mutex.    *)
(* Neither map has a lock.                                                 *)
(*                                                                         *)
(* setAtomSpace() loads the default modules before any network server      *)
(* runs; the destructor unloads what is left when all threads are gone.    *)
(* The queue, the use counts and the shutdown are in RequestLoop.          *)
(***************************************************************************)
EXTENDS Naturals, Sequences, FiniteSets

CONSTANTS Mods,         \* module libraries
          Defaults,     \* sequence of the modules that loadModules() loads
          Kind,         \* [Mods -> {"command", "shell", "python"}]
          Commands,     \* [Mods -> SUBSET Names]: what each registers
          Copies,       \* [Mods -> Seq(CopyKinds)]: its files along module_paths
          Names,        \* names of commands
          Handlers,     \* handler threads of consoles and web connections
          Webs,         \* those of web connections
          MaxRequests,  \* commands that the clients give, in all
          None

\* A file may be no library ("nolib": dlopen() fails), lack one of the three
\* functions that loadAbsPath() looks up ("nosym"), or be found in one of
\* module_paths that is not absolute ("relative").
CopyKinds == {"good", "nolib", "nosym", "relative"}

\* A "command" module (DECLARE_CMD_REQUEST) registers in its constructor,
\* and its requests look the module up by its id when they are executed;
\* a "shell" module registers in init(), and its requests do not need it;
\* PythonShellModule registers in init() what DECLARE_CMD_REQUEST declares.
ASSUME ModulesAssumption ==
  /\ Kind \in [Mods -> {"command", "shell", "python"}]
  /\ Commands \in [Mods -> SUBSET Names]
  /\ Copies \in [Mods -> Seq(CopyKinds)]
  /\ Defaults \in Seq(Mods)
  /\ {"load", "unload"} \subseteq Names
  /\ Webs \subseteq Handlers
  /\ MaxRequests \in Nat /\ None \notin Mods

\* No two modules register one name: what RegistryConsistent takes for granted,
\* since registerRequest() ignores the second and unregisterRequest() takes a
\* name out whoever registered it.
DisjointCommands ==
  \A m1, m2 \in Mods : m1 # m2 => Commands[m1] \cap Commands[m2] = {}

\* The keys of the map: the id and the file name of each module.
Keys == {"id", "file"} \X Mods

VARIABLES
  modules,    \* ModuleManager::modules: [Keys -> Mods \cup {None}]
  factories,  \* RequestManager::_factories: [Names -> Mods \cup {None}]
  live,       \* Module objects that exist, per module
  opened,     \* dlopen() minus dlclose(), per module
  queue,      \* requestQueue
  xpc,        \* the executor: what it is doing
  job,        \* the request that it executes
  cur,        \* the module that it is loading or unloading
  copy,       \* the file of that module that it tries
  boot,       \* default modules that loadModules() has gone through
  hpc,        \* handler threads
  req,        \* the request that each is about to create or to push
  epoch,      \* history: how often each module was unloaded
  asked,      \* history: commands given
  crash       \* "no", or what the process was terminated by

mapvars == <<modules, factories, live, opened>>
xvars == <<xpc, job, cur, copy, boot>>
hvars == <<hpc, req, asked>>
vars == <<mapvars, queue, xvars, hvars, epoch, crash>>

\* A request: its command, the module whose factory made it, the argument of
\* load and unload, if any, and how often the module had been unloaded (history).
RequestType == [name: Names, mod: Mods, arg: Mods \cup {None}, stamp: Nat]

TypeOK ==
  /\ modules \in [Keys -> Mods \cup {None}]
  /\ factories \in [Names -> Mods \cup {None}]
  /\ live \in [Mods -> 0 .. 1]
  /\ opened \in [Mods -> Nat]
  /\ queue \in Seq(RequestType)
  /\ xpc \in {"boot", "idle", "open", "construct", "register", "store", "init",
              "unregister", "delete", "erase", "dlclose", "destroy", "end"}
  /\ job \in RequestType \cup {None}
  /\ cur \in Mods \cup {None}
  /\ copy \in Nat
  /\ boot \in 0 .. Len(Defaults)
  /\ hpc \in [Handlers -> {"idle", "create", "push"}]
  /\ req \in [Handlers -> RequestType \cup {None}]
  /\ epoch \in [Mods -> Nat]
  /\ asked \in 0 .. MaxRequests
  /\ crash \in {"no", "race", "null", "freed", "path", "noshell"}

Init ==
  /\ modules = [k \in Keys |-> None]
  /\ factories = [n \in Names |-> None]
  /\ live = [m \in Mods |-> 0] /\ opened = [m \in Mods |-> 0]
  /\ queue = <<>>
  /\ xpc = "boot" /\ job = None /\ cur = None /\ copy = 0 /\ boot = 0
  /\ hpc = [h \in Handlers |-> "idle"] /\ req = [h \in Handlers |-> None]
  /\ epoch = [m \in Mods |-> 0] /\ asked = 0
  /\ crash = "no"

\* The executor is changing _factories, or the map of modules.
Registering == \/ xpc \in {"register", "unregister"}
               \/ xpc = "init" /\ Kind[cur] # "command"
Mapping == xpc \in {"store", "erase"}

-----------------------------------------------------------------------------
(* loadModule() and loadAbsPath(). *)

\* Where a load returns to: the next default module, or the request loop.
AfterLoad == IF boot < Len(Defaults) THEN "boot" ELSE "idle"

EndLoad == xpc' = AfterLoad /\ job' = None /\ cur' = None /\ copy' = 0

\* loadModule(m): a module whose file name is in the map is loaded already,
\* and without a file there is nothing to load.
Loadable(m) == modules[<<"file", m>>] = None /\ Copies[m] # <<>>

LoadFrame == UNCHANGED <<queue, hvars, epoch, crash>>

\* loadModules(): the default modules one by one, whether they load or not.
loadModules ==
  /\ xpc = "boot" /\ boot < Len(Defaults)
  /\ boot' = boot + 1
  /\ IF Loadable(Defaults[boot + 1])
     THEN xpc' = "open" /\ cur' = Defaults[boot + 1] /\ copy' = 1
     ELSE xpc' = (IF boot + 1 < Len(Defaults) THEN "boot" ELSE "idle")
          /\ UNCHANGED <<cur, copy>>
  /\ UNCHANGED <<mapvars, job>> /\ LoadFrame

\* Mutant: the search starts again after the last of module_paths.
NextFile_Forever ==
  copy' = (copy % Len(Copies[cur])) + 1 /\ UNCHANGED <<xpc, job, cur>>

\* loadModule(): the next of module_paths that has the file, if any.
NextFile ==
  \/ copy < Len(Copies[cur]) /\ copy' = copy + 1 /\ UNCHANGED <<xpc, job, cur>>
  \/ copy = Len(Copies[cur]) /\ EndLoad

\* loadModule() calls itself with a name that is not absolute: nothing is found
\* under it along module_paths and the search goes on, or, in a directory like
\* ".", the same file is, again and again (SearchTooDeep).
NextRelative ==
  /\ xpc = "open" /\ Copies[cur][copy] = "relative"
  /\ NextFile
  /\ UNCHANGED <<mapvars, boot>> /\ LoadFrame

\* The name grows until exists() throws or the stack is used up.  Only a
\* handler thread that runs processRequests() catches the exception.
SearchTooDeep ==
  /\ xpc = "open" /\ Copies[cur][copy] = "relative"
  /\ crash' \in {"no", "path"}
  /\ xpc' = "idle" /\ boot' = Len(Defaults) /\ job' = None /\ cur' = None /\ copy' = 0
  /\ UNCHANGED <<mapvars, queue, hvars, epoch>>

\* dlopen() and dlsym().  When a function is missing the library stays open.
OpenLibrary ==
  /\ xpc = "open" /\ Copies[cur][copy] # "relative"
  /\ LET kind == Copies[cur][copy]
     IN  /\ opened' = IF kind = "nolib" THEN opened
                      ELSE [opened EXCEPT ![cur] = @ + 1]
         /\ \/ /\ kind = "good"
               /\ xpc' = "construct" /\ UNCHANGED <<job, cur, copy>>
            \/ kind # "good" /\ NextFile
  /\ UNCHANGED <<modules, factories, live, boot>> /\ LoadFrame

\* registerRequest(): the first registration of a name stays.
Register(m) ==
  [n \in Names |-> IF n \in Commands[m] /\ factories[n] = None THEN m ELSE factories[n]]

\* unregisterRequest(): by name, whoever registered it.
Unregister(m) == [n \in Names |-> IF n \in Commands[m] THEN None ELSE factories[n]]

LoadStep(to) == xpc' = to /\ UNCHANGED <<job, cur, copy, boot>> /\ LoadFrame

\* The module's load function: the object, with its factories in it, ...
Construct ==
  /\ xpc = "construct"
  /\ live' = [live EXCEPT ![cur] = @ + 1]
  /\ LoadStep(IF Kind[cur] = "command" THEN "register" ELSE "store")
  /\ UNCHANGED <<modules, factories, opened>>

\* ... and the constructor's body.
RegisterCommands ==
  /\ xpc = "register"
  /\ factories' = Register(cur)
  /\ LoadStep("store")
  /\ UNCHANGED <<modules, live, opened>>

\* The two entries of the map.
StoreModule ==
  /\ xpc = "store"
  /\ modules' = [modules EXCEPT ![<<"id", cur>>] = cur, ![<<"file", cur>>] = cur]
  /\ LoadStep("init")
  /\ UNCHANGED <<factories, live, opened>>

\* init(): the request is answered and deleted, or the next module is loaded.
InitModule ==
  /\ xpc = "init"
  /\ factories' = IF Kind[cur] = "command" THEN factories ELSE Register(cur)
  /\ EndLoad
  /\ UNCHANGED <<modules, live, opened, boot>> /\ LoadFrame

-----------------------------------------------------------------------------
(* unloadModule(). *)

\* Mutant: the object goes before its commands are unregistered.
UnregisterCommands_Late ==
  /\ xpc = "unregister"
  /\ live' = [live EXCEPT ![cur] = 0]
  /\ epoch' = IF live[cur] = 1 THEN [epoch EXCEPT ![cur] = @ + 1] ELSE epoch
  /\ factories' = IF live[cur] = 1 THEN factories ELSE Unregister(cur)
  /\ xpc' = IF live[cur] = 1 THEN "unregister" ELSE "erase"
  /\ UNCHANGED <<modules, opened, queue, job, cur, copy, boot, hvars, crash>>

\* The module's unload function: the destructor's body, ...
UnregisterCommands ==
  /\ xpc = "unregister"
  /\ factories' = Unregister(cur)
  /\ LoadStep("delete")
  /\ UNCHANGED <<modules, live, opened>>

\* ... and the object with its factories.
DeleteModule ==
  /\ xpc = "delete"
  /\ live' = [live EXCEPT ![cur] = @ - 1]
  /\ epoch' = [epoch EXCEPT ![cur] = @ + 1]
  /\ xpc' = "erase"
  /\ UNCHANGED <<modules, factories, opened, queue, job, cur, copy, boot, hvars, crash>>

\* Mutant: only the entry with the file name is erased.
EraseModule_FileOnly ==
  /\ xpc = "erase"
  /\ modules' = [modules EXCEPT ![<<"file", cur>>] = None]
  /\ LoadStep("dlclose")
  /\ UNCHANGED <<factories, live, opened>>

EraseModule ==
  /\ xpc = "erase"
  /\ modules' = [modules EXCEPT ![<<"id", cur>>] = None, ![<<"file", cur>>] = None]
  /\ LoadStep("dlclose")
  /\ UNCHANGED <<factories, live, opened>>

\* dlclose().  `unload` may have closed the library of its own code, which
\* may be unmapped.
CloseLibrary ==
  /\ xpc = "dlclose"
  /\ opened' = [opened EXCEPT ![cur] = @ - 1]
  /\ xpc' = "idle" /\ job' = None /\ cur' = None
  /\ crash' \in {"no"} \cup (IF job.mod = cur /\ opened[cur] = 1 THEN {"freed"} ELSE {})
  /\ UNCHANGED <<modules, factories, live, copy, boot, queue, hvars, epoch>>

-----------------------------------------------------------------------------
(* processRequests(): pop, execute, delete. *)

Pop ==
  /\ xpc = "idle" /\ queue # <<>>
  /\ queue' = Tail(queue)
  /\ UNCHANGED <<mapvars, boot, hvars, epoch>>

\* The library of the request may be closed, and its code unmapped.
Unmapped(r) == opened[r.mod] = 0

\* LoadModuleRequest::execute(); without an argument it only complains.
ExecuteLoad ==
  /\ Pop /\ Head(queue).name = "load" /\ ~Unmapped(Head(queue))
  /\ LET m == Head(queue).arg
     IN  IF m # None /\ Loadable(m)
         THEN xpc' = "open" /\ job' = Head(queue) /\ cur' = m /\ copy' = 1
         ELSE UNCHANGED <<xpc, job, cur, copy>>
  /\ UNCHANGED crash

\* By id or by file name.
getModuleData(key, m) == IF m = None THEN None ELSE modules[<<key, m>>]

\* UnloadModuleRequest::execute() and unloadModule().
ExecuteUnload ==
  /\ Pop /\ Head(queue).name = "unload" /\ ~Unmapped(Head(queue))
  /\ \E key \in {"id", "file"} :
       LET m == getModuleData(key, Head(queue).arg)
       IN  IF m = None THEN UNCHANGED <<xpc, job, cur>>
           ELSE xpc' = "unregister" /\ job' = Head(queue) /\ cur' = m
  /\ UNCHANGED <<copy, crash>>

\* The execute() of a shell module only makes a shell for its console.
NeedsModule(m) == Kind[m] # "shell"

\* execute() calls do_cmd() on what getModule() finds, which may be null.
Executed(r) ==
  IF NeedsModule(r.mod) /\ getModuleData("id", r.mod) = None THEN "null" ELSE "no"

\* Another command.
ExecuteOther ==
  /\ Pop /\ Head(queue).name \notin {"load", "unload"} /\ ~Unmapped(Head(queue))
  /\ crash' = Executed(Head(queue))
  /\ UNCHANGED <<xpc, job, cur, copy>>

\* The code of the request is gone, unless the library is still mapped.
ExecuteUnmapped ==
  /\ Pop /\ Unmapped(Head(queue))
  /\ crash' \in {"no", "freed"}
  /\ UNCHANGED <<xpc, job, cur, copy>>

-----------------------------------------------------------------------------
(* A handler thread: createRequest() and pushRequest() or execute(). *)

HandlerFrame == UNCHANGED <<mapvars, xvars, epoch>>

\* The handlers run between loadModules() and the destructor.
Serving == boot = Len(Defaults) /\ xpc \notin {"boot", "destroy", "end"}
           /\ (job = None => xpc = "idle")

\* _factories.find(): what a name finds while the map is being changed is
\* undefined: the old or the new entry, nothing, or a crash.
Lookup(h, n, a) ==
  /\ hpc[h] = "idle" /\ Serving /\ asked < MaxRequests
  /\ asked' = asked + 1
  /\ \E m \in {factories[n]} \cup
              (IF Registering THEN {None} \cup {m \in {cur} : n \in Commands[m]} ELSE {}) :
       IF m = None THEN UNCHANGED <<hpc, req>>
       ELSE /\ hpc' = [hpc EXCEPT ![h] = "create"]
            /\ req' = [req EXCEPT ![h] =
                        [name |-> n, mod |-> m, arg |-> a, stamp |-> epoch[m]]]
  /\ crash' \in {"no"} \cup (IF Registering THEN {"race"} ELSE {})
  /\ UNCHANGED queue /\ HandlerFrame

\* The factory is a member of the module: it may have been deleted.
Create(h) ==
  /\ hpc[h] = "create"
  /\ crash' \in {"no"} \cup (IF live[req[h].mod] = 0 THEN {"freed"} ELSE {})
  /\ hpc' = [hpc EXCEPT ![h] = "push"]
  /\ UNCHANGED <<queue, req, asked>> /\ HandlerFrame

pushRequest(h) ==
  /\ hpc[h] = "push" /\ h \notin Webs
  /\ queue' = Append(queue, req[h])
  /\ hpc' = [hpc EXCEPT ![h] = "idle"] /\ req' = [req EXCEPT ![h] = None]
  /\ UNCHANGED <<asked, crash>> /\ HandlerFrame

\* WebServer::OnLine(): execute() and delete.  The argument is no module, so
\* load and unload do nothing.  What reads a map that is being changed may
\* crash, as may what comes after a command that opens no shell (WebSession).
WebExecute(h) ==
  /\ hpc[h] = "push" /\ h \in Webs
  /\ LET r == req[h]
     IN  crash' \in IF Unmapped(r) THEN {"no", "freed"}
                    ELSE IF r.name \in {"load", "unload"} THEN {"no", "noshell"}
                    ELSE {Executed(r)}
                         \cup (IF Kind[r.mod] = "command" THEN {"noshell"} ELSE {})
                         \cup (IF NeedsModule(r.mod) /\ (Mapping \/ Registering)
                               THEN {"race"} ELSE {})
  /\ hpc' = [hpc EXCEPT ![h] = "idle"] /\ req' = [req EXCEPT ![h] = None]
  /\ UNCHANGED <<queue, asked>> /\ HandlerFrame

\* The status page lists the modules.
WebStats(h) ==
  /\ hpc[h] = "idle" /\ h \in Webs /\ Serving /\ asked < MaxRequests
  /\ asked' = asked + 1
  /\ crash' \in {"no"} \cup (IF Mapping THEN {"race"} ELSE {})
  /\ UNCHANGED <<queue, hpc, req>> /\ HandlerFrame

-----------------------------------------------------------------------------
(* ~ModuleManager(): the process ends with all handlers and requests gone. *)

Quiet == queue = <<>> /\ \A h \in Handlers : hpc[h] = "idle"

StartDestroy ==
  /\ xpc = "idle" /\ Quiet /\ asked = MaxRequests
  /\ xpc' = "destroy"
  /\ UNCHANGED <<mapvars, queue, job, cur, copy, boot, hvars, epoch, crash>>

\* Each key that is still there: its module is deleted and both entries go.
\* The libraries stay open.
DestroyModule ==
  /\ xpc = "destroy"
  /\ \E k \in Keys :
       /\ modules[k] # None
       /\ LET m == modules[k]
          IN  /\ live' = [live EXCEPT ![m] = @ - 1]
              /\ factories' = Unregister(m)
              /\ modules' = [modules EXCEPT ![<<"id", m>>] = None, ![<<"file", m>>] = None]
  /\ UNCHANGED <<opened, xvars>> /\ LoadFrame

EndDestroy ==
  /\ xpc = "destroy" /\ \A k \in Keys : modules[k] = None
  /\ xpc' = "end"
  /\ UNCHANGED <<mapvars, job, cur, copy, boot>> /\ LoadFrame

Executor ==
  \/ loadModules \/ OpenLibrary \/ NextRelative \/ SearchTooDeep \/ Construct
  \/ RegisterCommands \/ StoreModule \/ InitModule
  \/ UnregisterCommands \/ DeleteModule \/ EraseModule \/ CloseLibrary
  \/ ExecuteLoad \/ ExecuteUnload \/ ExecuteOther \/ ExecuteUnmapped
  \/ StartDestroy \/ DestroyModule \/ EndDestroy

Handler(h) ==
  \/ \E n \in Names : \E a \in {None} \cup
                                      (IF n \in {"load", "unload"} /\ h \notin Webs
                                       THEN Mods ELSE {}) :
       Lookup(h, n, a)
  \/ Create(h) \/ pushRequest(h) \/ WebExecute(h) \/ WebStats(h)

Finished == (crash # "no" \/ xpc = "end") /\ UNCHANGED vars

Next == \/ crash = "no" /\ (Executor \/ \E h \in Handlers : Handler(h))
        \/ Finished

\* The executor and the handlers run on; clients need not give commands.
Spec ==
  /\ Init /\ [][Next]_vars
  /\ WF_vars(crash = "no" /\ Executor)
  /\ \A h \in Handlers : WF_vars(crash = "no" /\ (Create(h) \/ pushRequest(h) \/ WebExecute(h)))

-----------------------------------------------------------------------------
(* Properties. *)

Requests == {queue[i] : i \in 1 .. Len(queue)} \cup ({req[h] : h \in Handlers} \ {None})

\* ModuleManager.cc "Store two entries in the module map": whenever the
\* executor is between two requests, and when the destructor is done, the
\* two keys agree, a module in the map is one that exists, and its commands
\* and no others can be given.  (No two modules here register one name.)
RegistryConsistent ==
  xpc \in {"boot", "idle", "destroy", "end"} =>
    \A m \in Mods :
      /\ live[m] = 1 <=> modules[<<"id", m>>] = m
      /\ live[m] = 1 <=> modules[<<"file", m>>] = m
      /\ \A n \in Commands[m] : live[m] = 1 <=> factories[n] = m

\* A factory that createRequest() can find is part of a module that exists,
\* in the middle of a load or an unload as well: unregisterRequest() takes
\* them all out before the module is freed.
FactoriesLive == \A n \in Names : factories[n] # None => live[factories[n]] = 1

\* Both registries tell of modules that exist, between two requests and, as
\* far as the commands go, at any time (ModuleManager.cc:180-268).
RegistriesRight == TypeOK /\ RegistryConsistent /\ FactoriesLive

\* RequestManager and ModuleManager have no lock in common: a request may
\* outlive its module only because the module was unloaded after the
\* handler had looked the command up, never because a command could be
\* looked up while its module was not there.
RequestFresh == \A r \in Requests : r.stamp = epoch[r.mod] => live[r.mod] = 1

\* do_cmd() of DECLARE_CMD_REQUEST uses getModule() untested, and factories and
\* code go with their module.  Freed memory is used only when a module has been
\* unloaded, a null module then too or by a web connection that gives a command
\* while it is registered and its module not yet in the map, and a map is torn
\* only while a load or an unload is under way.
CrashExplained ==
  LET unloaded == \E m \in Mods : epoch[m] > 0
  IN  /\ crash = "freed" => unloaded
      /\ crash = "null" => unloaded \/ xpc \in {"register", "store"}
      /\ crash = "race" => xpc \notin {"boot", "idle", "destroy", "end"}

\* Consoles and web connections share both registries with `load` and `unload`
\* without a lock: a server on which no module is being loaded and none was
\* unloaded has no stale request, and neither registry can crash it
\* (Request.h:123-167, RequestManager.cc:63-73, WebServer.cc:98-112, 211).
StaleNeedsUnload == RequestFresh /\ CrashExplained

\* processRequests(): loading, failing to load and unloading all come to an
\* end, if only by an exception (ModuleManager.cc:302-303), and every request
\* that was queued is executed.
EveryRequestExecuted == (queue # <<>>) ~> (queue = <<>> \/ crash # "no")
=============================================================================
