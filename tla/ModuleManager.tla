---------------------------- MODULE ModuleManager ----------------------------
(***************************************************************************)
(* Modules and the libraries their code lives in (daemon-service/core/     *)
(* module_manager.cc): loaded in the order of the configuration, released  *)
(* in the reverse one.  The capability table and the security chain point  *)
(* to the modules without owning them; the chain is never emptied.         *)
(***************************************************************************)
EXTENDS Naturals, Sequences, SequencesExt

CONSTANTS
    Configured,     \* config.modules: the library each names; one may be named twice
    Security,       \* the libraries whose moduleType() is Security, else Capability
    Mistyped,       \* those whose module does not inherit what moduleType() says
    Name            \* each library: the name() of its modules

ASSUME ConfiguredAssumption == Configured \in Seq(Range(Configured))

VARIABLES
    loading,        \* loadOneModule(): its module (an index) and program point
    library,        \* the reference on its library that each module holds
    object,         \* each module: "none", "made", "ready", "released" or "deleted"
    all_modules, dl_handles,
    capabilities,   \* capabilities_: the module that has each name
    chain           \* the modules of the security chain

moduleVars == <<loading, library, object, all_modules, dl_handles, capabilities, chain>>

\* A module is what one entry of config.modules made, and stands for the handle
\* of its library too: LoadLibrary() counts what was loaded twice.
Modules == DOMAIN Configured
Library(m) == Configured[m]
HasCode(m) == \E n \in Modules : Library(n) = Library(m) /\ library[n] = "loaded"

ModulesInit ==
    /\ loading = [i |-> 1, at |-> "open"]
    /\ library = [m \in Modules |-> "out"]
    /\ object = [m \in Modules |-> "none"]
    /\ all_modules = <<>> /\ dl_handles = <<>>
    /\ capabilities = <<>> /\ chain = {}

This == loading.i
More == loading.i <= Len(Configured)
LoadGoes(from, to) == More /\ loading.at = from /\ loading' = [loading EXCEPT !.at = to]

-----------------------------------------------------------------------------
(* init() and loadOneModule().                                             *)

OpenLibrary ==
    /\ \/ LoadGoes("open", "factory") /\ library' = [library EXCEPT ![This] = "loaded"]
       \/ LoadGoes("open", "failed") /\ UNCHANGED library
    /\ UNCHANGED <<object, all_modules, dl_handles, capabilities, chain>>

\* GetModuleInstance() is not there, or returns nothing: the library goes.
MakeModule ==
    /\ \/ LoadGoes("factory", "init") /\ object' = [object EXCEPT ![This] = "made"]
          /\ UNCHANGED library
       \/ LoadGoes("factory", "failed") /\ library' = [library EXCEPT ![This] = "out"]
          /\ UNCHANGED object
    /\ UNCHANGED <<all_modules, dl_handles, capabilities, chain>>

\* A module that fails is left without its library ...
InitModule ==
    /\ \/ LoadGoes("init", "register") /\ object' = [object EXCEPT ![This] = "ready"]
          /\ UNCHANGED library
       \/ LoadGoes("init", "drop") /\ library' = [library EXCEPT ![This] = "out"]
          /\ UNCHANGED object
    /\ UNCHANGED <<all_modules, dl_handles, capabilities, chain>>

\* ... and then deleted by its unique_ptr, when loadOneModule() returns.
DropModule ==
    /\ LoadGoes("drop", "failed")
    /\ object' = [object EXCEPT ![This] = "deleted"]
    /\ UNCHANGED <<library, all_modules, dl_handles, capabilities, chain>>

\* routeModule() leaves out a module that is not what it says; it stays owned.
\* A later capability takes the name of an earlier one.
Route(m) ==
    capabilities' = IF Library(m) \in Security \cup Mistyped THEN capabilities
                    ELSE [n \in DOMAIN capabilities \cup {Name[Library(m)]} |->
                            IF n = Name[Library(m)] THEN m ELSE capabilities[n]]

\* registerModule(), and then the chain, which takes whatever says Security.
RegisterModule ==
    /\ More /\ loading.at = "register"
    /\ loading' = [i |-> loading.i + 1, at |-> "open"]
    /\ dl_handles' = Append(dl_handles, This)
    /\ all_modules' = Append(all_modules, This)
    /\ Route(This)
    /\ chain' = IF Library(This) \in Security THEN chain \cup {This} ELSE chain
    /\ UNCHANGED <<library, object>>

LoadSteps == OpenLibrary \/ MakeModule \/ InitModule \/ DropModule \/ RegisterModule

Loaded == ~More
LoadFailed == More /\ loading.at = "failed"

-----------------------------------------------------------------------------
(* release(), in its four passes.                                          *)

\* Each module's release(), the last one first.
Unreleased == {i \in DOMAIN all_modules : object[all_modules[i]] = "ready"}
ReleaseModule ==
    /\ \E i \in Unreleased :
          /\ \A j \in Unreleased : j <= i
          /\ object' = [object EXCEPT ![all_modules[i]] = "released"]
    /\ UNCHANGED <<loading, library, all_modules, dl_handles, capabilities, chain>>

\* Faulty variant of DeleteModules: the table is not cleared.
DeleteModulesRouted ==
    /\ Unreleased = {} /\ all_modules # <<>>
    /\ object' = [m \in Modules |-> IF m \in Range(all_modules) THEN "deleted" ELSE object[m]]
    /\ all_modules' = <<>>
    /\ UNCHANGED <<loading, library, dl_handles, capabilities, chain>>

\* The table is cleared, and the modules are deleted by their unique_ptrs.
DeleteModules ==
    /\ Unreleased = {} /\ all_modules # <<>>
    /\ object' = [m \in Modules |-> IF m \in Range(all_modules) THEN "deleted" ELSE object[m]]
    /\ all_modules' = <<>>
    /\ capabilities' = <<>>
    /\ UNCHANGED <<loading, library, dl_handles, chain>>

\* FreeLibrary(), the last one first.
UnloadLibrary ==
    /\ all_modules = <<>> /\ dl_handles # <<>>
    /\ library' = [library EXCEPT ![Last(dl_handles)] = "out"]
    /\ dl_handles' = Front(dl_handles)
    /\ UNCHANGED <<loading, object, all_modules, capabilities, chain>>

ReleaseSteps == ReleaseModule \/ DeleteModules \/ UnloadLibrary
Released == all_modules = <<>> /\ dl_handles = <<>>

\* Without release() the modules go with the manager, whose libraries stay.
DropManager ==
    /\ object' = [m \in Modules |-> IF m \in Range(all_modules) THEN "deleted" ELSE object[m]]
    /\ all_modules' = <<>> /\ dl_handles' = <<>> /\ capabilities' = <<>> /\ chain' = {}
    /\ UNCHANGED <<loading, library>>
=============================================================================
