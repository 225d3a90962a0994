--------------------------- MODULE NativeLibraries ---------------------------
(***************************************************************************)
(* The shared libraries of the process as the profiler sees them:          *)
(* Symbols::parseLibraries adds each library it finds in /proc/self/maps   *)
(* to native_libs once, and three patchers (the thread hooks of hooks.cpp, *)
(* the malloc hooks, the native lock hooks) walk that array and redirect   *)
(* the imports of each library. Threads load and unload libraries all the  *)
(* while; UnloadProtection keeps a library in place for as long as it is   *)
(* read or written.                                                        *)
(*                                                                         *)
(* A library is an inode. It is mapped at a base address; gen numbers its  *)
(* mappings. got is the set of patchers that redirected its imports.       *)
(***************************************************************************)
EXTENDS Integers, Sequences, FiniteSets, SequencesExt, FiniteSetsExt

CONSTANTS Threads,          \* application threads
          Libs, Bases,      \* inodes and load addresses
          Starter,          \* the thread that starts and stops sessions
          Modes,            \* how dlopen is intercepted: "jvm", "attach" or "preload"
          Tracers,          \* the tracers in use, of "malloc" and "nativelock"
          MAX_NATIVE_LIBS,
          MaxLoads, MaxRefs \* bounds on mappings and on references to one

Patchers == {"threads"} \cup Tracers
Actors == Threads \cup {Starter}
Unmapped == 0

VARIABLES
    mode,
    map,             \* /proc/self/maps: inode -> [base, gen, refs, got]
    loads,
    native_libs,     \* seq of [inode, base, gen, imports]; gen is history
    parse_lock,      \* Symbols::_parse_lock
    patch_lock,      \* patcher -> owner
    _patched_libs,   \* patcher -> number of libraries walked
    _running,        \* tracer -> BOOLEAN
    hooked,          \* the JVM's dlopen entry points to dlopen_hook
    _initialized,    \* Hooks::_initialized
    t,               \* actor -> [plan, step, todo, limit]
    stray            \* history: an import of something else than the parsed mapping was written

vars == <<mode, map, loads, native_libs, parse_lock, patch_lock, _patched_libs, _running, hooked,
          _initialized, t, stray>>
code == <<native_libs, _patched_libs, stray>>
flags == <<_running, hooked, _initialized>>

Nobody == "nobody"

(* The work left to an actor is a plan: a sequence of <<operation,         *)
(* patcher>>. step is FALSE before the first item has begun.               *)
NewPlan(plan) == [plan |-> plan, step |-> FALSE, todo |-> {}, limit |-> 0]
Idle == NewPlan(<<>>)
At(i, op) == t[i].plan # <<>> /\ Head(t[i].plan)[1] = op
Arg(i) == Head(t[i].plan)[2]
Done(i) == t' = [t EXCEPT ![i] = NewPlan(Tail(t[i].plan))]
Parse == <<<<"parse", "threads">>>>
Patch(k) == <<<<"patch", k>>>>

Init ==
    /\ mode \in Modes
    /\ map = [l \in Libs |-> [base |-> Unmapped, gen |-> 0, refs |-> 0, got |-> {}]]
    /\ loads = 0
    /\ native_libs = <<>>
    /\ parse_lock = Nobody
    /\ patch_lock = [k \in Patchers |-> Nobody]
    /\ _patched_libs = [k \in Patchers |-> 0]
    /\ _running = [k \in Tracers |-> FALSE]
    /\ hooked = FALSE
    /\ _initialized = FALSE
    /\ t = [i \in Actors |-> Idle]
    /\ stray = FALSE

-----------------------------------------------------------------------------
(* dlopen and dlclose of the application. A library that is not mapped     *)
(* gets some free address. An intercepted call parses what is new and then *)
(* lets the patchers walk; only the hook of hooks.cpp that was patched in  *)
(* also redirects the thread functions.                                    *)
Intercepted == IF mode = "jvm" THEN hooked ELSE _initialized
dlopen_hook == Parse \o (IF mode = "attach" THEN Patch("threads") ELSE <<>>)
                     \o SetToSeq({<<"ask", k>> : k \in Tracers})

Mapped(l) == map[l].base # Unmapped
Free == Bases \ {map[l].base : l \in Libs}
dlopen(i, l) ==
    /\ t[i] = Idle
    /\ IF Mapped(l) THEN map[l].refs < MaxRefs /\ map' = [map EXCEPT ![l].refs = @ + 1] /\ UNCHANGED loads
       ELSE /\ loads < MaxLoads
            /\ loads' = loads + 1
            /\ \E b \in Free : map' = [map EXCEPT ![l] = [base |-> b, gen |-> loads', refs |-> 1, got |-> {}]]
    /\ t' = [t EXCEPT ![i] = IF Intercepted THEN NewPlan(dlopen_hook) ELSE Idle]
    /\ UNCHANGED <<mode, parse_lock, patch_lock, code, flags>>

dlclose(i, l) ==
    /\ t[i] = Idle /\ Mapped(l)
    /\ map' = IF map[l].refs > 1 THEN [map EXCEPT ![l].refs = @ - 1]
              ELSE [map EXCEPT ![l] = [base |-> Unmapped, gen |-> 0, refs |-> 0, got |-> {}]]
    /\ UNCHANGED <<mode, loads, code, parse_lock, patch_lock, flags, t>>

(* UnloadProtection: dlopen with RTLD_NOLOAD and a comparison of the base. *)
(* What it protects is one step, so its reference never shows.             *)
isValidNoVerify(c) == Mapped(c.inode)
isValid(c) == map[c.inode].base = c.base

-----------------------------------------------------------------------------
(* parseLibraries: read the maps, then parse one library after another,    *)
(* all under the parse lock.                                               *)
Unparsed == {l \in Libs : Mapped(l) /\ \A n \in DOMAIN native_libs : native_libs[n].inode # l}
Room == MAX_NATIVE_LIBS - Len(native_libs)
collectSharedLibraries(i) ==
    /\ At(i, "parse") /\ ~t[i].step /\ parse_lock = Nobody
    /\ IF Room <= 0 THEN Done(i) /\ UNCHANGED parse_lock
       ELSE /\ parse_lock' = i
            /\ \E some \in kSubset(Min({Room, Cardinality(Unparsed)}), Unparsed) :
                 t' = [t EXCEPT ![i].step = TRUE,
                                ![i].todo = {[inode |-> l, base |-> map[l].base, gen |-> map[l].gen] : l \in some}]
    /\ UNCHANGED <<mode, map, loads, code, patch_lock, flags>>

(* Imports are read from the mapping only while it is protected.           *)
ParseLibrary(i) ==
    /\ At(i, "parse") /\ t[i].step
    /\ \E c \in t[i].todo :
         /\ native_libs' = Append(native_libs, [inode |-> c.inode, base |-> c.base, gen |-> c.gen,
                                                imports |-> isValid(c)])
         /\ t' = [t EXCEPT ![i].todo = @ \ {c}]
    /\ UNCHANGED <<mode, map, loads, parse_lock, patch_lock, _patched_libs, flags, stray>>

ParseDone(i) ==
    /\ At(i, "parse") /\ t[i].step /\ t[i].todo = {}
    /\ parse_lock' = Nobody
    /\ Done(i)
    /\ UNCHANGED <<mode, map, loads, code, patch_lock, flags>>

-----------------------------------------------------------------------------
(* installHooks of a tracer asks first whether it runs. patchLibraries     *)
(* reads the number of libraries once, under the lock of its patcher.      *)
installHooks(i) ==
    /\ At(i, "ask")
    /\ t' = [t EXCEPT ![i] = NewPlan((IF _running[Arg(i)] THEN Patch(Arg(i)) ELSE <<>>) \o Tail(@.plan))]
    /\ UNCHANGED <<mode, map, loads, code, parse_lock, patch_lock, flags>>

BeginPatch(i) ==
    /\ At(i, "patch") /\ ~t[i].step /\ patch_lock[Arg(i)] = Nobody
    /\ patch_lock' = [patch_lock EXCEPT ![Arg(i)] = i]
    /\ t' = [t EXCEPT ![i].step = TRUE, ![i].limit = Len(native_libs)]
    /\ UNCHANGED <<mode, map, loads, code, parse_lock, flags>>

(* The profiler's own library keeps its dlopen and its locks; it is not in *)
(* Libs, as nothing unloads it.                                            *)
patchLibraries(i) ==
    /\ At(i, "patch") /\ t[i].step /\ _patched_libs[Arg(i)] < t[i].limit
    /\ _patched_libs' = [_patched_libs EXCEPT ![Arg(i)] = @ + 1]
    /\ LET c == native_libs[_patched_libs'[Arg(i)]]
       IN IF ~isValid(c) \/ ~c.imports THEN UNCHANGED <<map, stray>>
          ELSE /\ map' = [map EXCEPT ![c.inode].got = @ \cup {Arg(i)}]
               /\ stray' = (stray \/ map[c.inode].base # c.base)
    /\ UNCHANGED <<mode, loads, native_libs, parse_lock, patch_lock, flags, t>>

EndPatch(i) ==
    /\ At(i, "patch") /\ t[i].step /\ _patched_libs[Arg(i)] >= t[i].limit
    /\ patch_lock' = [patch_lock EXCEPT ![Arg(i)] = Nobody]
    /\ Done(i)
    /\ UNCHANGED <<mode, map, loads, code, parse_lock, flags>>

-----------------------------------------------------------------------------
(* Hooks::init runs once, by asprof_init or at LD_PRELOAD.                 *)
HooksInit ==
    /\ t[Starter] = Idle /\ mode # "jvm" /\ ~_initialized
    /\ _initialized' = TRUE
    /\ t' = [t EXCEPT ![Starter] = NewPlan(IF mode = "attach" THEN Parse \o Patch("threads") ELSE <<>>)]
    /\ UNCHANGED <<mode, map, loads, code, parse_lock, patch_lock, _running, hooked>>

(* A session: update the symbols, intercept the JVM's dlopen, start the    *)
(* tracers. A tracer is switched on before it walks the libraries.         *)
WalkFirst(k) == Patch(k) \o <<<<"on", k>>>>
start(k) == <<<<"on", k>>>> \o Patch(k)

StartSession ==
    /\ t[Starter] = Idle /\ (mode = "jvm" \/ _initialized)
    /\ \E k \in Tracers : t' = [t EXCEPT ![Starter] =
           NewPlan(Parse \o <<<<"hook", k>>>> \o start(k) \o <<<<"session", k>>, <<"unhook", k>>>>)]
    /\ UNCHANGED <<mode, map, loads, code, parse_lock, patch_lock, flags>>

SwitchTracer ==
    /\ At(Starter, "on") \/ At(Starter, "session")
    /\ _running' = [_running EXCEPT ![Arg(Starter)] = At(Starter, "on")]
    /\ Done(Starter)
    /\ UNCHANGED <<mode, map, loads, code, parse_lock, patch_lock, hooked, _initialized>>

switchLibcHooks ==
    /\ At(Starter, "hook") \/ At(Starter, "unhook")
    /\ hooked' = (At(Starter, "hook") /\ mode = "jvm")
    /\ Done(Starter)
    /\ UNCHANGED <<mode, map, loads, code, parse_lock, patch_lock, _running, _initialized>>

Next ==
    \/ \E i \in Threads, l \in Libs : dlopen(i, l) \/ dlclose(i, l)
    \/ \E i \in Actors : \/ collectSharedLibraries(i) \/ ParseLibrary(i) \/ ParseDone(i)
                         \/ installHooks(i) \/ BeginPatch(i) \/ patchLibraries(i) \/ EndPatch(i)
    \/ HooksInit \/ StartSession \/ SwitchTracer \/ switchLibcHooks

Spec == Init /\ [][Next]_vars

-----------------------------------------------------------------------------
TypeOK ==
    /\ \A l \in Libs : map[l] \in [base : Bases \cup {Unmapped}, gen : 0..MaxLoads, refs : 0..MaxRefs, got : SUBSET Patchers]
    /\ \A n \in DOMAIN native_libs : native_libs[n].inode \in Libs /\ native_libs[n].imports \in BOOLEAN
    /\ Len(native_libs) <= MAX_NATIVE_LIBS
    /\ \A k \in Patchers : _patched_libs[k] <= Len(native_libs)

=============================================================================
