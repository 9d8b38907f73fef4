------------------------------ MODULE Imports -------------------------------
(***************************************************************************)
(* Script imports and the scopes they leave behind.  import runs a file in *)
(* the environment of the context; import_module runs it in a snapshot of  *)
(* it, by exchanging the contents of the two structs for the time of the   *)
(* run, so that while a module runs the address of the context's           *)
(* environment is the module's scope and the address of the snapshot is    *)
(* the importer's.  A function value names its scope by address; scopes    *)
(* are reference counted and swept when a run of the host ends.            *)
(*                                                                         *)
(* One variable v and one named function per scope, one export per file.   *)
(* What a script does is a choice at every step.  Out-of-memory paths are  *)
(* left out.                                                               *)
(***************************************************************************)
EXTENDS Integers, Sequences, FiniteSets, SequencesExt

CONSTANTS
  Files,        \* resolved paths
  Plugins,
  MaxPlugins,   \* TS_MAX_PLUGINS
  MaxScopes,    \* snapshots made over the life of the context
  MaxImports,   \* files run, one inside the other or one after the other
  MaxRef,       \* the count up to which a script makes one more reference to a scope
  MaxRuns

ASSUME BoundsAssumption == {MaxScopes, MaxImports, MaxRef, MaxRuns, MaxPlugins} \subseteq Nat

VARIABLES
  mem,          \* the environment struct at each address
  cur,          \* ctx->current_import_{name, exports, has_exports, env}
  stack,        \* the activations of ts_run_script_file_in_env
  imports,      \* ctx->imports, oldest first
  loaded,       \* ctx->loaded_names
  running,      \* a run of the host is active
  aborted,
  made,         \* snapshots made so far: addresses are not reused
  runs,
  strayed,      \* scopes that a function value of another scope has named
  cyclic        \* imports made while the same import was running

vars == <<mem, cur, stack, imports, loaded, running, aborted, made, runs, strayed, cyclic>>

None == -1
Ctx == 0                                        \* &ctx->env
Addrs == Ctx..MaxScopes

\* A function value: the address in closure_env, and the scope that defined it.
Value(a, h) == [at |-> a, home |-> h]
Number == Value(None, None)

\* exprtk_env_init_storage; id is the scope that the struct is.
NewScope(i) == [live |-> TRUE, id |-> i, parent |-> None, next |-> None, ref |-> 0,
                fn |-> Number, v |-> Number, modules |-> {}, natives |-> {}]
NotImporting == [file |-> None, exports |-> Number, has |-> FALSE, by |-> None, own |-> FALSE]

Init ==
  /\ mem = [a \in Addrs |-> [NewScope(a) EXCEPT !.live = (a = Ctx)]]
  /\ cur = NotImporting
  /\ stack = <<>>
  /\ imports = <<>>
  /\ loaded = {}
  /\ running = FALSE
  /\ aborted = FALSE
  /\ made = 0
  /\ runs = 0
  /\ strayed = {}
  /\ cyclic = {}

-----------------------------------------------------------------------------
(* The environment                                                         *)

\* The k-th scope that a lookup from a visits, counted from 0; which there are.
Ancestor(m, a, k) ==
  LET up[j \in 0..k] == IF j = 0 THEN a
                        ELSE IF up[j - 1] = None THEN None ELSE m[up[j - 1]].parent
  IN up[k]
Visited(m, a) == {k \in 0..MaxScopes : Ancestor(m, a, k) # None}

\* The root of the chain of the running scope.
Root(m) == Ancestor(m, Ctx, Max(Visited(m, Ctx)))

\* The address of the struct where ts_lookup_named_script_function finds a function.
LookupNamed(m, a) ==
  LET found == {k \in Visited(m, a) : m[Ancestor(m, a, k)].fn # Number}
  IN IF found = {} THEN None ELSE Ancestor(m, a, Min(found))

Retain(m, a) == IF a # None /\ m[a].ref > 0 THEN [m EXCEPT ![a].ref = @ + 1] ELSE m
Release(m, a) == IF a # None /\ m[a].ref > 0 THEN [m EXCEPT ![a].ref = @ - 1] ELSE m

\* exprtk_value_clone_to_env of a map entry: the clone retains and its copy in the
\* map retains.  Destroying the clone, replacing a map entry and freeing a map
\* release no scope: exprtk_value_release_storage has cleared the ownership that
\* exprtk_value_destroy tests.
Clone(m, x) == Retain(Retain(m, x.at), x.at)

\* Mutant: a cloned function value does not own a reference.
SnapshotBorrows(m, n, copy) ==
  LET root == Root(m)
  IN [m EXCEPT ![n] = [NewScope(n) EXCEPT !.v = copy, !.next = m[root].next, !.ref = 1],
               ![root].next = n]

\* Mutant: the list of the running scope is continued at the root.
SnapshotMixesLists(m, n, copy) ==
  LET root == Root(m)
  IN [Retain(m, copy.at) EXCEPT
        ![n] = [NewScope(n) EXCEPT !.v = copy, !.next = m[Ctx].next, !.ref = 1],
        ![root].next = n]

\* exprtk_env_snapshot_names of the running scope: a clone of v if it is wanted,
\* linked to the root of the scope chain.
Snapshot(m, n, copy) ==
  LET root == Root(m)
  IN [Retain(m, copy.at) EXCEPT
        ![n] = [NewScope(n) EXCEPT !.v = copy, !.next = m[root].next, !.ref = 1],
        ![root].next = n]

\* exprtk_env_set: v is declared in every scope a script runs in.
Assign(m, x) ==
  [Release(Retain(m, x.at), m[Ctx].v.at) EXCEPT ![Ctx].v = x]

-----------------------------------------------------------------------------
(* What a script does                                                      *)

Active == running /\ ~aborted
Here == mem[Ctx]
Bounded(x) == x.at # None => mem[x.at].ref < MaxRef

\* A function definition: ts_mir_runtime_define_func_in_env.
Define ==
  /\ Active
  /\ Here.ref < MaxRef
  /\ mem' = Retain([mem EXCEPT ![Ctx].fn = Value(Ctx, Here.id)], Ctx)
  /\ Here.fn = Number \/ mem' # mem
  /\ UNCHANGED <<cur, stack, imports, loaded, running, aborted, made, runs, cyclic>>

\* v = function() {...}, with v among the free variables of the body or not.
Close(captured) ==
  /\ Active
  /\ made < MaxScopes
  /\ LET n == made + 1
     IN mem' = Assign(Snapshot(mem, n, IF captured THEN Here.v ELSE Number), Value(n, n))
  /\ made' = made + 1
  /\ UNCHANGED <<cur, stack, imports, loaded, running, aborted, runs, cyclic>>

\* v = 0.
Drop ==
  /\ Active
  /\ Here.v # Number
  /\ mem' = Assign(mem, Number)
  /\ UNCHANGED <<cur, stack, imports, loaded, running, aborted, made, runs, cyclic>>

\* exprtk_map_set on the exports of the running file.
SetExport(m, x, own) ==
  /\ Bounded(x)
  /\ mem' = Retain(m, x.at)
  /\ cur' = [cur EXCEPT !.exports = x, !.has = TRUE, !.by = Last(stack).file, !.own = own]
  /\ UNCHANGED <<stack, imports, loaded, running, aborted, made, runs, cyclic>>

\* export(name) of a function (numbers name no scope): a clone of one that a
\* variable holds, else a named one of the scope or of a parent.
ExportVar ==
  Active /\ stack # <<>> /\ Here.v # Number /\ SetExport(Retain(mem, Here.v.at), Here.v, FALSE)
ExportFunction ==
  /\ Active
  /\ stack # <<>>
  /\ LookupNamed(mem, Ctx) \in Addrs
  /\ LET a == LookupNamed(mem, Ctx) IN SetExport(mem, Value(a, mem[a].fn.home), a = Ctx)

-----------------------------------------------------------------------------
(* import and import_module                                                *)

\* Mutant: only modules are found again.
FindImportedModule(f, isolated) ==
  {k \in DOMAIN imports : imports[k].file = f /\ imports[k].isolated /\ isolated}

\* Where the list has the file; the newest entry is the one that is found.
FindImported(f, isolated) ==
  {k \in DOMAIN imports : imports[k].file = f /\ imports[k].isolated = isolated}

\* The struct assignments around the run of a module.
Exchange(m, n) == [m EXCEPT ![Ctx] = m[n], ![n] = m[Ctx]]

\* The importer gets a clone of the exports: v = import(...).name, or it is ignored.
Result(m, d, keep) ==
  IF keep /\ d.has THEN Assign(Clone(m, d.exports), d.exports) ELSE Clone(m, d.exports)

ImportCached(f, isolated, keep) ==
  /\ Active
  /\ \E k \in FindImported(f, isolated) :
       /\ \A j \in FindImported(f, isolated) : j <= k
       /\ Bounded(imports[k].exports)
       /\ mem' = Result(mem, imports[k], keep)
  /\ UNCHANGED <<cur, stack, imports, loaded, running, aborted, made, runs, cyclic>>

\* The snapshot of a module, before it runs.
ModuleScope(m, n) == [Snapshot(m, n, m[Ctx].v) EXCEPT ![n].parent = Ctx]

Frame(f, isolated, n) ==
  [file |-> f, isolated |-> isolated, addr |-> n, parent |-> Ctx, prev |-> cur]

\* The file is read and parsed, and its run begins.
BeginImport(f, isolated) ==
  /\ Active
  /\ FindImported(f, isolated) = {}
  /\ Len(imports) + Len(stack) < MaxImports
  /\ IF isolated
     THEN LET n == made + 1
          IN /\ n <= MaxScopes
             /\ mem' = [Exchange(ModuleScope(mem, n), n) EXCEPT ![Ctx].parent = n]
             /\ stack' = Append(stack, Frame(f, isolated, n))
             /\ made' = n
     ELSE /\ stack' = Append(stack, Frame(f, isolated, Ctx))
          /\ UNCHANGED <<mem, made>>
  /\ cur' = [NotImporting EXCEPT !.file = f]
  /\ cyclic' = IF \E k \in DOMAIN stack : stack[k].file = f /\ stack[k].isolated = isolated
               THEN cyclic \cup {<<f, isolated>>} ELSE cyclic
  /\ UNCHANGED <<imports, loaded, running, aborted, runs>>

\* It cannot be read or parsed, or fails the validation.
ImportUnreadable(f, isolated) ==
  /\ Active
  /\ FindImported(f, isolated) = {}
  /\ IF isolated
     THEN /\ made < MaxScopes
          /\ mem' = ModuleScope(mem, made + 1)
          /\ made' = made + 1
     ELSE UNCHANGED <<mem, made>>
  /\ aborted' = TRUE
  /\ UNCHANGED <<cur, stack, imports, loaded, running, runs, cyclic>>

\* Mutant: the exported functions keep the temporary address of their scope.
RebindNot(m, x, n) == [mem |-> m, exports |-> x]

\* ts_rebind_function_closures on the exports: the entry is replaced, rebound or not.
Rebind(m, x, n) ==
  LET y == IF x.at = Ctx THEN [x EXCEPT !.at = n] ELSE x
  IN [mem |-> Retain(m, y.at), exports |-> y]

\* The end of the module: its functions are bound to the address it will have,
\* its parent is restored and the structs are exchanged again.
LeaveModule(m, frame) ==
  Exchange([m EXCEPT ![Ctx].fn = IF @.at = Ctx THEN [@ EXCEPT !.at = frame.addr] ELSE @,
                     ![Ctx].parent = frame.parent],
           frame.addr)

\* What the end of the running file leaves: the memory and the exports.
Ended ==
  LET frame == Last(stack)
      r == Rebind(mem, cur.exports, frame.addr)
  IN IF frame.isolated THEN [mem |-> LeaveModule(r.mem, frame), exports |-> r.exports]
     ELSE [mem |-> mem, exports |-> cur.exports]

RestoreImporter == Last(stack).prev

\* The file has run: it is entered in the list with a clone of its exports, and the
\* importer gets another one.
EndImport(keep) ==
  /\ Active
  /\ stack # <<>>
  /\ LET frame == Last(stack)
         d == [file |-> frame.file, isolated |-> frame.isolated, exports |-> Ended.exports,
               has |-> cur.has, by |-> cur.by, own |-> cur.own, scope |-> frame.addr]
     IN /\ imports' = Append(imports, d)
        /\ mem' = Result(Clone(Ended.mem, d.exports), d, keep)
        /\ cur' = RestoreImporter
  /\ stack' = Front(stack)
  /\ UNCHANGED <<loaded, running, aborted, made, runs, cyclic>>

\* Mutant: a failed module leaves the structs exchanged.
FailedStays == [mem |-> mem, exports |-> cur.exports]
Failed == Ended

\* The run of the file failed, by itself or because of an import it made; the
\* exports are dropped without being freed.
FailImport ==
  /\ running
  /\ stack # <<>>
  /\ mem' = Failed.mem
  /\ aborted' = TRUE
  /\ cur' = RestoreImporter
  /\ stack' = Front(stack)
  /\ UNCHANGED <<imports, loaded, running, made, runs, cyclic>>

-----------------------------------------------------------------------------
(* Plugins: mounted in the running scope, that is in the struct at &ctx->env *)

\* ts_plugin_init_ex: the module object of the plugin mounts itself; if the
\* catalog or the functions cannot be bound then (a name is taken), nothing
\* unmounts it.  Functions are registered all or none.
InitPlugin(m, p, how) ==
  CASE how = "unloaded" -> m
    [] how = "unbound" -> [m EXCEPT ![Ctx].modules = @ \cup {p}]
    [] how = "ok" -> [m EXCEPT ![Ctx].modules = @ \cup {p}, ![Ctx].natives = @ \cup {p}]

\* ts_load_plugin, from a script or from the host: "unloaded" stands for a
\* denied, missing or refused plugin.
LoadPlugin(p, how) ==
  /\ running => ~aborted
  /\ IF p \in loaded
     THEN how = "ok" /\ UNCHANGED <<mem, loaded, aborted>>
     ELSE /\ Cardinality(loaded) >= MaxPlugins => how = "unloaded"
          /\ mem' = InitPlugin(mem, p, how)
          /\ loaded' = IF how = "ok" THEN loaded \cup {p} ELSE loaded
          /\ aborted' = (running /\ how # "ok")
  /\ UNCHANGED <<cur, stack, imports, running, made, runs, cyclic>>

-----------------------------------------------------------------------------
(* Runs of the host                                                        *)

BeginRun ==
  /\ ~running
  /\ runs < MaxRuns
  /\ running' = TRUE
  /\ runs' = runs + 1
  /\ UNCHANGED <<mem, cur, stack, imports, loaded, aborted, made, cyclic>>

\* The closures linked to a struct, newest first.
Closures(m, a) ==
  LET follow[j \in 0..MaxScopes] ==
        IF j = 0 THEN m[a].next
        ELSE IF follow[j - 1] = None THEN None ELSE m[follow[j - 1]].next
  IN [j \in 1..Cardinality({j \in 0..MaxScopes : follow[j] # None}) |-> follow[j - 1]]

\* Only the chain holds the scope.
Sweepable(s) == s.ref <= 1

\* exprtk_env_sweep_closures: scopes that only the chain holds are unlinked and
\* freed, and give up the references of their named functions; those of their
\* variables are never released (exprtk_release_value clears the ownership first).
Sweep(m) ==
  LET chain == Closures(m, Ctx)
      swept == {a \in ToSet(chain) : Sweepable(m[a])}
      kept == {k \in DOMAIN chain : chain[k] \notin swept}
      Given(b) == Cardinality({a \in swept : m[a].fn.at = b})
      Link(k) == LET rest == {j \in kept : j > k} IN IF rest = {} THEN None ELSE chain[Min(rest)]
  IN [a \in Addrs |->
        IF a \in swept THEN [m[a] EXCEPT !.live = FALSE]
        ELSE IF a # Ctx /\ a \notin ToSet(chain) THEN m[a]
        ELSE [m[a] EXCEPT !.next = Link(IF a = Ctx THEN 0 ELSE CHOOSE k \in kept : chain[k] = a),
                          !.ref = IF @ > Given(a) THEN @ - Given(a) ELSE 0]]

\* The script ended; ts_memory_finish_run.
EndRun ==
  /\ running
  /\ stack = <<>>
  /\ mem' = Sweep(mem)
  /\ running' = FALSE
  /\ aborted' = FALSE
  /\ UNCHANGED <<cur, stack, imports, loaded, made, runs, cyclic>>

Live == {a \in Addrs : mem[a].live}
Held == {mem[a].v : a \in Live} \cup {mem[a].fn : a \in Live} \cup {cur.exports}
        \cup {stack[k].prev.exports : k \in DOMAIN stack}
        \cup {imports[k].exports : k \in DOMAIN imports}
Astray == {mem[x.at].id : x \in {y \in Held : y.at # None /\ mem[y.at].id # y.home}}

Step ==
  \/ BeginRun
  \/ EndRun
  \/ Define
  \/ Drop
  \/ ExportVar
  \/ ExportFunction
  \/ FailImport
  \/ \E captured \in BOOLEAN : Close(captured)
  \/ \E keep \in BOOLEAN : EndImport(keep)
  \/ \E f \in Files, isolated, keep \in BOOLEAN : ImportCached(f, isolated, keep)
  \/ \E f \in Files, isolated \in BOOLEAN : BeginImport(f, isolated)
  \/ \E f \in Files, isolated \in BOOLEAN : ImportUnreadable(f, isolated)
  \/ \E p \in Plugins, how \in {"unloaded", "unbound", "ok"} : LoadPlugin(p, how)

Next == Step /\ strayed' = strayed \cup Astray'

Spec == Init /\ [][Next]_vars

-----------------------------------------------------------------------------
(* Properties                                                              *)

\* The modules on the stack, between the script of the host (0) and what comes next,
\* and the address that belongs to each.
IsModule(k) == k \in {0, Len(stack) + 1} \/ stack[k].isolated
AddrOf(k) == IF k \in {0, Len(stack) + 1} THEN Ctx ELSE stack[k].addr
Follows(j, k) ==
  /\ IsModule(j) /\ IsModule(k) /\ j < k
  /\ \A i \in (j + 1)..(k - 1) : ~IsModule(i)

\* However imports nest, succeed and fail, the structs are where they belong:
\* the innermost module is at the address of the context, every module that
\* waits is at the address of the one it imported, the script of the host is at
\* the address of the outermost module, and everything else is at home.
ScopesInPlace ==
  /\ \A j, k \in 0..(Len(stack) + 1) : Follows(j, k) => mem[AddrOf(k)].id = AddrOf(j)
  /\ \A a \in Addrs \ {Ctx} :
        (\A k \in DOMAIN stack : stack[k].isolated => stack[k].addr # a) => mem[a].id = a

\* The parents set and restored around the run of a module never form a circle.
LookupsEnd == \A a \in Live : Ancestor(mem, a, MaxScopes + 1) = None

\* The chains through the scopes stay whole, although snapshots are linked while
\* structs are exchanged.  The lookup of a name ends, from every scope and at every
\* moment; and between runs every scope that was not freed is linked once to the
\* context, so that the sweep and the end of the context see each of them, and
\* their walk ends.
ChainComplete ==
  /\ LookupsEnd
  /\ ~running =>
       LET chain == Closures(mem, Ctx)
       IN /\ ToSet(chain) = Live \ {Ctx}
          /\ Len(chain) = Cardinality(Live) - 1

\* What a file exports is recorded for that file, whatever files it imported.  The
\* address of the context is a module's own only while it runs: no export of a
\* module is left naming it, and a function that the module exports from its own
\* scope runs there.
ExportsAtHome ==
  \A k \in DOMAIN imports :
    LET d == imports[k]
    IN /\ d.has => d.by = d.file
       /\ d.isolated => d.exports.at # Ctx /\ (d.own => d.exports.at = d.scope)

\* No function value that can still be called names a freed scope, provided that
\* no function value of another scope ever named that scope: the address of a
\* struct that is exchanged is where the counts go wrong.
NoDangling ==
  stack = <<>> =>
    \A x \in Held : x.at # None /\ x.at = x.home /\ x.at \notin strayed => mem[x.at].live

\* A file is run once as an import and once as a module, unless it imports itself.
ImportedOnce ==
  \A j, k \in DOMAIN imports :
    j # k /\ imports[j].file = imports[k].file /\ imports[j].isolated = imports[k].isolated
    => <<imports[j].file, imports[j].isolated>> \in cyclic

-----------------------------------------------------------------------------
(* What comments and documents promise and the code does not keep: each of *)
(* these is violated, see the configurations named in the README.          *)

\* A scope is freed only when no function value names it (the comment of
\* exprtk_env_sweep_closures): a function value that a variable, a file's exports
\* or the list of imports holds between runs names a live scope.
NamedScopesLive == stack = <<>> => \A x \in Held : x.at # None => mem[x.at].live

\* "Every release path drops one reference per clone" (exprtk_value_clone_to_env):
\* between runs only the list of closures still holds a snapshot that no function
\* value names, so that this sweep or the next one reclaims it.
Reclaimed ==
  ~running => \A a \in Live \ {Ctx} : Sweepable(mem[a]) \/ \E x \in Held : x.at = a

\* A file is run once as an import and once as a module, whatever it imports
\* itself (docs/language-guide.md).
ExecutedOnce ==
  \A j, k \in DOMAIN imports :
    imports[j].file = imports[k].file /\ imports[j].isolated = imports[k].isolated => j = k

\* A plugin stays loaded while a live scope reaches its functions, registered by
\* name or through a module that is mounted there (docs/PLUGIN_SYSTEM.md).
PluginsLeased == \A a \in Live : mem[a].natives \cup mem[a].modules \subseteq loaded

\* A script that has imported a plugin reaches its functions, in its own scope or in
\* a scope around it (docs/PLUGIN_SYSTEM.md).  To import one that is loaded changes
\* nothing, so it has to be within reach already.
Reaches(m, p) == \E k \in Visited(m, Ctx) : p \in m[Ancestor(m, Ctx, k)].natives
ImportedReached == Active => \A p \in loaded : Reaches(mem, p)
=============================================================================
