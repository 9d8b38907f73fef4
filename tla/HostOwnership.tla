--------------------------- MODULE HostOwnership ---------------------------
(***************************************************************************)
(* What the host module ABI promises about lifetimes, without a single     *)
(* reference count: a module's code stays loaded for exactly as long as    *)
(* its public handle is open or an instance of it exists, and the context  *)
(* stays alive for exactly as long as the owner has not closed it, or a    *)
(* module is loaded, or a result exists.  HostAbi implements this with     *)
(* three counters (ref_count of the context, ref_count of every module,    *)
(* active_host_modules of the registry).                                   *)
(***************************************************************************)
CONSTANTS Modules, Instances, Results, None

VARIABLES closed,    \* the owner called turbo_script_free
          open,      \* modules whose public handle is open
          pinned,    \* the module each existing instance belongs to, or None
          results,   \* results the host holds
          loaded,    \* modules whose code is in memory
          alive      \* the context is in memory

avars == <<closed, open, pinned, results, loaded, alive>>

\* What the owners named by the arguments keep in memory.
Needed(o, p) == o \cup {m \in Modules : \E i \in Instances : p[i] = m}

AInit ==
  /\ closed = FALSE
  /\ open = {}
  /\ pinned = [i \in Instances |-> None]
  /\ results = {}
  /\ loaded = {}
  /\ alive = TRUE

\* The memory that is left once the owners are o, p, r and c.
Settle(o, p, r, c) ==
  /\ loaded' = Needed(o, p)
  /\ alive' = (~c \/ Needed(o, p) # {} \/ r # {})

\* A change of owners that keeps or frees memory accordingly.
Owners(o, p, r, c) ==
  /\ open' = o
  /\ pinned' = p
  /\ results' = r
  /\ closed' = c
  /\ Settle(o, p, r, c)

Load(m) ==
  /\ alive /\ ~closed /\ m \notin loaded
  /\ Owners(open \cup {m}, pinned, results, closed)

CloseHandle(m) ==
  /\ m \in open
  /\ Owners(open \ {m}, pinned, results, closed)

\* Only an open module is pinned, and only while the context is not closing.
Pin(m, i) ==
  /\ ~closed /\ m \in open /\ pinned[i] = None
  /\ Owners(open, [pinned EXCEPT ![i] = m], results, closed)

Unpin(i) ==
  /\ pinned[i] # None
  /\ Owners(open, [pinned EXCEPT ![i] = None], results, closed)

TakeResult(r) ==
  /\ alive /\ r \notin results
  /\ Owners(open, pinned, results \cup {r}, closed)

DropResult(r) ==
  /\ r \in results
  /\ Owners(open, pinned, results \ {r}, closed)

Close ==
  /\ ~closed
  /\ Owners(open, pinned, results, TRUE)

ANext ==
  \/ \E m \in Modules : Load(m) \/ CloseHandle(m) \/ \E i \in Instances : Pin(m, i)
  \/ \E i \in Instances : Unpin(i)
  \/ \E r \in Results : TakeResult(r) \/ DropResult(r)
  \/ Close

ASpec == AInit /\ [][ANext]_avars
=============================================================================
