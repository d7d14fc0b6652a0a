--------------------------- MODULE NetEbpfMonitor ----------------------------
(***************************************************************************)
(* net_ebpf_monitor.cpp: the worker's side of NetStats, and the two        *)
(* together.  The constructor loads the programs and attaches them to each *)
(* interface; each push walks over the map with get_next_key while packets *)
(* are counted, and reports differences to the previous values; Stop       *)
(* releases the skeleton.                                                  *)
(*                                                                         *)
(* A lookup copies a value at once.  The times of two walks differ by at   *)
(* least a second, and a walk has one time: old_duration is zero exactly   *)
(* for a key that the walk meets again.  bpf_tc_detach is called without   *)
(* the handle of a filter, which libbpf refuses (EINVAL, ignored), so the  *)
(* hooks outlive Stop.                                                     *)
(***************************************************************************)
EXTENDS NetStats

CONSTANTS
    Loopback,   \* the ifindexes of "lo"
    Removable   \* the interfaces that may be taken away

VARIABLES
    pc,         \* "ctor", "attach", "egress", "idle", "next", "read", "done"
    todo,       \* ifindexes that InitEbpf has not come to
    loaded_, map_fd_, bpf_obj_,
    attached_ifindexes_,
    present,    \* the interfaces that exist, and so have a name
    ifname_cache_,
    key,        \* the key of the walk, or the interface of InitEbpf
    cache_,     \* the previous value of each key
    now,        \* keys whose cached value is of this walk
    report,     \* keys in the message
    told,       \* history: first values and all differences reported
    due         \* history: keys that this walk must come to

monitorVars == <<pc, todo, loaded_, map_fd_, bpf_obj_, attached_ifindexes_,
                 ifname_cache_, key, cache_, now, report, told>>
vars == <<kernelVars, monitorVars, present, due>>

Init ==
    /\ NetInit
    /\ pc = "ctor" /\ todo = {}
    /\ loaded_ = FALSE /\ map_fd_ = FALSE /\ bpf_obj_ = FALSE
    /\ attached_ifindexes_ = {}
    /\ present = Ifs /\ ifname_cache_ = {}
    /\ key = 0 /\ cache_ = <<>> /\ now = {} /\ report = {}
    /\ told = 0 /\ due = {}

-----------------------------------------------------------------------------
(* InitEbpf *)

Walk == <<key, cache_, now, report, told, due>>

\* Opening, loading, and the descriptor of the map.
Load ==
    /\ pc = "ctor"
    /\ bpf_obj_' = TRUE /\ map_fd_' = TRUE
    /\ todo' = present \ Loopback /\ pc' = "attach"
    /\ UNCHANGED <<kernelVars, Walk, loaded_, attached_ifindexes_, present,
                   ifname_cache_>>

\* Any of them may fail; the skeleton is destroyed, and loaded_ is false.
LoadFails ==
    /\ pc = "ctor" /\ pc' = "idle"
    /\ UNCHANGED <<kernelVars, Walk, todo, loaded_, map_fd_, bpf_obj_,
                   attached_ifindexes_, present, ifname_cache_>>

\* The interface may be gone or refuse a hook: continue.
SkipInterface(k) ==
    /\ pc = "attach" /\ k \in todo
    /\ todo' = todo \ {k}
    /\ UNCHANGED <<kernelVars, Walk, pc, loaded_, map_fd_, bpf_obj_,
                   attached_ifindexes_, present, ifname_cache_>>

\* Only the ingress program decides whether the interface is remembered.
AttachIngress(k) ==
    /\ pc = "attach" /\ k \in todo \intersect present
    /\ todo' = todo \ {k} /\ key' = k /\ pc' = "egress"
    /\ \/ /\ hooks' = hooks \union {<<k, "rcv">>}
          /\ attached_ifindexes_' = attached_ifindexes_ \union {k}
       \/ UNCHANGED <<hooks, attached_ifindexes_>>
    /\ UNCHANGED <<max_entries, mapVars, cpu, seen, loaded_, map_fd_, bpf_obj_, present,
                   ifname_cache_, cache_, now, report, told, due>>

AttachEgress ==
    /\ pc = "egress" /\ pc' = "attach" /\ key' = 0
    /\ \/ key \in present /\ hooks' = hooks \union {<<key, "snd">>}
       \/ UNCHANGED hooks
    /\ UNCHANGED <<max_entries, mapVars, cpu, seen, todo, loaded_, map_fd_, bpf_obj_,
                   attached_ifindexes_, present, ifname_cache_, cache_, now,
                   report, told, due>>

\* Mutant of InitEbpfEnds: bpf_obj_ is left pointing at the destroyed skeleton.
InitEbpfEndsDangling ==
    /\ pc = "attach" /\ todo = {}
    /\ loaded_' = (attached_ifindexes_ # {})
    /\ pc' = "idle"
    /\ UNCHANGED <<kernelVars, Walk, todo, map_fd_, bpf_obj_,
                   attached_ifindexes_, present, ifname_cache_>>

\* With no interface attached the skeleton is destroyed; map_fd_ stays set.
InitEbpfEnds ==
    /\ pc = "attach" /\ todo = {}
    /\ loaded_' = (attached_ifindexes_ # {})
    /\ bpf_obj_' = (attached_ifindexes_ # {})
    /\ pc' = "idle"
    /\ UNCHANGED <<kernelVars, Walk, todo, map_fd_, attached_ifindexes_, present,
                   ifname_cache_>>

\* Stop, and CleanupEbpf in the destructor.
CleanupEbpf ==
    /\ pc = "idle" /\ (loaded_ \/ map_fd_)
    /\ attached_ifindexes_' = {}
    /\ bpf_obj_' = FALSE /\ map_fd_' = FALSE /\ loaded_' = FALSE
    /\ UNCHANGED <<kernelVars, Walk, pc, todo, present, ifname_cache_>>

-----------------------------------------------------------------------------
(* UpdateOnce *)

\* GetIfName, for an interface that may be gone but whose name is known.
Named(k) == k \in (ifname_cache_ \union present) \ Loopback

Fixed == <<todo, loaded_, map_fd_, bpf_obj_, attached_ifindexes_, present>>

UpdateOnce ==
    /\ pc = "idle" /\ loaded_ /\ map_fd_
    /\ pc' = "next" /\ key' = 0 /\ now' = {} /\ report' = {}
    /\ due' = {k \in DOMAIN map : Named(k)}
    /\ UNCHANGED <<kernelVars, Fixed, ifname_cache_, cache_, told>>

\* Mutant of NextKey: the walk does not move on to the key it was given.
NextKeyStuck ==
    /\ pc = "next"
    /\ IF order = <<>> THEN pc' = "done" /\ UNCHANGED key
       ELSE pc' = "read" /\ key' = order[1]
    /\ UNCHANGED <<kernelVars, Fixed, ifname_cache_, cache_, now, report,
                   told, due>>

\* bpf_map_get_next_key: the key behind this one, and the first one if this
\* one is not in the map.
NextKey ==
    LET after == {i \in DOMAIN order : \E j \in 1 .. i - 1 : order[j] = key}
        rest == IF key \in DOMAIN map THEN after ELSE DOMAIN order
    IN  /\ pc = "next"
        /\ IF rest = {} THEN pc' = "done" /\ UNCHANGED key
           ELSE pc' = "read" /\ key' = order[CHOOSE i \in rest : \A j \in rest : i <= j]
        /\ UNCHANGED <<kernelVars, Fixed, ifname_cache_, cache_, now, report,
                       told, due>>

\* Mutant of Diff: no test for a counter that has gone back (width of 4 bits).
DiffWraps(new, old) == (new - old) % 16

\* The rate is of the new value if the counter has gone back.
Diff(new, old) == IF new < old THEN new ELSE new - old

\* Mutant of SkipUnnamed: break instead of continue.
SkipUnnamedBreaks ==
    /\ pc = "read" /\ ~Named(key)
    /\ pc' = "done"
    /\ UNCHANGED <<kernelVars, Fixed, key, ifname_cache_, cache_, now, report,
                   told, due>>

SkipUnnamed ==
    /\ pc = "read" /\ ~Named(key)
    /\ pc' = "next"
    /\ UNCHANGED <<kernelVars, Fixed, key, ifname_cache_, cache_, now, report,
                   told, due>>

\* The first value of a key is not reported, nor one that the same walk meets
\* again.
ReadValue ==
    LET stats == elem[map[key]]
        old == IF key \in DOMAIN cache_ THEN cache_[key] ELSE NoCount
    IN  /\ pc = "read" /\ Named(key)
        /\ ifname_cache_' = ifname_cache_ \union {key}
        /\ report' = report \union {key}
        /\ told' = IF key \in now THEN told
                   ELSE told + Diff(stats["rcv"], old["rcv"])
                             + Diff(stats["snd"], old["snd"])
        /\ cache_' = Put(cache_, key, stats)
        /\ now' = now \union {key}
        /\ pc' = "next"
        /\ UNCHANGED <<kernelVars, Fixed, key, due>>

UpdateOnceEnds ==
    /\ pc = "done" /\ pc' = "idle"
    /\ key' = 0 /\ now' = {} /\ report' = {} /\ due' = {}
    /\ UNCHANGED <<kernelVars, Fixed, ifname_cache_, cache_, told>>

-----------------------------------------------------------------------------

\* An interface is removed, and with it its hooks.
RemoveInterface(k) ==
    /\ k \in present \intersect Removable
    /\ present' = present \ {k}
    /\ hooks' = hooks \ ({k} \X Dirs)
    /\ due' = IF k \in ifname_cache_ THEN due ELSE due \ {k}
    /\ UNCHANGED <<max_entries, mapVars, cpu, seen, monitorVars>>

\* A key whose element is replaced moves in its bucket, where the walk may
\* miss it.
TrafficStep ==
    /\ Traffic
    /\ due' = {k \in due : map'[k] = map[k]}
    /\ UNCHANGED <<monitorVars, present>>

InitEbpf ==
    \/ Load \/ LoadFails \/ AttachEgress \/ InitEbpfEnds
    \/ \E k \in Ifs : SkipInterface(k) \/ AttachIngress(k)

Update == NextKey \/ SkipUnnamed \/ ReadValue \/ UpdateOnceEnds

Next ==
    \/ InitEbpf \/ CleanupEbpf \/ UpdateOnce \/ Update
    \/ \E k \in Ifs : RemoveInterface(k)
    \/ TrafficStep

\* The worker's thread goes on with a walk; packets come or not.
Spec == Init /\ [][Next]_vars /\ WF_vars(Update)

-----------------------------------------------------------------------------
(* Properties *)

\* Types, and the members of the monitor agree: it is loaded exactly as long as
\* it holds a skeleton, once it is constructed, and then knows the map.
TypeOK ==
    /\ NetTypeOK
    /\ pc \in {"ctor", "attach", "egress", "idle", "next", "read", "done"}
    /\ todo \subseteq Ifs /\ present \subseteq Ifs
    /\ attached_ifindexes_ \subseteq Ifs \ Loopback
    /\ pc \notin {"ctor", "attach", "egress"} =>
          (loaded_ = bpf_obj_) /\ (loaded_ => map_fd_)
    /\ pc \in {"next", "read", "done"} => loaded_
    /\ key \in Ifs \union {0}
    /\ DOMAIN cache_ \subseteq Ifs
    /\ now \subseteq DOMAIN cache_ /\ report = now
    /\ told \in Nat /\ due \subseteq Ifs

\* What is reported, on top of the first values, never exceeds the packets that
\* went through: not when elements are replaced and counters go back, not when
\* an addition meets a replaced element, not when a walk meets a key twice.
\* (The sum over the interfaces: an addition to an element that was replaced and
\* used again may count for another interface.)
ReportedWithinSeen == told <= AllSeen

\* A walk reports every interface with a name that was in the map when it began,
\* whatever is inserted meanwhile, unless its own element is replaced.
EveryInterfaceReported == pc = "done" => due \subseteq report

\* A walk over the map ends, though elements come and move meanwhile.
WalkEnds == (pc = "next") ~> (pc = "idle")
=============================================================================
